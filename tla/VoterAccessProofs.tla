-------------------------- MODULE VoterAccessProofs ---------------------------
(***************************************************************************)
(* The safety properties of VoterAccess, for any number of voters, of       *)
(* concurrent requests of the owner and of invitations on their way.  The   *)
(* invariant follows every password from the request that generated it to   *)
(* the inbox, and the mails that Brevo has taken to the counter.            *)
(***************************************************************************)
EXTENDS VoterAccess, FiniteSetTheorems, TLAPS

CredentialRow ==
    [password : Nat \ {0}, has_voted : BOOLEAN, is_revoked : BOOLEAN,
     invitation : {"none", "sent", "failed"}]
Readings == [Voter -> CredentialRow \cup {NoCredential}]

AccessRow == [number : Nat, status : {"none", "pending", "approved"}]

Mail ==
    [voter : Voter, password : Nat,
     pc : {"queued", "sending", "counting", "sent", "failed"},
     by : {"none", "brevo", "azure"}]

OpenRow ==
    [pc : {"open"}, can_edit : BOOLEAN, seen : Readings, access : [Voter -> AccessRow]]
HashingRow ==
    [pc : {"hashing"}, kind : {"send", "resend", "regenerate", "reinvite"},
     seen : Readings, todo : SUBSET Voter, pairs : SUBSET (Voter \X Nat)]
CreatedRow ==
    [pc : {"created"}, voter : Voter, row : AccessRow, password : Nat]
RequestRow == {NoRequest} \cup OpenRow \cup HashingRow \cup CreatedRow

Typed ==
    /\ credential \in Readings
    /\ issued \in [Voter -> Nat]
    /\ access \in [Voter -> AccessRow]
    /\ request \in [Request -> RequestRow]
    /\ mail \subseteq Mail /\ IsFiniteSet(mail)
    /\ inbox \in [Voter -> SUBSET Nat]
    /\ session \subseteq Voter
    /\ brevo \in [counter : Nat, sent : Nat]
    /\ crossed \subseteq Voter
    /\ incidents \in Nat

(* The passwords a request has generated and not yet handed to a mail.      *)
HeldBy(row) ==
    CASE row.pc = "hashing" -> row.pairs
      [] row.pc = "created" -> {<<row.voter, row.password>>}
      [] OTHER -> {}

(* What a request knows of the credentials it has read stays true.          *)
Sound(row) ==
    /\ row.pc \in {"open", "hashing"} =>
          \A v \in Voter : row.seen[v] # NoCredential => Exists(v)
    /\ row.pc = "hashing" =>
          /\ \A v \in row.todo : row.seen[v] # NoCredential
          /\ row.kind = "send" => \A v \in row.todo : row.seen[v].invitation # "sent"
          /\ IsFiniteSet(row.pairs)

Rows ==
    /\ \A r \in Request : Sound(request[r])
    /\ \A r \in Request : \A p \in HeldBy(request[r]) : Exists(p[1])
    /\ \A m \in mail : Exists(m.voter)
    /\ \A v \in session : Exists(v)
    /\ ApprovedHasCredential

(* A password is on its way once, and was issued.                           *)
Distinct ==
    /\ \A m, n \in mail : m.voter = n.voter /\ m.password = n.password => m = n
    /\ \A m \in mail : \A r \in Request :
          <<m.voter, m.password>> \notin HeldBy(request[r])
    /\ \A r, q \in Request : r # q => HeldBy(request[r]) \cap HeldBy(request[q]) = {}
    /\ \A m \in mail : m.password <= issued[m.voter]
    /\ \A r \in Request : \A p \in HeldBy(request[r]) : p[2] <= issued[p[1]]

(* Only the newest password is on its way, but for crossed voters.          *)
Newest ==
    /\ \A m \in mail : m.voter \notin crossed =>
          m.password = credential[m.voter].password
    /\ \A r \in Request : \A p \in HeldBy(request[r]) : p[1] \notin crossed =>
          p[2] = credential[p[1]].password
    /\ \A m \in mail : m.pc \in {"counting", "sent"} /\ m.voter \notin Offline =>
          m.password \in inbox[m.voter]
    /\ InvitedCanLogin

(* The mails that Brevo will have to count, and those it has taken.         *)
Uncounted == {m \in mail : \/ m.pc = "sending" /\ m.by = "brevo"
                           \/ m.pc = "counting"}
Taken == {m \in mail : m.pc = "counting"}

Quota ==
    /\ BrevoLimit > 0 =>
          brevo.counter + Cardinality(Uncounted) <= BrevoLimit + (Senders - 1)
    /\ brevo.sent <= brevo.counter + Cardinality(Taken) + incidents

AccessInv == Typed /\ Rows /\ Distinct /\ Newest /\ Quota

-------------------------------------------------------------------------------
LEMMA Shapes ==
    ASSUME AccessInv
    PROVE  /\ \A r \in Request :
                 /\ request[r] \in RequestRow /\ Sound(request[r])
                 /\ request[r].pc = "open" => request[r] \in OpenRow
                 /\ request[r].pc = "hashing" => request[r] \in HashingRow
                 /\ request[r].pc = "created" => request[r] \in CreatedRow
                 /\ request[r].pc \in {"none", "open", "hashing", "created"}
                 /\ request[r].pc \in {"none", "open"} => HeldBy(request[r]) = {}
                 /\ HeldBy(request[r]) \subseteq Voter \X Nat
                 /\ \A p \in HeldBy(request[r]) : p[1] \in Voter /\ p[2] \in Nat
           /\ \A v \in Voter : Exists(v) <=> credential[v] \in CredentialRow
           /\ NoRequest \in RequestRow /\ NoRequest.pc = "none"
           /\ HeldBy(NoRequest) = {}
<1>1. \A r \in Request :
         /\ request[r] \in RequestRow /\ Sound(request[r])
         /\ request[r].pc = "open" => request[r] \in OpenRow
         /\ request[r].pc = "hashing" => request[r] \in HashingRow
         /\ request[r].pc = "created" => request[r] \in CreatedRow
         /\ request[r].pc \in {"none", "open", "hashing", "created"}
  BY DEF AccessInv, Typed, Rows, RequestRow, NoRequest, OpenRow, HashingRow, CreatedRow
<1>2. \A r \in Request : request[r].pc \in {"none", "open"} => HeldBy(request[r]) = {}
  BY DEF HeldBy
<1>3. \A r \in Request : HeldBy(request[r]) \subseteq Voter \X Nat
  BY <1>1 DEF HeldBy, HashingRow, CreatedRow
<1>4. \A v \in Voter : Exists(v) <=> credential[v] \in CredentialRow
  <2>1. NoCredential \notin CredentialRow
    BY DEF NoCredential, CredentialRow
  <2> QED BY <2>1 DEF AccessInv, Typed, Readings, Exists
<1>5. NoRequest \in RequestRow /\ NoRequest.pc = "none" /\ HeldBy(NoRequest) = {}
  BY DEF RequestRow, NoRequest, HeldBy
<1> QED BY <1>1, <1>2, <1>3, <1>4, <1>5

-------------------------------------------------------------------------------
(* Steps that generate no password and hand none to a mail: what is on its  *)
(* way stays what it is, or is lost.                                        *)
Quiet ==
    /\ \A r \in Request : HeldBy(request'[r]) \subseteq HeldBy(request[r])
    /\ \A r \in Request : request'[r] = request[r] \/ Sound(request'[r])
    /\ \A v \in Voter : Exists(v) =>
          Exists(v)' /\ credential'[v].password = credential[v].password
    /\ \A v \in Voter : Exists(v)' /\ credential'[v].invitation = "sent" =>
          \/ Exists(v) /\ credential[v].invitation = "sent"
          \/ \E m \in mail : m.voter = v /\ m.pc = "sent"
    /\ \A v \in Voter : issued[v] <= issued'[v]
    /\ crossed' = crossed
    /\ \A v \in Voter \ Offline : inbox[v] \subseteq inbox'[v]
    /\ \A n \in mail' : \E m \in mail :
          /\ n.voter = m.voter /\ n.password = m.password
          /\ n.pc \in {"counting", "sent"} /\ n.voter \notin Offline =>
                m.pc \in {"counting", "sent"} \/ n.password \in inbox'[n.voter]
    /\ \A m, n \in mail' : m.voter = n.voter /\ m.password = n.password => m = n
    /\ \A v \in session' : Exists(v)'
    /\ \A v \in Voter : access'[v].status = "approved" =>
          access[v].status = "approved" \/ Exists(v)'

LEMMA SoundStays ==
    ASSUME NEW row, Sound(row), \A v \in Voter : Exists(v) => Exists(v)'
    PROVE  Sound(row)'
BY DEF Sound

LEMMA QuietKeeps ==
    ASSUME AccessInv, Typed', Quiet
    PROVE  Rows' /\ Distinct' /\ Newest'
<1> USE DEF Quiet
<1>1. \A v \in Voter : Exists(v) => Exists(v)'
  OBVIOUS
<1>2. /\ \A v \in Voter : issued[v] \in Nat /\ issued'[v] \in Nat
      /\ \A m \in mail : m.voter \in Voter /\ m.password \in Nat
  BY DEF AccessInv, Typed, Mail
<1>3. Rows'
  <2>1. \A r \in Request : Sound(request[r])'
    <3> SUFFICES ASSUME NEW r \in Request
                 PROVE  Sound(request[r])'
      OBVIOUS
    <3>1. PICK row : row = request'[r]
      OBVIOUS
    <3>2. Sound(row)
      BY <3>1, Shapes
    <3>3. Sound(row)'
      BY <1>1, <3>2, SoundStays
    <3> QED BY <3>1, <3>3 DEF Sound
  <2>2. \A r \in Request : \A p \in HeldBy(request'[r]) : Exists(p[1])'
    BY <1>1, Shapes DEF AccessInv, Rows
  <2>3. \A m \in mail' : Exists(m.voter)'
    BY <1>1, <1>2 DEF AccessInv, Rows
  <2>4. ApprovedHasCredential'
    BY <1>1 DEF AccessInv, Rows, ApprovedHasCredential
  <2> QED BY <2>1, <2>2, <2>3, <2>4 DEF Rows
<1>4. Distinct'
  <2>1. \A m \in mail' : m.password <= issued'[m.voter]
    BY <1>2 DEF AccessInv, Distinct
  <2>2. ASSUME NEW r \in Request, NEW p \in HeldBy(request'[r])
        PROVE  p[2] <= issued'[p[1]]
    <3>1. p \in HeldBy(request[r])
      OBVIOUS
    <3>2. p[1] \in Voter /\ p[2] \in Nat /\ p[2] <= issued[p[1]]
      BY <3>1, Shapes DEF AccessInv, Distinct
    <3> QED BY <1>2, <3>2
  <2>3. ASSUME NEW n \in mail', NEW r \in Request
        PROVE  <<n.voter, n.password>> \notin HeldBy(request'[r])
    <3>1. PICK m \in mail : n.voter = m.voter /\ n.password = m.password
      OBVIOUS
    <3>2. <<m.voter, m.password>> \notin HeldBy(request[r])
      BY DEF AccessInv, Distinct
    <3> QED BY <3>1, <3>2
  <2>4. \A r, q \in Request : r # q =>
           HeldBy(request'[r]) \cap HeldBy(request'[q]) = {}
    BY DEF AccessInv, Distinct
  <2> QED BY <2>1, <2>2, <2>3, <2>4 DEF Distinct
<1>5. Newest'
  <2>1. \A m \in mail' : m.voter \notin crossed' =>
           m.password = credential'[m.voter].password
    BY <1>2 DEF AccessInv, Newest, Rows
  <2>2. \A r \in Request : \A p \in HeldBy(request'[r]) : p[1] \notin crossed' =>
           p[2] = credential'[p[1]].password
    BY Shapes DEF AccessInv, Newest, Rows
  <2>3. \A m \in mail' : m.pc \in {"counting", "sent"} /\ m.voter \notin Offline =>
           m.password \in inbox'[m.voter]
    BY <1>2 DEF AccessInv, Newest
  <2>4. ASSUME NEW v \in Voter, v \notin Offline \cup crossed', Exists(v)',
               credential'[v].invitation = "sent"
        PROVE  credential'[v].password \in inbox'[v]
    <3>1. CASE Exists(v) /\ credential[v].invitation = "sent"
      BY <2>4, <3>1 DEF AccessInv, Newest, InvitedCanLogin
    <3>2. ASSUME NEW m \in mail, m.voter = v, m.pc = "sent"
          PROVE  credential'[v].password \in inbox'[v]
      BY <2>4, <3>2 DEF AccessInv, Newest, Rows
    <3> QED BY <2>4, <3>1, <3>2
  <2> QED BY <2>1, <2>2, <2>3, <2>4 DEF Newest, InvitedCanLogin
<1> QED BY <1>3, <1>4, <1>5

(* A request hands passwords it holds to new mails, and ends.               *)
LEMMA HandOverKeeps ==
    ASSUME AccessInv, Typed', NEW r \in Request, NEW new,
           request' = [request EXCEPT ![r] = NoRequest],
           mail' = mail \cup new,
           \A m \in new : /\ m.pc = "queued"
                          /\ <<m.voter, m.password>> \in HeldBy(request[r]),
           \A m, n \in new : m.voter = n.voter /\ m.password = n.password => m = n,
           UNCHANGED <<credential, issued, crossed, inbox, session>>,
           \A v \in Voter : access'[v].status = "approved" =>
              access[v].status = "approved" \/ Exists(v)
    PROVE  Rows' /\ Distinct' /\ Newest'
<1>1. \A v : Exists(v)' <=> Exists(v)
  BY DEF Exists
<1>2. /\ request'[r] = NoRequest /\ HeldBy(request'[r]) = {}
      /\ \A q \in Request : q # r => request'[q] = request[q]
      /\ \A q \in Request : HeldBy(request'[q]) \subseteq HeldBy(request[q])
  BY Shapes DEF AccessInv, Typed
<1>3. ASSUME NEW m \in new
      PROVE  /\ m.voter \in Voter /\ Exists(m.voter) /\ m.password <= issued[m.voter]
             /\ m.voter \notin crossed => m.password = credential[m.voter].password
             /\ \A n \in mail : ~(m.voter = n.voter /\ m.password = n.password)
             /\ \A q \in Request : q # r =>
                   <<m.voter, m.password>> \notin HeldBy(request[q])
  <2> DEFINE p == <<m.voter, m.password>>
  <2>1. p \in HeldBy(request[r]) /\ p[1] = m.voter /\ p[2] = m.password
    OBVIOUS
  <2>2. p[1] \in Voter /\ Exists(p[1]) /\ p[2] <= issued[p[1]]
        /\ (p[1] \notin crossed => p[2] = credential[p[1]].password)
    BY <2>1, Shapes DEF AccessInv, Rows, Distinct, Newest
  <2>3. \A n \in mail : <<n.voter, n.password>> # p
    BY <2>1 DEF AccessInv, Distinct
  <2>4. \A q \in Request : q # r => p \notin HeldBy(request[q])
    BY <2>1 DEF AccessInv, Distinct
  <2> QED BY <2>1, <2>2, <2>3, <2>4
<1>4. Rows'
  <2>1. \A q \in Request : Sound(request[q])'
    BY <1>1, <1>2, Shapes DEF Sound
  <2>2. \A q \in Request : \A p \in HeldBy(request'[q]) : Exists(p[1])'
    BY <1>1, <1>2 DEF AccessInv, Rows
  <2>3. \A m \in mail' : Exists(m.voter)'
    BY <1>1, <1>3 DEF AccessInv, Rows
  <2>4. \A v \in session' : Exists(v)'
    BY <1>1 DEF AccessInv, Rows
  <2>5. ApprovedHasCredential'
    BY <1>1 DEF AccessInv, Rows, ApprovedHasCredential
  <2> QED BY <2>1, <2>2, <2>3, <2>4, <2>5 DEF Rows
<1>5. Distinct'
  <2>1. \A m, n \in mail' : m.voter = n.voter /\ m.password = n.password => m = n
    BY <1>3 DEF AccessInv, Distinct
  <2>2. ASSUME NEW m \in mail', NEW q \in Request
        PROVE  <<m.voter, m.password>> \notin HeldBy(request'[q])
    <3>1. CASE m \in mail
      BY <1>2, <3>1 DEF AccessInv, Distinct
    <3>2. CASE m \in new
      BY <1>2, <1>3, <3>2
    <3> QED BY <3>1, <3>2
  <2>3. \A q, x \in Request : q # x =>
           HeldBy(request'[q]) \cap HeldBy(request'[x]) = {}
    BY <1>2 DEF AccessInv, Distinct
  <2>4. \A m \in mail' : m.password <= issued'[m.voter]
    BY <1>3 DEF AccessInv, Distinct
  <2>5. \A q \in Request : \A p \in HeldBy(request'[q]) : p[2] <= issued'[p[1]]
    BY <1>2 DEF AccessInv, Distinct
  <2> QED BY <2>1, <2>2, <2>3, <2>4, <2>5 DEF Distinct
<1>6. Newest'
  <2>1. \A m \in mail' : m.voter \notin crossed' =>
           m.password = credential'[m.voter].password
    BY <1>3 DEF AccessInv, Newest
  <2>2. \A q \in Request : \A p \in HeldBy(request'[q]) : p[1] \notin crossed' =>
           p[2] = credential'[p[1]].password
    BY <1>2 DEF AccessInv, Newest
  <2>3. \A m \in mail' : m.pc \in {"counting", "sent"} /\ m.voter \notin Offline =>
           m.password \in inbox'[m.voter]
    BY DEF AccessInv, Newest
  <2>4. InvitedCanLogin'
    BY <1>1 DEF AccessInv, Newest, InvitedCanLogin
  <2> QED BY <2>1, <2>2, <2>3, <2>4 DEF Newest
<1> QED BY <1>4, <1>5, <1>6

(* A request gives the voters V new passwords and holds them.               *)
LEMMA RenewalKeeps ==
    ASSUME AccessInv, Typed', NEW r \in Request, NEW row, NEW V \in SUBSET Voter,
           request' = [request EXCEPT ![r] = row], Sound(row)',
           HeldBy(row) = HeldBy(request[r]) \cup {<<v, issued[v] + 1>> : v \in V},
           UNCHANGED <<mail, inbox, session, access>>,
           \A v \in Voter \ V : UNCHANGED <<credential[v], issued[v]>>,
           \A v \in V : /\ issued'[v] = issued[v] + 1 /\ Exists(v)'
                        /\ credential'[v].password = issued[v] + 1,
           \A v \in Voter \ V : v \in crossed' <=> v \in crossed,
           \A v \in V : v \notin crossed' =>
              credential'[v].invitation # "sent" /\ ~OnTheWay(v)
    PROVE  Rows' /\ Distinct' /\ Newest'
<1> DEFINE P == {<<v, issued[v] + 1>> : v \in V}
<1>1. /\ \A v \in Voter : issued[v] \in Nat
      /\ \A m \in mail : m.voter \in Voter /\ m.password \in Nat
  BY DEF AccessInv, Typed, Mail
<1>2. /\ request'[r] = row
      /\ \A q \in Request : q # r => request'[q] = request[q]
  BY DEF AccessInv, Typed
<1>3. \A p \in P : p[1] \in V /\ p[1] \in Voter /\ p[2] = issued[p[1]] + 1
  OBVIOUS
<1>4. \A v \in Voter : Exists(v) => Exists(v)'
  BY DEF Exists
<1>5. ASSUME NEW m \in mail
      PROVE  /\ m.password <= issued[m.voter]
             /\ <<m.voter, m.password>> \notin P
             /\ m.voter \in V => m.voter \in crossed'
  <2>1. m.password <= issued[m.voter] /\ OnTheWay(m.voter)
    BY DEF AccessInv, Distinct, OnTheWay
  <2> QED BY <1>1, <2>1
<1>6. ASSUME NEW q \in Request, NEW p \in HeldBy(request[q])
      PROVE  /\ p[1] \in Voter /\ p[2] \in Nat /\ p[2] <= issued[p[1]] /\ p \notin P
             /\ p[1] \in V => p[1] \in crossed'
  <2>1. p[1] \in Voter /\ p[2] \in Nat /\ p[2] <= issued[p[1]]
    BY Shapes DEF AccessInv, Distinct
  <2>2. p \notin P
    BY <1>1, <1>3, <2>1
  <2>3. OnTheWay(p[1])
    <3>1. CASE request[q].pc = "hashing"
      BY <3>1 DEF HeldBy, At, OnTheWay
    <3>2. CASE request[q].pc = "created"
      BY <3>2 DEF HeldBy, At, OnTheWay
    <3> QED BY <3>1, <3>2, Shapes
  <2> QED BY <2>1, <2>2, <2>3
<1>7. \A q \in Request : \A p \in HeldBy(request'[q]) :
         p \in HeldBy(request[q]) \/ (q = r /\ p \in P)
  BY <1>2
<1> HIDE DEF P
<1>8. Rows'
  <2>1. \A q \in Request : Sound(request[q])'
    <3> SUFFICES ASSUME NEW q \in Request
                 PROVE  Sound(request[q])'
      OBVIOUS
    <3>1. CASE q = r
      BY <1>2, <3>1 DEF Sound
    <3>2. CASE q # r
      <4>1. PICK w : w = request[q]
        OBVIOUS
      <4>2. Sound(w)'
        BY <1>4, <4>1, Shapes, SoundStays
      <4> QED BY <1>2, <3>2, <4>1, <4>2 DEF Sound
    <3> QED BY <3>1, <3>2
  <2>2. \A q \in Request : \A p \in HeldBy(request'[q]) : Exists(p[1])'
    BY <1>3, <1>4, <1>6, <1>7 DEF AccessInv, Rows
  <2>3. \A m \in mail' : Exists(m.voter)'
    BY <1>1, <1>4 DEF AccessInv, Rows
  <2>4. \A v \in session' : Exists(v)'
    BY <1>4 DEF AccessInv, Rows, Typed
  <2>5. ApprovedHasCredential'
    BY <1>4 DEF AccessInv, Rows, ApprovedHasCredential
  <2> QED BY <2>1, <2>2, <2>3, <2>4, <2>5 DEF Rows
<1>9. Distinct'
  <2>1. \A v \in Voter : issued[v] <= issued'[v] /\ issued'[v] \in Nat
    BY <1>1
  <2>2. \A m \in mail' : \A q \in Request :
           <<m.voter, m.password>> \notin HeldBy(request'[q])
    BY <1>5, <1>7 DEF AccessInv, Distinct
  <2>3. \A q, x \in Request : q # x =>
           HeldBy(request'[q]) \cap HeldBy(request'[x]) = {}
    BY <1>6, <1>7 DEF AccessInv, Distinct
  <2>4. ASSUME NEW m \in mail'
        PROVE  m.password <= issued'[m.voter]
    <3>1. m.voter \in Voter /\ m.password \in Nat /\ m.password <= issued[m.voter]
      BY <1>1, <1>5
    <3> QED BY <1>1, <2>1, <3>1
  <2>5. ASSUME NEW q \in Request, NEW p \in HeldBy(request'[q])
        PROVE  p[2] <= issued'[p[1]]
    <3>1. CASE p \in HeldBy(request[q])
      <4>1. p[1] \in Voter /\ p[2] \in Nat /\ p[2] <= issued[p[1]]
        BY <1>6, <3>1
      <4> QED BY <1>1, <2>1, <4>1
    <3>2. CASE p \in P
      BY <1>1, <1>3, <3>2
    <3> QED BY <1>7, <3>1, <3>2
  <2> QED BY <2>2, <2>3, <2>4, <2>5 DEF AccessInv, Distinct
<1>10. Newest'
  <2>1. ASSUME NEW m \in mail', m.voter \notin crossed'
        PROVE  m.password = credential'[m.voter].password
    <3>1. m.voter \in Voter /\ m.voter \notin V
      BY <1>1, <1>5, <2>1
    <3> QED BY <2>1, <3>1 DEF AccessInv, Newest
  <2>2. ASSUME NEW q \in Request, NEW p \in HeldBy(request'[q]), p[1] \notin crossed'
        PROVE  p[2] = credential'[p[1]].password
    <3>1. CASE p \in HeldBy(request[q])
      <4>1. p[1] \in Voter /\ p[1] \notin V
        BY <1>6, <2>2, <3>1
      <4> QED BY <2>2, <3>1, <4>1 DEF AccessInv, Newest
    <3>2. CASE p \in P
      BY <1>3, <3>2
    <3> QED BY <1>7, <3>1, <3>2
  <2>3. \A m \in mail' : m.pc \in {"counting", "sent"} /\ m.voter \notin Offline =>
           m.password \in inbox'[m.voter]
    BY DEF AccessInv, Newest
  <2>4. InvitedCanLogin'
    BY DEF AccessInv, Newest, InvitedCanLogin, Exists
  <2> QED BY <2>1, <2>2, <2>3, <2>4 DEF Newest
<1> QED BY <1>8, <1>9, <1>10

-------------------------------------------------------------------------------
(* What the counts of Quota are.                                            *)
LEMMA Counts ==
    ASSUME Typed
    PROVE  /\ IsFiniteSet(Uncounted) /\ IsFiniteSet(Taken) /\ IsFiniteSet(Sending)
           /\ Cardinality(Uncounted) \in Nat /\ Cardinality(Taken) \in Nat
           /\ Cardinality(Sending) \in Nat
           /\ brevo.counter \in Nat /\ brevo.sent \in Nat /\ incidents \in Nat
           /\ Senders \in Nat /\ BrevoLimit \in Nat
<1>1. Uncounted \subseteq mail /\ Taken \subseteq mail /\ Sending \subseteq mail
  BY DEF Uncounted, Taken, Sending
<1>2. IsFiniteSet(Uncounted) /\ IsFiniteSet(Taken) /\ IsFiniteSet(Sending)
  BY <1>1, FS_Subset DEF Typed
<1>3. brevo.counter \in Nat /\ brevo.sent \in Nat /\ incidents \in Nat
  BY DEF Typed
<1> QED BY <1>2, <1>3, FS_CardinalityType, AccessAssumption

(* A step that moves no mail between the states that are counted.           *)
LEMMA QuotaStays ==
    ASSUME AccessInv, Typed', Uncounted' = Uncounted, Taken' = Taken,
           brevo' = brevo, incidents <= incidents'
    PROVE  Quota'
<1>1. incidents' \in Nat
  BY DEF Typed
<1> QED BY <1>1, Counts DEF AccessInv, Quota

RequestsQuiet ==
    /\ request' \in [Request -> RequestRow]
    /\ \A q \in Request : HeldBy(request'[q]) \subseteq HeldBy(request[q])
    /\ \A q \in Request : request'[q] = request[q] \/ Sound(request'[q])

(* A request ends or moves on without a new password.                       *)
LEMMA RequestMoves ==
    ASSUME AccessInv, NEW r \in Request, NEW row \in RequestRow,
           request' = [request EXCEPT ![r] = row],
           HeldBy(row) \subseteq HeldBy(request[r]), Sound(row)
    PROVE  RequestsQuiet
BY DEF AccessInv, Typed, RequestsQuiet

LEMMA RequestEnds ==
    ASSUME AccessInv, NEW r \in Request, Ends(r)
    PROVE  RequestsQuiet
<1>1. NoRequest \in RequestRow /\ HeldBy(NoRequest) = {} /\ Sound(NoRequest)
  BY Shapes DEF NoRequest, Sound
<1> QED BY <1>1, RequestMoves DEF Ends

(* Steps that leave the mails and the newest passwords alone.               *)
LEMMA MailKept ==
    ASSUME AccessInv, RequestsQuiet,
           UNCHANGED <<mail, brevo, crossed>>,
           credential' \in Readings, issued' \in [Voter -> Nat],
           access' \in [Voter -> AccessRow], inbox' \in [Voter -> SUBSET Nat],
           session' \subseteq Voter,
           incidents' \in Nat, incidents <= incidents',
           \A v \in Voter : Exists(v) =>
              Exists(v)' /\ credential'[v].password = credential[v].password,
           \A v \in Voter : Exists(v)' /\ credential'[v].invitation = "sent" =>
              Exists(v) /\ credential[v].invitation = "sent",
           \A v \in Voter : issued[v] <= issued'[v],
           \A v \in Voter \ Offline : inbox[v] \subseteq inbox'[v],
           \A v \in session' : Exists(v)',
           \A v \in Voter : access'[v].status = "approved" =>
              access[v].status = "approved" \/ Exists(v)'
    PROVE  AccessInv'
<1>1. Typed'
  BY DEF AccessInv, Typed, RequestsQuiet
<1>2. Quiet
  <2>1. \A n \in mail' : \E m \in mail :
          /\ n.voter = m.voter /\ n.password = m.password
          /\ n.pc \in {"counting", "sent"} /\ n.voter \notin Offline =>
                m.pc \in {"counting", "sent"} \/ n.password \in inbox'[n.voter]
    OBVIOUS
  <2>2. \A m, n \in mail' : m.voter = n.voter /\ m.password = n.password => m = n
    BY DEF AccessInv, Distinct
  <2> QED BY <2>1, <2>2 DEF Quiet, RequestsQuiet
<1>3. Uncounted' = Uncounted /\ Taken' = Taken
  BY DEF Uncounted, Taken
<1> QED BY <1>1, <1>2, <1>3, QuietKeeps, QuotaStays DEF AccessInv

(* The steps of a request that touch nothing but the request.               *)
LEMMA RequestOnly ==
    ASSUME AccessInv, RequestsQuiet,
           UNCHANGED <<credential, issued, access, mail, inbox, session, brevo,
                       crossed>>,
           incidents' \in Nat, incidents <= incidents'
    PROVE  AccessInv'
<1>1. \A v : Exists(v)' <=> Exists(v)
  BY DEF Exists
<1>2. \A v \in Voter : issued[v] <= issued'[v]
  BY DEF AccessInv, Typed
<1>3. \A v \in session' : Exists(v)'
  BY <1>1 DEF AccessInv, Rows
<1> QED BY <1>1, <1>2, <1>3, MailKept DEF AccessInv, Typed

LEMMA OpenKeeps ==
    ASSUME AccessInv, NEW r \in Request, Open(r)
    PROVE  AccessInv'
<1> DEFINE row == [pc |-> "open", can_edit |-> phase = "Pre-launch",
                   seen |-> credential, access |-> access]
<1>1. row \in RequestRow
  <2>1. row.can_edit \in BOOLEAN /\ row.seen \in Readings
        /\ row.access \in [Voter -> AccessRow]
    BY DEF AccessInv, Typed
  <2> QED BY <2>1 DEF RequestRow, OpenRow
<1>2. HeldBy(row) = {} /\ Sound(row)
  BY DEF HeldBy, Sound, Exists
<1>3. request' = [request EXCEPT ![r] = row]
  BY DEF Open
<1> HIDE DEF row
<1>4. RequestsQuiet
  BY <1>1, <1>2, <1>3, RequestMoves
<1>5. incidents' \in Nat /\ incidents <= incidents'
  BY Counts DEF Open, AccessInv
<1> QED BY <1>4, <1>5, RequestOnly DEF Open

LEMMA StopKeeps ==
    ASSUME AccessInv, NEW r \in Request, Stop(r)
    PROVE  AccessInv'
<1>1. incidents' \in Nat /\ incidents <= incidents'
  <2>1. incidents \in Nat
    BY DEF AccessInv, Typed
  <2> QED BY <2>1 DEF Stop
<1>2. Ends(r)
  BY DEF Stop
<1> QED BY <1>1, <1>2, RequestEnds, RequestOnly DEF Stop

LEMMA ChooseKeeps ==
    ASSUME AccessInv, NEW r \in Request, Choose(r)
    PROVE  AccessInv'
<1>1. PICK kind \in Kinds : \E V \in Chosen(r, kind) :
         request' = [request EXCEPT ![r] =
            [pc |-> "hashing", kind |-> kind, seen |-> @.seen, todo |-> V,
             pairs |-> {}]]
  BY DEF Choose
<1>2. PICK V \in Chosen(r, kind) :
         request' = [request EXCEPT ![r] =
            [pc |-> "hashing", kind |-> kind, seen |-> @.seen, todo |-> V,
             pairs |-> {}]]
  BY <1>1
<1>3. request[r].pc = "open" /\ request[r] \in OpenRow /\ Sound(request[r])
  BY Shapes DEF Choose, At
<1>4. /\ V \subseteq Voter
      /\ \A v \in V : request[r].seen[v] # NoCredential
      /\ kind = "send" => \A v \in V : request[r].seen[v].invitation # "sent"
  BY DEF Kinds, Chosen, Seen, Known
<1> DEFINE row == [pc |-> "hashing", kind |-> kind, seen |-> request[r].seen,
                   todo |-> V, pairs |-> {}]
<1>5. row \in RequestRow
  <2>1. kind \in {"send", "resend", "regenerate", "reinvite"}
    BY DEF Kinds
  <2>2. request[r].seen \in Readings
    BY <1>3 DEF OpenRow
  <2> QED BY <1>4, <2>1, <2>2 DEF RequestRow, HashingRow
<1>6. HeldBy(row) = {} /\ Sound(row)
  BY <1>3, <1>4, FS_EmptySet DEF HeldBy, Sound
<1>7. request' = [request EXCEPT ![r] = row]
  BY <1>2
<1> HIDE DEF row
<1>8. RequestsQuiet
  BY <1>5, <1>6, <1>7, RequestMoves
<1>9. incidents' \in Nat /\ incidents <= incidents'
  BY Counts DEF Choose, AccessInv
<1> QED BY <1>8, <1>9, RequestOnly DEF Choose

(* A new credential, with a password of its own.                            *)
LEMMA Creates ==
    ASSUME AccessInv, NEW v \in Voter, Create(v)
    PROVE  /\ credential' \in Readings /\ issued' \in [Voter -> Nat]
           /\ credential'[v] = NewCredential(issued[v] + 1)
           /\ issued'[v] = issued[v] + 1
           /\ ~Exists(v) /\ Exists(v)'
           /\ credential'[v].password = issued[v] + 1
           /\ credential'[v].invitation = "none"
           /\ \A u \in Voter : u # v =>
                 /\ credential'[u] = credential[u] /\ issued'[u] = issued[u]
                 /\ Exists(u)' <=> Exists(u)
           /\ \A u \in Voter : issued[u] <= issued'[u]
<1>1. credential \in Readings /\ issued \in [Voter -> Nat]
  BY DEF AccessInv, Typed
<1> DEFINE new == NewCredential(issued[v] + 1)
<1>2. /\ new \in CredentialRow /\ new # NoCredential
      /\ new.password = issued[v] + 1 /\ new.invitation = "none"
  BY <1>1 DEF NewCredential, CredentialRow, NoCredential
<1>3. /\ credential' = [credential EXCEPT ![v] = new]
      /\ issued' = [issued EXCEPT ![v] = @ + 1] /\ ~Exists(v)
  BY DEF Create
<1> HIDE DEF new
<1>4. /\ credential' \in Readings /\ credential'[v] = new
      /\ \A u \in Voter : u # v => credential'[u] = credential[u]
  BY <1>1, <1>2, <1>3 DEF Readings
<1>5. /\ issued' \in [Voter -> Nat] /\ issued'[v] = issued[v] + 1
      /\ \A u \in Voter : u # v => issued'[u] = issued[u]
      /\ \A u \in Voter : issued[u] <= issued'[u]
  BY <1>1, <1>3
<1>6. Exists(v)' /\ \A u \in Voter : u # v => (Exists(u)' <=> Exists(u))
  BY <1>2, <1>4 DEF Exists
<1> QED BY <1>2, <1>3, <1>4, <1>5, <1>6 DEF new

LEMMA ImportVoterKeeps ==
    ASSUME AccessInv, NEW r \in Request, ImportVoter(r)
    PROVE  AccessInv'
<1>1. PICK v \in Voter \ Offline : Create(v)
  BY DEF ImportVoter
<1>2. RequestsQuiet
  BY RequestEnds DEF ImportVoter
<1>3. incidents' \in Nat /\ incidents <= incidents'
  BY Counts DEF ImportVoter, AccessInv
<1>4. /\ \A u \in Voter : Exists(u) =>
            Exists(u)' /\ credential'[u].password = credential[u].password
      /\ \A u \in Voter : Exists(u)' /\ credential'[u].invitation = "sent" =>
            Exists(u) /\ credential[u].invitation = "sent"
  BY <1>1, Creates
<1>5. \A u \in session' : Exists(u)'
  BY <1>4 DEF ImportVoter, AccessInv, Rows, Typed
<1> QED BY <1>1, <1>2, <1>3, <1>4, <1>5, Creates, MailKept
        DEF ImportVoter, AccessInv, Typed

LEMMA GenerateOfflineKeeps ==
    ASSUME AccessInv, NEW r \in Request, GenerateOffline(r)
    PROVE  AccessInv'
<1>1. PICK v \in Offline :
         Create(v) /\ inbox' = [inbox EXCEPT ![v] = {issued[v] + 1}]
  BY DEF GenerateOffline
<1>2. v \in Voter
  BY AccessAssumption
<1>3. RequestsQuiet
  BY RequestEnds DEF GenerateOffline
<1>4. incidents' \in Nat /\ incidents <= incidents'
  BY Counts DEF GenerateOffline, AccessInv
<1>5. /\ \A u \in Voter : Exists(u) =>
            Exists(u)' /\ credential'[u].password = credential[u].password
      /\ \A u \in Voter : Exists(u)' /\ credential'[u].invitation = "sent" =>
            Exists(u) /\ credential[u].invitation = "sent"
  BY <1>1, <1>2, Creates
<1>6. \A u \in session' : Exists(u)'
  BY <1>5 DEF GenerateOffline, AccessInv, Rows, Typed
<1>7. /\ inbox' \in [Voter -> SUBSET Nat]
      /\ \A u \in Voter \ Offline : inbox[u] \subseteq inbox'[u]
  BY <1>1, <1>2 DEF AccessInv, Typed
<1> QED BY <1>1, <1>2, <1>3, <1>4, <1>5, <1>6, <1>7, Creates, MailKept
        DEF GenerateOffline, AccessInv, Typed

LEMMA RevokeKeeps ==
    ASSUME AccessInv, NEW r \in Request, NEW V, Revoke(r, V)
    PROVE  AccessInv'
<1>1. RequestsQuiet
  BY RequestEnds DEF Revoke
<1>2. incidents' \in Nat /\ incidents <= incidents'
  BY Counts DEF Revoke, AccessInv
<1>3. ASSUME NEW v \in Voter
      PROVE  /\ credential'[v] \in CredentialRow \cup {NoCredential}
             /\ Exists(v)' <=> Exists(v)
             /\ Exists(v) => /\ credential'[v].password = credential[v].password
                             /\ credential'[v].invitation = credential[v].invitation
  <2>1. credential'[v] = IF v \in V /\ Exists(v)
                         THEN [credential[v] EXCEPT !.is_revoked = TRUE]
                         ELSE credential[v]
    BY DEF Revoke
  <2>2. NoCredential \notin CredentialRow
    BY DEF NoCredential, CredentialRow
  <2>3. credential[v] \in CredentialRow \cup {NoCredential}
    BY DEF AccessInv, Typed, Readings
  <2>4. CASE v \in V /\ Exists(v)
    <3>1. credential[v] \in CredentialRow
      BY <2>4, Shapes
    <3>2. credential'[v] = [credential[v] EXCEPT !.is_revoked = TRUE]
      BY <2>1, <2>4
    <3>3. /\ credential'[v] \in CredentialRow
          /\ credential'[v].password = credential[v].password
          /\ credential'[v].invitation = credential[v].invitation
      BY <3>1, <3>2 DEF CredentialRow
    <3> QED BY <2>2, <2>4, <3>3 DEF Exists
  <2>5. CASE ~(v \in V /\ Exists(v))
    BY <2>1, <2>3, <2>5 DEF Exists
  <2> QED BY <2>4, <2>5
<1>4. credential' \in Readings
  BY <1>3 DEF Revoke, Readings
<1>5. \A v \in Voter : issued[v] <= issued'[v]
  BY DEF Revoke, AccessInv, Typed
<1>6. \A v \in session' : Exists(v)'
  BY <1>3 DEF Revoke, AccessInv, Rows, Typed
<1> QED BY <1>1, <1>2, <1>3, <1>4, <1>5, <1>6, MailKept
        DEF Revoke, AccessInv, Typed

LEMMA AccessEdited ==
    ASSUME AccessInv, RequestsQuiet,
           UNCHANGED <<credential, issued, mail, inbox, session, brevo, crossed,
                       incidents>>,
           access' \in [Voter -> AccessRow],
           \A v \in Voter : access'[v].status = "approved" =>
              access[v].status = "approved" \/ Exists(v)
    PROVE  AccessInv'
<1>1. \A v : Exists(v)' <=> Exists(v)
  BY DEF Exists
<1>2. \A v \in Voter : issued[v] <= issued'[v]
  BY DEF AccessInv, Typed
<1>3. \A v \in session' : Exists(v)'
  BY <1>1 DEF AccessInv, Rows
<1>4. incidents' \in Nat /\ incidents <= incidents'
  BY Counts DEF AccessInv
<1> QED BY <1>1, <1>2, <1>3, <1>4, MailKept DEF AccessInv, Typed

(* Marking a request approved, or deleting it.                              *)
LEMMA Marks ==
    ASSUME AccessInv, NEW v \in Voter, NEW row, MarkApproved(v, row)
    PROVE  /\ access' \in [Voter -> AccessRow]
           /\ \A u \in Voter : u # v => access'[u] = access[u]
<1>1. access \in [Voter -> AccessRow]
  BY DEF AccessInv, Typed
<1>2. CASE access' = [access EXCEPT ![v].status = "approved"]
  BY <1>1, <1>2 DEF AccessRow
<1> QED BY <1>1, <1>2 DEF MarkApproved

LEMMA ApproveRegisteredKeeps ==
    ASSUME AccessInv, NEW r \in Request, ApproveRegistered(r)
    PROVE  AccessInv'
<1>1. PICK v \in Voter : Exists(v) /\ MarkApproved(v, request[r].access[v])
  BY DEF ApproveRegistered
<1>2. RequestsQuiet
  BY RequestEnds DEF ApproveRegistered
<1> QED BY <1>1, <1>2, Marks, AccessEdited DEF ApproveRegistered

LEMMA RejectKeeps ==
    ASSUME AccessInv, NEW r \in Request, Reject(r)
    PROVE  AccessInv'
<1>1. PICK v \in Voter :
         access' = IF access[v].number = request[r].access[v].number
                   THEN [access EXCEPT ![v].status = "none"] ELSE access
  BY DEF Reject
<1>2. access \in [Voter -> AccessRow]
  BY DEF AccessInv, Typed
<1>3. /\ access' \in [Voter -> AccessRow]
      /\ \A u \in Voter : access'[u].status = "approved" =>
            access[u].status = "approved"
  <2>1. CASE access' = [access EXCEPT ![v].status = "none"]
    BY <1>2, <2>1 DEF AccessRow
  <2> QED BY <1>1, <1>2, <2>1
<1>4. RequestsQuiet
  BY RequestEnds DEF Reject
<1> QED BY <1>3, <1>4, AccessEdited DEF Reject

LEMMA RequestsKept ==
    ASSUME AccessInv, UNCHANGED request
    PROVE  RequestsQuiet
BY DEF AccessInv, Typed, RequestsQuiet

LEMMA RequestAccessKeeps ==
    ASSUME AccessInv, NEW v \in Voter, RequestAccess(v)
    PROVE  AccessInv'
<1>1. access \in [Voter -> AccessRow]
  BY DEF AccessInv, Typed
<1>2. access' = [access EXCEPT ![v] = [number |-> @.number + 1, status |-> "pending"]]
  BY DEF RequestAccess
<1>3. /\ access' \in [Voter -> AccessRow]
      /\ \A u \in Voter : access'[u].status = "approved" =>
            access[u].status = "approved"
  BY <1>1, <1>2 DEF AccessRow
<1>4. RequestsQuiet
  BY RequestsKept DEF RequestAccess
<1> QED BY <1>3, <1>4, AccessEdited DEF RequestAccess

LEMMA LoginKeeps ==
    ASSUME AccessInv, NEW v \in Voter, Login(v)
    PROVE  AccessInv'
<1>1. RequestsQuiet
  BY RequestsKept DEF Login
<1>2. incidents' \in Nat /\ incidents <= incidents'
  BY Counts DEF Login, AccessInv
<1>3. \A u : Exists(u)' <=> Exists(u)
  BY DEF Exists, Login
<1>4. \A u \in session' : Exists(u)'
  BY <1>3 DEF Login, AccessInv, Rows
<1>5. \A u \in Voter : issued[u] <= issued'[u]
  BY DEF Login, AccessInv, Typed
<1> QED BY <1>1, <1>2, <1>3, <1>4, <1>5, MailKept DEF Login, AccessInv, Typed

LEMMA VoteKeeps ==
    ASSUME AccessInv, NEW v \in Voter, Vote(v)
    PROVE  AccessInv'
<1>1. RequestsQuiet
  BY RequestsKept DEF Vote
<1>2. incidents' \in Nat /\ incidents <= incidents'
  BY Counts DEF Vote, AccessInv
<1>3. Exists(v) /\ credential[v] \in CredentialRow
  BY Shapes DEF Vote, AccessInv, Rows
<1> DEFINE new == [credential[v] EXCEPT !.has_voted = TRUE]
<1>4. /\ new \in CredentialRow /\ new # NoCredential
      /\ new.password = credential[v].password
      /\ new.invitation = credential[v].invitation
  BY <1>3 DEF CredentialRow, NoCredential
<1>5. credential' = [credential EXCEPT ![v] = new]
  BY DEF Vote
<1> HIDE DEF new
<1>6. credential' \in Readings
  BY <1>4, <1>5 DEF AccessInv, Typed, Readings
<1>7. \A u \in Voter :
         /\ Exists(u)' <=> Exists(u)
         /\ Exists(u) => /\ credential'[u].password = credential[u].password
                         /\ credential'[u].invitation = credential[u].invitation
  BY <1>3, <1>4, <1>5 DEF Exists, AccessInv, Typed, Readings
<1>8. \A u \in session' : Exists(u)'
  BY <1>7 DEF Vote, AccessInv, Rows, Typed
<1>9. \A u \in Voter : issued[u] <= issued'[u]
  BY DEF Vote, AccessInv, Typed
<1> QED BY <1>1, <1>2, <1>6, <1>7, <1>8, <1>9, MailKept
        DEF Vote, AccessInv, Typed

LEMMA PhaseKeeps ==
    ASSUME AccessInv, Launch \/ TimePasses
    PROVE  AccessInv'
<1>1. RequestsQuiet
  BY RequestsKept DEF Launch, TimePasses
<1>2. incidents' \in Nat /\ incidents <= incidents'
  BY Counts DEF Launch, TimePasses, AccessInv
<1> QED BY <1>1, <1>2, RequestOnly DEF Launch, TimePasses

-------------------------------------------------------------------------------
(* The steps that hand passwords to mails.                                  *)
LEMMA NewMail ==
    ASSUME AccessInv, Typed', NEW r \in Request, NEW new,
           Ends(r), mail' = mail \cup new,
           \A m \in new : /\ m.pc = "queued"
                          /\ <<m.voter, m.password>> \in HeldBy(request[r]),
           \A m, n \in new : m.voter = n.voter /\ m.password = n.password => m = n,
           UNCHANGED <<credential, issued, crossed, inbox, session, brevo, incidents>>,
           \A v \in Voter : access'[v].status = "approved" =>
              access[v].status = "approved" \/ Exists(v)
    PROVE  AccessInv'
<1>1. Rows' /\ Distinct' /\ Newest'
  BY HandOverKeeps DEF Ends
<1>2. Uncounted' = Uncounted /\ Taken' = Taken
  BY DEF Uncounted, Taken
<1>3. incidents <= incidents'
  BY Counts DEF AccessInv
<1> QED BY <1>1, <1>2, <1>3, QuotaStays DEF AccessInv

LEMMA DispatchKeeps ==
    ASSUME AccessInv, NEW r \in Request, Dispatch(r)
    PROVE  AccessInv'
<1> DEFINE of(p) == [voter |-> p[1], password |-> p[2], pc |-> "queued",
                     by |-> "none"]
           new == {of(p) : p \in request[r].pairs}
<1>1. /\ request[r].pc = "hashing" /\ request[r] \in HashingRow
      /\ HeldBy(request[r]) = request[r].pairs
      /\ request[r].pairs \subseteq Voter \X Nat /\ IsFiniteSet(request[r].pairs)
  <2>1. request[r].pc = "hashing"
    BY DEF Dispatch, At
  <2>2. HeldBy(request[r]) = request[r].pairs
    BY <2>1 DEF HeldBy
  <2> QED BY <2>1, <2>2, Shapes DEF Sound
<1>2. /\ mail' = mail \cup new /\ Ends(r)
      /\ UNCHANGED <<credential, issued, access, inbox, session, brevo, crossed,
                     incidents>>
  BY DEF Dispatch
<1>3. \A p \in request[r].pairs :
         /\ of(p).pc = "queued" /\ <<of(p).voter, of(p).password>> = p
         /\ of(p) \in Mail
  BY <1>1 DEF Mail
<1>4. new \subseteq Mail /\ IsFiniteSet(new)
  <2> DEFINE f == [p \in request[r].pairs |-> of(p)]
  <2>1. f \in Surjection(request[r].pairs, new)
    BY DEF Surjection
  <2>2. IsFiniteSet(new)
    BY <1>1, <2>1, FS_Surjection
  <2> QED BY <1>3, <2>2
<1>5. Typed'
  <2>1. IsFiniteSet(mail') /\ mail' \subseteq Mail
    BY <1>2, <1>4, FS_Union DEF AccessInv, Typed
  <2> QED BY <1>2, <2>1, RequestEnds DEF AccessInv, Typed, RequestsQuiet
<1>6. \A m \in new : /\ m.pc = "queued"
                     /\ <<m.voter, m.password>> \in HeldBy(request[r])
  BY <1>1, <1>3
<1>7. \A m, n \in new : m.voter = n.voter /\ m.password = n.password => m = n
  OBVIOUS
<1> HIDE DEF new
<1> QED BY <1>2, <1>5, <1>6, <1>7, NewMail

LEMMA ApproveMarkKeeps ==
    ASSUME AccessInv, NEW r \in Request, ApproveMark(r)
    PROVE  AccessInv'
<1> DEFINE v == request[r].voter
           one == [voter |-> v, pc |-> "queued", by |-> "none",
                   password |-> request[r].password]
<1>1. /\ request[r].pc = "created" /\ request[r] \in CreatedRow
      /\ HeldBy(request[r]) = {<<v, request[r].password>>}
  <2>1. request[r].pc = "created"
    BY DEF ApproveMark, At
  <2> QED BY <2>1, Shapes DEF HeldBy
<1>2. v \in Voter /\ request[r].password \in Nat /\ Exists(v)
  <2>1. \A p \in HeldBy(request[r]) : Exists(p[1])
    BY DEF AccessInv, Rows
  <2> QED BY <1>1, <2>1 DEF CreatedRow
<1>3. one \in Mail
  BY <1>2 DEF Mail
<1>4. /\ MarkApproved(v, request[r].row) /\ Ends(r)
      /\ UNCHANGED <<credential, issued, inbox, session, brevo, crossed, incidents>>
  BY DEF ApproveMark
<1>5. PICK new \in {{}, {one}} : mail' = mail \cup new
  BY DEF ApproveMark
<1>6. Typed'
  <2>1. IsFiniteSet(mail')
    BY <1>5, FS_EmptySet, FS_Singleton, FS_Union DEF AccessInv, Typed
  <2>2. mail' \subseteq Mail
    BY <1>3, <1>5 DEF AccessInv, Typed
  <2>3. access' \in [Voter -> AccessRow]
    BY <1>2, <1>4, Marks
  <2> QED BY <1>4, <2>1, <2>2, <2>3, RequestEnds DEF AccessInv, Typed, RequestsQuiet
<1>7. \A m \in new : m.pc = "queued" /\ <<m.voter, m.password>> \in HeldBy(request[r])
  BY <1>1, <1>5
<1>8. \A u \in Voter : access'[u].status = "approved" =>
         access[u].status = "approved" \/ Exists(u)
  BY <1>2, <1>4, Marks
<1>9. \A m, n \in new : m.voter = n.voter /\ m.password = n.password => m = n
  BY <1>5
<1> QED BY <1>4, <1>5, <1>6, <1>7, <1>8, <1>9, NewMail

-------------------------------------------------------------------------------
(* The steps that generate passwords.                                       *)
LEMMA RehashedRow ==
    ASSUME NEW kind, NEW seen, NEW row \in CredentialRow, NEW password \in Nat \ {0}
    PROVE  LET new == Rehashed(kind, seen, row, password)
           IN  /\ new \in CredentialRow /\ new # NoCredential
               /\ new.password = password /\ new.has_voted = row.has_voted
               /\ kind # "regenerate" => new.is_revoked = row.is_revoked
               /\ new.invitation = "sent" => kind = "send" /\ row.invitation = "sent"
<1> DEFINE new == Rehashed(kind, seen, row, password)
<1>1. new = [row EXCEPT
         !.password = password,
         !.invitation = IF kind = "send" /\ @ = "sent" THEN "sent" ELSE "none",
         !.is_revoked = IF kind = "regenerate" /\ seen.is_revoked THEN FALSE ELSE @]
  BY DEF Rehashed
<1>2. new \in CredentialRow
  BY <1>1 DEF CredentialRow
<1>3. /\ new.password = password /\ new.has_voted = row.has_voted
      /\ new.invitation = IF kind = "send" /\ row.invitation = "sent" THEN "sent"
                          ELSE "none"
      /\ new.is_revoked = IF kind = "regenerate" /\ seen.is_revoked THEN FALSE
                          ELSE row.is_revoked
  BY <1>1 DEF CredentialRow
<1>4. NoCredential \notin CredentialRow
  BY DEF NoCredential, CredentialRow
<1> QED BY <1>2, <1>3, <1>4

(* No mail and no request is under way for a credential that is not there.  *)
LEMMA NoneOnTheWay ==
    ASSUME AccessInv, NEW v \in Voter, ~Exists(v)
    PROVE  ~OnTheWay(v)
<1>1. \A m \in mail : m.voter # v
  BY DEF AccessInv, Rows
<1>2. ASSUME NEW q \in Request
      PROVE  /\ ~(At(q, "hashing") /\ \E p \in request[q].pairs : p[1] = v)
             /\ ~(At(q, "created") /\ request[q].voter = v)
  <2>1. \A p \in HeldBy(request[q]) : p[1] # v
    BY DEF AccessInv, Rows
  <2> QED BY <2>1 DEF HeldBy, At
<1> QED BY <1>1, <1>2 DEF OnTheWay

LEMMA ApproveCreateKeeps ==
    ASSUME AccessInv, NEW r \in Request, ApproveCreate(r)
    PROVE  AccessInv'
<1>1. PICK v \in Voter :
         /\ Reviewing(r, v) /\ Create(v)
         /\ request' = [request EXCEPT ![r] =
               [pc |-> "created", voter |-> v, row |-> @.access[v],
                password |-> issued[v] + 1]]
  BY DEF ApproveCreate
<1>2. PICK row : row = [pc |-> "created", voter |-> v,
                        row |-> request[r].access[v], password |-> issued[v] + 1]
  OBVIOUS
<1>3. request[r].pc = "open" /\ request[r] \in OpenRow /\ HeldBy(request[r]) = {}
  BY <1>1, Shapes DEF Reviewing, At
<1>4. issued \in [Voter -> Nat] /\ request \in [Request -> RequestRow]
  BY DEF AccessInv, Typed
<1>5. row \in RequestRow
  <2>1. request[r].access[v] \in AccessRow /\ issued[v] + 1 \in Nat
    BY <1>3, <1>4 DEF OpenRow
  <2> QED BY <1>2, <2>1 DEF RequestRow, CreatedRow
<1>6. request' = [request EXCEPT ![r] = row]
  BY <1>1, <1>2
<1>7. HeldBy(row) = HeldBy(request[r]) \cup {<<u, issued[u] + 1>> : u \in {v}}
  BY <1>3, <1>2 DEF HeldBy
<1>8. Sound(row)'
  BY <1>2 DEF Sound
<1>9. UNCHANGED <<mail, inbox, session, access, brevo, incidents, crossed>>
  BY DEF ApproveCreate
<1>10. Typed'
  BY <1>1, <1>4, <1>5, <1>6, <1>9, Creates DEF AccessInv, Typed
<1>11. ~OnTheWay(v)
  BY <1>1, NoneOnTheWay DEF Create
<1>12. Rows' /\ Distinct' /\ Newest'
  <2>1. \A u \in Voter \ {v} : UNCHANGED <<credential[u], issued[u]>>
    BY <1>1, Creates
  <2>2. \A u \in {v} : /\ issued'[u] = issued[u] + 1 /\ Exists(u)'
                       /\ credential'[u].password = issued[u] + 1
    BY <1>1, Creates
  <2>3. credential'[v].invitation # "sent" /\ ~OnTheWay(v)
    BY <1>1, <1>11, Creates
  <2>4. \A u \in Voter \ {v} : u \in crossed' <=> u \in crossed
    BY <1>9
  <2>5. v \in Voter
    BY <1>1
  <2>6. UNCHANGED <<mail, inbox, session, access>>
    BY <1>9
  <2> QED BY <1>6, <1>7, <1>8, <1>10, <2>1, <2>2, <2>3, <2>4, <2>5, <2>6,
             RenewalKeeps
<1>13. Uncounted' = Uncounted /\ Taken' = Taken
  BY <1>9 DEF Uncounted, Taken
<1> QED BY <1>9, <1>10, <1>12, <1>13, Counts, QuotaStays DEF AccessInv

LEMMA RehashKeeps ==
    ASSUME AccessInv, NEW r \in Request, Rehash(r)
    PROVE  AccessInv'
<1>1. PICK v \in request[r].todo :
         /\ issued' = [issued EXCEPT ![v] = @ + 1]
         /\ credential' = [credential EXCEPT ![v] =
               Rehashed(request[r].kind, Seen(r, v), @, issued[v] + 1)]
         /\ request' = [request EXCEPT ![r].todo = @ \ {v},
               ![r].pairs = @ \cup {<<v, issued[v] + 1>>}]
         /\ crossed' = IF OnTheWay(v) \/ Seen(r, v) # credential[v]
                       THEN crossed \cup {v} ELSE crossed \ {v}
  BY DEF Rehash
<1>2. /\ request[r].pc = "hashing" /\ request[r] \in HashingRow
      /\ Sound(request[r]) /\ HeldBy(request[r]) = request[r].pairs
  <2>1. request[r].pc = "hashing"
    BY DEF Rehash, At
  <2>2. HeldBy(request[r]) = request[r].pairs
    BY <2>1 DEF HeldBy
  <2> QED BY <2>1, <2>2, Shapes
<1>3. v \in Voter /\ Seen(r, v) # NoCredential /\ Exists(v)
  BY <1>2 DEF HashingRow, Sound, Seen
<1>4. /\ issued \in [Voter -> Nat] /\ request \in [Request -> RequestRow]
      /\ credential \in Readings
  BY DEF AccessInv, Typed
<1> DEFINE new == Rehashed(request[r].kind, Seen(r, v), credential[v], issued[v] + 1)
<1>5. PICK row : row = [request[r] EXCEPT !.todo = @ \ {v},
                                          !.pairs = @ \cup {<<v, issued[v] + 1>>}]
  OBVIOUS
<1>6. /\ new \in CredentialRow /\ new # NoCredential
      /\ new.password = issued[v] + 1
      /\ new.invitation = "sent" =>
            request[r].kind = "send" /\ credential[v].invitation = "sent"
  <2>1. credential[v] \in CredentialRow /\ issued[v] + 1 \in Nat \ {0}
    BY <1>3, <1>4, Shapes
  <2> QED BY <2>1, RehashedRow
<1>7. credential' = [credential EXCEPT ![v] = new]
  BY <1>1
<1>8. request' = [request EXCEPT ![r] = row]
  BY <1>1, <1>4, <1>5
<1>9. /\ row \in HashingRow /\ row.pc = "hashing" /\ row.kind = request[r].kind
      /\ row.seen = request[r].seen /\ row.todo = request[r].todo \ {v}
      /\ row.pairs = request[r].pairs \cup {<<v, issued[v] + 1>>}
  <2>1. <<v, issued[v] + 1>> \in Voter \X Nat
    BY <1>3, <1>4
  <2> QED BY <1>2, <1>5, <2>1 DEF HashingRow
<1> HIDE DEF new
<1>10. HeldBy(row) = HeldBy(request[r]) \cup {<<u, issued[u] + 1>> : u \in {v}}
  BY <1>2, <1>9 DEF HeldBy
<1>11. UNCHANGED <<mail, inbox, session, access, brevo, incidents>>
  BY DEF Rehash
<1>12. Typed'
  <2>1. credential' \in Readings
    BY <1>3, <1>4, <1>6, <1>7 DEF Readings
  <2>2. issued' \in [Voter -> Nat]
    BY <1>1, <1>3, <1>4
  <2>3. request' \in [Request -> RequestRow]
    BY <1>4, <1>8, <1>9 DEF RequestRow
  <2>4. crossed' \subseteq Voter
    BY <1>1, <1>3 DEF AccessInv, Typed
  <2> QED BY <1>11, <2>1, <2>2, <2>3, <2>4 DEF AccessInv, Typed
<1>13. /\ Exists(v)' /\ credential'[v] = new /\ issued'[v] = issued[v] + 1
       /\ \A u \in Voter : u # v =>
             /\ credential'[u] = credential[u] /\ issued'[u] = issued[u]
  BY <1>1, <1>3, <1>4, <1>6, <1>7 DEF Exists, Readings
<1>14. Sound(row)'
  <2>1. \A u \in Voter : Exists(u) => Exists(u)'
    BY <1>13 DEF Exists
  <2>2. \A u \in Voter : row.seen[u] # NoCredential => Exists(u)'
    BY <1>2, <1>9, <2>1 DEF Sound
  <2>3. IsFiniteSet(row.pairs)
    <3>1. IsFiniteSet(request[r].pairs)
      BY <1>2 DEF Sound
    <3>2. IsFiniteSet(request[r].pairs \cup {<<v, issued[v] + 1>>})
      BY <3>1, FS_AddElement
    <3> QED BY <1>9, <3>2
  <2> QED BY <1>2, <1>9, <2>2, <2>3 DEF Sound
<1>15. Rows' /\ Distinct' /\ Newest'
  <2>1. \A u \in Voter \ {v} : UNCHANGED <<credential[u], issued[u]>>
    BY <1>13
  <2>2. \A u \in {v} : /\ issued'[u] = issued[u] + 1 /\ Exists(u)'
                       /\ credential'[u].password = issued[u] + 1
    BY <1>6, <1>13
  <2>3. \A u \in Voter \ {v} : u \in crossed' <=> u \in crossed
    BY <1>1
  <2>4. ASSUME v \notin crossed'
        PROVE  credential'[v].invitation # "sent" /\ ~OnTheWay(v)
    <3>1. ~OnTheWay(v) /\ Seen(r, v) = credential[v]
      BY <1>1, <2>4
    <3>2. request[r].kind = "send" => credential[v].invitation # "sent"
      BY <1>2, <3>1 DEF Sound, Seen
    <3> QED BY <1>6, <1>13, <3>1, <3>2
  <2> QED BY <1>3, <1>8, <1>10, <1>11, <1>12, <1>14, <2>1, <2>2, <2>3, <2>4,
             RenewalKeeps
<1>16. Uncounted' = Uncounted /\ Taken' = Taken
  BY <1>11 DEF Uncounted, Taken
<1> QED BY <1>11, <1>12, <1>15, <1>16, Counts, QuotaStays DEF AccessInv

LEMMA ResolveAndSendKeeps ==
    ASSUME AccessInv, NEW r \in Request, ResolveAndSend(r)
    PROVE  AccessInv'
<1>1. PICK new \in SUBSET {v \in Voter \ Offline : ~Exists(v)},
           old \in SUBSET {v \in Voter : Exists(v) /\ ~credential[v].has_voted} :
         /\ issued' = [v \in Voter |-> issued[v] + IF v \in new \cup old THEN 1 ELSE 0]
         /\ credential' = [v \in Voter |->
               CASE v \in new -> NewCredential(issued'[v])
                 [] v \in old -> Rehashed("reinvite", credential[v], credential[v],
                                          issued'[v])
                 [] OTHER -> credential[v]]
         /\ crossed' = (crossed \ old) \cup {v \in old : OnTheWay(v)}
         /\ request' = [request EXCEPT ![r] =
               [pc |-> "hashing", kind |-> "reinvite", seen |-> @.seen, todo |-> {},
                pairs |-> {<<v, issued'[v]>> : v \in new \cup old}]]
  BY DEF ResolveAndSend
<1>2. PICK V \in SUBSET Voter : V = new \cup old
  BY <1>1
<1>3. /\ \A v \in new : v \in Voter /\ ~Exists(v)
      /\ \A v \in old : v \in Voter /\ Exists(v)
      /\ new \cap old = {}
  BY <1>1
<1>4. /\ issued \in [Voter -> Nat] /\ request \in [Request -> RequestRow]
      /\ credential \in Readings
  BY DEF AccessInv, Typed
<1>5. UNCHANGED <<mail, inbox, session, access, brevo, incidents>>
  BY DEF ResolveAndSend
<1>6. /\ issued' \in [Voter -> Nat]
      /\ \A v \in V : issued'[v] = issued[v] + 1
      /\ \A v \in Voter \ V : issued'[v] = issued[v]
  BY <1>1, <1>2, <1>4
<1>7. ASSUME NEW v \in V
      PROVE  /\ credential'[v] \in CredentialRow /\ Exists(v)'
             /\ credential'[v].password = issued[v] + 1
             /\ credential'[v].invitation # "sent"
  <2>1. v \in Voter /\ issued'[v] = issued[v] + 1 /\ issued[v] + 1 \in Nat \ {0}
    BY <1>2, <1>4, <1>6
  <2>2. CASE v \in new
    <3>1. credential'[v] = NewCredential(issued[v] + 1)
      BY <1>1, <2>1, <2>2
    <3> QED BY <2>1, <3>1 DEF NewCredential, CredentialRow, Exists, NoCredential
  <2>3. CASE v \in old
    <3>1. credential'[v] = Rehashed("reinvite", credential[v], credential[v],
                                    issued[v] + 1)
      BY <1>1, <1>3, <2>1, <2>3
    <3>2. credential[v] \in CredentialRow
      BY <1>3, <2>1, <2>3, Shapes
    <3> QED BY <2>1, <3>1, <3>2, RehashedRow DEF Exists
  <2> QED BY <1>2, <2>2, <2>3
<1>8. \A v \in Voter \ V : credential'[v] = credential[v]
  BY <1>1, <1>2
<1>9. credential' \in Readings
  <2>1. \A v \in Voter : credential'[v] \in CredentialRow \cup {NoCredential}
    BY <1>4, <1>7, <1>8 DEF Readings
  <2> QED BY <1>1, <2>1 DEF Readings
<1>10. request[r].pc = "open" /\ request[r] \in OpenRow /\ HeldBy(request[r]) = {}
       /\ Sound(request[r])
  BY Shapes DEF ResolveAndSend, At
<1>11. PICK pairs : pairs = {<<v, issued[v] + 1>> : v \in V}
  OBVIOUS
<1>12. pairs \subseteq Voter \X Nat /\ IsFiniteSet(pairs)
  <2> DEFINE f == [v \in V |-> <<v, issued[v] + 1>>]
  <2>1. f \in Surjection(V, pairs)
    BY <1>11 DEF Surjection
  <2>2. IsFiniteSet(V)
    BY <1>2, FS_Subset, AccessAssumption
  <2>3. IsFiniteSet(pairs)
    BY <2>1, <2>2, FS_Surjection
  <2> QED BY <1>2, <1>4, <1>11, <2>3
<1>13. PICK row : row = [pc |-> "hashing", kind |-> "reinvite",
                         seen |-> request[r].seen, todo |-> {}, pairs |-> pairs]
  OBVIOUS
<1>14. request' = [request EXCEPT ![r] = row]
  <2>1. pairs = {<<v, issued'[v]>> : v \in new \cup old}
    BY <1>2, <1>6, <1>11
  <2> QED BY <1>1, <1>13, <2>1
<1>15. row \in RequestRow /\ HeldBy(row) = pairs
  <2>1. request[r].seen \in Readings
    BY <1>10 DEF OpenRow
  <2>2. row \in HashingRow
    BY <1>12, <1>13, <2>1 DEF HashingRow
  <2> QED BY <1>13, <2>2 DEF HeldBy, RequestRow
<1>16. Sound(row)'
  <2>1. \A v \in Voter : Exists(v) => Exists(v)'
    BY <1>7, <1>8 DEF Exists
  <2>2. \A v \in Voter : request[r].seen[v] # NoCredential => Exists(v)'
    BY <1>10, <2>1 DEF Sound
  <2> QED BY <1>12, <1>13, <2>2 DEF Sound
<1>17. Typed'
  <2>1. request' \in [Request -> RequestRow]
    BY <1>4, <1>14, <1>15
  <2>2. crossed' \subseteq Voter
    BY <1>1, <1>3 DEF AccessInv, Typed
  <2> QED BY <1>5, <1>6, <1>9, <2>1, <2>2 DEF AccessInv, Typed
<1>18. Rows' /\ Distinct' /\ Newest'
  <2>1. \A v \in Voter \ V : UNCHANGED <<credential[v], issued[v]>>
    BY <1>6, <1>8
  <2>2. \A v \in V : /\ issued'[v] = issued[v] + 1 /\ Exists(v)'
                     /\ credential'[v].password = issued[v] + 1
    BY <1>6, <1>7
  <2>3. \A v \in Voter \ V : v \in crossed' <=> v \in crossed
    BY <1>1, <1>2
  <2>4. ASSUME NEW v \in V, v \notin crossed'
        PROVE  credential'[v].invitation # "sent" /\ ~OnTheWay(v)
    <3>1. CASE v \in new
      BY <1>3, <1>7, <3>1, NoneOnTheWay
    <3>2. CASE v \in old
      BY <1>1, <1>7, <2>4, <3>2
    <3> QED BY <1>2, <3>1, <3>2
  <2>5. HeldBy(row) = HeldBy(request[r]) \cup {<<v, issued[v] + 1>> : v \in V}
    BY <1>10, <1>11, <1>15
  <2>6. UNCHANGED <<mail, inbox, session, access>>
    BY <1>5
  <2> QED BY <1>14, <1>16, <1>17, <2>1, <2>2, <2>3, <2>4, <2>5, <2>6, RenewalKeeps
<1>19. Uncounted' = Uncounted /\ Taken' = Taken
  BY <1>5 DEF Uncounted, Taken
<1> QED BY <1>5, <1>17, <1>18, <1>19, Counts, QuotaStays DEF AccessInv

-------------------------------------------------------------------------------
(* Delivery: a mail takes a turn, or leaves.                                *)
LEMMA Turned ==
    ASSUME AccessInv, NEW m \in mail, NEW n \in Mail,
           n.voter = m.voter, n.password = m.password, Turns(m, n),
           UNCHANGED <<credential, issued, access, request, crossed, session>>,
           inbox' \in [Voter -> SUBSET Nat],
           \A v \in Voter \ Offline : inbox[v] \subseteq inbox'[v],
           n.pc \in {"counting", "sent"} /\ n.voter \notin Offline =>
              m.pc \in {"counting", "sent"} \/ n.password \in inbox'[n.voter],
           brevo' \in [counter : Nat, sent : Nat], incidents' \in Nat
    PROVE  Typed' /\ Rows' /\ Distinct' /\ Newest'
<1>1. mail' = (mail \ {m}) \cup {n}
  BY DEF Turns
<1>2. Typed'
  <2>1. IsFiniteSet(mail')
    <3>1. IsFiniteSet(mail \ {m})
      BY FS_Subset DEF AccessInv, Typed
    <3> QED BY <1>1, <3>1, FS_AddElement
  <2>2. mail' \subseteq Mail
    BY <1>1 DEF AccessInv, Typed
  <2> QED BY <2>1, <2>2 DEF AccessInv, Typed
<1>3. Quiet
  <2>1. \A v : Exists(v)' <=> Exists(v)
    BY DEF Exists
  <2>2. \A v \in Voter : issued[v] <= issued'[v]
    BY DEF AccessInv, Typed
  <2>3. \A x \in mail' : \E y \in mail :
          /\ x.voter = y.voter /\ x.password = y.password
          /\ x.pc \in {"counting", "sent"} /\ x.voter \notin Offline =>
                y.pc \in {"counting", "sent"} \/ x.password \in inbox'[x.voter]
    BY <1>1
  <2>4. \A x, y \in mail' : x.voter = y.voter /\ x.password = y.password => x = y
    BY <1>1 DEF AccessInv, Distinct
  <2>5. \A v \in session' : Exists(v)'
    BY <2>1 DEF AccessInv, Rows
  <2> QED BY <2>1, <2>2, <2>3, <2>4, <2>5 DEF Quiet
<1> QED BY <1>2, <1>3, QuietKeeps

LEMMA Swapped ==
    ASSUME NEW S, IsFiniteSet(S), NEW m \in S, NEW n, n \notin S
    PROVE  Cardinality((S \ {m}) \cup {n}) = Cardinality(S)
<1>1. Cardinality(S) \in Nat
  BY FS_CardinalityType
<1>2. IsFiniteSet(S \ {m}) /\ Cardinality(S \ {m}) = Cardinality(S) - 1
  BY FS_RemoveElement
<1>3. Cardinality((S \ {m}) \cup {n}) = Cardinality(S \ {m}) + 1
  BY <1>2, FS_AddElement
<1> QED BY <1>1, <1>2, <1>3

(* The next turn of a mail is not among the mails.                          *)
LEMMA NotYet ==
    ASSUME AccessInv, NEW m \in mail, NEW n,
           n.voter = m.voter, n.password = m.password, n.pc # m.pc
    PROVE  n \notin mail /\ n \notin Uncounted /\ n \notin Taken
BY DEF AccessInv, Distinct, Uncounted, Taken

LEMMA StartSendingKeeps ==
    ASSUME AccessInv, NEW m \in mail, StartSending(m)
    PROVE  AccessInv'
<1>1. m \in Mail /\ m.pc = "queued"
  BY DEF AccessInv, Typed, StartSending
<1>2. PICK n : n = [m EXCEPT !.pc = "sending",
                             !.by = IF brevo.counter < BrevoLimit THEN "brevo"
                                    ELSE "azure"]
  OBVIOUS
<1>3. /\ n \in Mail /\ n.voter = m.voter /\ n.password = m.password
      /\ n.pc = "sending"
      /\ n.by = "brevo" => brevo.counter < BrevoLimit
  BY <1>1, <1>2 DEF Mail
<1>4. Turns(m, n) /\ mail' = (mail \ {m}) \cup {n}
  BY <1>2 DEF StartSending, Turns
<1>5. UNCHANGED <<credential, issued, access, request, crossed, session, inbox,
                  brevo, incidents>>
  BY DEF StartSending
<1>6. Typed' /\ Rows' /\ Distinct' /\ Newest'
  BY <1>3, <1>4, <1>5, Turned DEF AccessInv, Typed
<1>7. n \notin Uncounted
  BY <1>1, <1>3, NotYet
<1>8. Taken' = Taken
  BY <1>1, <1>3, <1>4 DEF Taken
<1>9. CASE n.by = "brevo"
  <2>1. Uncounted' = Uncounted \cup {n}
    BY <1>1, <1>3, <1>4, <1>9 DEF Uncounted
  <2>2. IsFiniteSet(Uncounted) /\ IsFiniteSet(Sending)
    BY Counts DEF AccessInv
  <2>3. Cardinality(Uncounted') = Cardinality(Uncounted) + 1
    BY <1>7, <2>1, <2>2, FS_AddElement
  <2>4. Cardinality(Uncounted) <= Cardinality(Sending)
    <3>1. Uncounted \subseteq Sending
      BY DEF Uncounted, Sending
    <3> QED BY <2>2, <3>1, FS_Subset
  <2>5. Cardinality(Sending) < Senders
    BY DEF StartSending
  <2>6. brevo.counter < BrevoLimit
    BY <1>3, <1>9
  <2>7. brevo.counter + Cardinality(Uncounted') <= BrevoLimit + (Senders - 1)
    BY <2>3, <2>4, <2>5, <2>6, Counts DEF AccessInv
  <2>8. Quota'
    BY <1>5, <1>8, <2>7 DEF AccessInv, Quota
  <2> QED BY <1>6, <2>8 DEF AccessInv
<1>10. CASE n.by # "brevo"
  <2>1. Uncounted' = Uncounted
    BY <1>1, <1>3, <1>4, <1>10 DEF Uncounted
  <2>2. incidents <= incidents'
    BY <1>5, Counts DEF AccessInv
  <2> QED BY <1>5, <1>6, <1>8, <2>1, <2>2, QuotaStays DEF AccessInv
<1> QED BY <1>9, <1>10

(* The provider has taken a message.                                        *)
LEMMA SentTo ==
    ASSUME AccessInv, NEW m \in mail, Sent(m)
    PROVE  /\ inbox' \in [Voter -> SUBSET Nat]
           /\ \A v \in Voter : inbox[v] \subseteq inbox'[v]
           /\ m.voter \notin Offline => m.password \in inbox'[m.voter]
           /\ brevo' \in [counter : Nat, sent : Nat]
           /\ brevo'.counter = brevo.counter
           /\ brevo'.sent = IF m.by = "brevo" THEN brevo.sent + 1 ELSE brevo.sent
<1>1. /\ inbox \in [Voter -> SUBSET Nat] /\ m.voter \in Voter /\ m.password \in Nat
      /\ brevo \in [counter : Nat, sent : Nat]
  BY DEF AccessInv, Typed, Mail
<1>2. /\ inbox' = IF m.voter \in Offline THEN inbox
                  ELSE [inbox EXCEPT ![m.voter] = @ \cup {m.password}]
      /\ brevo' = IF m.by = "brevo" THEN [brevo EXCEPT !.sent = @ + 1] ELSE brevo
  BY DEF Sent
<1>3. /\ inbox' \in [Voter -> SUBSET Nat]
      /\ \A v \in Voter : inbox[v] \subseteq inbox'[v]
      /\ m.voter \notin Offline => m.password \in inbox'[m.voter]
  BY <1>1, <1>2
<1>4. /\ brevo' \in [counter : Nat, sent : Nat]
      /\ brevo'.counter = brevo.counter
      /\ brevo'.sent = IF m.by = "brevo" THEN brevo.sent + 1 ELSE brevo.sent
  BY <1>1, <1>2
<1> QED BY <1>3, <1>4

LEMMA DeliverKeeps ==
    ASSUME AccessInv, NEW m \in mail, Deliver(m)
    PROVE  AccessInv'
<1>1. m \in Mail /\ m.pc = "sending"
  BY DEF AccessInv, Typed, Deliver
<1>2. PICK n : n = [m EXCEPT !.pc = IF m.by = "brevo" THEN "counting" ELSE "sent"]
  OBVIOUS
<1>3. /\ n \in Mail /\ n.voter = m.voter /\ n.password = m.password /\ n.by = m.by
      /\ n.pc = IF m.by = "brevo" THEN "counting" ELSE "sent"
  BY <1>1, <1>2 DEF Mail
<1>4. Turns(m, n) /\ mail' = (mail \ {m}) \cup {n}
  BY <1>2 DEF Deliver, Turns
<1>5. UNCHANGED <<credential, issued, access, request, crossed, session, incidents>>
      /\ Sent(m)
  BY DEF Deliver
<1>6. Typed' /\ Rows' /\ Distinct' /\ Newest'
  BY <1>3, <1>4, <1>5, SentTo, Turned DEF AccessInv, Typed
<1>7. CASE m.by = "brevo"
  <2>1. n \notin Uncounted /\ n \notin Taken /\ m \in Uncounted
    BY <1>1, <1>3, <1>7, NotYet DEF Uncounted
  <2>2. /\ Uncounted' = (Uncounted \ {m}) \cup {n}
        /\ Taken' = Taken \cup {n}
    BY <1>1, <1>3, <1>4, <1>7 DEF Uncounted, Taken
  <2>3. IsFiniteSet(Uncounted) /\ IsFiniteSet(Taken)
    BY Counts DEF AccessInv
  <2>4. /\ Cardinality(Uncounted') = Cardinality(Uncounted)
        /\ Cardinality(Taken') = Cardinality(Taken) + 1
    <3>1. Cardinality((Uncounted \ {m}) \cup {n}) = Cardinality(Uncounted)
      BY <2>1, <2>3, Swapped
    <3>2. Cardinality(Taken \cup {n}) = Cardinality(Taken) + 1
      BY <2>1, <2>3, FS_AddElement
    <3> QED BY <2>2, <3>1, <3>2
  <2>5. brevo'.counter = brevo.counter /\ brevo'.sent = brevo.sent + 1
    BY <1>5, <1>7, SentTo
  <2>6. Quota'
    BY <1>5, <2>4, <2>5, Counts DEF AccessInv, Quota
  <2> QED BY <1>6, <2>6 DEF AccessInv
<1>8. CASE m.by # "brevo"
  <2>1. Uncounted' = Uncounted /\ Taken' = Taken
    BY <1>1, <1>3, <1>4, <1>8 DEF Uncounted, Taken
  <2>2. brevo' = brevo
    BY <1>5, <1>8 DEF Sent
  <2>3. incidents <= incidents'
    BY <1>5, Counts DEF AccessInv
  <2> QED BY <1>6, <2>1, <2>2, <2>3, QuotaStays DEF AccessInv
<1> QED BY <1>7, <1>8

LEMMA CountBrevoKeeps ==
    ASSUME AccessInv, NEW m \in mail, CountBrevo(m)
    PROVE  AccessInv'
<1>1. m \in Mail /\ m.pc = "counting"
  BY DEF AccessInv, Typed, CountBrevo
<1>2. PICK n : n = [m EXCEPT !.pc = "sent"]
  OBVIOUS
<1>3. /\ n \in Mail /\ n.voter = m.voter /\ n.password = m.password
      /\ n.pc = "sent"
  BY <1>1, <1>2 DEF Mail
<1>4. Turns(m, n) /\ mail' = (mail \ {m}) \cup {n}
  BY <1>2 DEF CountBrevo, Turns
<1>5. UNCHANGED <<credential, issued, access, request, crossed, session, inbox,
                  incidents>>
  BY DEF CountBrevo
<1>6. /\ brevo' \in [counter : Nat, sent : Nat]
      /\ brevo'.counter = brevo.counter + 1 /\ brevo'.sent = brevo.sent
  BY DEF CountBrevo, Incremented, AccessInv, Typed
<1>7. Typed' /\ Rows' /\ Distinct' /\ Newest'
  BY <1>1, <1>3, <1>4, <1>5, <1>6, Turned DEF AccessInv, Typed
<1>8. /\ m \in Uncounted /\ m \in Taken
      /\ Uncounted' = Uncounted \ {m} /\ Taken' = Taken \ {m}
  BY <1>1, <1>3, <1>4 DEF Uncounted, Taken
<1>9. /\ Cardinality(Uncounted \ {m}) = Cardinality(Uncounted) - 1
      /\ Cardinality(Taken \ {m}) = Cardinality(Taken) - 1
  BY <1>8, Counts, FS_RemoveElement DEF AccessInv
<1>10. Quota'
  BY <1>5, <1>6, <1>8, <1>9, Counts DEF AccessInv, Quota
<1> QED BY <1>7, <1>10 DEF AccessInv

(* Mails that leave the counted ones while an incident is counted.          *)
LEMMA Uncounts ==
    ASSUME AccessInv, NEW m \in mail,
           Uncounted' \in {Uncounted, Uncounted \ {m}},
           \/ Taken' = Taken /\ brevo'.sent <= brevo.sent + 1
           \/ Taken' = Taken \ {m} /\ brevo'.sent = brevo.sent,
           brevo'.sent \in Nat, brevo'.counter = brevo.counter,
           incidents' = incidents + 1
    PROVE  Quota'
<1>1. Cardinality(Uncounted') \in Nat /\ Cardinality(Uncounted') <= Cardinality(Uncounted)
  <2>1. IsFiniteSet(Uncounted) /\ Uncounted' \subseteq Uncounted
    BY Counts DEF AccessInv
  <2> QED BY <2>1, FS_Subset, FS_CardinalityType
<1>2. /\ Cardinality(Taken \ {m}) \in Nat
      /\ Cardinality(Taken) <= Cardinality(Taken \ {m}) + 1
  <2>1. IsFiniteSet(Taken) /\ Cardinality(Taken) \in Nat
    BY Counts DEF AccessInv
  <2>2. CASE m \in Taken
    <3>1. Cardinality(Taken \ {m}) = Cardinality(Taken) - 1 /\ IsFiniteSet(Taken \ {m})
      BY <2>1, <2>2, FS_RemoveElement
    <3>2. Cardinality(Taken \ {m}) \in Nat
      BY <3>1, FS_CardinalityType
    <3> QED BY <2>1, <3>1, <3>2
  <2>3. CASE m \notin Taken
    <3>1. Taken \ {m} = Taken
      BY <2>3
    <3> QED BY <2>1, <3>1
  <2> QED BY <2>2, <2>3
<1>3. BrevoLimit > 0 =>
         brevo'.counter + Cardinality(Uncounted') <= BrevoLimit + (Senders - 1)
  BY <1>1, Counts DEF AccessInv, Quota
<1>4. brevo.sent <= brevo.counter + Cardinality(Taken) + incidents
  BY DEF AccessInv, Quota
<1>5. CASE Taken' = Taken /\ brevo'.sent <= brevo.sent + 1
  BY <1>3, <1>4, <1>5, Counts DEF AccessInv, Quota
<1>6. CASE Taken' = Taken \ {m} /\ brevo'.sent = brevo.sent
  <2>1. Cardinality(Taken') = Cardinality(Taken \ {m})
    BY <1>6
  <2>2. brevo'.sent <= brevo'.counter + Cardinality(Taken') + incidents'
    BY <1>2, <1>4, <1>6, <2>1, Counts DEF AccessInv
  <2> QED BY <1>3, <2>2 DEF Quota
<1> QED BY <1>5, <1>6

LEMMA DeliveryFailsKeeps ==
    ASSUME AccessInv, NEW m \in mail, DeliveryFails(m)
    PROVE  AccessInv'
<1>1. m \in Mail /\ m.pc = "sending"
  BY DEF AccessInv, Typed, DeliveryFails
<1>2. PICK n : n = [m EXCEPT !.pc = "failed"]
  OBVIOUS
<1>3. /\ n \in Mail /\ n.voter = m.voter /\ n.password = m.password
      /\ n.pc = "failed"
  BY <1>1, <1>2 DEF Mail
<1>4. Turns(m, n) /\ mail' = (mail \ {m}) \cup {n}
  BY <1>2 DEF DeliveryFails, Turns
<1>5. /\ UNCHANGED <<credential, issued, access, request, crossed, session>>
      /\ incidents' = incidents + 1
      /\ Sent(m) \/ UNCHANGED <<inbox, brevo>>
  BY DEF DeliveryFails
<1>6. /\ inbox' \in [Voter -> SUBSET Nat]
      /\ \A v \in Voter : inbox[v] \subseteq inbox'[v]
      /\ brevo' \in [counter : Nat, sent : Nat]
      /\ brevo'.counter = brevo.counter
      /\ brevo'.sent \in {brevo.sent, brevo.sent + 1}
  BY <1>5, SentTo DEF AccessInv, Typed
<1>7. incidents' \in Nat
  BY <1>5, Counts DEF AccessInv
<1>8. Typed' /\ Rows' /\ Distinct' /\ Newest'
  BY <1>3, <1>4, <1>5, <1>6, <1>7, Turned
<1>9. Taken' = Taken /\ Uncounted' = Uncounted \ {m}
  BY <1>1, <1>3, <1>4 DEF Uncounted, Taken
<1>10. brevo'.sent \in Nat /\ brevo'.sent <= brevo.sent + 1
  BY <1>6, Counts DEF AccessInv
<1>11. Quota'
  BY <1>5, <1>6, <1>9, <1>10, Uncounts
<1> QED BY <1>8, <1>11 DEF AccessInv

(* A mail that has come to its end.                                         *)
LEMMA Leaves ==
    ASSUME AccessInv, NEW m \in mail, mail' = mail \ {m},
           UNCHANGED <<issued, access, request, inbox, session, brevo, crossed>>,
           credential' \in Readings, incidents' \in Nat,
           \A v \in Voter :
              /\ Exists(v)' <=> Exists(v)
              /\ Exists(v) => credential'[v].password = credential[v].password,
           \A v \in Voter : Exists(v)' /\ credential'[v].invitation = "sent" =>
              \/ Exists(v) /\ credential[v].invitation = "sent"
              \/ m.voter = v /\ m.pc = "sent"
    PROVE  Typed' /\ Rows' /\ Distinct' /\ Newest'
<1>1. Typed'
  <2>1. IsFiniteSet(mail') /\ mail' \subseteq Mail
    BY FS_Subset DEF AccessInv, Typed
  <2> QED BY <2>1 DEF AccessInv, Typed
<1>2. Quiet
  <2>1. \A v \in Voter : issued[v] <= issued'[v]
    BY DEF AccessInv, Typed
  <2>2. \A x \in mail' : \E y \in mail :
          /\ x.voter = y.voter /\ x.password = y.password
          /\ x.pc \in {"counting", "sent"} /\ x.voter \notin Offline =>
                y.pc \in {"counting", "sent"} \/ x.password \in inbox'[x.voter]
    OBVIOUS
  <2>3. \A x, y \in mail' : x.voter = y.voter /\ x.password = y.password => x = y
    BY DEF AccessInv, Distinct
  <2>4. \A v \in session' : Exists(v)'
    BY DEF AccessInv, Rows, Typed
  <2> QED BY <2>1, <2>2, <2>3, <2>4 DEF Quiet
<1> QED BY <1>1, <1>2, QuietKeeps

LEMMA RecordInvitationKeeps ==
    ASSUME AccessInv, NEW m \in mail, RecordInvitation(m)
    PROVE  AccessInv'
<1>1. /\ m.voter \in Voter /\ Exists(m.voter)
      /\ credential[m.voter] \in CredentialRow /\ credential \in Readings
  BY Shapes DEF AccessInv, Typed, Mail, Rows
<1>2. /\ m.pc \in {"sent", "failed"} /\ mail' = mail \ {m}
      /\ UNCHANGED <<issued, access, request, inbox, session, brevo, crossed,
                     incidents>>
  BY DEF RecordInvitation
<1>3. PICK new : new = [credential[m.voter] EXCEPT !.invitation = m.pc]
  OBVIOUS
<1>4. /\ new \in CredentialRow /\ new # NoCredential
      /\ new.password = credential[m.voter].password /\ new.invitation = m.pc
  BY <1>1, <1>2, <1>3 DEF CredentialRow, NoCredential
<1>5. credential' = [credential EXCEPT ![m.voter] = new]
  BY <1>3 DEF RecordInvitation
<1>6. credential' \in Readings
  BY <1>1, <1>4, <1>5 DEF Readings
<1>7. /\ \A v \in Voter : v # m.voter => credential'[v] = credential[v]
      /\ credential'[m.voter] = new
  BY <1>1, <1>5 DEF Readings
<1>8. \A v \in Voter :
         /\ Exists(v)' <=> Exists(v)
         /\ Exists(v) => credential'[v].password = credential[v].password
  BY <1>1, <1>4, <1>7 DEF Exists
<1>9. \A v \in Voter : Exists(v)' /\ credential'[v].invitation = "sent" =>
         \/ Exists(v) /\ credential[v].invitation = "sent"
         \/ m.voter = v /\ m.pc = "sent"
  BY <1>4, <1>7, <1>8
<1>10. incidents' \in Nat /\ incidents <= incidents'
  BY <1>2, Counts DEF AccessInv
<1>11. Typed' /\ Rows' /\ Distinct' /\ Newest'
  BY <1>2, <1>6, <1>8, <1>9, <1>10, Leaves
<1>12. Uncounted' = Uncounted /\ Taken' = Taken
  BY <1>2 DEF Uncounted, Taken
<1> QED BY <1>2, <1>10, <1>11, <1>12, QuotaStays DEF AccessInv

LEMMA SenderKilledKeeps ==
    ASSUME AccessInv, NEW m \in mail, SenderKilled(m)
    PROVE  AccessInv'
<1>1. /\ mail' = mail \ {m} /\ incidents' = incidents + 1
      /\ UNCHANGED <<credential, issued, access, request, inbox, session, brevo,
                     crossed>>
  BY DEF SenderKilled
<1>2. \A v : Exists(v)' <=> Exists(v)
  BY <1>1 DEF Exists
<1>3. incidents' \in Nat /\ credential' \in Readings
  BY <1>1, Counts DEF AccessInv, Typed
<1>4. Typed' /\ Rows' /\ Distinct' /\ Newest'
  BY <1>1, <1>2, <1>3, Leaves
<1>5. Uncounted' = Uncounted \ {m} /\ Taken' = Taken \ {m}
  BY <1>1 DEF Uncounted, Taken
<1>6. brevo'.sent \in Nat
  BY <1>1, Counts DEF AccessInv
<1>7. Quota'
  BY <1>1, <1>5, <1>6, Uncounts
<1> QED BY <1>4, <1>7 DEF AccessInv

-------------------------------------------------------------------------------
LEMMA AccessInitInv ==
    ASSUME AccessInit
    PROVE  AccessInv
<1>1. /\ NewCredential(1) \in CredentialRow /\ NewCredential(1) # NoCredential
      /\ NewCredential(1).invitation = "none"
  BY DEF NewCredential, CredentialRow, NoCredential
<1>2. credential \in Readings
  BY <1>1 DEF AccessInit, Readings
<1>3. \A r \in Request : request[r] = NoRequest
  BY DEF AccessInit
<1>4. HeldBy(NoRequest) = {} /\ Sound(NoRequest) /\ NoRequest \in RequestRow
  BY DEF HeldBy, Sound, NoRequest, RequestRow
<1>5. Typed
  <2>1. request \in [Request -> RequestRow] /\ access \in [Voter -> AccessRow]
    BY <1>4 DEF AccessInit, AccessRow
  <2>2. issued \in [Voter -> Nat] /\ inbox \in [Voter -> SUBSET Nat]
    BY DEF AccessInit
  <2>3. IsFiniteSet(mail)
    BY FS_EmptySet DEF AccessInit
  <2> QED BY <1>2, <2>1, <2>2, <2>3 DEF AccessInit, Typed
<1>6. Rows
  BY <1>3, <1>4 DEF AccessInit, Rows, ApprovedHasCredential
<1>7. Distinct
  BY <1>3, <1>4 DEF AccessInit, Distinct
<1>8. Newest
  <2>1. InvitedCanLogin
    BY <1>1 DEF AccessInit, InvitedCanLogin, Exists
  <2> QED BY <1>3, <1>4, <2>1 DEF AccessInit, Newest
<1>9. Quota
  <2>1. Uncounted = {} /\ Taken = {}
    BY DEF AccessInit, Uncounted, Taken
  <2>2. Cardinality({}) = 0
    BY FS_EmptySet
  <2> QED BY <2>1, <2>2, AccessAssumption DEF AccessInit, Quota
<1> QED BY <1>5, <1>6, <1>7, <1>8, <1>9 DEF AccessInv

LEMMA AccessNextInv ==
    ASSUME AccessInv, AccessNext
    PROVE  AccessInv'
<1>1. ASSUME NEW r \in Request, Owner(r)
      PROVE  AccessInv'
  <2>1. CASE RevokeVoter(r) \/ RevokeAllVoters(r) \/ RevokeBatches(r)
    <3>1. \E V : Revoke(r, V)
      BY <2>1 DEF RevokeVoter, RevokeAllVoters, RevokeBatches
    <3> QED BY <3>1, RevokeKeeps
  <2> QED BY <1>1, <2>1, OpenKeeps, StopKeeps, ImportVoterKeeps,
             GenerateOfflineKeeps, ChooseKeeps, RehashKeeps, ResolveAndSendKeeps,
             DispatchKeeps, ApproveRegisteredKeeps, ApproveCreateKeeps,
             ApproveMarkKeeps, RejectKeeps DEF Owner
<1>2. ASSUME NEW m \in mail, Delivery(m)
      PROVE  AccessInv'
  BY <1>2, StartSendingKeeps, DeliverKeeps, CountBrevoKeeps, DeliveryFailsKeeps,
     RecordInvitationKeeps, SenderKilledKeeps DEF Delivery
<1>3. ASSUME NEW v \in Voter, RequestAccess(v) \/ Login(v) \/ Vote(v)
      PROVE  AccessInv'
  BY <1>3, RequestAccessKeeps, LoginKeeps, VoteKeeps
<1> QED BY <1>1, <1>2, <1>3, PhaseKeeps DEF AccessNext

LEMMA AccessStutterInv ==
    ASSUME AccessInv, UNCHANGED accessVars
    PROVE  AccessInv'
<1>1. RequestsQuiet
  BY RequestsKept DEF accessVars
<1>2. incidents' \in Nat /\ incidents <= incidents'
  BY Counts DEF AccessInv, accessVars
<1> QED BY <1>1, <1>2, RequestOnly DEF accessVars

(* The inductive invariant of the system.                                   *)
THEOREM AccessInvariant == AccessSpec => []AccessInv
<1>1. AccessInv /\ [AccessNext]_accessVars => AccessInv'
  BY AccessNextInv, AccessStutterInv
<1> QED BY <1>1, AccessInitInv, PTL DEF AccessSpec

(* Whoever the dashboard shows as invited has the password that opens the   *)
(* ballot, whatever deliveries failed, unless the password changed while    *)
(* another one was on its way (notifications/services/email_service.py).    *)
THEOREM InvitedOpenBallot == AccessSpec => []InvitedCanLogin
<1>1. AccessInv => InvitedCanLogin
  BY DEF AccessInv, Newest
<1> QED BY <1>1, AccessInvariant, PTL

(* Approval creates the credential before it marks the request, so that no  *)
(* approved voter is left without one, at whatever step the process ends.   *)
THEOREM ApprovedAreRegistered == AccessSpec => []ApprovedHasCredential
<1>1. AccessInv => ApprovedHasCredential
  BY DEF AccessInv, Rows
<1> QED BY <1>1, AccessInvariant, PTL

(* However many senders read the daily counter before they increment it,    *)
(* Brevo is asked for no more than its limit, the other senders that may be *)
(* sending and the senders that died.                                       *)
THEOREM QuotaHolds == AccessSpec => []QuotaOvershootIsBounded
<1>1. ASSUME AccessInv
      PROVE  QuotaOvershootIsBounded
  <2>1. Cardinality(Taken) <= Cardinality(Uncounted)
    <3>1. Taken \subseteq Uncounted
      BY DEF Taken, Uncounted
    <3> QED BY <1>1, <3>1, Counts, FS_Subset DEF AccessInv
  <2> QED BY <1>1, <2>1, Counts DEF AccessInv, Quota, QuotaOvershootIsBounded
<1> QED BY <1>1, AccessInvariant, PTL

-------------------------------------------------------------------------------
(* The decisions on the credential of v: voted, revoked.                    *)
DecidedOn(v) ==
    /\ credential[v].has_voted => credential'[v].has_voted
    /\ credential[v].is_revoked /\ ~Reinstates(v) => credential'[v].is_revoked

LEMMA NextDecides ==
    ASSUME AccessInv, AccessNext, NEW v \in Voter, Exists(v)
    PROVE  DecidedOn(v)
<1>1. credential[v] \in CredentialRow /\ credential \in Readings
  BY Shapes DEF AccessInv, Typed
<1>2. CASE UNCHANGED credential
  BY <1>2 DEF DecidedOn
<1>3. ASSUME NEW u \in Voter, Create(u)
      PROVE  DecidedOn(v)
  BY <1>3, Creates DEF DecidedOn
<1>4. ASSUME NEW r \in Request, NEW V, Revoke(r, V)
      PROVE  DecidedOn(v)
  <2>1. credential'[v] \in {credential[v], [credential[v] EXCEPT !.is_revoked = TRUE]}
    BY <1>4 DEF Revoke
  <2> QED BY <1>1, <2>1 DEF DecidedOn, CredentialRow
<1>5. ASSUME NEW r \in Request, Rehash(r)
      PROVE  DecidedOn(v)
  <2>1. PICK u \in request[r].todo :
         /\ issued' = [issued EXCEPT ![u] = @ + 1]
         /\ credential' = [credential EXCEPT ![u] =
               Rehashed(request[r].kind, Seen(r, u), @, issued[u] + 1)]
         /\ request' = [request EXCEPT ![r].todo = @ \ {u},
               ![r].pairs = @ \cup {<<u, issued[u] + 1>>}]
    BY <1>5 DEF Rehash
  <2>2. CASE u # v
    BY <1>1, <2>1, <2>2 DEF DecidedOn, Readings
  <2>3. CASE u = v
    <3>1. At(r, "hashing") /\ request[r] \in HashingRow
      BY <1>5, Shapes DEF Rehash, At
    <3>2. request'[r] # request[r]
      <4>1. request'[r].todo = request[r].todo \ {u}
        BY <2>1, <3>1 DEF AccessInv, Typed, HashingRow
      <4> QED BY <2>1, <4>1
    <3>3. request[r].kind = "regenerate" => Reinstates(v)
      BY <2>1, <2>3, <3>1, <3>2 DEF Reinstates
    <3>4. credential'[v] = Rehashed(request[r].kind, Seen(r, v), credential[v],
                                    issued[v] + 1)
      BY <1>1, <2>1, <2>3 DEF Readings
    <3>5. issued[v] + 1 \in Nat \ {0}
      BY DEF AccessInv, Typed
    <3> QED BY <1>1, <3>3, <3>4, <3>5, RehashedRow DEF DecidedOn
  <2> QED BY <2>2, <2>3
<1>6. ASSUME NEW r \in Request, ResolveAndSend(r)
      PROVE  DecidedOn(v)
  <2>1. PICK new \in SUBSET {u \in Voter \ Offline : ~Exists(u)},
             old \in SUBSET {u \in Voter : Exists(u) /\ ~credential[u].has_voted} :
         /\ issued' = [u \in Voter |-> issued[u] + IF u \in new \cup old THEN 1 ELSE 0]
         /\ credential' = [u \in Voter |->
               CASE u \in new -> NewCredential(issued'[u])
                 [] u \in old -> Rehashed("reinvite", credential[u], credential[u],
                                          issued'[u])
                 [] OTHER -> credential[u]]
    BY <1>6 DEF ResolveAndSend
  <2>2. v \notin new
    BY <2>1
  <2>3. CASE v \in old
    <3>1. credential'[v] = Rehashed("reinvite", credential[v], credential[v],
                                    issued'[v])
      BY <2>1, <2>2, <2>3
    <3>2. issued'[v] \in Nat \ {0}
      <4>1. issued[v] \in Nat
        BY DEF AccessInv, Typed
      <4> QED BY <2>1, <2>3, <4>1
    <3> QED BY <1>1, <3>1, <3>2, RehashedRow DEF DecidedOn
  <2>4. CASE v \notin old
    <3>1. credential'[v] = credential[v]
      BY <2>1, <2>2, <2>4
    <3> QED BY <3>1 DEF DecidedOn
  <2> QED BY <2>3, <2>4
<1>7. ASSUME NEW m \in mail, RecordInvitation(m)
      PROVE  DecidedOn(v)
  <2>1. credential'[v] \in {credential[v],
                            [credential[v] EXCEPT !.invitation = m.pc]}
    BY <1>1, <1>7 DEF RecordInvitation, Readings
  <2> QED BY <1>1, <2>1 DEF DecidedOn, CredentialRow
<1>8. ASSUME NEW u \in Voter, Vote(u)
      PROVE  DecidedOn(v)
  <2>1. credential'[v] \in {credential[v], [credential[v] EXCEPT !.has_voted = TRUE]}
    BY <1>1, <1>8 DEF Vote, Readings
  <2> QED BY <1>1, <2>1 DEF DecidedOn, CredentialRow
<1>9. ASSUME NEW r \in Request, Owner(r)
      PROVE  DecidedOn(v)
  <2>1. CASE RevokeVoter(r) \/ RevokeAllVoters(r) \/ RevokeBatches(r)
    <3>1. \E V : Revoke(r, V)
      BY <2>1 DEF RevokeVoter, RevokeAllVoters, RevokeBatches
    <3> QED BY <1>4, <3>1
  <2>2. CASE ImportVoter(r) \/ GenerateOffline(r) \/ ApproveCreate(r)
    <3>1. \E u \in Voter : Create(u)
      BY <2>2, AccessAssumption DEF ImportVoter, GenerateOffline, ApproveCreate
    <3> QED BY <1>3, <3>1
  <2>3. CASE \/ Open(r) \/ Stop(r) \/ Choose(r) \/ Dispatch(r)
             \/ ApproveRegistered(r) \/ ApproveMark(r) \/ Reject(r)
    <3>1. UNCHANGED credential
      BY <2>3 DEF Open, Stop, Choose, Dispatch, ApproveRegistered, ApproveMark, Reject
    <3> QED BY <1>2, <3>1
  <2> QED BY <1>5, <1>6, <1>9, <2>1, <2>2, <2>3 DEF Owner
<1>10. ASSUME NEW m \in mail, Delivery(m)
       PROVE  DecidedOn(v)
  <2>1. CASE \/ StartSending(m) \/ Deliver(m) \/ CountBrevo(m) \/ DeliveryFails(m)
             \/ SenderKilled(m)
    <3>1. UNCHANGED credential
      BY <2>1 DEF StartSending, Deliver, CountBrevo, DeliveryFails, SenderKilled
    <3> QED BY <1>2, <3>1
  <2> QED BY <1>7, <1>10, <2>1 DEF Delivery
<1>11. CASE \/ \E u \in Voter : RequestAccess(u) \/ Login(u)
            \/ Launch \/ TimePasses
  <2>1. UNCHANGED credential
    BY <1>11 DEF RequestAccess, Login, Launch, TimePasses
  <2> QED BY <1>2, <2>1
<1> QED BY <1>8, <1>9, <1>10, <1>11 DEF AccessNext

(* No write prepared from an older reading of a credential takes a vote     *)
(* back, and none but the regeneration reinstates who was revoked           *)
(* (the update_fields of candidates/views.py and notifications/views.py).   *)
THEOREM DecisionsHold == AccessSpec => DecisionsSurvive
<1>1. AccessInv /\ [AccessNext]_accessVars =>
         [\A v \in Voter : Exists(v) =>
             /\ credential[v].has_voted => credential'[v].has_voted
             /\ credential[v].is_revoked /\ ~Reinstates(v) =>
                   credential'[v].is_revoked]_accessVars
  BY NextDecides DEF DecidedOn
<1> QED BY <1>1, AccessInvariant, PTL DEF AccessSpec, DecisionsSurvive
===============================================================================
