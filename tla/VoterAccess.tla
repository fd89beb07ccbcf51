----------------------------- MODULE VoterAccess ------------------------------
(***************************************************************************)
(* How a voter gets into an election: credentials are generated from a     *)
(* file, for a printed batch or by approving an access request; invitations *)
(* carry a new password each time, through Celery tasks or the owner's own  *)
(* request; the owner revokes and reinstates; the voter logs in and votes.  *)
(* The owner's requests run concurrently and lock nothing (one exception,   *)
(* ResolveAndSend): each reads the rows first and writes them one by one.   *)
(*                                                                         *)
(* A password is a number: the n-th one generated for its credential.      *)
(***************************************************************************)
EXTENDS Integers, FiniteSets

CONSTANTS
    Voter,         \* email addresses that may appear
    Offline,       \* those of printed credentials (OFFLINE_VOTER_DOMAIN)
    Request,       \* requests of the owner served at a time
    AtStart,       \* credentials that exist at the start
    Senders,       \* processes that deliver mail at a time
    BrevoLimit,    \* BREVO_DAILY_LIMIT
    MaxRequests, MaxIncidents    \* bounds

ASSUME AccessAssumption ==
    /\ IsFiniteSet(Voter) /\ Offline \subseteq Voter /\ AtStart \subseteq Voter
    /\ Senders \in Nat /\ BrevoLimit \in Nat
    /\ MaxRequests \in Nat /\ MaxIncidents \in Nat

VARIABLES
    phase,       \* Election.current_status
    credential,  \* VoterCredential rows
    issued,      \* passwords generated for each credential
    access,      \* VoterAccessRequest rows: number and status, or "none"
    request,
    mail,        \* invitations queued or being sent
    inbox,       \* passwords each voter has received, by mail or on paper
    session,     \* voters with a voting session
    brevo,       \* the daily counter in the cache, and what Brevo really sent
    crossed,     \* voters whose password was last changed while a mail with
                 \* another one was on its way, or from an old reading
    served, incidents

accessVars == <<phase, credential, issued, access, request, mail, inbox,
                session, brevo, crossed, served, incidents>>

(* No row, and a request that is not being served. *)
NoCredential == [password |-> 0]
NoRequest == [pc |-> "none"]

NewCredential(password) ==
    [password |-> password, has_voted |-> FALSE, is_revoked |-> FALSE,
     invitation |-> "none"]

AccessInit ==
    /\ phase = "Pre-launch"
    /\ credential = [v \in Voter |-> IF v \in AtStart THEN NewCredential(1)
                                     ELSE NoCredential]
    /\ issued = [v \in Voter |-> IF v \in AtStart THEN 1 ELSE 0]
    /\ access = [v \in Voter |-> [number |-> 0, status |-> "none"]]
    /\ request = [r \in Request |-> NoRequest]
    /\ mail = {}
    /\ inbox = [v \in Voter |-> IF v \in AtStart \cap Offline THEN {1} ELSE {}]
    /\ session = {}
    /\ brevo = [counter |-> 0, sent |-> 0]
    /\ crossed = {}
    /\ served = 0 /\ incidents = 0

Exists(v) == credential[v] # NoCredential

-------------------------------------------------------------------------------
(* The owner's requests *)

(* get_election, and the credentials or the access request it needs. *)
Open(r) ==
    /\ request[r] = NoRequest
    /\ served < MaxRequests
    /\ served' = served + 1
    /\ request' = [request EXCEPT ![r] =
          [pc |-> "open", can_edit |-> phase = "Pre-launch",
           seen |-> credential, access |-> access]]
    /\ UNCHANGED <<phase, credential, issued, access, mail, inbox, session,
                   brevo, crossed, incidents>>

At(r, pc) == request[r].pc = pc

Ends(r) == request' = [request EXCEPT ![r] = NoRequest]

Seen(r, v) == request[r].seen[v]
Known(r, v) == Seen(r, v) # NoCredential

(* Not found, refused, limited; or the process ends between two steps. *)
Stop(r) ==
    /\ request[r] # NoRequest
    /\ Ends(r)
    /\ IF At(r, "open") THEN UNCHANGED incidents
       ELSE incidents < MaxIncidents /\ incidents' = incidents + 1
    /\ UNCHANGED <<phase, credential, issued, access, mail, inbox, session,
                   brevo, crossed, served>>

(* generate_credentials; (election, voter_email) is unique. *)
Create(v) ==
    /\ ~Exists(v)
    /\ issued' = [issued EXCEPT ![v] = @ + 1]
    /\ credential' = [credential EXCEPT ![v] = NewCredential(issued[v] + 1)]

(* import_voters_from_file, BulkElectionImportView: known addresses are     *)
(* skipped; one that appears meanwhile makes the import fail.               *)
ImportVoter(r) ==
    /\ At(r, "open") /\ request[r].can_edit
    /\ \E v \in Voter \ Offline : ~Known(r, v) /\ Create(v)
    /\ Ends(r)
    /\ UNCHANGED <<phase, access, mail, inbox, session, brevo, crossed, served,
                   incidents>>

(* A batch of printed credentials; the passwords leave with the response. *)
GenerateOffline(r) ==
    /\ At(r, "open") /\ request[r].can_edit
    /\ \E v \in Offline :
          /\ Create(v)
          /\ inbox' = [inbox EXCEPT ![v] = {issued[v] + 1}]
    /\ Ends(r)
    /\ UNCHANGED <<phase, access, mail, session, brevo, crossed, served, incidents>>

(* One update of the rows V that are not revoked by then. *)
Revoke(r, V) ==
    /\ At(r, "open") /\ request[r].can_edit
    /\ credential' = [v \in Voter |-> IF v \in V /\ Exists(v)
                                      THEN [credential[v] EXCEPT !.is_revoked = TRUE]
                                      ELSE credential[v]]
    /\ Ends(r)
    /\ UNCHANGED <<phase, issued, access, mail, inbox, session, brevo, crossed,
                   served, incidents>>

RevokeVoter(r) ==
    \E v \in Voter : /\ At(r, "open") /\ Known(r, v) /\ ~Seen(r, v).is_revoked
                     /\ Revoke(r, {v})

RevokeAllVoters(r) ==
    Revoke(r, {v \in Voter \ Offline : Exists(v) /\ ~credential[v].has_voted})

(* Of one batch or of all of them. *)
RevokeBatches(r) == \E V \in (SUBSET Offline) \ {{}} : Revoke(r, V)

-------------------------------------------------------------------------------
(* New passwords *)

(* Which credentials a request is about to give a new password, as it read  *)
(* them.  Only resend asks for a draft.                                     *)
Chosen(r, kind) ==
    CASE kind = "send" ->
           {{v \in Voter \ Offline : /\ Known(r, v) /\ ~Seen(r, v).is_revoked
                                     /\ Seen(r, v).invitation # "sent"}}
      [] kind = "resend" ->
           {{v \in Voter \ Offline : /\ Known(r, v) /\ request[r].can_edit
                                     /\ ~Seen(r, v).has_voted
                                     /\ ~Seen(r, v).is_revoked}}
      [] kind = "regenerate" ->
           {{v} : v \in {u \in Voter : Known(r, u) /\ ~Seen(r, u).has_voted}}

Kinds == {"send", "resend", "regenerate"}

Choose(r) ==
    /\ At(r, "open")
    /\ \E kind \in Kinds : \E V \in Chosen(r, kind) :
          /\ V # {}
          /\ request' = [request EXCEPT ![r] =
                [pc |-> "hashing", kind |-> kind, seen |-> @.seen,
                 todo |-> V, pairs |-> {}]]
    /\ UNCHANGED <<phase, credential, issued, access, mail, inbox, session,
                   brevo, crossed, served, incidents>>

\* Mutant of Rehashed: save() without update_fields.
Rehashed_WholeRow(kind, seen, row, password) ==
    [seen EXCEPT !.password = password, !.invitation = "none"]

\* Mutant of Rehashed: invitation_sent is missing from update_fields.
Rehashed_StillInvited(kind, seen, row, password) ==
    [row EXCEPT !.password = password]

(* The update_fields of the views.  send leaves invitation_sent alone  *)
(* and clears only the error; regenerate reinstates who was revoked.        *)
Rehashed(kind, seen, row, password) ==
    [row EXCEPT
        !.password = password,
        !.invitation = IF kind = "send" /\ @ = "sent" THEN "sent" ELSE "none",
        !.is_revoked = IF kind = "regenerate" /\ seen.is_revoked THEN FALSE ELSE @]

(* Mails and pairs for a voter that have not come to their end. *)
OnTheWay(v) ==
    \/ \E m \in mail : m.voter = v
    \/ \E r \in Request :
          \/ At(r, "hashing") /\ \E p \in request[r].pairs : p[1] = v
          \/ At(r, "created") /\ request[r].voter = v

(* The next credential gets its password, from the row read before. *)
Rehash(r) ==
    /\ At(r, "hashing")
    /\ \E v \in request[r].todo :
          /\ issued' = [issued EXCEPT ![v] = @ + 1]
          /\ credential' = [credential EXCEPT ![v] =
                Rehashed(request[r].kind, Seen(r, v), @, issued[v] + 1)]
          /\ request' = [request EXCEPT ![r].todo = @ \ {v},
                ![r].pairs = @ \cup {<<v, issued[v] + 1>>}]
          /\ crossed' = IF OnTheWay(v) \/ Seen(r, v) # credential[v]
                        THEN crossed \cup {v} ELSE crossed \ {v}
    /\ UNCHANGED <<phase, access, mail, inbox, session, brevo, served, incidents>>

(* ResolveDuplicatesAndSendView, at any time: in one transaction new voters *)
(* are created and the chosen old ones, read again under their locks, get   *)
(* a new password unless they have voted.                                   *)
ResolveAndSend(r) ==
    /\ At(r, "open")
    /\ \E new \in SUBSET {v \in Voter \ Offline : ~Exists(v)},
          old \in SUBSET {v \in Voter : Exists(v) /\ ~credential[v].has_voted} :
          /\ new \cup old # {}
          /\ issued' = [v \in Voter |-> issued[v] + IF v \in new \cup old THEN 1 ELSE 0]
          /\ credential' = [v \in Voter |->
                CASE v \in new -> NewCredential(issued'[v])
                  [] v \in old -> Rehashed("reinvite", credential[v], credential[v],
                                           issued'[v])
                  [] OTHER -> credential[v]]
          /\ crossed' = (crossed \ old) \cup {v \in old : OnTheWay(v)}
          /\ request' = [request EXCEPT ![r] =
                [pc |-> "hashing", kind |-> "reinvite", seen |-> @.seen, todo |-> {},
                 pairs |-> {<<v, issued'[v]>> : v \in new \cup old}]]
    /\ UNCHANGED <<phase, access, mail, inbox, session, brevo, served, incidents>>

(* send_bulk_invitations_task.delay, or the same loop in the request. *)
Dispatch(r) ==
    /\ At(r, "hashing")
    /\ request[r].todo = {}
    /\ mail' = mail \cup {[voter |-> p[1], password |-> p[2], pc |-> "queued",
                           by |-> "none"] : p \in request[r].pairs}
    /\ Ends(r)
    /\ UNCHANGED <<phase, credential, issued, access, inbox, session, brevo,
                   crossed, served, incidents>>

-------------------------------------------------------------------------------
(* Delivery of one invitation *)

Sending == {m \in mail : m.pc # "queued"}

Turns(m, n) == mail' = (mail \ {m}) \cup {n}

(* _choose_provider reads the counter. *)
StartSending(m) ==
    /\ m.pc = "queued"
    /\ Cardinality(Sending) < Senders
    /\ Turns(m, [m EXCEPT !.pc = "sending",
                          !.by = IF brevo.counter < BrevoLimit THEN "brevo"
                                 ELSE "azure"])
    /\ UNCHANGED <<phase, credential, issued, access, request, inbox, session,
                   brevo, crossed, served, incidents>>

(* The provider takes the message.  Nobody reads the addresses of printed   *)
(* credentials.                                                             *)
Sent(m) ==
    /\ inbox' = IF m.voter \in Offline THEN inbox
                ELSE [inbox EXCEPT ![m.voter] = @ \cup {m.password}]
    /\ brevo' = IF m.by = "brevo" THEN [brevo EXCEPT !.sent = @ + 1] ELSE brevo

Deliver(m) ==
    /\ m.pc = "sending"
    /\ Turns(m, [m EXCEPT !.pc = IF m.by = "brevo" THEN "counting" ELSE "sent"])
    /\ Sent(m)
    /\ UNCHANGED <<phase, credential, issued, access, request, session, crossed,
                   served, incidents>>

\* Mutant of Incremented: a counter whose key has expired is not set again.
Incremented_Lost(count) == count

Incremented(count) == count + 1

CountBrevo(m) ==
    /\ m.pc = "counting"
    /\ brevo' = [brevo EXCEPT !.counter = Incremented(@)]
    /\ Turns(m, [m EXCEPT !.pc = "sent"])
    /\ UNCHANGED <<phase, credential, issued, access, request, inbox, session,
                   crossed, served, incidents>>

(* The provider refuses the message, or its answer is lost. *)
DeliveryFails(m) ==
    /\ m.pc = "sending"
    /\ incidents < MaxIncidents
    /\ incidents' = incidents + 1
    /\ Turns(m, [m EXCEPT !.pc = "failed"])
    /\ Sent(m) \/ UNCHANGED <<inbox, brevo>>
    /\ UNCHANGED <<phase, credential, issued, access, request, session, crossed,
                   served>>

(* invitation_sent or invitation_error, and nothing else of the row. *)
RecordInvitation(m) ==
    /\ m.pc \in {"sent", "failed"}
    /\ credential' = [credential EXCEPT ![m.voter].invitation = m.pc]
    /\ mail' = mail \ {m}
    /\ UNCHANGED <<phase, issued, access, request, inbox, session, brevo, crossed,
                   served, incidents>>

(* The process that delivers is killed; nothing sends the mail again. *)
SenderKilled(m) ==
    /\ m.pc # "queued"
    /\ incidents < MaxIncidents
    /\ incidents' = incidents + 1
    /\ mail' = mail \ {m}
    /\ UNCHANGED <<phase, credential, issued, access, request, inbox, session,
                   brevo, crossed, served>>

-------------------------------------------------------------------------------
(* Access requests *)

(* Before the launch, once, and not from a registered voter. *)
RequestAccess(v) ==
    /\ phase = "Pre-launch"
    /\ v \notin Offline /\ ~Exists(v)
    /\ access[v].status = "none"
    /\ access' = [access EXCEPT ![v] = [number |-> @.number + 1, status |-> "pending"]]
    /\ UNCHANGED <<phase, credential, issued, request, mail, inbox, session, brevo,
                   crossed, served, incidents>>

(* The row the reviewer's request has read. *)
Reviewing(r, v) == At(r, "open") /\ request[r].access[v].status = "pending"

(* The update of a row that is gone raises. *)
Remains(v, row) == access[v].number = row.number /\ access[v].status # "none"

MarkApproved(v, row) ==
    access' = IF Remains(v, row) THEN [access EXCEPT ![v].status = "approved"]
              ELSE access

ApproveRegistered(r) ==
    /\ \E v \in Voter : /\ Reviewing(r, v) /\ Exists(v)
                       /\ MarkApproved(v, request[r].access[v])
    /\ Ends(r)
    /\ UNCHANGED <<phase, credential, issued, mail, inbox, session, brevo, crossed,
                   served, incidents>>

\* Mutant of ApproveCreate: the request is marked before the credential exists.
ApproveCreate_MarkFirst(r) ==
    /\ \E v \in Voter :
          /\ Reviewing(r, v)
          /\ ~Exists(v)
          /\ MarkApproved(v, request[r].access[v])
          /\ request' = [request EXCEPT ![r] =
                [pc |-> "created", voter |-> v, row |-> @.access[v],
                 password |-> issued[v] + 1]]
    /\ UNCHANGED <<phase, credential, issued, mail, inbox, session, brevo, crossed,
                   served, incidents>>

(* The credential first, then the request; each in a transaction of its own. *)
ApproveCreate(r) ==
    /\ \E v \in Voter :
          /\ Reviewing(r, v)
          /\ Create(v)
          /\ request' = [request EXCEPT ![r] =
                [pc |-> "created", voter |-> v, row |-> @.access[v],
                 password |-> issued[v] + 1]]
    /\ UNCHANGED <<phase, access, mail, inbox, session, brevo, crossed, served,
                   incidents>>

ApproveMark(r) ==
    /\ At(r, "created")
    /\ LET v == request[r].voter
       IN  /\ MarkApproved(v, request[r].row)
           /\ IF ~Remains(v, request[r].row) THEN UNCHANGED mail
              ELSE mail' = mail \cup {[voter |-> v, pc |-> "queued", by |-> "none",
                                       password |-> request[r].password]}
    /\ Ends(r)
    /\ UNCHANGED <<phase, credential, issued, inbox, session, brevo, crossed,
                   served, incidents>>

(* Rejecting deletes the request, so that the voter may ask again. *)
Reject(r) ==
    /\ \E v \in Voter :
          /\ Reviewing(r, v)
          /\ access' = IF access[v].number = request[r].access[v].number
                       THEN [access EXCEPT ![v].status = "none"] ELSE access
    /\ Ends(r)
    /\ UNCHANGED <<phase, credential, issued, mail, inbox, session, brevo, crossed,
                   served, incidents>>

-------------------------------------------------------------------------------
(* The voter *)

MayEnter(c) == ~c.is_revoked /\ ~c.has_voted /\ phase = "Active"

Login(v) ==
    /\ Exists(v) /\ v \notin session
    /\ credential[v].password \in inbox[v]
    /\ MayEnter(credential[v])
    /\ session' = session \cup {v}
    /\ UNCHANGED <<phase, credential, issued, access, request, mail, inbox, brevo,
                   crossed, served, incidents>>

(* cast_votes under the lock of the row; the session is flushed. *)
Vote(v) ==
    /\ v \in session
    /\ MayEnter(credential[v])
    /\ credential' = [credential EXCEPT ![v].has_voted = TRUE]
    /\ session' = session \ {v}
    /\ UNCHANGED <<phase, issued, access, request, mail, inbox, brevo, crossed,
                   served, incidents>>

(* The launch refuses while a request is pending. *)
Launch ==
    /\ phase = "Pre-launch"
    /\ \E v \in Voter : Exists(v)
    /\ \A v \in Voter : access[v].status # "pending"
    /\ \E started \in {"Inactive", "Active"} : phase' = started
    /\ UNCHANGED <<credential, issued, access, request, mail, inbox, session,
                   brevo, crossed, served, incidents>>

TimePasses ==
    /\ \/ phase = "Inactive" /\ phase' = "Active"
       \/ phase = "Active" /\ phase' = "Concluded"
    /\ UNCHANGED <<credential, issued, access, request, mail, inbox, session,
                   brevo, crossed, served, incidents>>

-------------------------------------------------------------------------------
Owner(r) ==
    \/ Open(r) \/ Stop(r) \/ ImportVoter(r) \/ GenerateOffline(r)
    \/ RevokeVoter(r) \/ RevokeAllVoters(r) \/ RevokeBatches(r)
    \/ Choose(r) \/ Rehash(r) \/ ResolveAndSend(r) \/ Dispatch(r)
    \/ ApproveRegistered(r) \/ ApproveCreate(r) \/ ApproveMark(r) \/ Reject(r)

Delivery(m) ==
    \/ StartSending(m) \/ Deliver(m) \/ CountBrevo(m) \/ DeliveryFails(m)
    \/ RecordInvitation(m) \/ SenderKilled(m)

AccessNext ==
    \/ \E r \in Request : Owner(r)
    \/ \E m \in mail : Delivery(m)
    \/ \E v \in Voter : RequestAccess(v) \/ Login(v) \/ Vote(v)
    \/ Launch \/ TimePasses

AccessSpec == AccessInit /\ [][AccessNext]_accessVars

-------------------------------------------------------------------------------
(* Properties *)

(* A voter by mail the dashboard shows as invited has received the password *)
(* that opens the ballot, whatever deliveries failed or were killed, unless the  *)
(* last change of the password crossed a mail that was on its way.          *)
InvitedCanLogin ==
    \A v \in Voter \ (Offline \cup crossed) :
        Exists(v) /\ credential[v].invitation = "sent" =>
            credential[v].password \in inbox[v]

Reinstates(v) ==
    \E r \in Request : /\ At(r, "hashing") /\ request[r].kind = "regenerate"
                       /\ v \in request[r].todo /\ request'[r] # request[r]

(* Two decisions on a credential survive every write that was prepared from *)
(* an older reading of its row: a vote is never taken back, and only        *)
(* regenerating the credential reinstates a revoked voter.                  *)
DecisionsSurvive ==
    [][\A v \in Voter : Exists(v) =>
          /\ credential[v].has_voted => credential'[v].has_voted
          /\ credential[v].is_revoked /\ ~Reinstates(v) =>
                credential'[v].is_revoked]_accessVars

(* An approved access request has its credential, also when the process    *)
(* ends half way or two reviewers decide at once.                          *)
ApprovedHasCredential ==
    \A v \in Voter : access[v].status = "approved" => Exists(v)

(* The counter is read before a mail and incremented after it: Brevo is    *)
(* asked for more than its limit by at most the processes that send at the *)
(* same time, and the ones that died before counting.                      *)
QuotaOvershootIsBounded ==
    BrevoLimit > 0 => brevo.sent <= BrevoLimit + (Senders - 1) + incidents
===============================================================================
