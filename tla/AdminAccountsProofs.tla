-------------------------- MODULE AdminAccountsProofs --------------------------
(***************************************************************************)
(* The safety properties of AdminAccounts, for any number of addresses,    *)
(* browsers, requests and accounts.  Every request writes back what it has *)
(* read, into rows and sessions that others may have written since; so     *)
(* what is shown of a row or a session is shown of each copy of it, and    *)
(* must stay true whatever the others do: it only says what has been       *)
(* mailed and what has been entered, which is never taken back.            *)
(***************************************************************************)
EXTENDS AdminAccounts, FiniteSetTheorems, TLAPS

RegRow == [email : Email, code : Number]
ResetRow ==
    [email : Email, answered : BOOLEAN, code : 0..MaxNumber, entered : BOOLEAN]
LoginRow == [account : Account, verified : BOOLEAN, attempts : 0..MaxAttempts]
Pending == [email : Email, code : Number]
UserRow ==
    [email : Email, password : Nat, questions : SUBSET Nat,
     pending : Pending \cup {None}]

Todo ==
    {<< <<"code", n>> >> : n \in Number}
       \cup {<< <<"login", 0>>, <<"trigger", 0>> >>, << <<"trigger", 0>> >>}
Counting ==
    [pc : {"incr", "add", "again", "set"}, browser : Browser, session : Session,
     todo : Todo]

History ==
    [confirmed : SUBSET Email, carried : SUBSET Email,
     answered : SUBSET Number, proven : SUBSET Number,
     broken : SUBSET Account, counted : [Key -> Nat], overwritten : SUBSET Key,
     tries : [Number -> Nat], raced : SUBSET Number]

Known == history.confirmed \cup history.carried

-------------------------------------------------------------------------------
(* Copies: what is true of a session or a row, in the database or in the    *)
(* hands of a request.                                                      *)
SessionOK(s) ==
    /\ s \in Session
    /\ s.reg <= number /\ s.reset <= number
    /\ s.reg # 0 /\ s.confirmed => mailed[s.reg] \in Known

(* The first code went to the address, and so did the present one.          *)
RegOK(n, row) ==
    /\ row \in RegRow /\ n <= number /\ row.code <= number
    /\ mailed[n] = row.email /\ mailed[row.code] = row.email

ResetOK(n, row) ==
    /\ row \in ResetRow /\ n <= number /\ row.code <= number
    /\ row.code # 0 => mailed[row.code] = row.email
    /\ row.answered => n \in history.answered
    /\ row.entered => n \in history.answered \cap history.proven

LoginOK(n, row) == row \in LoginRow /\ n <= number

UserOK(row) ==
    /\ row \in UserRow /\ row.email \in Known
    /\ row.pending # None =>
          /\ row.pending \in Pending /\ row.pending.code <= number
          /\ mailed[row.pending.code] = row.pending.email

Pc == {"register", "verify", "create", "questions", "forgot", "reset", "login",
       "code", "settings", "incr", "add", "again", "set"}

RequestOK(q) ==
    /\ q.pc \in Pc /\ q.browser \in Browser /\ SessionOK(q.session)
    /\ q.pc \in {"register", "forgot"} => q.email \in Email
    /\ q.pc \in {"verify", "create"} =>
          q.session.reg # 0 /\ RegOK(q.session.reg, q.row)
    /\ q.pc = "create" => q.session.confirmed
    /\ q.pc = "questions" => q.account \in Account /\ q.session.reg # 0
    /\ q.pc = "reset" =>
          /\ q.session.reset # 0 /\ ResetOK(q.session.reset, q.row)
          /\ q.account \subseteq Account
    /\ q.pc = "login" => q.account \in Account
    /\ q.pc = "code" =>
          /\ q.id \in Number /\ q.id <= number
          /\ q.row \in LoginRow /\ q.row.attempts < MaxAttempts
    /\ q.pc = "settings" => q.account \in Account /\ UserOK(q.row)
    /\ q.pc \in {"incr", "add", "again", "set"} => q \in Counting

Gone == {None, Deleted}

NumbersOK ==
    /\ number \in Nat \ {0} /\ mailed \in [Number -> Email \cup {None}]
    /\ history \in History /\ counter \in [Key -> Nat]
UsersOK ==
    /\ user \in [Account -> UserRow \cup Gone]
    /\ \A u \in Account : user[u] \in Gone \/ UserOK(user[u])
RegsOK ==
    /\ regs \in [Number -> RegRow \cup {None}]
    /\ \A n \in Number : regs[n] = None \/ RegOK(n, regs[n])
ResetsOK ==
    /\ resets \in [Number -> ResetRow \cup {None}]
    /\ \A n \in Number : resets[n] = None \/ ResetOK(n, resets[n])
LoginsOK ==
    /\ logins \in [Number -> LoginRow \cup {None}]
    /\ \A n \in Number : logins[n] = None \/ LoginOK(n, logins[n])
BrowsersOK ==
    browser \in [Browser -> Session] /\ \A b \in Browser : SessionOK(browser[b])
RequestsOK ==
    /\ request = [r \in Request |-> request[r]]
    /\ \A r \in Request : request[r] = None \/ RequestOK(request[r])

Copies ==
    /\ NumbersOK /\ UsersOK /\ RegsOK /\ ResetsOK /\ LoginsOK /\ BrowsersOK
    /\ RequestsOK

(* What no step takes back.                                                 *)
Grows ==
    /\ number \in Nat /\ number' \in Nat /\ number <= number'
    /\ \A n \in Number : n <= number => mailed'[n] = mailed[n]
    /\ history.confirmed \subseteq history'.confirmed
    /\ history.carried \subseteq history'.carried
    /\ history.answered \subseteq history'.answered
    /\ history.proven \subseteq history'.proven

(* So what is true of a copy stays true.                                    *)
LEMMA CopiesLast ==
    ASSUME Grows
    PROVE  /\ \A s : SessionOK(s) => SessionOK(s)'
           /\ \A row : \A n \in Number : RegOK(n, row) => RegOK(n, row)'
           /\ \A row : \A n \in Number : ResetOK(n, row) => ResetOK(n, row)'
           /\ \A row : \A n \in Number : LoginOK(n, row) => LoginOK(n, row)'
           /\ \A row : UserOK(row) => UserOK(row)'
           /\ \A q : RequestOK(q) => RequestOK(q)'
<1>1. ASSUME NEW s, SessionOK(s)
      PROVE  SessionOK(s)'
  BY <1>1 DEF SessionOK, Session, Grows, Known, Number
<1>2. ASSUME NEW n \in Number, NEW row, RegOK(n, row)
      PROVE  RegOK(n, row)'
  BY <1>2 DEF RegOK, RegRow, Grows, Number
<1>3. ASSUME NEW n \in Number, NEW row, ResetOK(n, row)
      PROVE  ResetOK(n, row)'
  BY <1>3 DEF ResetOK, ResetRow, Grows, Number
<1>4. ASSUME NEW n \in Number, NEW row, LoginOK(n, row)
      PROVE  LoginOK(n, row)'
  BY <1>4 DEF LoginOK, Grows, Number
<1>5. ASSUME NEW row, UserOK(row)
      PROVE  UserOK(row)'
  <2>1. row.email \in Known'
    BY <1>5 DEF UserOK, Grows, Known
  <2>2. row.pending # None =>
          /\ row.pending \in Pending /\ row.pending.code <= number'
          /\ mailed'[row.pending.code] = row.pending.email
    BY <1>5 DEF UserOK, Pending, Grows, Number
  <2> QED BY <1>5, <2>1, <2>2 DEF UserOK
<1>6. ASSUME NEW q, RequestOK(q)
      PROVE  RequestOK(q)'
  <2>1. SessionOK(q.session)'
    BY <1>1, <1>6 DEF RequestOK
  <2>2. q.pc \in {"verify", "create"} => RegOK(q.session.reg, q.row)'
    BY <1>2, <1>6 DEF RequestOK, SessionOK, Session, Number
  <2>3. q.pc = "reset" => ResetOK(q.session.reset, q.row)'
    BY <1>3, <1>6 DEF RequestOK, SessionOK, Session, Number
  <2>4. q.pc = "settings" => UserOK(q.row)'
    BY <1>5, <1>6 DEF RequestOK
  <2>5. q.pc = "code" => q.id \in Number /\ q.id <= number'
    BY <1>6 DEF RequestOK, Grows, Number
  <2> QED BY <1>6, <2>1, <2>2, <2>3, <2>4, <2>5 DEF RequestOK
<1> QED BY <1>1, <1>2, <1>3, <1>4, <1>5, <1>6

(* A step that changes nothing of a table, or one entry of it, or deletes   *)
(* entries.                                                                 *)
LEMMA TablesLast ==
    ASSUME Copies, Grows
    PROVE  /\ user' = user => UsersOK'
           /\ regs' = regs => RegsOK'
           /\ resets' = resets => ResetsOK'
           /\ logins' = logins => LoginsOK'
           /\ browser' = browser => BrowsersOK'
           /\ request' = request => RequestsOK'
BY CopiesLast DEF Copies, UsersOK, RegsOK, ResetsOK, LoginsOK, BrowsersOK, RequestsOK

(* One account is written, or deleted.                                      *)
LEMMA UserPut ==
    ASSUME Copies, Grows, NEW u \in Account, NEW row,
           row \in Gone \/ UserOK(row)', user' = [user EXCEPT ![u] = row]
    PROVE  UsersOK'
<1>1. row \in UserRow \cup Gone
  BY DEF UserOK
<1>2. user' \in [Account -> UserRow \cup Gone]
  BY <1>1 DEF Copies, UsersOK
<1>3. ASSUME NEW v \in Account
      PROVE  user'[v] \in Gone \/ UserOK(user[v])'
  <2>1. CASE v = u
    BY <2>1 DEF Copies, UsersOK
  <2>2. CASE v # u
    <3>1. user'[v] = user[v]
      BY <2>2 DEF Copies, UsersOK
    <3> QED BY <3>1, CopiesLast DEF Copies, UsersOK
  <2> QED BY <2>1, <2>2
<1> QED BY <1>2, <1>3 DEF UsersOK

(* The registration rows: each is kept, deleted or written.                 *)
LEMMA RegsPut ==
    ASSUME Copies, Grows, regs' = [n \in Number |-> regs'[n]],
           \A n \in Number : regs'[n] \in {regs[n], None} \/ RegOK(n, regs[n])'
    PROVE  RegsOK'
<1>1. ASSUME NEW n \in Number
      PROVE  /\ regs'[n] = None \/ RegOK(n, regs[n])'
             /\ regs'[n] \in RegRow \cup {None}
  <2>1. CASE regs'[n] = regs[n]
    <3>1. regs[n] = None \/ RegOK(n, regs[n])
      BY DEF Copies, RegsOK
    <3> QED BY <2>1, <3>1, CopiesLast DEF RegOK
  <2>2. CASE regs'[n] # regs[n]
    BY <2>2 DEF RegOK
  <2> QED BY <2>1, <2>2
<1>2. regs' \in [Number -> RegRow \cup {None}]
  BY <1>1
<1> QED BY <1>1, <1>2 DEF RegsOK

(* The rows of resets likewise.                                             *)
LEMMA ResetsPut ==
    ASSUME Copies, Grows, resets' = [n \in Number |-> resets'[n]],
           \A n \in Number : resets'[n] \in {resets[n], None} \/ ResetOK(n, resets[n])'
    PROVE  ResetsOK'
<1>1. ASSUME NEW n \in Number
      PROVE  /\ resets'[n] = None \/ ResetOK(n, resets[n])'
             /\ resets'[n] \in ResetRow \cup {None}
  <2>1. CASE resets'[n] = resets[n]
    <3>1. resets[n] = None \/ ResetOK(n, resets[n])
      BY DEF Copies, ResetsOK
    <3> QED BY <2>1, <3>1, CopiesLast DEF ResetOK
  <2>2. CASE resets'[n] # resets[n]
    BY <2>2 DEF ResetOK
  <2> QED BY <2>1, <2>2
<1>2. resets' \in [Number -> ResetRow \cup {None}]
  BY <1>1
<1> QED BY <1>1, <1>2 DEF ResetsOK

(* And the second factors.                                                  *)
LEMMA LoginsPut ==
    ASSUME Copies, Grows, logins' = [n \in Number |-> logins'[n]],
           \A n \in Number : logins'[n] \in {logins[n], None} \/ LoginOK(n, logins[n])'
    PROVE  LoginsOK'
<1>1. ASSUME NEW n \in Number
      PROVE  /\ logins'[n] = None \/ LoginOK(n, logins[n])'
             /\ logins'[n] \in LoginRow \cup {None}
  <2>1. CASE logins'[n] = logins[n]
    <3>1. logins[n] = None \/ LoginOK(n, logins[n])
      BY DEF Copies, LoginsOK
    <3> QED BY <2>1, <3>1, CopiesLast DEF LoginOK
  <2>2. CASE logins'[n] # logins[n]
    BY <2>2 DEF LoginOK
  <2> QED BY <2>1, <2>2
<1>2. logins' \in [Number -> LoginRow \cup {None}]
  BY <1>1
<1> QED BY <1>1, <1>2 DEF LoginsOK

(* A request goes on as another record, or is gone.                         *)
LEMMA RequestPut ==
    ASSUME Copies, Grows, NEW r \in Request, NEW q,
           q = None \/ RequestOK(q)', request' = [request EXCEPT ![r] = q]
    PROVE  RequestsOK'
<1>1. request' = [s \in Request |-> request'[s]]
  BY DEF Copies, RequestsOK
<1>2. ASSUME NEW s \in Request
      PROVE  request'[s] = None \/ RequestOK(request[s])'
  <2>1. CASE s = r
    BY <2>1 DEF Copies, RequestsOK
  <2>2. CASE s # r
    <3>1. request'[s] = request[s]
      BY <2>2 DEF Copies, RequestsOK
    <3> QED BY <3>1, CopiesLast DEF Copies, RequestsOK
  <2> QED BY <2>1, <2>2
<1> QED BY <1>1, <1>2 DEF RequestsOK

(* The session is saved at the end of a request.                            *)
LEMMA EndsKeeps ==
    ASSUME Copies, Grows, NEW r \in Request, request[r] # None, NEW s,
           SessionOK(s)', Ends(r, s)
    PROVE  BrowsersOK' /\ RequestsOK'
<1>1. RequestOK(request[r])
  BY DEF Copies, RequestsOK
<1>2. request[r].browser \in Browser /\ s \in Session
  BY <1>1 DEF RequestOK, SessionOK
<1>3. RequestsOK'
  <2>1. request' = [request EXCEPT ![r] = None]
    BY DEF Ends
  <2> QED BY <2>1, RequestPut
<1>4. CASE browser' = browser
  BY <1>3, <1>4, TablesLast
<1>5. CASE browser' = [browser EXCEPT ![request[r].browser] = s]
  <2>1. browser' \in [Browser -> Session]
    BY <1>2, <1>5 DEF Copies, BrowsersOK
  <2>2. ASSUME NEW b \in Browser
        PROVE  SessionOK(browser[b])'
    <3>1. CASE b = request[r].browser
      BY <1>2, <1>5, <3>1 DEF Copies, BrowsersOK
    <3>2. CASE b # request[r].browser
      <4>1. browser'[b] = browser[b]
        BY <1>2, <1>5, <3>2 DEF Copies, BrowsersOK
      <4> QED BY <4>1, CopiesLast DEF Copies, BrowsersOK
    <3> QED BY <3>1, <3>2
  <2> QED BY <1>3, <2>1, <2>2 DEF BrowsersOK
<1> QED BY <1>4, <1>5 DEF Ends

(* As it was read.                                                          *)
LEMMA EndsUnchangedKeeps ==
    ASSUME Copies, Grows, NEW r \in Request, request[r] # None, EndsUnchanged(r)
    PROVE  BrowsersOK' /\ RequestsOK'
<1>1. PICK s : s = request[r].session
  OBVIOUS
<1>2. SessionOK(s)'
  BY <1>1, CopiesLast DEF Copies, RequestsOK, RequestOK
<1> QED BY <1>1, <1>2, EndsKeeps DEF EndsUnchanged

(* A request begins: nothing else changes.                                  *)
LEMMA BeginsKeeps ==
    ASSUME Copies, NEW r \in Request, NEW q, RequestOK(q), Begins(r, q)
    PROVE  Copies'
<1>1. /\ request' = [request EXCEPT ![r] = q]
      /\ UNCHANGED <<user, regs, resets, logins, browser, counter, number, mailed,
                     history>>
  BY DEF Begins
<1>2. Grows
  BY <1>1 DEF Grows, Copies, NumbersOK
<1>3. RequestsOK'
  <2>1. RequestOK(q)'
    BY <1>2, CopiesLast
  <2> QED BY <1>1, <1>2, <2>1, RequestPut
<1>4. NumbersOK'
  BY <1>1 DEF Copies, NumbersOK
<1> QED BY <1>1, <1>2, <1>3, <1>4, TablesLast DEF Copies

(* A request that is not idle holds good copies.                            *)
LEMMA HoldsCopies ==
    ASSUME Copies, NEW r \in Request, request[r] # None
    PROVE  RequestOK(request[r])
BY DEF Copies, RequestsOK

LEMMA AtHolds ==
    ASSUME Copies, NEW r \in Request, NEW pc, At(r, pc)
    PROVE  request[r] # None /\ request[r].pc = pc /\ RequestOK(request[r])
BY HoldsCopies DEF At

(* Nothing is mailed and nothing is entered.                                *)
LEMMA Still ==
    ASSUME Copies, UNCHANGED <<number, mailed, history>>, counter' \in [Key -> Nat]
    PROVE  Grows /\ NumbersOK'
BY DEF Copies, NumbersOK, Grows

(* Something is entered.                                                    *)
LEMMA Enters ==
    ASSUME Copies, UNCHANGED <<number, mailed>>, counter' \in [Key -> Nat],
           history' \in History,
           history.confirmed \subseteq history'.confirmed,
           history.carried \subseteq history'.carried,
           history.answered \subseteq history'.answered,
           history.proven \subseteq history'.proven
    PROVE  Grows /\ NumbersOK'
BY DEF Copies, NumbersOK, Grows

(* A code is mailed.                                                        *)
LEMMA CodeIsMailed ==
    ASSUME Copies, NEW e \in Email, Mails(number + 1, e), counter' = counter,
           history' \in History,
           history'.confirmed = history.confirmed,
           history.carried \subseteq history'.carried,
           history.answered \subseteq history'.answered,
           history'.proven = history.proven
    PROVE  /\ Grows /\ NumbersOK'
           /\ number + 1 \in Number /\ number' = number + 1 /\ number \in Nat \ {0}
           /\ mailed'[number + 1] = e
<1>1. /\ number \in Nat \ {0} /\ number' = number + 1 /\ number + 1 \in Number
      /\ mailed' = [mailed EXCEPT ![number + 1] = e]
  BY DEF Copies, NumbersOK, Mails, Number
<1>2. mailed' \in [Number -> Email \cup {None}] /\ mailed'[number + 1] = e
  BY <1>1 DEF Copies, NumbersOK
<1>3. ASSUME NEW n \in Number, n <= number
      PROVE  mailed'[n] = mailed[n]
  BY <1>1, <1>3 DEF Copies, NumbersOK, Number
<1> QED BY <1>1, <1>2, <1>3 DEF Copies, NumbersOK, Grows

(* A number is given out for something else.                                *)
LEMMA NumberIsDrawn ==
    ASSUME Copies, number < MaxNumber, number' = number + 1, mailed' = mailed,
           counter' = counter, history' \in History,
           history'.confirmed = history.confirmed, history'.carried = history.carried,
           history'.answered = history.answered, history'.proven = history.proven
    PROVE  Grows /\ NumbersOK' /\ number' \in Number /\ number \in Nat \ {0}
BY AccountsAssumption DEF Copies, NumbersOK, Grows, Number

-------------------------------------------------------------------------------
(* The actions: requests that end, the limiter, and the clock               *)

LEMMA RefuseKeeps ==
    ASSUME Copies, NEW r \in Request, Refuse(r)
    PROVE  Copies'
<1>1. Grows /\ NumbersOK'
  BY Still DEF Refuse, Copies, NumbersOK
<1>2. BrowsersOK' /\ RequestsOK'
  BY <1>1, EndsUnchangedKeeps DEF Refuse
<1> QED BY <1>1, <1>2, TablesLast DEF Copies, Refuse

LEMMA DieKeeps ==
    ASSUME Copies, NEW r \in Request, Die(r)
    PROVE  Copies'
<1>1. /\ request[r] # None /\ request[r].pc = "questions" /\ RequestOK(request[r])
      /\ history' = [history EXCEPT !.broken = @ \cup {request[r].account}]
      /\ request' = [request EXCEPT ![r] = None]
      /\ UNCHANGED <<user, regs, resets, logins, browser, counter, number, mailed>>
  BY AtHolds DEF Die
<1>2. request[r].account \in Account
  BY <1>1 DEF RequestOK
<1>3. Grows /\ NumbersOK'
  <2>1. /\ history' \in History
        /\ \A f \in {"confirmed", "carried", "answered", "proven"} :
              history'[f] = history[f]
    BY <1>1, <1>2 DEF Copies, NumbersOK, History
  <2>2. /\ history'.confirmed = history.confirmed /\ history'.carried = history.carried
        /\ history'.answered = history.answered /\ history'.proven = history.proven
       
    BY <1>1 DEF Copies, NumbersOK, History
  <2> QED BY <1>1, <2>1, <2>2, Enters DEF Copies, NumbersOK
<1>4. RequestsOK'
  BY <1>1, <1>3, RequestPut
<1> QED BY <1>1, <1>3, <1>4, TablesLast DEF Copies

(* What a step of record_attempt does to the first of its keys: it goes on, *)
(* or it has counted the failure, by setting the key back if it must.       *)
Turns(r) ==
    /\ UNCHANGED <<counter, history, browser>>
    /\ \E pc \in {"add", "again", "set"} : request' = [request EXCEPT ![r].pc = pc]

Adds(k) ==
    /\ counter' = [counter EXCEPT ![k] = counter[k] + 1]
    /\ history' = [history EXCEPT !.counted[k] = @ + 1]

SetsBack(k) ==
    /\ counter[k] > 0 /\ counter' = [counter EXCEPT ![k] = 1]
    /\ history' = [history EXCEPT !.counted[k] = @ + 1, !.overwritten = @ \cup {k}]

NextKey(r) ==
    \/ Len(request[r].todo) = 1 /\ EndsUnchanged(r)
    \/ /\ Len(request[r].todo) # 1 /\ UNCHANGED browser
       /\ request' = [request EXCEPT ![r] = [request[r] EXCEPT
                         !.todo = Tail(request[r].todo), !.pc = "incr"]]

LEMMA AttemptSteps ==
    ASSUME Copies, NEW r \in Request, RecordAttempt(r)
    PROVE  /\ request[r] # None /\ request[r] \in Counting
           /\ Head(request[r].todo) \in Key
           /\ UNCHANGED <<user, regs, resets, logins, number, mailed>>
           /\ \/ Turns(r)
              \/ /\ Adds(Head(request[r].todo)) \/ SetsBack(Head(request[r].todo))
                 /\ NextKey(r)
<1> DEFINE k == Head(request[r].todo)
<1>1. request[r] # None /\ request[r] \in Counting
  BY HoldsCopies DEF RecordAttempt, RequestOK
<1>2. request[r].todo \in Todo
  BY <1>1 DEF Counting
<1>3. k \in Key
  BY <1>2 DEF Todo, Key
<1>4. UNCHANGED <<user, regs, resets, logins, number, mailed>>
  BY DEF RecordAttempt
<1>5. counter[k] \in Nat /\ history \in History /\ counter \in [Key -> Nat]
  BY <1>3 DEF Copies, NumbersOK
<1>6. ASSUME Counts(r, k)
      PROVE  history' = [history EXCEPT !.counted[k] = @ + 1] /\ NextKey(r)
  BY <1>1, <1>6 DEF Counts, NextKey, Copies, RequestsOK
<1>7. ASSUME NEW pc, NEW otherwise \in {"add", "set"}, Incr(r, k, pc, otherwise)
      PROVE  Turns(r) \/ (Adds(k) /\ NextKey(r))
  BY <1>6, <1>7 DEF Incr, Goes, Turns, Adds
<1>8. ASSUME Add(r, k)
      PROVE  Turns(r) \/ (Adds(k) /\ NextKey(r))
  BY <1>5, <1>6, <1>8 DEF Add, Goes, Turns, Adds
<1>9. ASSUME LastResort(r, k)
      PROVE  (Adds(k) \/ SetsBack(k)) /\ NextKey(r)
  <2>1. NextKey(r)
    BY <1>1, <1>9 DEF LastResort, NextKey, Copies, RequestsOK
  <2>2. ASSUME counter[k] > 0
        PROVE  SetsBack(k)
    BY <1>9, <2>2 DEF LastResort, SetsBack
  <2>3. ASSUME counter[k] = 0
        PROVE  Adds(k)
    <3>1. history' = [history EXCEPT !.counted[k] = @ + 1, !.overwritten = @]
      BY <1>9, <2>3 DEF LastResort
    <3>2. history' = [history EXCEPT !.counted[k] = @ + 1]
      BY <1>5, <3>1 DEF History
    <3>3. counter' = [counter EXCEPT ![k] = counter[k] + 1]
      BY <1>9, <2>3 DEF LastResort
    <3> QED BY <3>2, <3>3 DEF Adds
  <2> QED BY <1>5, <2>1, <2>2, <2>3
<1>10. \/ Incr(r, k, "incr", "add") \/ Add(r, k)
       \/ Incr(r, k, "again", "set") \/ LastResort(r, k)
  BY DEF RecordAttempt
<1>11. Turns(r) \/ ((Adds(k) \/ SetsBack(k)) /\ NextKey(r))
  BY <1>7, <1>8, <1>9, <1>10
<1> QED BY <1>1, <1>3, <1>4, <1>11

LEMMA RecordAttemptKeeps ==
    ASSUME Copies, NEW r \in Request, RecordAttempt(r)
    PROVE  Copies'
<1>1. /\ request[r] # None /\ request[r] \in Counting
      /\ Head(request[r].todo) \in Key
      /\ UNCHANGED <<user, regs, resets, logins, number, mailed>>
      /\ \/ Turns(r)
         \/ /\ Adds(Head(request[r].todo)) \/ SetsBack(Head(request[r].todo))
            /\ NextKey(r)
  BY AttemptSteps
<1>2. PICK k \in Key : k = Head(request[r].todo)
  BY <1>1
<1>3. Grows /\ NumbersOK'
  <2>1. CASE Turns(r)
    BY <1>1, <2>1, Still DEF Turns, Copies, NumbersOK
  <2>2. CASE Adds(k) \/ SetsBack(k)
    <3>1. history \in History /\ counter \in [Key -> Nat]
      BY DEF Copies, NumbersOK
    <3>2. counter' \in [Key -> Nat]
      BY <2>2, <3>1 DEF Adds, SetsBack
    <3>3. [history.counted EXCEPT ![k] = @ + 1] \in [Key -> Nat]
      BY <3>1 DEF History
    <3>4. PICK c \in [Key -> Nat] : c = [history.counted EXCEPT ![k] = @ + 1]
      BY <3>3
    <3>5. \/ history' = [history EXCEPT !.counted = c]
          \/ history' = [history EXCEPT !.counted = c,
                                        !.overwritten = history.overwritten \cup {k}]
      BY <2>2, <3>4 DEF Adds, SetsBack
    <3>6. /\ history' \in History
          /\ history'.confirmed = history.confirmed /\ history'.carried = history.carried
          /\ history'.answered = history.answered /\ history'.proven = history.proven
         
      <4>1. history.overwritten \cup {k} \in SUBSET Key
        BY <1>2, <3>1 DEF History
      <4> QED BY <3>1, <3>5, <4>1 DEF History
    <3> QED BY <1>1, <3>2, <3>6, Enters DEF Copies, NumbersOK
  <2> QED BY <1>1, <1>2, <2>1, <2>2
<1>4. BrowsersOK' /\ RequestsOK'
  <2>1. RequestOK(request[r]) /\ SessionOK(request[r].session)
    BY <1>1, HoldsCopies DEF RequestOK
  <2>2. ASSUME NEW q \in Counting, q.session = request[r].session, browser' = browser,
               request' = [request EXCEPT ![r] = q]
        PROVE  BrowsersOK' /\ RequestsOK'
    <3>1. RequestOK(q)
      BY <2>1, <2>2 DEF RequestOK, Counting, Pc
    <3>2. RequestOK(q)'
      BY <1>3, <3>1, CopiesLast
    <3> QED BY <1>3, <2>2, <3>2, RequestPut, TablesLast
  <2>3. CASE Turns(r)
    <3>1. PICK pc \in {"add", "again", "set"} : request' = [request EXCEPT ![r].pc = pc]
      BY <2>3 DEF Turns
    <3>2. PICK q : q = [request[r] EXCEPT !.pc = pc]
      OBVIOUS
    <3>3. q \in Counting /\ q.session = request[r].session
      BY <1>1, <3>2 DEF Counting
    <3>4. request' = [request EXCEPT ![r] = q]
      BY <3>1, <3>2
    <3> QED BY <2>2, <2>3, <3>3, <3>4 DEF Turns
  <2>4. CASE Len(request[r].todo) = 1 /\ EndsUnchanged(r)
    BY <1>1, <1>3, <2>4, EndsUnchangedKeeps
  <2>5. CASE /\ Len(request[r].todo) # 1 /\ UNCHANGED browser
             /\ request' = [request EXCEPT ![r] = [request[r] EXCEPT
                               !.todo = Tail(request[r].todo), !.pc = "incr"]]
    <3>1. PICK q : q = [request[r] EXCEPT !.todo = Tail(request[r].todo), !.pc = "incr"]
      OBVIOUS
    <3>2. Tail(request[r].todo) \in Todo
      <4>1. request[r].todo \in Todo
        BY <1>1 DEF Counting
      <4>2. request[r].todo = << <<"login", 0>>, <<"trigger", 0>> >>
        BY <2>5, <4>1 DEF Todo
      <4> QED BY <4>2 DEF Todo
    <3>3. q \in Counting /\ q.session = request[r].session
      BY <1>1, <3>1, <3>2 DEF Counting
    <3> QED BY <2>2, <2>5, <3>1, <3>3
  <2> QED BY <1>1, <2>3, <2>4, <2>5 DEF NextKey
<1> QED BY <1>1, <1>3, <1>4, TablesLast DEF Copies

(* The step before: a failure is about to be counted.                       *)
LEMMA FailsKeeps ==
    ASSUME Copies, Grows, NEW r \in Request, request[r] # None, NEW keys \in Todo,
           Fails(r, keys)
    PROVE  RequestsOK'
<1>1. RequestOK(request[r])
  BY HoldsCopies
<1>2. PICK q : q = [pc |-> "incr", browser |-> request[r].browser,
                    session |-> request[r].session, todo |-> keys]
  OBVIOUS
<1>3. RequestOK(q)
  BY <1>1, <1>2 DEF RequestOK, SessionOK, Counting, Pc
<1>4. request' = [request EXCEPT ![r] = q]
  BY <1>2 DEF Fails, Copies, RequestsOK
<1> QED BY <1>3, <1>4, CopiesLast, RequestPut

LEMMA WindowEndsKeeps ==
    ASSUME Copies, NEW k \in Key, WindowEnds(k)
    PROVE  Copies'
<1>1. /\ counter' = [counter EXCEPT ![k] = 0]
      /\ history' = [history EXCEPT !.counted[k] = 0, !.overwritten = @ \ {k}]
      /\ UNCHANGED <<user, regs, resets, logins, browser, request, number, mailed>>
  BY DEF WindowEnds
<1>2. Grows /\ NumbersOK'
  <2>1. history \in History /\ counter \in [Key -> Nat]
    BY DEF Copies, NumbersOK
  <2>2. [history.counted EXCEPT ![k] = 0] \in [Key -> Nat] /\ counter' \in [Key -> Nat]
    BY <1>1, <2>1 DEF History
  <2>3. /\ history' \in History
        /\ history'.confirmed = history.confirmed /\ history'.carried = history.carried
        /\ history'.answered = history.answered /\ history'.proven = history.proven
       
    BY <1>1, <2>1, <2>2 DEF History
  <2> QED BY <1>1, <2>2, <2>3, Enters DEF Copies, NumbersOK
<1> QED BY <1>1, <1>2, TablesLast DEF Copies

-------------------------------------------------------------------------------
(* The registration *)

LEMMA RegistrationBegins ==
    ASSUME Copies, NEW r \in Request, NEW b \in Browser,
           Register(r, b) \/ VerifyEmail(r, b) \/ AnswerFirstQuestions(r, b)
    PROVE  Copies'
<1>1. SessionOK(browser[b])
  BY DEF Copies, BrowsersOK
<1>2. CASE Register(r, b)
  <2>1. PICK e \in Email : Begins(r, [pc |-> "register", browser |-> b, email |-> e,
                                      session |-> browser[b]])
    BY <1>2 DEF Register
  <2>2. PICK q : q = [pc |-> "register", browser |-> b, email |-> e,
                      session |-> browser[b]]
    OBVIOUS
  <2>3. RequestOK(q)
    BY <1>1, <2>2 DEF RequestOK, Pc
  <2> QED BY <2>1, <2>2, <2>3, BeginsKeeps
<1>3. CASE VerifyEmail(r, b) \/ AnswerFirstQuestions(r, b)
  <2>1. /\ browser[b].reg \in Number /\ browser[b].reg # 0
        /\ RegOK(browser[b].reg, regs[browser[b].reg])
    BY <1>1, <1>3 DEF VerifyEmail, AnswerFirstQuestions, Registering, SessionOK, Session,
                      Number, Copies, RegsOK
  <2>2. PICK q : q = [pc |-> IF VerifyEmail(r, b) THEN "verify" ELSE "create",
                      browser |-> b, session |-> browser[b],
                      row |-> regs[browser[b].reg]]
    OBVIOUS
  <2>3. ~VerifyEmail(r, b) => browser[b].confirmed
    BY <1>3 DEF AnswerFirstQuestions
  <2>4. RequestOK(q)
    BY <1>1, <2>1, <2>2, <2>3 DEF RequestOK, Pc
  <2>5. CASE ~VerifyEmail(r, b)
    BY <1>3, <2>2, <2>4, <2>5, BeginsKeeps DEF AnswerFirstQuestions
  <2>6. CASE VerifyEmail(r, b)
    <3>1. PICK v : v = [pc |-> "verify", browser |-> b, session |-> browser[b],
                        row |-> regs[browser[b].reg],
                        allowed |-> Allowed(<<"code", browser[b].reg>>)]
      OBVIOUS
    <3>2. RequestOK(v)
      BY <1>1, <2>1, <3>1 DEF RequestOK, Pc
    <3> QED BY <2>6, <3>1, <3>2, BeginsKeeps DEF VerifyEmail
  <2> QED BY <2>5, <2>6
<1> QED BY <1>2, <1>3

LEMMA CreateVerificationKeeps ==
    ASSUME Copies, NEW r \in Request, CreateVerification(r)
    PROVE  Copies'
<1>1. /\ request[r] # None /\ request[r].email \in Email
      /\ SessionOK(request[r].session)
  BY AtHolds DEF CreateVerification, RequestOK
<1>2. PICK e \in Email : e = request[r].email
  BY <1>1
<1>3. PICK s : s = request[r].session
  OBVIOUS
<1>4. /\ Mails(number + 1, e)
      /\ regs' = [n \in Number |->
            CASE n = number + 1 -> [email |-> e, code |-> number + 1]
              [] regs[n] # None /\ regs[n].email = e -> None
              [] OTHER -> regs[n]]
      /\ Ends(r, [s EXCEPT !.reg = number + 1])
      /\ history' = IF s.confirmed
                    THEN [history EXCEPT !.carried = @ \cup {e}] ELSE history
      /\ UNCHANGED <<user, resets, logins, counter>>
  BY <1>2, <1>3 DEF CreateVerification
<1>5. /\ history' \in History /\ history'.confirmed = history.confirmed
      /\ history.carried \subseteq history'.carried
      /\ history'.answered = history.answered
      /\ history'.proven = history.proven
      /\ s.confirmed => e \in history'.carried
  BY <1>4 DEF Copies, NumbersOK, History
<1>6. /\ Grows /\ NumbersOK'
      /\ number + 1 \in Number /\ number' = number + 1 /\ number \in Nat \ {0}
      /\ mailed'[number + 1] = e
  BY <1>4, <1>5, CodeIsMailed
<1>7. PICK id \in Number : id = number + 1
  BY <1>6
<1>8. PICK new : new = [email |-> e, code |-> id]
  OBVIOUS
<1>9. RegOK(id, new)'
  BY <1>6, <1>7, <1>8 DEF RegOK, RegRow, Number
<1>10. RegsOK'
  <2>1. regs' = [n \in Number |-> regs'[n]]
    BY <1>4
  <2>2. ASSUME NEW n \in Number
        PROVE  regs'[n] \in {regs[n], None} \/ (n = id /\ regs'[n] = new)
    BY <1>4, <1>7, <1>8
  <2> QED BY <1>6, <1>9, <2>1, <2>2, RegsPut
<1>11. PICK t : t = [s EXCEPT !.reg = id]
  OBVIOUS
<1>12. SessionOK(t)'
  <2>1. /\ t \in Session /\ t.reg = id /\ t.reset = s.reset /\ t.confirmed = s.confirmed
        /\ s.reset <= number /\ s.reset \in Nat
    BY <1>1, <1>3, <1>7, <1>11 DEF SessionOK, Session, Number
  <2> QED BY <1>5, <1>6, <1>7, <2>1 DEF SessionOK, Known, Number
<1>13. BrowsersOK' /\ RequestsOK'
  BY <1>1, <1>4, <1>6, <1>7, <1>11, <1>12, EndsKeeps
<1> QED BY <1>4, <1>6, <1>10, <1>13, TablesLast DEF Copies

(* A code that was mailed to an address proves it.                          *)
LEMMA EnterEmailCodeKeeps ==
    ASSUME Copies, NEW r \in Request, EnterEmailCode(r)
    PROVE  Copies'
<1>1. /\ request[r] # None /\ request[r].pc = "verify"
      /\ SessionOK(request[r].session) /\ request[r].session.reg # 0
      /\ RegOK(request[r].session.reg, request[r].row)
  BY AtHolds DEF EnterEmailCode, RequestOK
<1>2. PICK s : s = request[r].session
  OBVIOUS
<1>3. s \in Session /\ s.reg \in Number
  BY <1>1, <1>2 DEF SessionOK, Session, Number
<1>4. UNCHANGED <<user, regs, resets, logins, counter, number, mailed>>
  BY DEF EnterEmailCode
<1>5. PICK typed \in Typed :
        IF CodeMatches(typed, request[r].row.code)
        THEN /\ Ends(r, [request[r].session EXCEPT !.confirmed = TRUE])
             /\ history' = [history EXCEPT !.confirmed = @ \cup {mailed[typed]}]
        ELSE /\ Fails(r, << <<"code", request[r].session.reg>> >>)
             /\ UNCHANGED <<browser, history>>
  BY DEF EnterEmailCode
<1>6. CASE CodeMatches(typed, request[r].row.code)
  <2>1. PICK e \in Email : e = mailed[s.reg] /\ e = mailed[typed]
    BY <1>1, <1>2, <1>6 DEF CodeMatches, RegOK, RegRow
  <2>2. /\ Ends(r, [s EXCEPT !.confirmed = TRUE])
        /\ history' = [history EXCEPT !.confirmed = @ \cup {e}]
    BY <1>2, <1>5, <1>6, <2>1
  <2>3. /\ history' \in History /\ history'.confirmed = history.confirmed \cup {e}
        /\ history'.carried = history.carried
        /\ history'.answered = history.answered
        /\ history'.proven = history.proven
    BY <2>2 DEF Copies, NumbersOK, History
  <2>4. Grows /\ NumbersOK'
    BY <1>4, <2>3, Enters DEF Copies, NumbersOK
  <2>5. PICK t : t = [s EXCEPT !.confirmed = TRUE]
    OBVIOUS
  <2>6. SessionOK(t)'
    <3>1. /\ t \in Session /\ t.reg = s.reg /\ t.reset = s.reset
          /\ s.reg <= number /\ s.reset <= number
      BY <1>1, <1>2, <1>3, <2>5 DEF SessionOK, Session
    <3> QED BY <1>4, <2>1, <2>3, <3>1 DEF SessionOK, Known
  <2>7. BrowsersOK' /\ RequestsOK'
    BY <1>1, <2>2, <2>4, <2>5, <2>6, EndsKeeps
  <2> QED BY <1>4, <2>4, <2>7, TablesLast DEF Copies
<1>7. CASE ~CodeMatches(typed, request[r].row.code)
  <2>1. Fails(r, << <<"code", s.reg>> >>) /\ UNCHANGED <<browser, history>>
    BY <1>2, <1>5, <1>7
  <2>2. Grows /\ NumbersOK'
    BY <1>4, <2>1, Still DEF Copies, NumbersOK
  <2>3. << <<"code", s.reg>> >> \in Todo
    BY <1>3 DEF Todo
  <2>4. RequestsOK'
    BY <1>1, <2>1, <2>2, <2>3, FailsKeeps
  <2> QED BY <1>4, <2>1, <2>2, <2>4, TablesLast DEF Copies
<1> QED BY <1>6, <1>7

LEMMA ResendEmailCodeKeeps ==
    ASSUME Copies, NEW r \in Request, ResendEmailCode(r)
    PROVE  Copies'
<1>1. /\ request[r] # None
      /\ SessionOK(request[r].session) /\ request[r].session.reg # 0
      /\ RegOK(request[r].session.reg, request[r].row)
  BY AtHolds DEF ResendEmailCode, RequestOK
<1>2. PICK n \in Number : n = request[r].session.reg
  BY <1>1 DEF SessionOK, Session, Number
<1>3. PICK row \in RegRow : row = request[r].row
  BY <1>1 DEF RegOK
<1>4. /\ Mails(number + 1, row.email)
      /\ regs' = [regs EXCEPT ![n] = [row EXCEPT !.code = number + 1]]
      /\ EndsUnchanged(r)
      /\ UNCHANGED <<user, resets, logins, counter, history>>
  BY <1>2, <1>3 DEF ResendEmailCode
<1>5. row.email \in Email
  BY DEF RegRow
<1>6. /\ Grows /\ NumbersOK'
      /\ number + 1 \in Number /\ number' = number + 1 /\ number \in Nat \ {0}
      /\ mailed'[number + 1] = row.email
  BY <1>4, <1>5, CodeIsMailed DEF Copies, NumbersOK
<1>7. PICK id \in Number : id = number + 1
  BY <1>6
<1>8. PICK new : new = [row EXCEPT !.code = id]
  OBVIOUS
<1>9. RegOK(n, new)'
  <2>1. /\ n <= number /\ mailed[n] = row.email
    BY <1>1, <1>2, <1>3 DEF RegOK
  <2>2. new \in RegRow /\ new.email = row.email /\ new.code = id
    BY <1>8 DEF RegRow
  <2>3. mailed'[n] = mailed[n]
    BY <1>6, <2>1 DEF Grows
  <2> QED BY <1>6, <1>7, <2>1, <2>2, <2>3 DEF RegOK, Number
<1>10. RegsOK'
  <2>1. regs' = [regs EXCEPT ![n] = new]
    BY <1>4, <1>7, <1>8
  <2>2. regs' = [m \in Number |-> regs'[m]]
    BY <2>1 DEF Copies, RegsOK
  <2>3. ASSUME NEW m \in Number
        PROVE  regs'[m] \in {regs[m], None} \/ (m = n /\ regs'[m] = new)
    BY <2>1 DEF Copies, RegsOK
  <2> QED BY <1>6, <1>9, <2>2, <2>3, RegsPut
<1>11. BrowsersOK' /\ RequestsOK'
  BY <1>1, <1>4, <1>6, EndsUnchangedKeeps
<1> QED BY <1>4, <1>6, <1>10, <1>11, TablesLast DEF Copies

(* The address of the new account is that of the session's registration,    *)
(* and the session is confirmed.                                            *)
LEMMA CreateUserKeeps ==
    ASSUME Copies, NEW r \in Request, CreateUser(r)
    PROVE  Copies'
<1>1. /\ request[r] # None /\ request[r].browser \in Browser
      /\ SessionOK(request[r].session) /\ request[r].session.reg # 0
      /\ RegOK(request[r].session.reg, request[r].row)
      /\ request[r].session.confirmed
  BY AtHolds DEF CreateUser, RequestOK
<1>2. UNCHANGED <<regs, resets, logins, counter, number, mailed, history>>
  BY DEF CreateUser
<1>3. Grows /\ NumbersOK'
  BY <1>2, Still DEF Copies, NumbersOK
<1>4. CASE Taken(request[r].row.email)
  <2>1. EndsUnchanged(r) /\ user' = user
    BY <1>4 DEF CreateUser
  <2>2. BrowsersOK' /\ RequestsOK'
    BY <1>1, <1>3, <2>1, EndsUnchangedKeeps
  <2> QED BY <1>2, <1>3, <2>1, <2>2, TablesLast DEF Copies
<1>5. CASE ~Taken(request[r].row.email)
  <2>1. PICK u \in Account :
          /\ user' = [user EXCEPT ![u] = NewUser(request[r].row.email, 1)]
          /\ request' = [request EXCEPT ![r] =
                [pc |-> "questions", account |-> u, browser |-> @.browser,
                 session |-> @.session]]
          /\ browser' = browser
    BY <1>5 DEF CreateUser
  <2>2. PICK row : row = NewUser(request[r].row.email, 1)
    OBVIOUS
  <2>3. UserOK(row)'
    <3>1. request[r].row.email \in Email /\ request[r].row.email \in Known
      BY <1>1 DEF SessionOK, RegOK, RegRow
    <3>2. /\ row.email = request[r].row.email /\ row.pending = None
          /\ row \in UserRow
      BY <2>2, <3>1 DEF NewUser, UserRow
    <3>3. UserOK(row)
      BY <3>1, <3>2 DEF UserOK
    <3> QED BY <1>3, <3>3, CopiesLast
  <2>4. UsersOK'
    BY <1>3, <2>1, <2>2, <2>3, UserPut
  <2>5. PICK q : q = [pc |-> "questions", account |-> u, browser |-> request[r].browser,
                      session |-> request[r].session]
    OBVIOUS
  <2>6. RequestOK(q)
    BY <1>1, <2>5 DEF RequestOK, Pc
  <2>7. request' = [request EXCEPT ![r] = q]
    BY <2>1, <2>5 DEF Copies, RequestsOK
  <2>8. RequestsOK'
    BY <1>3, <2>6, <2>7, CopiesLast, RequestPut
  <2> QED BY <1>2, <1>3, <2>1, <2>4, <2>8, TablesLast DEF Copies
<1> QED BY <1>4, <1>5

(* Logging in keeps what the session knows of a registration or a reset.    *)
LEMMA LoggedInOK ==
    ASSUME NEW s, SessionOK(s), NEW u \in Account \cup {None}
    PROVE  /\ LoggedIn(s, u) \in Session
           /\ LoggedIn(s, u).reg = s.reg /\ LoggedIn(s, u).reset = s.reset
           /\ LoggedIn(s, u).confirmed = s.confirmed
<1>1. s \in Session
  BY DEF SessionOK
<1>2. PICK k \in Nat : k = s.key + 1
  BY <1>1 DEF Session
<1>3. LoggedIn(s, u) = [s EXCEPT !.key = k, !.user = u]
  BY <1>2 DEF LoggedIn
<1> QED BY <1>1, <1>3 DEF Session

LEMMA CreateQuestionsKeeps ==
    ASSUME Copies, NEW r \in Request, CreateQuestions(r)
    PROVE  Copies'
<1>1. /\ request[r] # None /\ request[r].account \in Account
      /\ SessionOK(request[r].session) /\ request[r].session.reg # 0
  BY AtHolds DEF CreateQuestions, RequestOK
<1>2. PICK u \in Account : u = request[r].account
  BY <1>1
<1>3. PICK id \in Number : id = request[r].session.reg
  BY <1>1 DEF SessionOK, Session, Number
<1>4. UNCHANGED <<resets, logins, counter, number, mailed>>
  BY DEF CreateQuestions
<1>5. CASE Exists(u)
  <2>1. /\ user' = [user EXCEPT ![u].questions = @ \cup {id}]
        /\ regs' = [regs EXCEPT ![id] = None]
        /\ Ends(r, [LoggedIn(request[r].session, u) EXCEPT
                    !.reg = 0, !.confirmed = FALSE])
        /\ history' = IF user[u].questions = {} THEN history
              ELSE [history EXCEPT !.broken = @ \cup {u}]
    BY <1>2, <1>3, <1>5 DEF CreateQuestions
  <2>2. /\ history' \in History /\ history'.confirmed = history.confirmed
        /\ history'.carried = history.carried
        /\ history'.answered = history.answered
        /\ history'.proven = history.proven
    BY <2>1 DEF Copies, NumbersOK, History
  <2>3. Grows /\ NumbersOK'
    BY <1>4, <2>2, Enters DEF Copies, NumbersOK
  <2>4. UsersOK'
    <3>1. PICK row : row = [user[u] EXCEPT !.questions = @ \cup {id}]
      OBVIOUS
    <3>2. UserOK(user[u])
      BY <1>5 DEF Exists, Copies, UsersOK, Gone
    <3>3. user' = [user EXCEPT ![u] = row]
      BY <2>1, <3>1
    <3>4. /\ row \in UserRow /\ row.email = user[u].email
          /\ row.pending = user[u].pending
      BY <3>1, <3>2 DEF UserOK, UserRow, Number
    <3>5. UserOK(row)
      BY <3>2, <3>4 DEF UserOK
    <3> QED BY <2>3, <3>3, <3>5, CopiesLast, UserPut
  <2>5. RegsOK'
    <3>1. regs' = [m \in Number |-> regs'[m]]
      BY <2>1 DEF Copies, RegsOK
    <3>2. ASSUME NEW m \in Number
          PROVE  regs'[m] \in {regs[m], None}
      BY <2>1 DEF Copies, RegsOK
    <3> QED BY <2>3, <3>1, <3>2, RegsPut
  <2>6. BrowsersOK' /\ RequestsOK'
    <3>1. PICK t : t = [LoggedIn(request[r].session, u) EXCEPT
                        !.reg = 0, !.confirmed = FALSE]
      OBVIOUS
    <3>2. /\ t \in Session /\ t.reg = 0 /\ t.reset = request[r].session.reset
          /\ t.reset <= number
      <4>1. PICK s : s = LoggedIn(request[r].session, u)
        OBVIOUS
      <4>2. s \in Session /\ s.reset = request[r].session.reset
        BY <1>1, <4>1, LoggedInOK
      <4>3. 0 \in 0..MaxNumber
        BY AccountsAssumption
      <4>4. t = [s EXCEPT !.reg = 0, !.confirmed = FALSE]
        BY <3>1, <4>1
      <4> QED BY <1>1, <4>2, <4>3, <4>4 DEF SessionOK, Session
    <3>3. SessionOK(t)'
      BY <1>4, <3>2 DEF SessionOK, Copies, NumbersOK
    <3> QED BY <1>1, <2>1, <2>3, <3>1, <3>3, EndsKeeps
  <2> QED BY <1>4, <2>3, <2>4, <2>5, <2>6, TablesLast DEF Copies
<1>6. CASE ~Exists(u)
  <2>1. /\ request' = [request EXCEPT ![r] = None]
        /\ UNCHANGED <<user, regs, browser, history>>
    BY <1>2, <1>6 DEF CreateQuestions
  <2>2. Grows /\ NumbersOK'
    BY <1>4, <2>1, Still DEF Copies, NumbersOK
  <2>3. RequestsOK'
    BY <2>1, <2>2, RequestPut
  <2> QED BY <1>4, <2>1, <2>2, <2>3, TablesLast DEF Copies
<1> QED BY <1>5, <1>6

-------------------------------------------------------------------------------
(* The password reset *)

LEMMA ResetBegins ==
    ASSUME Copies, NEW r \in Request, NEW b \in Browser,
           ForgotPassword(r, b) \/ ResetStep(r, b)
    PROVE  Copies'
<1>1. SessionOK(browser[b])
  BY DEF Copies, BrowsersOK
<1>2. CASE ForgotPassword(r, b)
  <2>1. PICK u \in Account :
          /\ Exists(u)
          /\ Begins(r, [pc |-> "forgot", browser |-> b, session |-> browser[b],
                        email |-> user[u].email])
    BY <1>2 DEF ForgotPassword
  <2>2. user[u].email \in Email
    BY <2>1 DEF Exists, Copies, UsersOK, Gone, UserOK, UserRow
  <2>3. PICK q : q = [pc |-> "forgot", browser |-> b, session |-> browser[b],
                      email |-> user[u].email]
    OBVIOUS
  <2>4. RequestOK(q)
    BY <1>1, <2>2, <2>3 DEF RequestOK, Pc
  <2> QED BY <2>1, <2>3, <2>4, BeginsKeeps
<1>3. CASE ResetStep(r, b)
  <2>1. /\ browser[b].reset \in Number /\ browser[b].reset # 0
        /\ ResetOK(browser[b].reset, resets[browser[b].reset])
    BY <1>1, <1>3 DEF ResetStep, SessionOK, Session, Number, Copies, ResetsOK
  <2>2. PICK q : q = [pc |-> "reset", browser |-> b, session |-> browser[b],
                      row |-> resets[browser[b].reset],
                      account |-> AccountOf(resets[browser[b].reset].email),
                      allowed |-> Allowed(<<"code", browser[b].reset>>)]
    OBVIOUS
  <2>3. Begins(r, q)
    BY <1>3, <2>2 DEF ResetStep
  <2>4. RequestOK(q)
    BY <1>1, <2>1, <2>2 DEF RequestOK, Pc, AccountOf
  <2> QED BY <2>3, <2>4, BeginsKeeps
<1> QED BY <1>2, <1>3

LEMMA CreateResetKeeps ==
    ASSUME Copies, NEW r \in Request, CreateReset(r)
    PROVE  Copies'
<1>1. /\ request[r] # None /\ request[r].email \in Email
      /\ SessionOK(request[r].session)
  BY AtHolds DEF CreateReset, RequestOK
<1>2. PICK e \in Email : e = request[r].email
  BY <1>1
<1>3. PICK s : s = request[r].session
  OBVIOUS
<1>4. /\ number < MaxNumber /\ number' = number + 1
      /\ resets' = [n \in Number |->
            CASE n = number' -> [email |-> e, answered |-> FALSE,
                                 code |-> 0, entered |-> FALSE]
              [] resets[n] # None /\ resets[n].email = e -> None
              [] OTHER -> resets[n]]
      /\ Ends(r, [s EXCEPT !.reset = number'])
      /\ UNCHANGED <<user, regs, logins, counter, mailed, history>>
  BY <1>2, <1>3 DEF CreateReset
<1>5. Grows /\ NumbersOK' /\ number' \in Number /\ number \in Nat \ {0}
  BY <1>4, NumberIsDrawn DEF Copies, NumbersOK
<1>6. PICK id \in Number : id = number'
  BY <1>5
<1>7. PICK new : new = [email |-> e, answered |-> FALSE, code |-> 0, entered |-> FALSE]
  OBVIOUS
<1>8. ResetOK(id, new)'
  <2>1. 0 \in 0..MaxNumber /\ 0 <= number'
    BY <1>5, AccountsAssumption DEF Number
  <2> QED BY <1>5, <1>6, <1>7, <2>1 DEF ResetOK, ResetRow, Number
<1>9. ResetsOK'
  <2>1. resets' = [n \in Number |-> resets'[n]]
    BY <1>4
  <2>2. ASSUME NEW n \in Number
        PROVE  resets'[n] \in {resets[n], None} \/ (n = id /\ resets'[n] = new)
    BY <1>4, <1>6, <1>7
  <2> QED BY <1>5, <1>8, <2>1, <2>2, ResetsPut
<1>10. PICK t : t = [s EXCEPT !.reset = id]
  OBVIOUS
<1>11. SessionOK(t)'
  <2>1. SessionOK(s)'
    BY <1>1, <1>3, <1>5, CopiesLast
  <2>2. s \in Session
    BY <1>1, <1>3 DEF SessionOK
  <2>3. t \in Session /\ t.reg = s.reg /\ t.reset = id /\ t.confirmed = s.confirmed
    BY <1>10, <2>2 DEF Session, Number
  <2> QED BY <1>5, <1>6, <2>1, <2>3 DEF SessionOK, Number
<1>12. BrowsersOK' /\ RequestsOK'
  BY <1>1, <1>4, <1>5, <1>6, <1>10, <1>11, EndsKeeps
<1> QED BY <1>4, <1>5, <1>9, <1>12, TablesLast DEF Copies

(* The later steps save the row they have read, with changes.               *)
LEMMA HoldsReset ==
    ASSUME Copies, NEW r \in Request, At(r, "reset")
    PROVE  /\ request[r] # None /\ SessionOK(request[r].session)
           /\ ResetId(r) \in Number
           /\ ResetOK(ResetId(r), request[r].row)
           /\ request[r].row \in ResetRow /\ request[r].row.email \in Email
           /\ request[r].account \subseteq Account
BY AtHolds DEF RequestOK, SessionOK, Session, ResetId, Number, ResetOK, ResetRow

LEMMA SaveResetKeeps ==
    ASSUME Copies, Grows, NEW r \in Request, At(r, "reset"), NEW row,
           NEW n \in Number, n = ResetId(r),
           SaveReset(r, row), row = None \/ ResetOK(n, row)'
    PROVE  ResetsOK'
<1>1. resets' = [resets EXCEPT ![n] = row]
  BY DEF SaveReset
<1>2. resets' = [m \in Number |-> resets'[m]]
  BY <1>1 DEF Copies, ResetsOK
<1>3. ASSUME NEW m \in Number
      PROVE  resets'[m] = resets[m] \/ (m = n /\ resets'[m] = row)
  BY <1>1 DEF Copies, ResetsOK
<1> QED BY <1>2, <1>3, ResetsPut

LEMMA AnswerQuestionsKeeps ==
    ASSUME Copies, NEW r \in Request, AnswerQuestions(r)
    PROVE  Copies'
<1>1. /\ At(r, "reset") /\ request[r] # None /\ SessionOK(request[r].session)
      /\ ResetOK(ResetId(r), request[r].row)
  BY HoldsReset DEF AnswerQuestions
<1>2. PICK n \in Number : n = ResetId(r)
  BY <1>1, HoldsReset
<1>3. PICK row \in ResetRow : row = request[r].row
  BY <1>1, HoldsReset
<1>4. /\ Mails(number + 1, row.email)
      /\ SaveReset(r, [row EXCEPT !.answered = TRUE, !.code = number + 1])
      /\ history' = [history EXCEPT !.answered = @ \cup {n}]
      /\ EndsUnchanged(r)
      /\ UNCHANGED <<user, regs, logins, counter>>
  BY <1>2, <1>3 DEF AnswerQuestions
<1>5. /\ history' \in History /\ history'.confirmed = history.confirmed
      /\ history'.carried = history.carried
      /\ history'.answered = history.answered \cup {n}
      /\ history'.proven = history.proven
  BY <1>4 DEF Copies, NumbersOK, History
<1>6. row.email \in Email
  BY DEF ResetRow
<1>7. /\ Grows /\ NumbersOK'
      /\ number + 1 \in Number /\ number' = number + 1 /\ number \in Nat \ {0}
      /\ mailed'[number + 1] = row.email
  BY <1>4, <1>5, <1>6, CodeIsMailed
<1>8. PICK code \in Number : code = number + 1
  BY <1>7
<1>9. PICK new : new = [row EXCEPT !.answered = TRUE, !.code = code]
  OBVIOUS
<1>10. ResetOK(n, new)'
  <2>1. /\ new \in ResetRow /\ new.email = row.email /\ new.code = code
        /\ new.entered = row.entered
    <3>1. code \in 0..MaxNumber
      BY <1>8 DEF Number
    <3> QED BY <1>3, <1>9, <3>1 DEF ResetRow
  <2>2. n <= number /\ (row.entered => n \in history.answered \cap history.proven)
    BY <1>1, <1>2, <1>3 DEF ResetOK
  <2> QED BY <1>5, <1>7, <1>8, <2>1, <2>2 DEF ResetOK, Number
<1>11. ResetsOK'
  BY <1>1, <1>2, <1>4, <1>7, <1>8, <1>9, <1>10, SaveResetKeeps
<1>12. BrowsersOK' /\ RequestsOK'
  BY <1>1, <1>4, <1>7, EndsUnchangedKeeps
<1> QED BY <1>4, <1>7, <1>11, <1>12, TablesLast DEF Copies

(* The code that matches was mailed to the address of the row.              *)
LEMMA EnterResetCodeKeeps ==
    ASSUME Copies, NEW r \in Request, EnterResetCode(r)
    PROVE  Copies'
<1>1. /\ At(r, "reset") /\ request[r] # None /\ SessionOK(request[r].session)
      /\ ResetOK(ResetId(r), request[r].row) /\ request[r].row.answered
  BY HoldsReset DEF EnterResetCode
<1>2. PICK n \in Number : n = ResetId(r)
  BY <1>1, HoldsReset
<1>3. PICK row \in ResetRow : row = request[r].row
  BY <1>1, HoldsReset
<1>4. UNCHANGED <<user, regs, logins, counter, number, mailed>>
  BY DEF EnterResetCode
<1>5. PICK typed \in Typed :
        IF CodeMatches(typed, row.code)
        THEN /\ SaveReset(r, [row EXCEPT !.entered = TRUE, !.code = 0])
             /\ history' = [history EXCEPT !.proven =
                   IF mailed[typed] = row.email THEN @ \cup {n} ELSE @]
             /\ EndsUnchanged(r)
        ELSE /\ Fails(r, << <<"code", n>> >>)
             /\ UNCHANGED <<resets, history, browser>>
  BY <1>2, <1>3 DEF EnterResetCode
<1>6. CASE CodeMatches(typed, row.code)
  <2>1. mailed[typed] = row.email /\ n <= number /\ n \in history.answered
    BY <1>1, <1>2, <1>3, <1>6 DEF CodeMatches, ResetOK
  <2>2. history' = [history EXCEPT !.proven = @ \cup {n}]
    BY <1>5, <1>6, <2>1
  <2>3. /\ history' \in History /\ history'.confirmed = history.confirmed
        /\ history'.carried = history.carried
        /\ history'.answered = history.answered
        /\ history'.proven = history.proven \cup {n}
    BY <2>2 DEF Copies, NumbersOK, History
  <2>4. Grows /\ NumbersOK'
    BY <1>4, <2>3, Enters DEF Copies, NumbersOK
  <2>5. PICK new : new = [row EXCEPT !.entered = TRUE, !.code = 0]
    OBVIOUS
  <2>6. ResetOK(n, new)'
    <3>1. 0 \in 0..MaxNumber /\ 0 <= number
      BY AccountsAssumption DEF Copies, NumbersOK
    <3>2. new \in ResetRow /\ new.code = 0
      BY <2>5, <3>1 DEF ResetRow
    <3> QED BY <1>4, <2>1, <2>3, <3>1, <3>2 DEF ResetOK
  <2>7. ResetsOK'
    BY <1>1, <1>2, <1>5, <1>6, <2>4, <2>5, <2>6, SaveResetKeeps
  <2>8. BrowsersOK' /\ RequestsOK'
    BY <1>1, <1>5, <1>6, <2>4, EndsUnchangedKeeps
  <2> QED BY <1>4, <2>4, <2>7, <2>8, TablesLast DEF Copies
<1>7. CASE ~CodeMatches(typed, row.code)
  <2>1. Fails(r, << <<"code", n>> >>) /\ UNCHANGED <<resets, history, browser>>
    BY <1>5, <1>7
  <2>2. Grows /\ NumbersOK'
    BY <1>4, <2>1, Still DEF Copies, NumbersOK
  <2>3. << <<"code", n>> >> \in Todo
    BY DEF Todo
  <2>4. RequestsOK'
    BY <1>1, <2>1, <2>2, <2>3, FailsKeeps
  <2> QED BY <1>4, <2>1, <2>2, <2>4, TablesLast DEF Copies
<1> QED BY <1>6, <1>7

LEMMA ResendResetCodeKeeps ==
    ASSUME Copies, NEW r \in Request, ResendResetCode(r)
    PROVE  Copies'
<1>1. /\ At(r, "reset") /\ request[r] # None /\ SessionOK(request[r].session)
      /\ ResetOK(ResetId(r), request[r].row)
  BY HoldsReset DEF ResendResetCode
<1>2. PICK n \in Number : n = ResetId(r)
  BY <1>1, HoldsReset
<1>3. PICK row \in ResetRow : row = request[r].row
  BY <1>1, HoldsReset
<1>4. /\ Mails(number + 1, row.email)
      /\ SaveReset(r, [row EXCEPT !.code = number + 1, !.entered = FALSE])
      /\ EndsUnchanged(r)
      /\ UNCHANGED <<user, regs, logins, counter, history>>
  BY <1>3 DEF ResendResetCode
<1>5. row.email \in Email
  BY DEF ResetRow
<1>6. /\ Grows /\ NumbersOK'
      /\ number + 1 \in Number /\ number' = number + 1 /\ number \in Nat \ {0}
      /\ mailed'[number + 1] = row.email
  BY <1>4, <1>5, CodeIsMailed DEF Copies, NumbersOK
<1>7. PICK code \in Number : code = number + 1
  BY <1>6
<1>8. PICK new : new = [row EXCEPT !.code = code, !.entered = FALSE]
  OBVIOUS
<1>9. ResetOK(n, new)'
  <2>1. /\ new \in ResetRow /\ new.email = row.email /\ new.code = code
        /\ new.answered = row.answered /\ ~new.entered
    <3>1. code \in 0..MaxNumber
      BY <1>7 DEF Number
    <3> QED BY <1>3, <1>8, <3>1 DEF ResetRow
  <2>2. n <= number /\ (row.answered => n \in history.answered)
    BY <1>1, <1>2, <1>3 DEF ResetOK
  <2> QED BY <1>4, <1>6, <1>7, <2>1, <2>2 DEF ResetOK, Number
<1>10. ResetsOK'
  BY <1>1, <1>2, <1>4, <1>6, <1>7, <1>8, <1>9, SaveResetKeeps
<1>11. BrowsersOK' /\ RequestsOK'
  BY <1>1, <1>4, <1>6, EndsUnchangedKeeps
<1> QED BY <1>4, <1>6, <1>10, <1>11, TablesLast DEF Copies

(* What is known of an account that exists.                                 *)
LEMMA ExistsOK ==
    ASSUME Copies, NEW u \in Account, Exists(u)
    PROVE  /\ user[u] \in UserRow /\ user[u].email \in Known
           /\ user[u].pending # None =>
                 /\ user[u].pending \in Pending /\ user[u].pending.code <= number
                 /\ mailed[user[u].pending.code] = user[u].pending.email
BY DEF Exists, Copies, UsersOK, Gone, UserOK

(* The last step of a reset leaves everything as it was.                    *)
LEMMA ResetPasswordKeeps ==
    ASSUME Copies, NEW r \in Request, ResetPassword(r)
    PROVE  Copies'
<1>1. Grows /\ NumbersOK'
  BY Still DEF ResetPassword, Copies, NumbersOK
<1>2. RequestsOK'
  BY <1>1, CopiesLast DEF ResetPassword, Copies, RequestsOK
<1>3. BrowsersOK'
  BY <1>1, CopiesLast DEF ResetPassword, Copies, BrowsersOK
<1> QED BY <1>1, <1>2, <1>3, TablesLast DEF Copies, ResetPassword

-------------------------------------------------------------------------------
(* The login *)

LEMMA LoginBegins ==
    ASSUME Copies, NEW r \in Request, NEW b \in Browser,
           Login(r, b) \/ VerifyLogin(r, b)
    PROVE  Copies'
<1>1. SessionOK(browser[b])
  BY DEF Copies, BrowsersOK
<1>2. CASE Login(r, b)
  <2>1. PICK u \in Account :
          Begins(r, [pc |-> "login", browser |-> b, session |-> browser[b],
                     account |-> u])
    BY <1>2 DEF Login
  <2>2. PICK q : q = [pc |-> "login", browser |-> b, session |-> browser[b],
                      account |-> u]
    OBVIOUS
  <2>3. RequestOK(q)
    BY <1>1, <2>2 DEF RequestOK, Pc
  <2> QED BY <2>1, <2>2, <2>3, BeginsKeeps
<1>3. CASE VerifyLogin(r, b)
  <2>1. PICK n \in Latest(browser[b].login) :
          /\ AttemptsRemain(logins[n])
          /\ Begins(r, [pc |-> "code", browser |-> b, session |-> browser[b],
                        id |-> n, row |-> logins[n]])
    BY <1>3 DEF VerifyLogin
  <2>2. n \in Number /\ LoginOK(n, logins[n]) /\ logins[n].attempts < MaxAttempts
    BY <2>1 DEF Latest, Copies, LoginsOK, AttemptsRemain
  <2>3. PICK q : q = [pc |-> "code", browser |-> b, session |-> browser[b],
                      id |-> n, row |-> logins[n]]
    OBVIOUS
  <2>4. RequestOK(q)
    BY <1>1, <2>2, <2>3 DEF RequestOK, Pc, LoginOK
  <2> QED BY <2>1, <2>3, <2>4, BeginsKeeps
<1> QED BY <1>2, <1>3

LEMMA WrongPasswordKeeps ==
    ASSUME Copies, NEW r \in Request, WrongPassword(r)
    PROVE  Copies'
<1>1. request[r] # None /\ Fails(r, << <<"login", 0>>, <<"trigger", 0>> >>)
  BY AtHolds DEF WrongPassword
<1>2. Grows /\ NumbersOK'
  BY Still DEF WrongPassword, Copies, NumbersOK
<1>3. RequestsOK'
  BY <1>1, <1>2, FailsKeeps DEF Todo
<1> QED BY <1>2, <1>3, TablesLast DEF Copies, WrongPassword

(* limiter.reset touches the limiter only.                                  *)
LEMMA ForgetsKeeps ==
    ASSUME Copies, NEW keys, Forgets(keys), UNCHANGED <<number, mailed>>
    PROVE  Grows /\ NumbersOK'
<1>1. history \in History /\ counter \in [Key -> Nat]
  BY DEF Copies, NumbersOK
<1>2. counter' \in [Key -> Nat]
  BY <1>1 DEF Forgets
<1>3. PICK c \in [Key -> Nat] :
        c = [k \in Key |-> IF k \in keys THEN 0 ELSE history.counted[k]]
  BY <1>1 DEF History
<1>4. history' = [history EXCEPT !.counted = c,
                                 !.overwritten = history.overwritten \ keys]
  BY <1>3 DEF Forgets
<1>5. /\ history' \in History
      /\ history'.confirmed = history.confirmed /\ history'.carried = history.carried
      /\ history'.answered = history.answered /\ history'.proven = history.proven
     
  BY <1>1, <1>4 DEF History
<1> QED BY <1>2, <1>5, Enters DEF Copies, NumbersOK

LEMMA RightPasswordKeeps ==
    ASSUME Copies, NEW r \in Request, RightPassword(r)
    PROVE  Copies'
<1>1. /\ request[r] # None /\ SessionOK(request[r].session)
      /\ request[r].account \in Account
  BY AtHolds DEF RightPassword, RequestOK
<1>2. /\ Ends(r, LoggedIn(request[r].session, request[r].account))
      /\ Forgets({<<"login", 0>>})
      /\ UNCHANGED <<user, regs, resets, logins, number, mailed>>
  BY DEF RightPassword
<1>3. Grows /\ NumbersOK'
  BY <1>2, ForgetsKeeps
<1>4. PICK t : t = LoggedIn(request[r].session, request[r].account)
  OBVIOUS
<1>5. SessionOK(t)
  BY <1>1, <1>4, LoggedInOK DEF SessionOK
<1>6. BrowsersOK' /\ RequestsOK'
  BY <1>1, <1>2, <1>3, <1>4, <1>5, CopiesLast, EndsKeeps
<1> QED BY <1>2, <1>3, <1>6, TablesLast DEF Copies

LEMMA SecondFactorKeeps ==
    ASSUME Copies, NEW r \in Request, SecondFactor(r)
    PROVE  Copies'
<1>1. /\ request[r] # None /\ SessionOK(request[r].session)
      /\ request[r].account \in Account /\ Exists(request[r].account)
  BY AtHolds DEF SecondFactor, RequestOK
<1>2. PICK u \in Account : u = request[r].account
  BY <1>1
<1>3. /\ Mails(number + 1, user[u].email)
      /\ logins' = [logins EXCEPT ![number + 1] =
            [account |-> u, verified |-> FALSE, attempts |-> 0]]
      /\ Ends(r, [request[r].session EXCEPT !.login = u])
      /\ UNCHANGED <<user, regs, resets, counter, history>>
  BY <1>2 DEF SecondFactor
<1>4. user[u].email \in Email
  BY <1>1, <1>2, ExistsOK DEF UserRow
<1>5. /\ Grows /\ NumbersOK'
      /\ number + 1 \in Number /\ number' = number + 1
  BY <1>3, <1>4, CodeIsMailed DEF Copies, NumbersOK
<1>6. PICK id \in Number : id = number + 1
  BY <1>5
<1>7. PICK new : new = [account |-> u, verified |-> FALSE, attempts |-> 0]
  OBVIOUS
<1>8. LoginOK(id, new)'
  <2>1. 0 \in 0..MaxAttempts
    BY AccountsAssumption
  <2> QED BY <1>5, <1>6, <1>7, <2>1 DEF LoginOK, LoginRow, Number
<1>9. LoginsOK'
  <2>1. logins' = [logins EXCEPT ![id] = new]
    BY <1>3, <1>6, <1>7
  <2>2. logins' = [n \in Number |-> logins'[n]]
    BY <2>1 DEF Copies, LoginsOK
  <2>3. ASSUME NEW n \in Number
        PROVE  logins'[n] = logins[n] \/ (n = id /\ logins'[n] = new)
    BY <2>1 DEF Copies, LoginsOK
  <2> QED BY <1>5, <1>8, <2>2, <2>3, LoginsPut
<1>10. BrowsersOK' /\ RequestsOK'
  <2>1. PICK s : s = request[r].session
    OBVIOUS
  <2>2. PICK t : t = [s EXCEPT !.login = u]
    OBVIOUS
  <2>3. SessionOK(s)'
    BY <1>1, <1>5, <2>1, CopiesLast
  <2>4. /\ t \in Session /\ t.reg = s.reg /\ t.reset = s.reset
        /\ t.confirmed = s.confirmed
    BY <2>2, <2>3 DEF SessionOK, Session
  <2>5. SessionOK(t)'
    BY <2>3, <2>4 DEF SessionOK
  <2> QED BY <1>1, <1>3, <1>5, <2>1, <2>2, <2>5, EndsKeeps
<1> QED BY <1>3, <1>5, <1>9, <1>10, TablesLast DEF Copies

(* A request at the second factor, whose row is still there.                *)
LEMMA HoldsCode ==
    ASSUME Copies, NEW r \in Request, At(r, "code"), logins[request[r].id] # None
    PROVE  /\ request[r] # None /\ SessionOK(request[r].session)
           /\ request[r].id \in Number /\ request[r].id <= number
           /\ request[r].row \in LoginRow /\ request[r].row.attempts < MaxAttempts
           /\ LoginOK(request[r].id, logins[request[r].id])
BY AtHolds DEF RequestOK, Copies, LoginsOK

(* A row of a second factor is written.                                     *)
LEMMA LoginPut ==
    ASSUME Copies, Grows, NEW n \in Number, NEW row \in LoginRow, n <= number,
           logins' = [logins EXCEPT ![n] = row]
    PROVE  LoginsOK'
<1>1. LoginOK(n, row)
  BY DEF LoginOK
<1>2. logins' = [m \in Number |-> logins'[m]]
  BY DEF Copies, LoginsOK
<1>3. ASSUME NEW m \in Number
      PROVE  logins'[m] = logins[m] \/ (m = n /\ logins'[m] = row)
  BY DEF Copies, LoginsOK
<1> QED BY <1>1, <1>2, <1>3, CopiesLast, LoginsPut

LEMMA WrongLoginCodeKeeps ==
    ASSUME Copies, NEW r \in Request, WrongLoginCode(r)
    PROVE  Copies'
<1>1. /\ request[r] # None /\ SessionOK(request[r].session)
      /\ request[r].id \in Number /\ request[r].id <= number
      /\ request[r].row \in LoginRow /\ request[r].row.attempts < MaxAttempts
      /\ LoginOK(request[r].id, logins[request[r].id])
  BY HoldsCode DEF WrongLoginCode
<1>2. PICK n \in Number : n = request[r].id
  BY <1>1
<1>3. /\ logins' = [logins EXCEPT ![n].attempts = request[r].row.attempts + 1]
      /\ history' = [history EXCEPT !.tries[n] = @ + 1,
            !.raced = IF logins[n].attempts # request[r].row.attempts
                      THEN @ \cup {n} ELSE @]
      /\ EndsUnchanged(r)
      /\ UNCHANGED <<user, regs, resets, counter, number, mailed>>
  BY <1>2 DEF WrongLoginCode
<1>4. Grows /\ NumbersOK'
  <2>1. history \in History
    BY DEF Copies, NumbersOK
  <2>2. PICK t \in [Number -> Nat] : t = [history.tries EXCEPT ![n] = @ + 1]
    <3>1. history.tries \in [Number -> Nat]
      BY <2>1 DEF History
    <3>2. [history.tries EXCEPT ![n] = @ + 1] \in [Number -> Nat]
      BY <3>1
    <3> QED BY <3>2
  <2>3. PICK S \in SUBSET Number :
          S = IF logins[n].attempts # request[r].row.attempts
              THEN history.raced \cup {n} ELSE history.raced
    BY <2>1 DEF History
  <2>4. history' = [history EXCEPT !.tries = t, !.raced = S]
    BY <1>3, <2>2, <2>3
  <2>5. /\ history' \in History
        /\ history'.confirmed = history.confirmed /\ history'.carried = history.carried
        /\ history'.answered = history.answered /\ history'.proven = history.proven
       
    BY <2>1, <2>4 DEF History
  <2> QED BY <1>3, <2>5, Enters DEF Copies, NumbersOK
<1>5. LoginsOK'
  <2>1. PICK a \in 0..MaxAttempts : a = request[r].row.attempts + 1
    BY <1>1, AccountsAssumption DEF LoginRow
  <2>2. PICK row : row = [logins[n] EXCEPT !.attempts = a]
    OBVIOUS
  <2>3. row \in LoginRow
    BY <1>1, <1>2, <2>2 DEF LoginOK, LoginRow
  <2>4. logins' = [logins EXCEPT ![n] = row]
    BY <1>3, <2>1, <2>2
  <2> QED BY <1>1, <1>2, <1>4, <2>3, <2>4, LoginPut
<1>6. BrowsersOK' /\ RequestsOK'
  BY <1>1, <1>3, <1>4, EndsUnchangedKeeps
<1> QED BY <1>3, <1>4, <1>5, <1>6, TablesLast DEF Copies

LEMMA RightLoginCodeKeeps ==
    ASSUME Copies, NEW r \in Request, RightLoginCode(r)
    PROVE  Copies'
<1>1. /\ request[r] # None /\ SessionOK(request[r].session)
      /\ request[r].id \in Number /\ request[r].id <= number
      /\ LoginOK(request[r].id, logins[request[r].id])
  BY HoldsCode DEF RightLoginCode
<1>2. PICK n \in Number : n = request[r].id
  BY <1>1
<1>3. /\ logins' = [logins EXCEPT ![n].verified = TRUE]
      /\ Ends(r, [LoggedIn(request[r].session, request[r].session.login)
                  EXCEPT !.login = None])
      /\ Forgets({<<"login", 0>>, <<"trigger", 0>>})
      /\ UNCHANGED <<user, regs, resets, number, mailed>>
  BY <1>2 DEF RightLoginCode
<1>4. Grows /\ NumbersOK'
  BY <1>3, ForgetsKeeps
<1>5. LoginsOK'
  <2>1. PICK row : row = [logins[n] EXCEPT !.verified = TRUE]
    OBVIOUS
  <2>2. row \in LoginRow
    BY <1>1, <1>2, <2>1 DEF LoginOK, LoginRow
  <2>3. logins' = [logins EXCEPT ![n] = row]
    BY <1>3, <2>1
  <2> QED BY <1>1, <1>2, <1>4, <2>2, <2>3, LoginPut
<1>6. BrowsersOK' /\ RequestsOK'
  <2>1. PICK s : s = LoggedIn(request[r].session, request[r].session.login)
    OBVIOUS
  <2>2. PICK t : t = [s EXCEPT !.login = None]
    OBVIOUS
  <2>3. request[r].session.login \in Account \cup {None}
    BY <1>1 DEF SessionOK, Session
  <2>4. SessionOK(s)
    BY <1>1, <2>1, <2>3, LoggedInOK DEF SessionOK
  <2>5. /\ t \in Session /\ t.reg = s.reg /\ t.reset = s.reset
        /\ t.confirmed = s.confirmed
    BY <2>2, <2>4 DEF SessionOK, Session
  <2>6. SessionOK(t)
    BY <2>4, <2>5 DEF SessionOK
  <2> QED BY <1>1, <1>3, <1>4, <2>1, <2>2, <2>6, CopiesLast, EndsKeeps
<1> QED BY <1>3, <1>4, <1>5, <1>6, TablesLast DEF Copies

(* A session that begins anew knows of nothing.                             *)
LEMMA EmptySessionOK ==
    ASSUME Copies, NEW key \in Nat
    PROVE  SessionOK(EmptySession(key))
BY AccountsAssumption DEF SessionOK, EmptySession, Session, Copies, NumbersOK

LEMMA LogoutKeeps ==
    ASSUME Copies, NEW b \in Browser, Logout(b)
    PROVE  Copies'
<1>1. UNCHANGED <<user, regs, resets, logins, request, counter, number, mailed, history>>
  BY DEF Logout
<1>2. Grows /\ NumbersOK'
  BY <1>1, Still DEF Copies, NumbersOK
<1>3. PICK key \in Nat : key = browser[b].key + 1
  BY DEF Copies, BrowsersOK, Session
<1>4. PICK s : s = EmptySession(key)
  OBVIOUS
<1>5. SessionOK(s) /\ SessionOK(s)'
  BY <1>2, <1>4, EmptySessionOK, CopiesLast
<1>6. browser' = [browser EXCEPT ![b] = s]
  BY <1>3, <1>4 DEF Logout
<1>7. BrowsersOK'
  <2>1. browser' \in [Browser -> Session]
    BY <1>5, <1>6 DEF SessionOK, Copies, BrowsersOK
  <2>2. ASSUME NEW c \in Browser
        PROVE  SessionOK(browser[c])'
    <3>1. browser'[c] = browser[c] \/ browser'[c] = s
      BY <1>6 DEF Copies, BrowsersOK
    <3>2. CASE browser'[c] = browser[c]
      BY <1>2, <3>2, CopiesLast DEF Copies, BrowsersOK
    <3> QED BY <1>5, <3>1, <3>2
  <2> QED BY <2>1, <2>2 DEF BrowsersOK
<1> QED BY <1>1, <1>2, <1>7, TablesLast DEF Copies

-------------------------------------------------------------------------------
(* The settings                                                             *)

LEMMA SettingsBegins ==
    ASSUME Copies, NEW r \in Request, NEW b \in Browser, Settings(r, b)
    PROVE  Copies'
<1>1. PICK u \in Account :
        /\ Exists(u)
        /\ Begins(r, [pc |-> "settings", browser |-> b, account |-> u,
                      session |-> browser[b], row |-> user[u]])
  BY DEF Settings
<1>2. UserOK(user[u]) /\ SessionOK(browser[b])
  BY <1>1 DEF Exists, Gone, Copies, UsersOK, BrowsersOK
<1>3. PICK q : q = [pc |-> "settings", browser |-> b, account |-> u,
                    session |-> browser[b], row |-> user[u]]
  OBVIOUS
<1>4. RequestOK(q)
  BY <1>2, <1>3 DEF RequestOK, Pc
<1> QED BY <1>1, <1>3, <1>4, BeginsKeeps

(* A settings request ends and writes a row that is in order.               *)
LEMMA SettingsKeeps ==
    ASSUME Copies, NEW r \in Request, NEW row, SettingsStep(r, row),
           Grows, NumbersOK', UserOK(row)'
    PROVE  Copies'
<1>1. /\ request[r] # None /\ request[r].account \in Account
      /\ user' = [user EXCEPT ![request[r].account] = row]
      /\ EndsUnchanged(r)
      /\ UNCHANGED <<regs, resets, logins, counter>>
  BY AtHolds DEF SettingsStep, RequestOK
<1>2. PICK u \in Account : u = request[r].account
  BY <1>1
<1>3. UsersOK'
  BY <1>1, <1>2, UserPut
<1>4. BrowsersOK' /\ RequestsOK'
  BY <1>1, EndsUnchangedKeeps
<1> QED BY <1>1, <1>3, <1>4, TablesLast DEF Copies

(* The row as it is now, and as the request has read it.                    *)
LEMMA HoldsSettings ==
    ASSUME Copies, NEW r \in Request, NEW row, SettingsStep(r, row)
    PROVE  /\ request[r].account \in Account /\ Exists(request[r].account)
           /\ Current(r) \in UserRow /\ UserOK(Current(r))
           /\ UserOK(request[r].row)
           /\ counter' = counter
BY AtHolds DEF SettingsStep, RequestOK, Current, Exists, Gone, Copies, UsersOK, UserOK

LEMMA UpdatePasswordKeeps ==
    ASSUME Copies, NEW r \in Request, UpdatePassword(r)
    PROVE  Copies'
<1>1. /\ number < MaxNumber /\ number' = number + 1
      /\ SettingsStep(r, [Current(r) EXCEPT !.password = number'])
      /\ UNCHANGED <<mailed, history>>
  BY DEF UpdatePassword
<1>2. UserOK(Current(r)) /\ counter' = counter
  BY <1>1, HoldsSettings
<1>3. Grows /\ NumbersOK' /\ number' \in Number
  BY <1>1, <1>2, NumberIsDrawn DEF Copies, NumbersOK
<1>4. PICK now : now = Current(r)
  OBVIOUS
<1>5. PICK p \in Number : p = number'
  BY <1>3
<1>6. PICK row : row = [now EXCEPT !.password = p]
  OBVIOUS
<1>7. UserOK(row)
  <2>1. /\ row \in UserRow /\ row.email = now.email /\ row.pending = now.pending
    BY <1>2, <1>4, <1>6 DEF UserOK, UserRow, Number
  <2> QED BY <1>2, <1>4, <2>1 DEF UserOK
<1>8. SettingsStep(r, row)
  BY <1>1, <1>4, <1>5, <1>6
<1> QED BY <1>3, <1>7, <1>8, CopiesLast, SettingsKeeps

(* The code is mailed to the pending address.                               *)
LEMMA UpdateEmailKeeps ==
    ASSUME Copies, NEW r \in Request, UpdateEmail(r)
    PROVE  Copies'
<1>1. PICK e \in Email :
        /\ Mails(number + 1, e)
        /\ SettingsStep(r, [Current(r) EXCEPT !.pending =
                            [email |-> e, code |-> number + 1]])
        /\ history' = history
  BY DEF UpdateEmail
<1>2. UserOK(Current(r)) /\ counter' = counter
  BY <1>1, HoldsSettings
<1>3. /\ Grows /\ NumbersOK'
      /\ number + 1 \in Number /\ number' = number + 1 /\ number \in Nat \ {0}
      /\ mailed'[number + 1] = e
  BY <1>1, <1>2, CodeIsMailed DEF Copies, NumbersOK
<1>4. PICK now : now = Current(r)
  OBVIOUS
<1>5. PICK code \in Number : code = number + 1
  BY <1>3
<1>6. PICK p \in Pending : p = [email |-> e, code |-> code]
  BY DEF Pending
<1>7. PICK row : row = [now EXCEPT !.pending = p]
  OBVIOUS
<1>8. UserOK(row)'
  <2>1. /\ row \in UserRow /\ row.email = now.email /\ row.pending = p
    BY <1>2, <1>4, <1>6, <1>7 DEF UserOK, UserRow
  <2>2. UserOK(now)'
    BY <1>2, <1>3, <1>4, CopiesLast
  <2>3. p.code <= number' /\ mailed'[p.code] = p.email
    BY <1>3, <1>5, <1>6 DEF Number
  <2> QED BY <1>6, <2>1, <2>2, <2>3 DEF UserOK
<1>9. SettingsStep(r, row)
  BY <1>1, <1>4, <1>5, <1>6, <1>7
<1> QED BY <1>3, <1>8, <1>9, SettingsKeeps

(* The code that matches was mailed to the pending address.                 *)
LEMMA VerifyEmailChangeKeeps ==
    ASSUME Copies, NEW r \in Request, VerifyEmailChange(r)
    PROVE  Copies'
<1>1. request[r].row.pending # None /\ UNCHANGED <<number, mailed>>
  BY DEF VerifyEmailChange
<1>2. PICK typed \in Typed :
        IF CodeMatches(typed, request[r].row.pending.code)
        THEN /\ SettingsStep(r, [Current(r) EXCEPT
                                 !.email = request[r].row.pending.email,
                                 !.pending = None])
             /\ history' = [history EXCEPT !.confirmed = @ \cup {mailed[typed]}]
        ELSE /\ SettingsStep(r, [Current(r) EXCEPT !.pending = None])
             /\ UNCHANGED history
  BY DEF VerifyEmailChange
<1>3. PICK now : now = Current(r)
  OBVIOUS
<1>4. UserOK(now) /\ UserOK(request[r].row) /\ counter' = counter
  BY <1>2, <1>3, HoldsSettings
<1>5. CASE CodeMatches(typed, request[r].row.pending.code)
  <2>1. PICK p \in Pending : p = request[r].row.pending /\ mailed[p.code] = p.email
    BY <1>1, <1>4 DEF UserOK
  <2>2. PICK e \in Email : e = p.email
    BY <2>1 DEF Pending
  <2>3. mailed[typed] = e
    BY <1>5, <2>1, <2>2 DEF CodeMatches
  <2>4. PICK row : row = [now EXCEPT !.email = e, !.pending = None]
    OBVIOUS
  <2>5. /\ SettingsStep(r, row)
        /\ history' = [history EXCEPT !.confirmed = @ \cup {e}]
    BY <1>2, <1>3, <1>5, <2>1, <2>2, <2>3, <2>4
  <2>6. /\ history' \in History /\ history'.confirmed = history.confirmed \cup {e}
        /\ history'.carried = history.carried
        /\ history'.answered = history.answered
        /\ history'.proven = history.proven
    BY <2>5 DEF Copies, NumbersOK, History
  <2>7. Grows /\ NumbersOK'
    BY <1>1, <1>4, <2>6, Enters DEF Copies, NumbersOK
  <2>8. UserOK(row)'
    <3>1. row \in UserRow /\ row.email = e /\ row.pending = None
      BY <1>4, <2>4 DEF UserOK, UserRow
    <3> QED BY <2>6, <3>1 DEF UserOK, Known
  <2> QED BY <2>5, <2>7, <2>8, SettingsKeeps
<1>6. CASE ~CodeMatches(typed, request[r].row.pending.code)
  <2>1. PICK row : row = [now EXCEPT !.pending = None]
    OBVIOUS
  <2>2. SettingsStep(r, row) /\ history' = history
    BY <1>2, <1>3, <1>6, <2>1
  <2>3. Grows /\ NumbersOK'
    BY <1>1, <1>4, <2>2, Still DEF Copies, NumbersOK
  <2>4. UserOK(row)
    <3>1. row \in UserRow /\ row.email = now.email /\ row.pending = None
      BY <1>4, <2>1 DEF UserOK, UserRow
    <3> QED BY <1>4, <3>1 DEF UserOK
  <2> QED BY <2>2, <2>3, <2>4, CopiesLast, SettingsKeeps
<1> QED BY <1>5, <1>6

LEMMA UpdateQuestionsKeeps ==
    ASSUME Copies, NEW r \in Request, UpdateQuestions(r)
    PROVE  Copies'
<1>1. /\ number < MaxNumber /\ number' = number + 1 /\ mailed' = mailed
      /\ SettingsStep(r, [Current(r) EXCEPT !.questions =
                          Replaced(@, request[r].row.questions, number')])
      /\ history' = IF request[r].row.questions = Current(r).questions THEN history
                    ELSE [history EXCEPT !.broken = @ \cup {request[r].account}]
  BY DEF UpdateQuestions
<1>2. /\ UserOK(Current(r)) /\ counter' = counter /\ request[r].account \in Account
      /\ UserOK(request[r].row)
  BY <1>1, HoldsSettings
<1>3. /\ history' \in History /\ history'.confirmed = history.confirmed
      /\ history'.carried = history.carried
      /\ history'.answered = history.answered
      /\ history'.proven = history.proven
  BY <1>1, <1>2 DEF Copies, NumbersOK, History
<1>4. Grows /\ NumbersOK' /\ number' \in Number
  BY <1>1, <1>2, <1>3, NumberIsDrawn DEF Copies, NumbersOK
<1>5. PICK now : now = Current(r)
  OBVIOUS
<1>6. PICK Q : Q = Replaced(now.questions, request[r].row.questions, number')
  OBVIOUS
<1>7. PICK row : row = [now EXCEPT !.questions = Q]
  OBVIOUS
<1>8. UserOK(row)
  <2>1. Q \in SUBSET Nat
    BY <1>2, <1>4, <1>5, <1>6 DEF Replaced, UserOK, UserRow, Number
  <2>2. row \in UserRow /\ row.email = now.email /\ row.pending = now.pending
    BY <1>2, <1>5, <1>7, <2>1 DEF UserOK, UserRow
  <2> QED BY <1>2, <1>5, <2>2 DEF UserOK
<1>9. SettingsStep(r, row)
  BY <1>1, <1>5, <1>6, <1>7
<1> QED BY <1>4, <1>8, <1>9, CopiesLast, SettingsKeeps

LEMMA DeleteAccountKeeps ==
    ASSUME Copies, NEW r \in Request, DeleteAccount(r)
    PROVE  Copies'
<1>1. /\ request[r] # None /\ SessionOK(request[r].session)
      /\ request[r].account \in Account
  BY AtHolds DEF DeleteAccount, RequestOK
<1>2. PICK u \in Account : u = request[r].account
  BY <1>1
<1>3. /\ user' = [user EXCEPT ![u] = Deleted]
      /\ logins' = [n \in Number |->
            IF logins[n] # None /\ logins[n].account = u THEN None ELSE logins[n]]
      /\ Ends(r, EmptySession(request[r].session.key + 1))
      /\ UNCHANGED <<regs, resets, counter, number, mailed, history>>
  BY <1>2 DEF DeleteAccount
<1>4. Grows /\ NumbersOK'
  BY <1>3, Still DEF Copies, NumbersOK
<1>5. UsersOK'
  BY <1>3, <1>4, UserPut DEF Gone
<1>6. LoginsOK'
  <2>1. logins' = [n \in Number |-> logins'[n]]
    BY <1>3
  <2>2. \A n \in Number : logins'[n] \in {logins[n], None}
    BY <1>3
  <2> QED BY <1>4, <2>1, <2>2, LoginsPut
<1>7. BrowsersOK' /\ RequestsOK'
  <2>1. PICK key \in Nat : key = request[r].session.key + 1
    BY <1>1 DEF SessionOK, Session
  <2>2. PICK s : s = EmptySession(key)
    OBVIOUS
  <2>3. SessionOK(s)
    BY <2>2, EmptySessionOK
  <2> QED BY <1>1, <1>3, <1>4, <2>1, <2>2, <2>3, CopiesLast, EndsKeeps
<1> QED BY <1>3, <1>4, <1>5, <1>6, <1>7, TablesLast DEF Copies

-------------------------------------------------------------------------------
LEMMA CopiesInit == AccountsInit => Copies
<1> SUFFICES ASSUME AccountsInit PROVE Copies
  OBVIOUS
<1>1. PICK a \in Account, e \in Email :
        /\ user = [u \in Account |->
              IF u = a /\ "register" \notin workload
              THEN [NewUser(e, 1) EXCEPT !.questions = {1}] ELSE None]
        /\ history = [HistoryInit EXCEPT !.confirmed =
              IF "register" \in workload THEN {} ELSE {e}]
  BY DEF AccountsInit
<1>2. /\ regs = [n \in Number |-> None]
      /\ resets = [n \in Number |-> None]
      /\ logins = [n \in Number |-> None]
      /\ browser = [b \in Browser |-> EmptySession(1)]
      /\ request = [r \in Request |-> None]
      /\ counter = [k \in Key |-> 0]
      /\ number = 1
      /\ mailed = [n \in Number |-> None]
  BY DEF AccountsInit
<1>3. NumbersOK
  <2>1. HistoryInit \in History
    BY DEF HistoryInit, History
  <2>2. history \in History
    BY <1>1, <2>1 DEF History
  <2> QED BY <1>2, <2>2 DEF NumbersOK
<1>4. UsersOK
  <2>1. PICK row : row = [NewUser(e, 1) EXCEPT !.questions = {1}]
    OBVIOUS
  <2>2. row \in UserRow /\ row.email = e /\ row.pending = None
    BY <2>1 DEF NewUser, UserRow
  <2>3. "register" \notin workload => UserOK(row)
    <3>1. "register" \notin workload => e \in history.confirmed
      BY <1>1 DEF HistoryInit
    <3> QED BY <2>2, <3>1 DEF UserOK, Known
  <2> QED BY <1>1, <2>1, <2>2, <2>3 DEF UsersOK, Gone
<1>5. RegsOK /\ ResetsOK /\ LoginsOK /\ RequestsOK
  BY <1>2 DEF RegsOK, ResetsOK, LoginsOK, RequestsOK
<1>6. BrowsersOK
  <2>1. SessionOK(EmptySession(1))
    BY <1>2, AccountsAssumption DEF SessionOK, EmptySession, Session
  <2> QED BY <1>2, <2>1 DEF BrowsersOK, SessionOK
<1> QED BY <1>3, <1>4, <1>5, <1>6 DEF Copies

LEMMA CopiesKept ==
    ASSUME Copies, [AccountsNext]_accountsVars
    PROVE  Copies'
<1>1. CASE UNCHANGED accountsVars
  <2>1. UNCHANGED <<user, regs, resets, logins, browser, request, counter, number,
                    mailed, history>>
    BY <1>1 DEF accountsVars
  <2>2. Grows /\ NumbersOK'
    BY <2>1, Still DEF Copies, NumbersOK
  <2> QED BY <2>1, <2>2, TablesLast DEF Copies
<1>2. ASSUME NEW r \in Request, NEW b \in Browser, Calls(r, b)
      PROVE  Copies'
  BY <1>2, RegistrationBegins, ResetBegins, LoginBegins, SettingsBegins DEF Calls
<1>3. ASSUME NEW r \in Request, Handles(r)
      PROVE  Copies'
  <2>1. CASE \/ Refuse(r) \/ Die(r) \/ RecordAttempt(r)
             \/ CreateVerification(r) \/ EnterEmailCode(r) \/ ResendEmailCode(r)
             \/ CreateUser(r) \/ CreateQuestions(r)
    BY <2>1, RefuseKeeps, DieKeeps, RecordAttemptKeeps, CreateVerificationKeeps,
       EnterEmailCodeKeeps, ResendEmailCodeKeeps, CreateUserKeeps, CreateQuestionsKeeps
  <2>2. CASE \/ CreateReset(r) \/ AnswerQuestions(r) \/ EnterResetCode(r)
             \/ ResendResetCode(r) \/ ResetPassword(r)
    BY <2>2, CreateResetKeeps, AnswerQuestionsKeeps, EnterResetCodeKeeps,
       ResendResetCodeKeeps, ResetPasswordKeeps
  <2>3. CASE \/ WrongPassword(r) \/ RightPassword(r) \/ SecondFactor(r)
             \/ WrongLoginCode(r) \/ RightLoginCode(r)
    BY <2>3, WrongPasswordKeeps, RightPasswordKeeps, SecondFactorKeeps,
       WrongLoginCodeKeeps, RightLoginCodeKeeps
  <2>4. CASE \/ UpdatePassword(r) \/ UpdateEmail(r) \/ VerifyEmailChange(r)
             \/ UpdateQuestions(r) \/ DeleteAccount(r)
    BY <2>4, UpdatePasswordKeeps, UpdateEmailKeeps, VerifyEmailChangeKeeps,
       UpdateQuestionsKeeps, DeleteAccountKeeps
  <2> QED BY <1>3, <2>1, <2>2, <2>3, <2>4 DEF Handles
<1> QED BY <1>1, <1>2, <1>3, LogoutKeeps, WindowEndsKeeps DEF AccountsNext

(* The invariant of the copies: whatever a request, a session or a row says *)
(* of an address was mailed and entered before.                             *)
THEOREM CopiesInvariant == AccountsSpec => []Copies
BY CopiesInit, CopiesKept, PTL DEF AccountsSpec

(* An account has an address whose code somebody has entered, and a reset   *)
(* comes to the form for the password only after the answers and the mailed *)
(* code, whatever rows and sessions overlapping requests save over each     *)
(* other                                                                    *)
(* (SecurityQuestionsView, VerifyEmailChangeView, PasswordResetConfirmView).*)
THEOREM MailboxProven == AccountsSpec => []MailboxIsProven
<1>1. Copies => MailboxIsProven
  BY ExistsOK DEF Copies, NumbersOK, ResetsOK, ResetOK, Known, MailboxIsProven, MayReset
<1> QED BY <1>1, CopiesInvariant, PTL

-------------------------------------------------------------------------------
(* One request moves at a time: a new one from nothing, one that is handled *)
(* to its end, to the limiter, or to the questions of its new account.      *)
Limiting == {"incr", "add", "again", "set"}

LEMMA CallMoves ==
    ASSUME Copies, NEW r \in Request, NEW b \in Browser, Calls(r, b)
    PROVE  /\ request[r] = None
           /\ \A q \in Request \ {r} : request'[q] = request[q]
           /\ UNCHANGED <<user, logins, counter, number, history>>
<1>1. \E x : Begins(r, x)
  BY DEF Calls, Register, VerifyEmail, AnswerFirstQuestions, ForgotPassword, ResetStep,
         Login, VerifyLogin, Settings
<1> QED BY <1>1 DEF Begins, Copies, RequestsOK

LEMMA HandledMoves ==
    ASSUME Copies, NEW r \in Request, Handles(r)
    PROVE  /\ request[r] # None
           /\ \A q \in Request \ {r} : request'[q] = request[q]
           /\ \/ request'[r] = None
              \/ request'[r].pc \in Limiting
              \/ CreateUser(r) /\ request'[r].pc = "questions"
<1>1. request = [q \in Request |-> request[q]]
  BY DEF Copies, RequestsOK
<1>2. request[r] # None
  BY DEF Handles, Refuse, Die, RecordAttempt, CreateVerification, EnterEmailCode,
         ResendEmailCode, CreateUser, CreateQuestions, CreateReset, AnswerQuestions,
         EnterResetCode, ResendResetCode, ResetPassword, WrongPassword, RightPassword,
         SecondFactor, WrongLoginCode, RightLoginCode, UpdatePassword, UpdateEmail,
         VerifyEmailChange, UpdateQuestions, DeleteAccount, SettingsStep, At
<1>3. ASSUME request' = [request EXCEPT ![r] = None]
      PROVE  request'[r] = None /\ \A q \in Request \ {r} : request'[q] = request[q]
  BY <1>1, <1>3
<1>4. ASSUME NEW keys, Fails(r, keys)
      PROVE  /\ request'[r].pc \in Limiting
             /\ \A q \in Request \ {r} : request'[q] = request[q]
  BY <1>1, <1>4 DEF Fails, Limiting
<1>5. CASE \/ Refuse(r) \/ Die(r) \/ CreateVerification(r) \/ ResendEmailCode(r)
           \/ CreateQuestions(r) \/ CreateReset(r) \/ AnswerQuestions(r)
           \/ ResendResetCode(r) \/ ResetPassword(r)
           \/ RightPassword(r) \/ SecondFactor(r)
           \/ WrongLoginCode(r) \/ RightLoginCode(r)
           \/ UpdatePassword(r) \/ UpdateEmail(r) \/ VerifyEmailChange(r)
           \/ UpdateQuestions(r) \/ DeleteAccount(r)
  <2>1. request' = [request EXCEPT ![r] = None]
    BY <1>5 DEF Refuse, Die, CreateVerification, ResendEmailCode, CreateQuestions,
                CreateReset, AnswerQuestions, ResendResetCode, ResetPassword,
                RightPassword, SecondFactor, WrongLoginCode, RightLoginCode,
                UpdatePassword, UpdateEmail, VerifyEmailChange, UpdateQuestions,
                DeleteAccount, SettingsStep, EndsUnchanged, Ends
  <2> QED BY <1>2, <1>3, <2>1
<1>6. CASE EnterEmailCode(r) \/ EnterResetCode(r) \/ WrongPassword(r)
  <2>1. request' = [request EXCEPT ![r] = None] \/ \E keys : Fails(r, keys)
    BY <1>6 DEF EnterEmailCode, EnterResetCode, WrongPassword, EndsUnchanged, Ends
  <2> QED BY <1>2, <1>3, <1>4, <2>1
<1>7. CASE RecordAttempt(r)
  <2>1. request[r] \in Counting /\ (Turns(r) \/ NextKey(r))
    BY <1>7, AttemptSteps
  <2>2. CASE Turns(r)
    <3>1. PICK pc \in {"add", "again", "set"} : request' = [request EXCEPT ![r].pc = pc]
      BY <2>2 DEF Turns
    <3>2. request'[r].pc = pc
      BY <1>1, <2>1, <3>1 DEF Counting
    <3> QED BY <1>1, <1>2, <3>1, <3>2 DEF Limiting
  <2>3. CASE EndsUnchanged(r)
    BY <1>2, <1>3, <2>3 DEF EndsUnchanged, Ends
  <2>4. CASE request' = [request EXCEPT ![r] = [request[r] EXCEPT
                            !.todo = Tail(request[r].todo), !.pc = "incr"]]
    <3>1. request'[r].pc = "incr"
      BY <1>1, <2>1, <2>4 DEF Counting
    <3> QED BY <1>1, <1>2, <2>4, <3>1 DEF Limiting
  <2> QED BY <2>1, <2>2, <2>3, <2>4 DEF NextKey
<1>8. CASE CreateUser(r)
  <2>1. CASE Taken(request[r].row.email)
    <3>1. request' = [request EXCEPT ![r] = None]
      BY <1>8, <2>1 DEF CreateUser, EndsUnchanged, Ends
    <3> QED BY <1>2, <1>3, <3>1
  <2>2. CASE ~Taken(request[r].row.email)
    <3>1. PICK u \in Account :
            request' = [request EXCEPT ![r] =
                [pc |-> "questions", account |-> u, browser |-> @.browser,
                 session |-> @.session]]
      BY <1>8, <2>2 DEF CreateUser
    <3>2. request'[r].pc = "questions"
      BY <1>1, <3>1
    <3> QED BY <1>1, <1>2, <1>8, <3>1, <3>2
  <2> QED BY <2>1, <2>2
<1> QED BY <1>5, <1>6, <1>7, <1>8 DEF Handles

-------------------------------------------------------------------------------
(* The security questions: one set, or none yet and a request on the way to *)
(* them.                                                                    *)
Unfinished(u) ==
    /\ user[u].questions = {}
    /\ \E r \in Request : At(r, "questions") /\ request[r].account = u

Questions ==
    \A u \in Account : Exists(u) /\ u \notin history.broken =>
        (\E x : user[u].questions = {x}) \/ Unfinished(u)

(* Steps that write no questions and end no registration.                   *)
LEMMA QuestionsStay ==
    ASSUME Questions, history.broken \subseteq history'.broken,
           \A u \in Account : Exists(u)' =>
              Exists(u) /\ user'[u].questions = user[u].questions,
           \A r \in Request : At(r, "questions") => request'[r] = request[r]
    PROVE  Questions'
<1> SUFFICES ASSUME NEW u \in Account, Exists(u)', u \notin history'.broken
             PROVE  (\E x : user'[u].questions = {x}) \/ Unfinished(u)'
  BY DEF Questions
<1>1. (\E x : user[u].questions = {x}) \/ Unfinished(u)
  BY DEF Questions
<1>2. user'[u].questions = user[u].questions
  OBVIOUS
<1>3. ASSUME Unfinished(u)
      PROVE  Unfinished(u)'
  BY <1>2, <1>3 DEF Unfinished, At
<1> QED BY <1>1, <1>2, <1>3

(* A handler that leaves the accounts alone.                                *)
LEMMA OthersKeepQuestions ==
    ASSUME Copies, Questions, NEW r \in Request, Handles(r),
           ~At(r, "questions"), history.broken \subseteq history'.broken,
           \A u \in Account : Exists(u)' =>
              Exists(u) /\ user'[u].questions = user[u].questions
    PROVE  Questions'
<1>1. \A q \in Request : At(q, "questions") => request'[q] = request[q]
  BY HandledMoves
<1> QED BY <1>1, QuestionsStay

(* A settings request writes other columns.                                 *)
LEMMA SettingsKeepQuestions ==
    ASSUME Copies, Questions, NEW r \in Request, Handles(r), NEW row,
           SettingsStep(r, row), row.questions = Current(r).questions,
           history.broken \subseteq history'.broken
    PROVE  Questions'
<1>1. /\ At(r, "settings") /\ Exists(request[r].account)
      /\ user' = [user EXCEPT ![request[r].account] = row]
  BY DEF SettingsStep
<1>2. request[r].account \in Account
  BY <1>1, AtHolds DEF RequestOK
<1>3. \A u \in Account : Exists(u)' =>
         Exists(u) /\ user'[u].questions = user[u].questions
  BY <1>1, <1>2 DEF Exists, Current, Copies, UsersOK
<1>4. ~At(r, "questions")
  BY <1>1 DEF At
<1> QED BY <1>3, <1>4, OthersKeepQuestions

LEMMA CreateUserKeepsQuestions ==
    ASSUME Copies, Questions, NEW r \in Request, CreateUser(r)
    PROVE  Questions'
<1>1. At(r, "create") /\ ~At(r, "questions") /\ history' = history /\ Handles(r)
  BY DEF CreateUser, At, Handles
<1>2. CASE Taken(request[r].row.email)
  <2>1. user' = user
    BY <1>2 DEF CreateUser
  <2> QED BY <1>1, <2>1, OthersKeepQuestions DEF Exists
<1>3. CASE ~Taken(request[r].row.email)
  <2>1. PICK u \in Account :
          /\ user[u] = None
          /\ user' = [user EXCEPT ![u] = NewUser(request[r].row.email, 1)]
          /\ request' = [request EXCEPT ![r] =
                [pc |-> "questions", account |-> u, browser |-> @.browser,
                 session |-> @.session]]
    BY <1>3 DEF CreateUser
  <2>2. PICK q : q = [pc |-> "questions", account |-> u,
                      browser |-> request[r].browser, session |-> request[r].session]
    OBVIOUS
  <2>3. q # None
    <3>1. request[r].browser \in Browser /\ request[r].session \in Session
      BY <1>1, AtHolds DEF RequestOK, SessionOK
    <3>2. q \in [pc : {"questions"}, account : Account, browser : Browser,
                 session : Session]
      BY <2>2, <3>1
    <3> QED BY <3>2, NoneAssumption
  <2>4. request'[r] = q
    BY <2>1, <2>2 DEF Copies, RequestsOK
  <2>5. ASSUME NEW v \in Account, Exists(v)', v \notin history'.broken
        PROVE  (\E x : user'[v].questions = {x}) \/ Unfinished(v)'
    <3>1. CASE v = u
      <4>1. user'[v].questions = {}
        BY <2>1, <3>1 DEF NewUser, Copies, UsersOK
      <4>2. At(r, "questions")' /\ request'[r].account = v
        BY <2>2, <2>3, <2>4, <3>1 DEF At
      <4> QED BY <4>1, <4>2 DEF Unfinished
    <3>2. CASE v # u
      <4>1. user'[v] = user[v]
        BY <2>1, <3>2 DEF Copies, UsersOK
      <4>2. (\E x : user[v].questions = {x}) \/ Unfinished(v)
        BY <1>1, <2>5, <4>1 DEF Exists, Questions
      <4>3. ASSUME Unfinished(v)
            PROVE  Unfinished(v)'
        <5>1. PICK p \in Request : At(p, "questions") /\ request[p].account = v
          BY <4>3 DEF Unfinished
        <5>2. request'[p] = request[p]
          BY <1>1, <5>1, HandledMoves
        <5>3. At(p, "questions")' /\ request'[p].account = v
          BY <5>1, <5>2 DEF At
        <5> QED BY <4>1, <4>3, <5>3 DEF Unfinished
      <4> QED BY <4>1, <4>2, <4>3
    <3> QED BY <3>1, <3>2
  <2> QED BY <2>5 DEF Questions
<1> QED BY <1>2, <1>3

(* The request that inserts the questions, or dies before.                  *)
LEMMA LastStepKeepsQuestions ==
    ASSUME Copies, Questions, NEW r \in Request, CreateQuestions(r) \/ Die(r)
    PROVE  Questions'
<1>1. Handles(r) /\ At(r, "questions") /\ request[r].account \in Account
  BY AtHolds DEF CreateQuestions, Die, Handles, RequestOK
<1>2. PICK u \in Account : u = request[r].account
  BY <1>1
<1>3. history.broken \subseteq history'.broken
  BY DEF CreateQuestions, Die, Copies, NumbersOK, History
<1>4. ASSUME NEW v \in Account, v # u, Exists(v)', v \notin history'.broken
      PROVE  (\E x : user'[v].questions = {x}) \/ Unfinished(v)'
  <2>1. user'[v] = user[v]
    BY <1>2, <1>4 DEF CreateQuestions, Die, Copies, UsersOK
  <2>2. (\E x : user[v].questions = {x}) \/ Unfinished(v)
    BY <1>3, <1>4, <2>1 DEF Exists, Questions
  <2>3. ASSUME Unfinished(v)
        PROVE  Unfinished(v)'
    <3>1. PICK p \in Request : At(p, "questions") /\ request[p].account = v
      BY <2>3 DEF Unfinished
    <3>2. request'[p] = request[p]
      BY <1>1, <1>2, <1>4, <3>1, HandledMoves
    <3>3. At(p, "questions")' /\ request'[p].account = v
      BY <3>1, <3>2 DEF At
    <3> QED BY <2>1, <2>3, <3>3 DEF Unfinished
  <2> QED BY <2>1, <2>2, <2>3
<1>5. ASSUME Exists(u)', u \notin history'.broken
      PROVE  \E x : user'[u].questions = {x}
  <2>1. CASE Die(r)
    <3>1. u \in history'.broken
      BY <1>2, <2>1 DEF Die, Copies, NumbersOK, History
    <3> QED BY <1>5, <3>1
  <2>2. CASE CreateQuestions(r)
    <3>1. Exists(u)
      BY <1>2, <1>5, <2>2 DEF CreateQuestions, Exists
    <3>2. /\ user' = [user EXCEPT ![u].questions = @ \cup {request[r].session.reg}]
          /\ history' = IF user[u].questions = {} THEN history
                ELSE [history EXCEPT !.broken = @ \cup {u}]
      BY <1>2, <2>2, <3>1 DEF CreateQuestions
    <3>3. user[u].questions = {}
      BY <1>5, <3>2 DEF Copies, NumbersOK, History
    <3>4. user'[u].questions = {request[r].session.reg}
      <4>1. user[u] \in UserRow
        BY <3>1, ExistsOK
      <4>2. user'[u] = [user[u] EXCEPT !.questions = {} \cup {request[r].session.reg}]
        BY <3>2, <3>3 DEF Copies, UsersOK
      <4> QED BY <4>1, <4>2 DEF UserRow
    <3> QED BY <3>4
  <2> QED BY <2>1, <2>2
<1> QED BY <1>4, <1>5 DEF Questions

LEMMA UpdateQuestionsKeepsQuestions ==
    ASSUME Copies, Questions, NEW r \in Request, UpdateQuestions(r)
    PROVE  Questions'
<1>1. /\ Handles(r) /\ At(r, "settings")
      /\ user' = [user EXCEPT ![request[r].account] =
            [Current(r) EXCEPT !.questions =
                Replaced(@, request[r].row.questions, number')]]
      /\ history' = IF request[r].row.questions = Current(r).questions THEN history
                    ELSE [history EXCEPT !.broken = @ \cup {request[r].account}]
      /\ request[r].account \in Account /\ Exists(request[r].account)
  BY AtHolds DEF UpdateQuestions, SettingsStep, Handles, RequestOK
<1>2. PICK u \in Account : u = request[r].account
  BY <1>1
<1>3. history.broken \subseteq history'.broken
  BY <1>1 DEF Copies, NumbersOK, History
<1>4. ASSUME NEW v \in Account, v # u, Exists(v)', v \notin history'.broken
      PROVE  (\E x : user'[v].questions = {x}) \/ Unfinished(v)'
  <2>1. user'[v] = user[v]
    BY <1>1, <1>2, <1>4 DEF Copies, UsersOK
  <2>2. (\E x : user[v].questions = {x}) \/ Unfinished(v)
    BY <1>3, <1>4, <2>1 DEF Exists, Questions
  <2>3. ASSUME Unfinished(v)
        PROVE  Unfinished(v)'
    <3>1. \A p \in Request : At(p, "questions") => request'[p] = request[p]
      BY <1>1, HandledMoves DEF At
    <3> QED BY <2>1, <2>3, <3>1 DEF Unfinished, At
  <2> QED BY <2>1, <2>2, <2>3
<1>5. ASSUME u \notin history'.broken
      PROVE  \E x : user'[u].questions = {x}
  <2>1. request[r].row.questions = Current(r).questions
    BY <1>1, <1>2, <1>5 DEF Copies, NumbersOK, History
  <2>2. user[u] \in UserRow /\ Current(r) = user[u]
    BY <1>1, <1>2, ExistsOK DEF Current
  <2>3. user'[u] = [user[u] EXCEPT !.questions =
                       Replaced(user[u].questions, user[u].questions, number')]
    BY <1>1, <1>2, <2>1, <2>2 DEF Copies, UsersOK
  <2>4. user'[u].questions = {number'}
    BY <2>2, <2>3 DEF UserRow, Replaced
  <2> QED BY <2>4
<1> QED BY <1>4, <1>5 DEF Questions

(* The others.                                                              *)
LEMMA HandledKeepsQuestions ==
    ASSUME Copies, Questions, NEW r \in Request, Handles(r)
    PROVE  Questions'
<1>1. history \in History
  BY DEF Copies, NumbersOK
<1>2. CASE \/ Refuse(r) \/ CreateVerification(r) \/ EnterEmailCode(r)
           \/ ResendEmailCode(r) \/ CreateReset(r) \/ AnswerQuestions(r)
           \/ EnterResetCode(r) \/ ResendResetCode(r)
           \/ WrongPassword(r) \/ RightPassword(r) \/ SecondFactor(r)
           \/ WrongLoginCode(r) \/ RightLoginCode(r)
  <2>1. user' = user /\ ~At(r, "questions")
    BY <1>2 DEF Refuse, CreateVerification, EnterEmailCode, ResendEmailCode, CreateReset,
                AnswerQuestions, EnterResetCode, ResendResetCode, WrongPassword,
                RightPassword, SecondFactor, WrongLoginCode, RightLoginCode, At
  <2>2. history'.broken = history.broken
    BY <1>1, <1>2 DEF Refuse, CreateVerification, EnterEmailCode, ResendEmailCode,
                CreateReset, AnswerQuestions, EnterResetCode, ResendResetCode,
                WrongPassword, RightPassword, SecondFactor, WrongLoginCode,
                RightLoginCode, Forgets, History
  <2> QED BY <2>1, <2>2, OthersKeepQuestions DEF Exists
<1>3. CASE RecordAttempt(r)
  <2>1. user' = user /\ ~At(r, "questions")
    BY <1>3 DEF RecordAttempt, At
  <2>2. history'.broken = history.broken
    BY <1>1, <1>3, AttemptSteps DEF Turns, Adds, SetsBack, History
  <2> QED BY <2>1, <2>2, OthersKeepQuestions DEF Exists
<1>4. CASE ResetPassword(r)
  <2>1. user' = user /\ history' = history /\ ~At(r, "questions")
    BY <1>4 DEF ResetPassword, At
  <2> QED BY <2>1, OthersKeepQuestions DEF Exists
<1>5. ASSUME NEW row, SettingsStep(r, row)
      PROVE  Current(r) \in UserRow
  BY <1>5, HoldsSettings
<1>6. CASE UpdatePassword(r)
  <2>1. PICK row : /\ row = [Current(r) EXCEPT !.password = number']
                   /\ SettingsStep(r, row) /\ history' = history
    BY <1>6 DEF UpdatePassword
  <2>2. row.questions = Current(r).questions
    BY <1>5, <2>1 DEF UserRow
  <2> QED BY <2>1, <2>2, SettingsKeepQuestions
<1>7. CASE UpdateEmail(r)
  <2>1. PICK p : /\ SettingsStep(r, [Current(r) EXCEPT !.pending = p])
                 /\ history' = history
    BY <1>7 DEF UpdateEmail
  <2>2. PICK row : row = [Current(r) EXCEPT !.pending = p]
    OBVIOUS
  <2>3. row.questions = Current(r).questions
    BY <1>5, <2>1, <2>2 DEF UserRow
  <2> QED BY <2>1, <2>2, <2>3, SettingsKeepQuestions
<1>8. CASE VerifyEmailChange(r)
  <2>1. PICK e : \/ SettingsStep(r, [Current(r) EXCEPT !.email = e, !.pending = None])
                 \/ SettingsStep(r, [Current(r) EXCEPT !.pending = None])
    BY <1>8 DEF VerifyEmailChange
  <2>2. PICK row : /\ SettingsStep(r, row)
                   /\ \/ row = [Current(r) EXCEPT !.email = e, !.pending = None]
                      \/ row = [Current(r) EXCEPT !.pending = None]
    BY <2>1
  <2>3. row.questions = Current(r).questions
    BY <1>5, <2>2 DEF UserRow
  <2>4. history'.broken = history.broken
    BY <1>1, <1>8 DEF VerifyEmailChange, History
  <2> QED BY <2>2, <2>3, <2>4, SettingsKeepQuestions
<1>9. CASE DeleteAccount(r)
  <2>1. /\ user' = [user EXCEPT ![request[r].account] = Deleted]
        /\ history' = history /\ ~At(r, "questions")
    BY <1>9 DEF DeleteAccount, At
  <2>2. \A v \in Account : Exists(v)' => user'[v] = user[v]
    BY <2>1 DEF Exists, Copies, UsersOK
  <2>3. \A v \in Account : Exists(v)' =>
           Exists(v) /\ user'[v].questions = user[v].questions
    BY <2>2 DEF Exists
  <2> QED BY <2>1, <2>3, OthersKeepQuestions
<1> QED BY <1>2, <1>3, <1>4, <1>6, <1>7, <1>8, <1>9, CreateUserKeepsQuestions,
           LastStepKeepsQuestions, UpdateQuestionsKeepsQuestions DEF Handles

LEMMA QuestionsKept ==
    ASSUME Copies, Questions, [AccountsNext]_accountsVars
    PROVE  Questions'
<1>1. ASSUME NEW r \in Request, NEW b \in Browser, Calls(r, b)
      PROVE  Questions'
  <2>1. \A q \in Request : At(q, "questions") => request'[q] = request[q]
    BY <1>1, CallMoves DEF At
  <2>2. user' = user /\ history' = history
    BY <1>1, CallMoves
  <2> QED BY <2>1, <2>2, QuestionsStay DEF Exists
<1>2. ASSUME \/ UNCHANGED accountsVars
             \/ \E b \in Browser : Logout(b)
             \/ \E k \in Key : WindowEnds(k)
      PROVE  Questions'
  <2>1. user' = user /\ request' = request
    BY <1>2 DEF accountsVars, Logout, WindowEnds
  <2>2. history'.broken = history.broken
    BY <1>2 DEF accountsVars, Logout, WindowEnds, Copies, NumbersOK, History
  <2> QED BY <2>1, <2>2, QuestionsStay DEF Exists
<1> QED BY <1>1, <1>2, HandledKeepsQuestions DEF AccountsNext

(* An account has one set of questions, or was given several by overlapping *)
(* requests, or its registration was cut short (SecurityQuestionsView,      *)
(* UpdateSecurityQuestionsView).                                            *)
THEOREM OneSetOfQuestions == AccountsSpec => []QuestionsAreOneSet
<1>1. AccountsInit => Questions
  <2>1. ASSUME AccountsInit, NEW u \in Account, Exists(u)
        PROVE  user[u].questions = {1}
    BY <2>1 DEF AccountsInit, Exists, NewUser
  <2> QED BY <2>1 DEF Questions
<1>2. Questions => QuestionsAreOneSet
  <2>1. ASSUME NEW S, NEW x, S = {x}
        PROVE  Cardinality(S) = 1
    BY <2>1, FS_Singleton
  <2> QED BY <2>1 DEF Questions, QuestionsAreOneSet, Unfinished
<1>3. Copies /\ Questions /\ [AccountsNext]_accountsVars => Questions'
  BY QuestionsKept
<1> QED BY <1>1, <1>2, <1>3, CopiesInvariant, PTL DEF AccountsSpec

-------------------------------------------------------------------------------
(* The limiter.  A request has passed the check of a key when it goes on to *)
(* try something that may fail, until the failure is counted.               *)
Passes(q, k) ==
    \/ q.pc = "verify" /\ q.allowed /\ k = <<"code", q.session.reg>>
    \/ q.pc = "reset" /\ q.allowed /\ k = <<"code", q.session.reset>>
    \/ q.pc = "login" /\ k = <<"login", 0>>
    \/ q.pc \in Limiting /\ \E i \in DOMAIN q.todo : q.todo[i] = k

Passed(k) == {r \in Request : request[r] # None /\ Passes(request[r], k)}

Limited == {k \in Key : k[1] # "trigger"}

Counted == \A k \in Key \ history.overwritten : counter[k] = history.counted[k]
Bounded ==
    \A k \in Limited :
        counter[k] + Cardinality(Passed(k)) <= Limit(k) + Cardinality(Request) - 1

(* Limits and what is counted are naturals.                                 *)
LEMMA LimitFacts ==
    /\ \A k \in Limited : k \in Key /\ Limit(k) \in Nat \ {0}
    /\ Cardinality(Request) \in Nat
    /\ \A S \in SUBSET Request : /\ IsFiniteSet(S) /\ Cardinality(S) \in Nat
                                 /\ Cardinality(S) <= Cardinality(Request)
<1>1. \A k \in Limited : k \in Key /\ Limit(k) \in Nat \ {0}
  BY AccountsAssumption DEF Limited, Key, Limit
<1> QED BY <1>1, AccountsAssumption, FS_CardinalityType, FS_Subset

(* Nobody passes and no counter goes up.                                    *)
LEMMA BoundKept ==
    ASSUME Copies, Bounded, counter' \in [Key -> Nat],
           \A k \in Limited : counter'[k] <= counter[k] /\ Passed(k)' \subseteq Passed(k)
    PROVE  Bounded'
<1> SUFFICES ASSUME NEW k \in Limited
             PROVE  counter'[k] + Cardinality(Passed(k)')
                       <= Limit(k) + Cardinality(Request) - 1
  BY DEF Bounded
<1>1. Passed(k) \subseteq Request
  BY DEF Passed
<1>2. /\ Cardinality(Passed(k)') <= Cardinality(Passed(k))
      /\ Cardinality(Passed(k)') \in Nat /\ Cardinality(Passed(k)) \in Nat
  BY <1>1, LimitFacts, FS_Subset, FS_CardinalityType
<1>3. counter[k] + Cardinality(Passed(k)) <= Limit(k) + Cardinality(Request) - 1
  BY DEF Bounded
<1>4. counter[k] \in Nat /\ counter'[k] \in Nat
  BY LimitFacts DEF Copies, NumbersOK
<1> QED BY <1>2, <1>3, <1>4, LimitFacts

(* A request passes a key that is not at its limit.                         *)
LEMMA PassesWithin ==
    ASSUME Copies, Bounded, NEW r \in Request, counter' = counter,
           \A k \in Limited : \/ Passed(k)' \subseteq Passed(k)
                              \/ Allowed(k)
    PROVE  Bounded'
<1> SUFFICES ASSUME NEW k \in Limited
             PROVE  counter'[k] + Cardinality(Passed(k)')
                       <= Limit(k) + Cardinality(Request) - 1
  BY DEF Bounded
<1>1. Passed(k) \subseteq Request /\ Passed(k)' \subseteq Request
  BY DEF Passed
<1>2. counter[k] \in Nat
  BY LimitFacts DEF Copies, NumbersOK
<1>3. CASE Passed(k)' \subseteq Passed(k)
  <2>1. /\ Cardinality(Passed(k)') <= Cardinality(Passed(k))
        /\ Cardinality(Passed(k)') \in Nat /\ Cardinality(Passed(k)) \in Nat
    BY <1>1, <1>3, LimitFacts, FS_Subset, FS_CardinalityType
  <2>2. counter[k] + Cardinality(Passed(k)) <= Limit(k) + Cardinality(Request) - 1
    BY DEF Bounded
  <2> QED BY <1>2, <2>1, <2>2, LimitFacts
<1>4. CASE Allowed(k)
  <2>1. counter[k] < Limit(k)
    BY <1>4 DEF Allowed
  <2>2. /\ Cardinality(Passed(k)') <= Cardinality(Request)
        /\ Cardinality(Passed(k)') \in Nat
    BY <1>1, LimitFacts
  <2> QED BY <1>2, <2>1, <2>2, LimitFacts
<1> QED BY <1>3, <1>4

(* A failure is counted by one that had passed.                             *)
LEMMA CountedWithin ==
    ASSUME Copies, Bounded, NEW r \in Request, NEW k \in Key,
           counter' \in [Key -> Nat], counter'[k] <= counter[k] + 1,
           k \in Limited => r \in Passed(k) /\ Passed(k)' \subseteq Passed(k) \ {r},
           \A j \in Limited \ {k} : /\ counter'[j] = counter[j]
                                    /\ Passed(j)' \subseteq Passed(j)
    PROVE  Bounded'
<1> SUFFICES ASSUME NEW j \in Limited
             PROVE  counter'[j] + Cardinality(Passed(j)')
                       <= Limit(j) + Cardinality(Request) - 1
  BY DEF Bounded
<1>1. Passed(j) \subseteq Request
  BY DEF Passed
<1>2. counter[j] \in Nat /\ counter'[j] \in Nat /\ IsFiniteSet(Passed(j))
      /\ Cardinality(Passed(j)) \in Nat
  BY <1>1, LimitFacts DEF Copies, NumbersOK
<1>3. counter[j] + Cardinality(Passed(j)) <= Limit(j) + Cardinality(Request) - 1
  BY DEF Bounded
<1>4. CASE j # k
  <2>1. /\ Cardinality(Passed(j)') <= Cardinality(Passed(j))
        /\ Cardinality(Passed(j)') \in Nat
    BY <1>2, <1>4, FS_Subset, FS_CardinalityType
  <2>2. counter'[j] = counter[j]
    BY <1>4
  <2> QED BY <1>2, <1>3, <2>1, <2>2, LimitFacts
<1>5. CASE j = k
  <2>1. /\ Cardinality(Passed(j) \ {r}) = Cardinality(Passed(j)) - 1
        /\ IsFiniteSet(Passed(j) \ {r})
    BY <1>2, <1>5, FS_RemoveElement
  <2>2. /\ Cardinality(Passed(j)') <= Cardinality(Passed(j) \ {r})
        /\ Cardinality(Passed(j)') \in Nat
    BY <1>5, <2>1, FS_Subset, FS_CardinalityType
  <2> QED BY <1>2, <1>3, <1>5, <2>1, <2>2, LimitFacts
<1> QED BY <1>4, <1>5

(* Where only one request moves, it is enough to look at that one.          *)
LEMMA PassedByOthers ==
    ASSUME NEW r \in Request, \A q \in Request \ {r} : request'[q] = request[q],
           NEW k,
           request'[r] # None /\ Passes(request'[r], k) =>
              request[r] # None /\ Passes(request[r], k)
    PROVE  Passed(k)' \subseteq Passed(k)
BY DEF Passed, Passes

(* A new request has passed the keys it has looked at.                      *)
LEMMA CallsWithin ==
    ASSUME Copies, Bounded, NEW r \in Request, NEW b \in Browser, Calls(r, b)
    PROVE  Bounded'
<1>1. request = [q \in Request |-> request[q]]
  BY DEF Copies, RequestsOK
<1>2. ASSUME NEW k \in Limited, request'[r] # None, Passes(request'[r], k)
      PROVE  Allowed(k)
  <2>1. ASSUME NEW x, Begins(r, x)
        PROVE  request'[r] = x
    BY <1>1, <2>1 DEF Begins
  <2>2. CASE VerifyEmail(r, b)
    <3>1. request'[r] = [pc |-> "verify", browser |-> b, session |-> browser[b],
                  row |-> regs[browser[b].reg],
                  allowed |-> Allowed(<<"code", browser[b].reg>>)]
      BY <2>1, <2>2 DEF VerifyEmail
    <3> QED BY <1>2, <3>1 DEF Passes, Limiting
  <2>3. CASE ResetStep(r, b)
    <3>1. request'[r] = [pc |-> "reset", browser |-> b, session |-> browser[b],
                  row |-> resets[browser[b].reset],
                  account |-> AccountOf(resets[browser[b].reset].email),
                  allowed |-> Allowed(<<"code", browser[b].reset>>)]
      BY <2>1, <2>3 DEF ResetStep
    <3> QED BY <1>2, <3>1 DEF Passes, Limiting
  <2>4. CASE Login(r, b)
    <3>1. Allowed(<<"login", 0>>) /\ \E u : request'[r] =
             [pc |-> "login", browser |-> b, session |-> browser[b], account |-> u]
      BY <2>1, <2>4 DEF Login
    <3> QED BY <1>2, <3>1 DEF Passes, Limiting
  <2>5. CASE Register(r, b)
    <3>1. \E e : request'[r] =
             [pc |-> "register", browser |-> b, email |-> e, session |-> browser[b]]
      BY <2>1, <2>5 DEF Register
    <3> QED BY <1>2, <3>1 DEF Passes, Limiting
  <2>6. CASE AnswerFirstQuestions(r, b)
    <3>1. request'[r] = [pc |-> "create", browser |-> b, session |-> browser[b],
                         row |-> regs[browser[b].reg]]
      BY <2>1, <2>6 DEF AnswerFirstQuestions
    <3> QED BY <1>2, <3>1 DEF Passes, Limiting
  <2>7. CASE ForgotPassword(r, b)
    <3>1. \E e : request'[r] =
             [pc |-> "forgot", browser |-> b, session |-> browser[b], email |-> e]
      BY <2>1, <2>7 DEF ForgotPassword
    <3> QED BY <1>2, <3>1 DEF Passes, Limiting
  <2>8. CASE VerifyLogin(r, b)
    <3>1. \E n, row : request'[r] =
             [pc |-> "code", browser |-> b, session |-> browser[b], id |-> n, row |-> row]
      BY <2>1, <2>8 DEF VerifyLogin
    <3> QED BY <1>2, <3>1 DEF Passes, Limiting
  <2>9. CASE Settings(r, b)
    <3>1. \E u, row : request'[r] =
             [pc |-> "settings", browser |-> b, account |-> u, session |-> browser[b],
              row |-> row]
      BY <2>1, <2>9 DEF Settings
    <3> QED BY <1>2, <3>1 DEF Passes, Limiting
  <2> QED BY <2>2, <2>3, <2>4, <2>5, <2>6, <2>7, <2>8, <2>9 DEF Calls
<1>3. ASSUME NEW k \in Limited
      PROVE  Passed(k)' \subseteq Passed(k) \/ Allowed(k)
  BY <1>2, CallMoves, PassedByOthers
<1>4. counter' = counter
  BY CallMoves
<1> QED BY <1>3, <1>4, PassesWithin

(* A failure comes from a request that had passed its key.                  *)
LEMMA FailuresHavePassed ==
    ASSUME Copies, NEW r \in Request,
           EnterEmailCode(r) \/ EnterResetCode(r) \/ WrongPassword(r),
           NEW k \in Limited, request'[r] # None, Passes(request'[r], k)
    PROVE  request[r] # None /\ Passes(request[r], k)
<1>1. request = [q \in Request |-> request[q]] /\ request[r] # None
  BY AtHolds DEF Copies, RequestsOK, EnterEmailCode, EnterResetCode, WrongPassword
<1>2. ASSUME NEW keys, Fails(r, keys)
      PROVE  \E i \in DOMAIN keys : keys[i] = k
  <2>1. request'[r] = [pc |-> "incr", browser |-> request[r].browser,
                       session |-> request[r].session, todo |-> keys]
    BY <1>1, <1>2 DEF Fails
  <2> QED BY <2>1 DEF Passes
<1>3. CASE EnterEmailCode(r)
  <2>1. Fails(r, << <<"code", request[r].session.reg>> >>)
    BY <1>1, <1>3 DEF EnterEmailCode, Ends
  <2>2. /\ k = <<"code", request[r].session.reg>>
        /\ request[r].pc = "verify" /\ request[r].allowed
    BY <1>2, <1>3, <2>1 DEF EnterEmailCode, At
  <2> QED BY <1>1, <2>2 DEF Passes
<1>4. CASE EnterResetCode(r)
  <2>1. Fails(r, << <<"code", ResetId(r)>> >>)
    BY <1>1, <1>4 DEF EnterResetCode, EndsUnchanged, Ends
  <2>2. /\ k = <<"code", request[r].session.reset>>
        /\ request[r].pc = "reset" /\ request[r].allowed
    BY <1>2, <1>4, <2>1 DEF EnterResetCode, At, ResetId
  <2> QED BY <1>1, <2>2 DEF Passes
<1>5. CASE WrongPassword(r)
  <2>1. Fails(r, << <<"login", 0>>, <<"trigger", 0>> >>) /\ request[r].pc = "login"
    BY <1>5 DEF WrongPassword, At
  <2>2. k = <<"login", 0>> \/ k = <<"trigger", 0>>
    BY <1>2, <2>1
  <2>3. k = <<"login", 0>>
    BY <2>2 DEF Limited
  <2> QED BY <1>1, <2>1, <2>3 DEF Passes
<1> QED BY <1>3, <1>4, <1>5

(* The failure counted is one of a request that had passed, and passes no   *)
(* more.                                                                    *)
LEMMA RecordAttemptWithin ==
    ASSUME Copies, Bounded, NEW r \in Request, RecordAttempt(r)
    PROVE  Bounded'
<1>1. /\ request[r] # None /\ request[r] \in Counting
      /\ Head(request[r].todo) \in Key
      /\ \/ Turns(r)
         \/ /\ Adds(Head(request[r].todo)) \/ SetsBack(Head(request[r].todo))
            /\ NextKey(r)
  BY AttemptSteps
<1>2. PICK k \in Key : k = Head(request[r].todo)
  BY <1>1
<1>3. request = [q \in Request |-> request[q]] /\ counter \in [Key -> Nat]
  BY DEF Copies, RequestsOK, NumbersOK
<1>4. \A q \in Request \ {r} : request'[q] = request[q]
  BY HandledMoves DEF Handles
<1>5. request[r].todo \in Todo /\ request[r].pc \in Limiting
  BY <1>1 DEF Counting, Limiting
<1>6. CASE Turns(r)
  <2>1. PICK pc \in {"add", "again", "set"} : request' = [request EXCEPT ![r].pc = pc]
    BY <1>6 DEF Turns
  <2>2. request'[r].todo = request[r].todo /\ request'[r].pc = pc
    BY <1>1, <1>3, <2>1 DEF Counting
  <2>3. \A j \in Limited : Passes(request'[r], j) => Passes(request[r], j)
    BY <1>5, <2>2 DEF Passes, Limiting
  <2>4. \A j \in Limited : Passed(j)' \subseteq Passed(j)
    BY <1>1, <1>4, <2>3, PassedByOthers
  <2>5. counter' = counter
    BY <1>6 DEF Turns
  <2>6. \A j \in Limited : counter'[j] <= counter[j]
    BY <1>3, <2>5, LimitFacts
  <2> QED BY <1>3, <2>4, <2>5, <2>6, BoundKept
<1>7. CASE (Adds(k) \/ SetsBack(k)) /\ NextKey(r)
  <2>1. counter' \in [Key -> Nat] /\ counter'[k] <= counter[k] + 1
        /\ \A j \in Limited \ {k} : counter'[j] = counter[j]
    BY <1>3, <1>7, LimitFacts DEF Adds, SetsBack
  <2>2. Passes(request[r], k)
    <3>1. 1 \in DOMAIN request[r].todo /\ request[r].todo[1] = k
      BY <1>2, <1>5 DEF Todo
    <3> QED BY <1>5, <3>1 DEF Passes
  <2>3. ASSUME NEW j \in Limited, request'[r] # None, Passes(request'[r], j)
        PROVE  FALSE
    <3>1. Len(request[r].todo) # 1
          /\ request' = [request EXCEPT ![r] = [request[r] EXCEPT
                            !.todo = Tail(request[r].todo), !.pc = "incr"]]
      BY <1>3, <1>7, <2>3 DEF NextKey, EndsUnchanged, Ends
    <3>2. request'[r].todo = Tail(request[r].todo) /\ request'[r].pc = "incr"
      BY <1>1, <1>3, <3>1 DEF Counting
    <3>3. request[r].todo = << <<"login", 0>>, <<"trigger", 0>> >>
      BY <1>5, <3>1 DEF Todo
    <3>4. request'[r].todo = << <<"trigger", 0>> >>
      BY <3>2, <3>3
    <3>5. j = <<"trigger", 0>>
      <4>1. PICK i \in DOMAIN request'[r].todo : request'[r].todo[i] = j
        BY <2>3, <3>2 DEF Passes
      <4>2. PICK keys : keys = << <<"trigger", 0>> >>
        OBVIOUS
      <4>3. i \in DOMAIN keys /\ keys[i] = j
        BY <3>4, <4>1, <4>2
      <4> QED BY <4>2, <4>3
    <3> QED BY <3>5 DEF Limited
  <2>4. \A j \in Limited : Passed(j)' \subseteq Passed(j)
    BY <1>4, <2>3, PassedByOthers
  <2>5. r \in Passed(k) /\ (k \in Limited => r \notin Passed(k)')
    BY <1>1, <2>2, <2>3 DEF Passed, Passes
  <2>6. k \in Limited => r \in Passed(k) /\ Passed(k)' \subseteq Passed(k) \ {r}
    BY <2>4, <2>5
  <2>7. \A j \in Limited \ {k} : counter'[j] = counter[j] /\ Passed(j)' \subseteq Passed(j)
    BY <2>1, <2>4
  <2> QED BY <2>1, <2>6, <2>7, CountedWithin
<1> QED BY <1>1, <1>2, <1>6, <1>7

(* The other steps of a request, the only ones that pass being those that   *)
(* fail.                                                                    *)
LEMMA HandledWithin ==
    ASSUME Copies, Bounded, NEW r \in Request, Handles(r)
    PROVE  Bounded'
<1>1. /\ request[r] # None
      /\ \A q \in Request \ {r} : request'[q] = request[q]
      /\ \/ request'[r] = None
         \/ request'[r].pc \in Limiting
         \/ CreateUser(r) /\ request'[r].pc = "questions"
  BY HandledMoves
<1>2. counter \in [Key -> Nat]
  BY DEF Copies, NumbersOK
<1>3. CASE RecordAttempt(r)
  BY <1>3, RecordAttemptWithin
<1>4. CASE EnterEmailCode(r) \/ EnterResetCode(r) \/ WrongPassword(r)
  <2>1. \A k \in Limited : Passed(k)' \subseteq Passed(k)
    BY <1>1, <1>4, FailuresHavePassed, PassedByOthers
  <2>2. counter' = counter
    BY <1>4 DEF EnterEmailCode, EnterResetCode, WrongPassword
  <2>3. \A k \in Limited : counter'[k] <= counter[k]
    BY <1>2, <2>2, LimitFacts
  <2> QED BY <1>2, <2>1, <2>2, <2>3, BoundKept
<1>5. ASSUME ~RecordAttempt(r), ~EnterEmailCode(r), ~EnterResetCode(r),
             ~WrongPassword(r)
      PROVE  Bounded'
  <2>1. \/ counter' = counter
        \/ \E keys : counter' = [k \in Key |-> IF k \in keys THEN 0 ELSE counter[k]]
    BY <1>5 DEF Handles, Refuse, Die, CreateVerification, ResendEmailCode, CreateUser,
                CreateQuestions, CreateReset, AnswerQuestions, ResendResetCode,
                ResetPassword, RightPassword, SecondFactor, WrongLoginCode,
                RightLoginCode, UpdatePassword, UpdateEmail, VerifyEmailChange,
                UpdateQuestions, DeleteAccount, SettingsStep, Forgets
  <2>2. counter' \in [Key -> Nat] /\ \A k \in Limited : counter'[k] <= counter[k]
    <3>1. CASE counter' = counter
      BY <1>2, <3>1, LimitFacts
    <3>2. ASSUME NEW keys,
                 counter' = [k \in Key |-> IF k \in keys THEN 0 ELSE counter[k]]
          PROVE  counter' \in [Key -> Nat] /\ \A k \in Limited : counter'[k] <= counter[k]
      BY <1>2, <3>2, LimitFacts
    <3> QED BY <2>1, <3>1, <3>2
  <2>3. ASSUME request'[r] # None
        PROVE  request'[r].pc = "questions"
    <3>1. request = [q \in Request |-> request[q]]
      BY DEF Copies, RequestsOK
    <3>2. CreateUser(r) \/ request' = [request EXCEPT ![r] = None]
      BY <1>5 DEF Handles, Refuse, Die, CreateVerification, ResendEmailCode,
                CreateQuestions, CreateReset, AnswerQuestions, ResendResetCode,
                ResetPassword, RightPassword, SecondFactor, WrongLoginCode,
                RightLoginCode, UpdatePassword, UpdateEmail, VerifyEmailChange,
                UpdateQuestions, DeleteAccount, SettingsStep, EndsUnchanged, Ends
    <3>3. CreateUser(r)
      BY <2>3, <3>1, <3>2
    <3>4. ~Taken(request[r].row.email)
      BY <2>3, <3>1, <3>3 DEF CreateUser, EndsUnchanged, Ends
    <3>5. PICK u \in Account :
            request' = [request EXCEPT ![r] =
                [pc |-> "questions", account |-> u, browser |-> @.browser,
                 session |-> @.session]]
      BY <3>3, <3>4 DEF CreateUser
    <3> QED BY <3>1, <3>5
  <2>4. \A k \in Limited : request'[r] # None => ~Passes(request'[r], k)
    BY <2>3 DEF Passes, Limiting
  <2>5. \A k \in Limited : Passed(k)' \subseteq Passed(k)
    BY <1>1, <2>4, PassedByOthers
  <2> QED BY <2>2, <2>5, BoundKept
<1> QED BY <1>3, <1>4, <1>5

LEMMA BoundedKept ==
    ASSUME Copies, Bounded, [AccountsNext]_accountsVars
    PROVE  Bounded'
<1>1. counter \in [Key -> Nat]
  BY DEF Copies, NumbersOK
<1>2. ASSUME \/ UNCHANGED accountsVars
             \/ \E b \in Browser : Logout(b)
             \/ \E k \in Key : WindowEnds(k)
      PROVE  Bounded'
  <2>1. request' = request
        /\ (counter' = counter \/ \E k \in Key : counter' = [counter EXCEPT ![k] = 0])
    BY <1>2 DEF accountsVars, Logout, WindowEnds
  <2>2. \A k \in Limited : Passed(k)' \subseteq Passed(k)
    BY <2>1 DEF Passed, Passes
  <2>3. counter' \in [Key -> Nat] /\ \A k \in Limited : counter'[k] <= counter[k]
    BY <1>1, <2>1, LimitFacts
  <2> QED BY <2>2, <2>3, BoundKept
<1> QED BY <1>2, CallsWithin, HandledWithin DEF AccountsNext

(* What the limiter counts, step by step.                                   *)
LEMMA AddsCounts ==
    ASSUME Copies, Counted, NEW k \in Key, Adds(k) \/ SetsBack(k)
    PROVE  Counted'
<1>1. counter \in [Key -> Nat] /\ history \in History
  BY DEF Copies, NumbersOK
<1>2. PICK c : c = [history.counted EXCEPT ![k] = @ + 1]
  OBVIOUS
<1>3. \/ /\ counter' = [counter EXCEPT ![k] = counter[k] + 1]
         /\ history' = [history EXCEPT !.counted = c]
      \/ /\ counter' = [counter EXCEPT ![k] = 1]
         /\ history' = [history EXCEPT !.counted = c, !.overwritten = @ \cup {k}]
  BY <1>2 DEF Adds, SetsBack
<1>4. /\ history'.counted = c
      /\ \/ /\ counter' = [counter EXCEPT ![k] = counter[k] + 1]
            /\ history'.overwritten = history.overwritten
         \/ /\ counter' = [counter EXCEPT ![k] = 1]
            /\ history'.overwritten = history.overwritten \cup {k}
  BY <1>1, <1>3 DEF History
<1>5. history.counted \in [Key -> Nat]
  BY <1>1 DEF History
<1> SUFFICES ASSUME NEW j \in Key, j \notin history'.overwritten
             PROVE  counter'[j] = history'.counted[j]
  BY DEF Counted
<1>6. j \notin history.overwritten /\ counter[j] = history.counted[j]
  BY <1>4 DEF Counted
<1>7. CASE j = k
  BY <1>1, <1>2, <1>4, <1>5, <1>6, <1>7
<1>8. CASE j # k
  BY <1>1, <1>2, <1>4, <1>5, <1>6, <1>8
<1> QED BY <1>7, <1>8

LEMMA ForgetsCounts ==
    ASSUME Copies, Counted, NEW keys,
           Forgets(keys) \/ \E k \in Key : keys = {k} /\ WindowEnds(k)
    PROVE  Counted'
<1>1. counter \in [Key -> Nat] /\ history \in History
  BY DEF Copies, NumbersOK
<1>2. history.counted \in [Key -> Nat]
  BY <1>1 DEF History
<1>3. \/ history' = [history EXCEPT
            !.counted = [k \in Key |-> IF k \in keys THEN 0 ELSE @[k]],
            !.overwritten = @ \ keys]
      \/ \E k \in Key : keys = {k} /\ history' =
            [history EXCEPT !.counted[k] = 0, !.overwritten = @ \ {k}]
  BY DEF Forgets, WindowEnds
<1>4. /\ history'.counted = [k \in Key |-> IF k \in keys THEN 0 ELSE history.counted[k]]
      /\ history'.overwritten = history.overwritten \ keys
  <2>1. CASE history' = [history EXCEPT
            !.counted = [k \in Key |-> IF k \in keys THEN 0 ELSE @[k]],
            !.overwritten = @ \ keys]
    BY <1>1, <2>1 DEF History
  <2>2. ASSUME NEW k \in Key, keys = {k},
               history' = [history EXCEPT !.counted[k] = 0, !.overwritten = @ \ {k}]
        PROVE  /\ history'.counted =
                     [j \in Key |-> IF j \in keys THEN 0 ELSE history.counted[j]]
               /\ history'.overwritten = history.overwritten \ keys
    <3>1. PICK c : c = [history.counted EXCEPT ![k] = 0]
      OBVIOUS
    <3>2. history' = [history EXCEPT !.counted = c, !.overwritten = @ \ {k}]
      BY <2>2, <3>1
    <3>3. history'.counted = c /\ history'.overwritten = history.overwritten \ {k}
      BY <1>1, <3>2 DEF History
    <3> QED BY <1>2, <2>2, <3>1, <3>3
  <2> QED BY <1>3, <2>1, <2>2
<1>5. counter' = [k \in Key |-> IF k \in keys THEN 0 ELSE counter[k]]
  BY <1>1 DEF Forgets, WindowEnds
<1> SUFFICES ASSUME NEW j \in Key, j \notin history'.overwritten
             PROVE  counter'[j] = history'.counted[j]
  BY DEF Counted
<1> QED BY <1>4, <1>5 DEF Counted

LEMMA CountedStays ==
    ASSUME Counted, counter' = counter, history'.counted = history.counted,
           history'.overwritten = history.overwritten
    PROVE  Counted'
BY DEF Counted

LEMMA CountedKept ==
    ASSUME Copies, Counted, [AccountsNext]_accountsVars
    PROVE  Counted'
<1>1. history \in History
  BY DEF Copies, NumbersOK
<1>2. ASSUME NEW r \in Request, RecordAttempt(r)
      PROVE  Counted'
  <2>1. /\ Head(request[r].todo) \in Key
        /\ \/ Turns(r)
           \/ Adds(Head(request[r].todo)) \/ SetsBack(Head(request[r].todo))
    BY <1>2, AttemptSteps
  <2> QED BY <2>1, AddsCounts, CountedStays DEF Turns
<1>3. ASSUME NEW r \in Request, RightPassword(r) \/ RightLoginCode(r)
      PROVE  Counted'
  BY <1>3, ForgetsCounts DEF RightPassword, RightLoginCode
<1>4. ASSUME NEW r \in Request, Handles(r), ~RecordAttempt(r), ~RightPassword(r),
             ~RightLoginCode(r)
      PROVE  Counted'
  <2>1. counter' = counter
    BY <1>4 DEF Handles, Refuse, Die, CreateVerification, EnterEmailCode,
                ResendEmailCode, CreateUser, CreateQuestions, CreateReset,
                AnswerQuestions, EnterResetCode, ResendResetCode, ResetPassword,
                WrongPassword, SecondFactor, WrongLoginCode, UpdatePassword, UpdateEmail,
                VerifyEmailChange, UpdateQuestions, DeleteAccount, SettingsStep
  <2>2. /\ history'.counted = history.counted
        /\ history'.overwritten = history.overwritten
    <3>1. CASE WrongLoginCode(r)
      <4>1. \E t, s : history' = [history EXCEPT !.tries = t, !.raced = s]
        BY <3>1 DEF WrongLoginCode
      <4> QED BY <1>1, <4>1 DEF History
    <3>2. CASE ~WrongLoginCode(r)
      BY <1>1, <1>4, <3>2 DEF Handles, Refuse, Die, CreateVerification, EnterEmailCode,
                ResendEmailCode, CreateUser, CreateQuestions, CreateReset,
                AnswerQuestions, EnterResetCode, ResendResetCode, ResetPassword,
                WrongPassword, SecondFactor, UpdatePassword, UpdateEmail,
                VerifyEmailChange, UpdateQuestions, DeleteAccount, SettingsStep, History
    <3> QED BY <3>1, <3>2
  <2> QED BY <2>1, <2>2, CountedStays
<1>5. ASSUME \/ UNCHANGED accountsVars
             \/ \E r \in Request, b \in Browser : Calls(r, b)
             \/ \E b \in Browser : Logout(b)
      PROVE  Counted'
  <2>1. counter' = counter /\ history' = history
    BY <1>5, CallMoves DEF accountsVars, Logout
  <2> QED BY <2>1, CountedStays
<1>6. ASSUME NEW k \in Key, WindowEnds(k)
      PROVE  Counted'
  BY <1>6, ForgetsCounts
<1> QED BY <1>2, <1>3, <1>4, <1>5, <1>6 DEF AccountsNext

-------------------------------------------------------------------------------
(* The second factor.  Two requests can save an old number of attempts over *)
(* a new one again and again, but an old number is one that was read before *)
(* the present one was reached: Room(a) is twice what can still be tried    *)
(* from the number a.                                                       *)
Room(a) == (MaxAttempts - a) * (MaxAttempts - a + 3)
Total == MaxAttempts * (MaxAttempts + 3)

Trying(n) == {r \in Request : At(r, "code") /\ request[r].id = n}
Seen(r) == request[r].row.attempts

Paired(n, t, a) ==
    /\ 2 * t + Room(a) <= Total
    /\ \A r \in Trying(n) : Seen(r) < a =>
          2 * t + 2 * (MaxAttempts - a + 1) + Room(Seen(r) + 1) <= Total
    /\ \A r \in Trying(n) : \A q \in Trying(n) \ {r} :
          Seen(r) <= Seen(q) /\ Seen(q) < a =>
             2 * t + 2 * (MaxAttempts - Seen(q) + 1) + Room(Seen(r) + 1) <= Total

Untried == \A n \in Number : n > number => history.tries[n] = 0
Alone ==
    \A n \in Number \ history.raced :
        /\ history.tries[n] <= MaxAttempts
        /\ logins[n] # None => history.tries[n] = logins[n].attempts
Overlapped ==
    Cardinality(Request) <= 2 => \A n \in Number :
        /\ 2 * history.tries[n] <= Total
        /\ logins[n] # None => Paired(n, history.tries[n], logins[n].attempts)

Tries == Untried /\ Alone /\ Overlapped

LEMMA RoomFacts ==
    /\ Total \in Nat /\ Room(0) = Total
    /\ \A a \in 0..MaxAttempts : Room(a) \in Nat
    /\ \A a \in 0..MaxAttempts : a < MaxAttempts =>
          Room(a) = Room(a + 1) + 2 * (MaxAttempts - a + 1)
    /\ \A a, b \in 0..MaxAttempts : a <= b => Room(b) <= Room(a)
<1>1. MaxAttempts \in Nat \ {0}
  BY AccountsAssumption
<1>2. \A x, y \in Nat : x * y \in Nat
  OBVIOUS
<1>3. Total \in Nat /\ Room(0) = Total
  BY <1>1, <1>2 DEF Total, Room
<1>4. ASSUME NEW a \in 0..MaxAttempts
      PROVE  Room(a) \in Nat
  BY <1>1, <1>2, <1>4 DEF Room
<1>5. ASSUME NEW a \in 0..MaxAttempts, a < MaxAttempts
      PROVE  Room(a) = Room(a + 1) + 2 * (MaxAttempts - a + 1)
  BY <1>1, <1>5 DEF Room
<1>6. ASSUME NEW a \in 0..MaxAttempts, NEW b \in 0..MaxAttempts, a <= b
      PROVE  Room(b) <= Room(a)
  <2>1. PICK d, e \in Nat : d = MaxAttempts - b /\ e = b - a
    BY <1>1, <1>6
  <2>2. MaxAttempts - a = d + e
    BY <1>1, <1>6, <2>1
  <2>3. (d + e) * (d + e + 3) = d * (d + 3) + e * (2 * d + e + 3)
    BY <2>1
  <2>4. e * (2 * d + e + 3) \in Nat /\ d * (d + 3) \in Nat
    BY <2>1, <1>2
  <2> QED BY <2>1, <2>2, <2>3, <2>4 DEF Room
<1> QED BY <1>3, <1>4, <1>5, <1>6

LEMMA SeenOK ==
    ASSUME Copies, NEW n, NEW r \in Trying(n)
    PROVE  /\ r \in Request /\ request[r] # None /\ n \in Number /\ n <= number
           /\ Seen(r) \in 0..MaxAttempts /\ Seen(r) < MaxAttempts
BY HoldsCopies DEF Trying, At, Seen, RequestOK, LoginRow

(* What is there to lose or gain is only a request that has read the        *)
(* present number.                                                          *)
LEMMA PairedStays ==
    ASSUME Copies', NEW n \in Number, NEW t \in Nat, NEW a \in Nat, Paired(n, t, a),
           \A r \in Request : request'[r] # None =>
              \/ request'[r] = request[r]
              \/ request'[r].pc # "code" \/ request'[r].id # n
              \/ request'[r].row.attempts = a
    PROVE  Paired(n, t, a)'
<1>1. ASSUME NEW r \in Trying(n)', Seen(r)' < a
      PROVE  r \in Trying(n) /\ Seen(r)' = Seen(r)
  BY <1>1 DEF Trying, Seen, At
<1>2. ASSUME NEW r \in Trying(n)', NEW q \in Trying(n)' \ {r},
             Seen(r)' <= Seen(q)', Seen(q)' < a
      PROVE  Seen(r)' < a
  <2>1. Seen(r)' \in Nat /\ Seen(q)' \in Nat
    <3>1. ASSUME NEW p \in Trying(n)'
          PROVE  Seen(p)' \in Nat
      <4>1. p \in Request /\ request'[p] # None /\ request'[p].pc = "code"
        BY <3>1 DEF Trying, At
      <4>2. request'[p].row \in LoginRow
        BY <4>1 DEF Copies, RequestsOK, RequestOK
      <4> QED BY <4>2 DEF LoginRow, Seen
    <3> QED BY <1>2, <3>1
  <2> QED BY <1>2, <2>1
<1> QED BY <1>1, <1>2 DEF Paired

LEMMA TriesStay ==
    ASSUME Copies, Copies', Tries, number <= number',
           history'.tries = history.tries, history'.raced = history.raced,
           \A n \in Number : logins'[n] # None =>
              logins[n] # None /\ logins'[n].attempts = logins[n].attempts,
           \A r \in Request : request'[r] # None =>
              \/ request'[r] = request[r]
              \/ request'[r].pc # "code"
              \/ request'[r].row.attempts = logins[request'[r].id].attempts
    PROVE  Tries'
<1>1. /\ number \in Nat /\ number' \in Nat /\ history \in History
      /\ logins \in [Number -> LoginRow \cup {None}]
  BY DEF Copies, NumbersOK, LoginsOK
<1>2. Untried'
  BY <1>1 DEF Tries, Untried, Number
<1>3. Alone'
  BY DEF Tries, Alone
<1>4. ASSUME Cardinality(Request) <= 2, NEW n \in Number, logins'[n] # None
      PROVE  Paired(n, history.tries[n], logins[n].attempts)'
  <2>1. PICK t \in Nat : t = history.tries[n]
    BY <1>1 DEF History
  <2>2. logins[n] # None /\ logins[n] \in LoginRow
    BY <1>1, <1>4
  <2>3. PICK a \in Nat : a = logins[n].attempts
    BY <2>2 DEF LoginRow
  <2>4. Paired(n, t, a)
    BY <1>4, <2>1, <2>2, <2>3 DEF Tries, Overlapped
  <2>5. Paired(n, t, a)'
    BY <2>3, <2>4, PairedStays
  <2>6. t = history'.tries[n] /\ a = logins'[n].attempts
    BY <1>4, <2>1, <2>3
  <2> QED BY <2>5, <2>6 DEF Paired
<1>5. Overlapped'
  BY <1>4 DEF Tries, Overlapped
<1> QED BY <1>2, <1>3, <1>5 DEF Tries

LEMMA NoThird ==
    ASSUME Cardinality(Request) <= 2, NEW r \in Request, NEW q \in Request \ {r},
           NEW p \in Request \ {r, q}
    PROVE  FALSE
<1>1. IsFiniteSet(Request) /\ Cardinality(Request) \in Nat
  BY AccountsAssumption, FS_CardinalityType
<1>2. /\ IsFiniteSet(Request \ {r}) /\ Cardinality(Request \ {r}) \in Nat
      /\ Cardinality(Request \ {r}) = Cardinality(Request) - 1
  BY <1>1, FS_RemoveElement, FS_CardinalityType
<1>3. /\ IsFiniteSet((Request \ {r}) \ {q}) /\ Cardinality((Request \ {r}) \ {q}) \in Nat
      /\ Cardinality((Request \ {r}) \ {q}) = Cardinality(Request \ {r}) - 1
  BY <1>2, FS_RemoveElement, FS_CardinalityType
<1>4. Cardinality((Request \ {r}) \ {q}) = 0
  BY <1>1, <1>2, <1>3
<1>5. (Request \ {r}) \ {q} = {}
  BY <1>3, <1>4, FS_EmptySet
<1> QED BY <1>5

(* A wrong code that was tried from the number x, the present one being a.  *)
LEMMA RoomForOne ==
    ASSUME NEW t \in Nat, NEW a \in 0..MaxAttempts, NEW x \in 0..MaxAttempts,
           x < MaxAttempts, 2 * t + Room(a) <= Total,
           x < a => 2 * t + 2 * (MaxAttempts - a + 1) + Room(x + 1) <= Total
    PROVE  2 * (t + 1) + Room(x + 1) <= Total
<1>1. MaxAttempts \in Nat /\ x + 1 \in 0..MaxAttempts
  BY AccountsAssumption
<1>2. Total \in Nat /\ Room(a) \in Nat /\ Room(x) \in Nat /\ Room(x + 1) \in Nat
  BY <1>1, RoomFacts
<1>3. CASE x < a
  BY <1>1, <1>2, <1>3
<1>4. CASE a <= x
  <2>1. Room(x) <= Room(a) /\ Room(x) = Room(x + 1) + 2 * (MaxAttempts - x + 1)
    BY <1>4, RoomFacts
  <2> QED BY <1>1, <1>2, <2>1
<1> QED BY <1>3, <1>4

(* The same with another request on the way that has read the number y.     *)
LEMMA RoomForTwo ==
    ASSUME NEW t \in Nat, NEW a \in 0..MaxAttempts, NEW x \in 0..MaxAttempts,
           NEW y \in 0..MaxAttempts, x < MaxAttempts, y <= x,
           2 * t + Room(a) <= Total,
           y < a => 2 * t + 2 * (MaxAttempts - a + 1) + Room(y + 1) <= Total,
           x < a => 2 * t + 2 * (MaxAttempts - x + 1) + Room(y + 1) <= Total
    PROVE  2 * (t + 1) + 2 * (MaxAttempts - (x + 1) + 1) + Room(y + 1) <= Total
<1>1. MaxAttempts \in Nat /\ y + 1 \in 0..MaxAttempts
  BY AccountsAssumption
<1>2. Total \in Nat /\ Room(a) \in Nat /\ Room(y) \in Nat /\ Room(y + 1) \in Nat
  BY <1>1, RoomFacts
<1>3. CASE x < a
  BY <1>1, <1>2, <1>3
<1>4. CASE a <= x /\ y < a
  BY <1>1, <1>2, <1>4
<1>5. CASE a <= y
  <2>1. y < MaxAttempts
    BY <1>1
  <2>2. Room(y) <= Room(a) /\ Room(y) = Room(y + 1) + 2 * (MaxAttempts - y + 1)
    BY <1>5, <2>1, RoomFacts
  <2> QED BY <1>1, <1>2, <2>2
<1> QED BY <1>3, <1>4, <1>5

LEMMA WrongLoginCodeTries ==
    ASSUME Copies, Copies', Tries, NEW r \in Request, WrongLoginCode(r)
    PROVE  Tries'
<1>1. /\ number \in Nat /\ history \in History /\ number' = number
      /\ logins \in [Number -> LoginRow \cup {None}] /\ MaxAttempts \in Nat
  BY AccountsAssumption DEF Copies, NumbersOK, LoginsOK, WrongLoginCode
<1>2. PICK n \in Number : n = request[r].id /\ r \in Trying(n) /\ logins[n] # None
  BY HoldsCode DEF WrongLoginCode, Trying, At
<1>3. PICK t \in Nat : t = history.tries[n]
  BY <1>1 DEF History
<1>4. logins[n] \in LoginRow
  BY <1>1, <1>2
<1>5. PICK a \in 0..MaxAttempts : a = logins[n].attempts
  BY <1>4 DEF LoginRow
<1>6. PICK x \in 0..MaxAttempts : x = Seen(r) /\ x < MaxAttempts
  BY <1>2, SeenOK
<1>7. /\ logins'[n] # None => logins'[n].attempts = x + 1
      /\ \A m \in Number \ {n} : logins'[m] = logins[m]
  <2>1. logins' = [logins EXCEPT ![n].attempts = x + 1]
    BY <1>2, <1>6 DEF WrongLoginCode, Seen
  <2> QED BY <1>1, <1>4, <2>1 DEF LoginRow
<1>8. /\ history'.tries[n] = t + 1
      /\ \A m \in Number \ {n} : history'.tries[m] = history.tries[m]
      /\ history'.raced = IF a # x THEN history.raced \cup {n} ELSE history.raced
  <2>1. PICK s : s = [history.tries EXCEPT ![n] = @ + 1]
    OBVIOUS
  <2>2. history' = [history EXCEPT !.tries = s,
                      !.raced = IF a # x THEN @ \cup {n} ELSE @]
    BY <1>2, <1>5, <1>6, <2>1 DEF WrongLoginCode, Seen
  <2>3. /\ history'.tries = s
        /\ history'.raced = IF a # x THEN history.raced \cup {n} ELSE history.raced
    BY <1>1, <2>2 DEF History
  <2>4. history.tries \in [Number -> Nat]
    BY <1>1 DEF History
  <2> QED BY <1>3, <2>1, <2>3, <2>4
<1>9. \A q \in Request : request'[q] # None => q # r /\ request'[q] = request[q]
  BY DEF WrongLoginCode, EndsUnchanged, Ends, Copies, RequestsOK
<1>10. Untried'
  <2>1. n <= number
    BY <1>2, SeenOK
  <2> QED BY <1>1, <1>8, <2>1 DEF Tries, Untried, Number
<1>11. Alone'
  <2>1. ASSUME NEW m \in Number \ {n}, m \notin history'.raced
        PROVE  /\ history'.tries[m] <= MaxAttempts
               /\ logins'[m] # None => history'.tries[m] = logins'[m].attempts
    <3>1. m \notin history.raced
      BY <1>8, <2>1
    <3> QED BY <1>7, <1>8, <2>1, <3>1 DEF Tries, Alone
  <2>2. ASSUME n \notin history'.raced
        PROVE  /\ history'.tries[n] <= MaxAttempts
               /\ logins'[n] # None => history'.tries[n] = logins'[n].attempts
    <3>1. a = x /\ n \notin history.raced
      BY <1>8, <2>2
    <3>2. t = a
      BY <1>2, <1>3, <1>5, <3>1 DEF Tries, Alone
    <3> QED BY <1>1, <1>6, <1>7, <1>8, <3>1, <3>2
  <2> QED BY <2>1, <2>2 DEF Alone
<1>12. ASSUME Cardinality(Request) <= 2
       PROVE  2 * (t + 1) <= Total /\ Paired(n, t + 1, x + 1)'
  <2>1. Paired(n, t, a)
    BY <1>2, <1>3, <1>5, <1>12 DEF Tries, Overlapped
  <2>2. 2 * t + Room(a) <= Total
    BY <2>1 DEF Paired
  <2>3. x < a => 2 * t + 2 * (MaxAttempts - a + 1) + Room(x + 1) <= Total
    BY <1>2, <1>6, <2>1 DEF Paired
  <2>4. 2 * (t + 1) + Room(x + 1) <= Total
    BY <1>6, <2>2, <2>3, RoomForOne
  <2>5. x + 1 \in 0..MaxAttempts /\ Room(x + 1) \in Nat /\ Total \in Nat
    BY <1>1, <1>6, RoomFacts
  <2>6. ASSUME NEW q \in Trying(n)'
        PROVE  q \in Trying(n) /\ q # r /\ Seen(q)' = Seen(q)
    BY <1>9, <2>6 DEF Trying, Seen, At
  <2>7. ASSUME NEW q \in Trying(n)', Seen(q)' < x + 1
        PROVE  2 * (t + 1) + 2 * (MaxAttempts - (x + 1) + 1) + Room(Seen(q)' + 1)
                  <= Total
    <3>1. PICK y \in 0..MaxAttempts : y = Seen(q) /\ y < MaxAttempts
      BY <2>6, <2>7, SeenOK
    <3>2. Seen(q)' = y /\ y <= x
      BY <1>6, <2>6, <2>7, <3>1
    <3>3. y < a => 2 * t + 2 * (MaxAttempts - a + 1) + Room(y + 1) <= Total
      BY <2>1, <2>6, <2>7, <3>1 DEF Paired
    <3>4. x < a => 2 * t + 2 * (MaxAttempts - x + 1) + Room(y + 1) <= Total
      <4>1. q \in Trying(n) /\ r \in Trying(n) \ {q}
        BY <1>2, <2>6, <2>7
      <4>2. Seen(q) <= Seen(r)
        BY <1>6, <3>1, <3>2
      <4> QED BY <1>6, <2>1, <3>1, <4>1, <4>2 DEF Paired
    <3> QED BY <1>6, <2>2, <3>1, <3>2, <3>3, <3>4, RoomForTwo
  <2>8. ASSUME NEW q \in Trying(n)', NEW p \in Trying(n)' \ {q}
        PROVE  FALSE
    <3>1. q \in Request \ {r} /\ p \in Request \ {r, q}
      BY <2>6, <2>8 DEF Trying
    <3> QED BY <1>12, <3>1, NoThird
  <2>9. Paired(n, t + 1, x + 1)'
    BY <2>4, <2>7, <2>8 DEF Paired
  <2> QED BY <2>4, <2>5, <2>9
<1>13. ASSUME Cardinality(Request) <= 2, NEW m \in Number
       PROVE  /\ 2 * history'.tries[m] <= Total
              /\ logins'[m] # None => Paired(m, history.tries[m], logins[m].attempts)'
  <2>1. CASE m = n
    BY <1>7, <1>8, <1>12, <1>13, <2>1 DEF Paired
  <2>2. CASE m # n
    <3>1. logins'[m] = logins[m] /\ history'.tries[m] = history.tries[m]
      BY <1>7, <1>8, <1>13, <2>2
    <3>2. ASSUME logins[m] # None
          PROVE  Paired(m, history.tries[m], logins[m].attempts)'
      <4>1. PICK s \in Nat : s = history.tries[m]
        BY <1>1 DEF History
      <4>2. PICK b \in Nat : b = logins[m].attempts
        BY <1>1, <3>2 DEF LoginRow
      <4>3. Paired(m, s, b)
        BY <1>13, <3>2, <4>1, <4>2 DEF Tries, Overlapped
      <4>4. Paired(m, s, b)'
        BY <1>9, <1>13, <4>3, PairedStays
      <4> QED BY <3>1, <4>1, <4>2, <4>4 DEF Paired
    <3> QED BY <1>13, <3>1, <3>2 DEF Tries, Overlapped
  <2> QED BY <2>1, <2>2
<1>14. Overlapped'
  BY <1>13 DEF Overlapped
<1> QED BY <1>10, <1>11, <1>14 DEF Tries

LEMMA SecondFactorTries ==
    ASSUME Copies, Copies', Tries, NEW r \in Request, SecondFactor(r)
    PROVE  Tries'
<1>1. /\ number \in Nat /\ history' = history /\ history \in History
      /\ logins \in [Number -> LoginRow \cup {None}] /\ MaxAttempts \in Nat
  BY AccountsAssumption DEF Copies, NumbersOK, LoginsOK, SecondFactor
<1>2. PICK n \in Number : n = number + 1 /\ number' = n
  BY <1>1 DEF SecondFactor, Mails, Number
<1>3. /\ logins'[n].attempts = 0
      /\ \A m \in Number \ {n} : logins'[m] = logins[m]
  BY <1>1, <1>2 DEF SecondFactor
<1>4. \A q \in Request : request'[q] # None => request'[q] = request[q]
  BY DEF SecondFactor, Ends, Copies, RequestsOK
<1>5. history.tries[n] = 0
  BY <1>1, <1>2 DEF Tries, Untried
<1>6. Untried'
  BY <1>1, <1>2 DEF Tries, Untried, Number
<1>7. Alone'
  BY <1>1, <1>3, <1>5 DEF Tries, Alone
<1>8. Paired(n, 0, 0)'
  <2>1. ASSUME NEW q \in Trying(n)'
        PROVE  FALSE
    <3>1. q \in Trying(n)
      BY <1>4, <2>1 DEF Trying, At
    <3> QED BY <1>1, <1>2, <3>1, SeenOK
  <2> QED BY <2>1, RoomFacts DEF Paired
<1>9. ASSUME Cardinality(Request) <= 2, NEW m \in Number
      PROVE  /\ 2 * history'.tries[m] <= Total
             /\ logins'[m] # None => Paired(m, history.tries[m], logins[m].attempts)'
  <2>1. 2 * history'.tries[m] <= Total
    BY <1>1, <1>9 DEF Tries, Overlapped
  <2>2. CASE m = n
    BY <1>1, <1>3, <1>5, <1>8, <2>1, <2>2 DEF Paired
  <2>3. CASE m # n
    <3>1. logins'[m] = logins[m] /\ history'.tries[m] = history.tries[m]
      BY <1>1, <1>3, <2>3
    <3>2. ASSUME logins[m] # None
          PROVE  Paired(m, history.tries[m], logins[m].attempts)'
      <4>1. PICK s \in Nat : s = history.tries[m]
        BY <1>1 DEF History
      <4>2. PICK b \in Nat : b = logins[m].attempts
        BY <1>1, <3>2 DEF LoginRow
      <4>3. Paired(m, s, b)
        BY <1>9, <3>2, <4>1, <4>2 DEF Tries, Overlapped
      <4>4. Paired(m, s, b)'
        BY <1>4, <4>3, PairedStays
      <4> QED BY <3>1, <4>1, <4>2, <4>4 DEF Paired
    <3> QED BY <2>1, <3>1, <3>2
  <2> QED BY <2>2, <2>3
<1>10. Overlapped'
  BY <1>9 DEF Overlapped
<1> QED BY <1>6, <1>7, <1>10 DEF Tries

(* The other steps of a request try no code.                                *)
LEMMA HandledTries ==
    ASSUME Copies, Copies', Tries, NEW r \in Request, Handles(r)
    PROVE  Tries'
<1>1. /\ number \in Nat /\ history \in History
      /\ logins \in [Number -> LoginRow \cup {None}]
  BY DEF Copies, NumbersOK, LoginsOK
<1>2. \A q \in Request : request'[q] # None =>
         request'[q] = request[q] \/ request'[q].pc # "code"
  BY HandledMoves DEF Limiting
<1>3. CASE RecordAttempt(r)
  <2>1. number' = number /\ logins' = logins
    BY <1>3, AttemptSteps
  <2>2. \/ history' = history
        \/ \E c : history' = [history EXCEPT !.counted = c]
        \/ \E c, s : history' = [history EXCEPT !.counted = c, !.overwritten = s]
    BY <1>3, AttemptSteps DEF Turns, Adds, SetsBack
  <2>3. history'.tries = history.tries /\ history'.raced = history.raced
    BY <1>1, <2>2 DEF History
  <2> QED BY <1>1, <1>2, <2>1, <2>3, TriesStay
<1>4. CASE RightLoginCode(r)
  <2>1. number' = number
    BY <1>4 DEF RightLoginCode
  <2>2. \A n \in Number : logins'[n] # None =>
           logins[n] # None /\ logins'[n].attempts = logins[n].attempts
    <3>1. /\ request[r].id \in Number /\ logins[request[r].id] \in LoginRow
          /\ logins' = [logins EXCEPT ![request[r].id].verified = TRUE]
          /\ logins[request[r].id] # None
      BY <1>1, <1>4, HoldsCode DEF RightLoginCode
    <3> QED BY <1>1, <3>1 DEF LoginRow
  <2>3. history'.tries = history.tries /\ history'.raced = history.raced
    BY <1>1, <1>4 DEF RightLoginCode, Forgets, History
  <2> QED BY <1>1, <1>2, <2>1, <2>2, <2>3, TriesStay
<1>5. CASE DeleteAccount(r)
  <2>1. number' = number /\ history' = history
    BY <1>5 DEF DeleteAccount
  <2>2. \A n \in Number : logins'[n] # None => logins'[n] = logins[n]
    BY <1>5 DEF DeleteAccount
  <2> QED BY <1>1, <1>2, <2>1, <2>2, TriesStay
<1>6. CASE \/ Refuse(r) \/ Die(r) \/ CreateVerification(r) \/ EnterEmailCode(r)
           \/ ResendEmailCode(r) \/ CreateUser(r) \/ CreateQuestions(r)
           \/ CreateReset(r) \/ AnswerQuestions(r) \/ EnterResetCode(r)
           \/ ResendResetCode(r) \/ ResetPassword(r)
           \/ WrongPassword(r) \/ RightPassword(r)
           \/ UpdatePassword(r) \/ UpdateEmail(r) \/ VerifyEmailChange(r)
           \/ UpdateQuestions(r)
  <2>1. logins' = logins /\ (number' = number \/ number' = number + 1)
    BY <1>6 DEF Refuse, Die, CreateVerification, EnterEmailCode, ResendEmailCode,
                CreateUser, CreateQuestions, CreateReset, AnswerQuestions,
                EnterResetCode, ResendResetCode, ResetPassword, WrongPassword,
                RightPassword, UpdatePassword, UpdateEmail, VerifyEmailChange,
                UpdateQuestions, SettingsStep, Mails
  <2>2. history'.tries = history.tries /\ history'.raced = history.raced
    BY <1>1, <1>6 DEF Refuse, Die, CreateVerification, EnterEmailCode, ResendEmailCode,
                CreateUser, CreateQuestions, CreateReset, AnswerQuestions,
                EnterResetCode, ResendResetCode, ResetPassword, WrongPassword,
                RightPassword, UpdatePassword, UpdateEmail, VerifyEmailChange,
                UpdateQuestions, SettingsStep, Forgets, History
  <2>3. number <= number'
    BY <1>1, <2>1
  <2> QED BY <1>2, <2>1, <2>2, <2>3, TriesStay
<1> QED BY <1>3, <1>4, <1>5, <1>6, SecondFactorTries, WrongLoginCodeTries DEF Handles

LEMMA TriesKept ==
    ASSUME Copies, Copies', Tries, [AccountsNext]_accountsVars
    PROVE  Tries'
<1>1. number \in Nat
  BY DEF Copies, NumbersOK
<1>2. ASSUME NEW r \in Request, NEW b \in Browser, Calls(r, b)
      PROVE  Tries'
  <2>1. /\ \A q \in Request \ {r} : request'[q] = request[q]
        /\ UNCHANGED <<logins, number, history>>
    BY <1>2, CallMoves
  <2>2. request = [q \in Request |-> request[q]]
    BY DEF Copies, RequestsOK
  <2>3. CASE VerifyLogin(r, b)
    <3>1. PICK n : request'[r] =
             [pc |-> "code", browser |-> b, session |-> browser[b], id |-> n,
              row |-> logins[n]]
      BY <2>2, <2>3 DEF VerifyLogin, Begins
    <3>2. request'[r].row.attempts = logins[request'[r].id].attempts
      BY <3>1
    <3> QED BY <1>1, <2>1, <3>2, TriesStay
  <2>4. CASE ~VerifyLogin(r, b)
    <3>1. PICK x : Begins(r, x) /\ x.pc # "code"
      <4>1. ASSUME NEW x, Begins(r, x), x.pc # "code"
            PROVE  \E y : Begins(r, y) /\ y.pc # "code"
        BY <4>1
      <4>2. CASE Register(r, b)
        BY <4>1, <4>2 DEF Register
      <4>3. CASE VerifyEmail(r, b)
        BY <4>1, <4>3 DEF VerifyEmail
      <4>4. CASE AnswerFirstQuestions(r, b)
        BY <4>1, <4>4 DEF AnswerFirstQuestions
      <4>5. CASE ForgotPassword(r, b)
        BY <4>1, <4>5 DEF ForgotPassword
      <4>6. CASE ResetStep(r, b)
        BY <4>1, <4>6 DEF ResetStep
      <4>7. CASE Login(r, b)
        BY <4>1, <4>7 DEF Login
      <4>8. CASE Settings(r, b)
        BY <4>1, <4>8 DEF Settings
      <4> QED BY <1>2, <2>4, <4>2, <4>3, <4>4, <4>5, <4>6, <4>7, <4>8 DEF Calls
    <3>2. request'[r].pc # "code"
      BY <2>2, <3>1 DEF Begins
    <3> QED BY <1>1, <2>1, <3>2, TriesStay
  <2> QED BY <2>3, <2>4
<1>3. CASE \E b \in Browser : Logout(b)
  BY <1>1, <1>3, TriesStay DEF Logout
<1>4. CASE UNCHANGED accountsVars
  BY <1>1, <1>4, TriesStay DEF accountsVars
<1>5. ASSUME NEW k \in Key, WindowEnds(k)
      PROVE  Tries'
  <2>1. UNCHANGED <<logins, number, request>>
    BY <1>5 DEF WindowEnds
  <2>2. history'.tries = history.tries /\ history'.raced = history.raced
    BY <1>5 DEF WindowEnds, Copies, NumbersOK, History
  <2> QED BY <1>1, <2>1, <2>2, TriesStay
<1> QED BY <1>2, <1>3, <1>4, <1>5, HandledTries DEF AccountsNext

(* The limiter counts every failure but those of a key it has set back, and *)
(* lets through at most the requests that had passed it before the limit    *)
(* was reached (RateLimitService); the wrong codes of a second factor are   *)
(* bounded, with an overlap and without (AdminLoginVerification).           *)
THEOREM TriesBounded == AccountsSpec => []TriesAreBounded
<1>1. ASSUME AccountsInit
      PROVE  Counted /\ Bounded /\ Tries
  <2>1. /\ \A k \in Key : counter[k] = 0 /\ history.counted[k] = 0
        /\ \A n \in Number : history.tries[n] = 0 /\ logins[n] = None
        /\ \A r \in Request : request[r] = None
    <3>1. \E S : history = [HistoryInit EXCEPT !.confirmed = S]
      BY <1>1 DEF AccountsInit
    <3>2. /\ \A k \in Key : history.counted[k] = 0
          /\ \A n \in Number : history.tries[n] = 0
      BY <3>1 DEF HistoryInit
    <3> QED BY <1>1, <3>2 DEF AccountsInit
  <2>2. Counted
    BY <2>1 DEF Counted
  <2>3. Bounded
    <3>1. ASSUME NEW k \in Limited
          PROVE  counter[k] + Cardinality(Passed(k)) <= Limit(k) + Cardinality(Request) - 1
      <4>1. Passed(k) \subseteq Request
        BY DEF Passed
      <4>2. /\ Cardinality(Passed(k)) <= Cardinality(Request)
            /\ Cardinality(Passed(k)) \in Nat
        BY <4>1, LimitFacts
      <4>3. counter[k] = 0
        BY <2>1, LimitFacts
      <4>4. Passed(k) = {}
        BY <2>1 DEF Passed
      <4> QED BY <4>2, <4>3, LimitFacts
    <3> QED BY <3>1 DEF Bounded
  <2>4. Tries
    BY <2>1, RoomFacts, AccountsAssumption DEF Tries, Untried, Alone, Overlapped
  <2> QED BY <2>2, <2>3, <2>4
<1>2. ASSUME Copies, Counted, Bounded, Tries
      PROVE  TriesAreBounded
  <2>1. ASSUME NEW k \in Key \ history.overwritten, k[1] # "trigger"
        PROVE  counter[k] <= Limit(k) + Cardinality(Request) - 1
    <3>1. k \in Limited
      BY <2>1 DEF Limited
    <3>2. Passed(k) \subseteq Request
      BY DEF Passed
    <3>3. Cardinality(Passed(k)) \in Nat /\ counter[k] \in Nat
      BY <1>2, <3>1, <3>2, LimitFacts DEF Copies, NumbersOK
    <3>4. counter[k] + Cardinality(Passed(k)) <= Limit(k) + Cardinality(Request) - 1
      BY <1>2, <3>1 DEF Bounded
    <3> QED BY <3>1, <3>3, <3>4, LimitFacts
  <2>2. \A k \in Key \ history.overwritten : counter[k] = history.counted[k]
    BY <1>2 DEF Counted
  <2>3. ASSUME NEW n \in Number
        PROVE  /\ n \notin history.raced => history.tries[n] <= MaxAttempts
               /\ Cardinality(Request) <= 2 =>
                     2 * history.tries[n] <= MaxAttempts * (MaxAttempts + 3)
    BY <1>2 DEF Tries, Alone, Overlapped, Total
  <2> QED BY <2>1, <2>2, <2>3 DEF TriesAreBounded
<1>3. ASSUME Copies, Copies', Counted, Bounded, Tries, [AccountsNext]_accountsVars
      PROVE  (Counted /\ Bounded /\ Tries)'
  BY <1>3, CountedKept, BoundedKept, TriesKept
<1> QED BY <1>1, <1>2, <1>3, CopiesInvariant, PTL DEF AccountsSpec
===============================================================================
