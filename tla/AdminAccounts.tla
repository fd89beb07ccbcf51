---------------------------- MODULE AdminAccounts -----------------------------
(***************************************************************************)
(* The accounts of the election administrators: registration in three      *)
(* steps, the password reset in four, the login with a second factor after *)
(* many failures, and the settings page, with the rate limiter they share. *)
(*                                                                         *)
(* A request reads the browser's session and its database row when it      *)
(* begins and writes later, without a lock; at its end the whole session is *)
(* saved, changed or not (SESSION_SAVE_EVERY_REQUEST), unless login, logout *)
(* or another request has replaced it by one with a new key.  Codes and    *)
(* ids of rows are numbers from one counter.  Any request may be refused   *)
(* (form, cooldown, an expired code), which is how time passes.  The reset's*)
(* last step always fails, see ResetPassword.                              *)
(***************************************************************************)
EXTENDS Integers, FiniteSets, Sequences

CONSTANTS
    Email, Browser, Request, Account,
    Workloads,       \* which handlers the users of a behaviour call
    CodeLimit,       \* RATE_LIMITS['email_verification']
    LoginLimit,      \* RATE_LIMITS['admin_login']
    TriggerLimit,    \* RATE_LIMITS['admin_verification_trigger']
    MaxAttempts,     \* AdminLoginVerification.max_attempts
    MaxServed, MaxNumber, MaxIncidents,   \* bounds
    None,
    Deleted          \* what a row is once its user is gone: its primary key
                     \* is not given out again

ASSUME AccountsAssumption ==
    /\ IsFiniteSet(Request)
    /\ {CodeLimit, LoginLimit, TriggerLimit, MaxAttempts} \subseteq Nat \ {0}
    /\ {MaxServed, MaxNumber, MaxIncidents} \subseteq Nat

Session ==
    [key : Nat, reg : 0..MaxNumber, confirmed : BOOLEAN, reset : 0..MaxNumber,
     login : Account \cup {None}, user : Account \cup {None}]

ASSUME NoneAssumption ==
    None \notin [pc : {"questions"}, account : Account, browser : Browser,
                 session : Session]

VARIABLES
    workload,
    user,        \* CustomUser rows with their security questions
    regs, resets, logins,   \* EmailVerificationSession, PasswordResetSession,
                            \* AdminLoginVerification rows by number
    browser,     \* sessions in the cache
    request,
    counter,     \* the limiter's keys, 0 for one that is not there
    number,      \* ids, codes and passwords given out
    mailed,      \* the address each code went to
    history,     \* what the properties compare with, see HistoryInit
    served, incidents

accountsVars == <<workload, user, regs, resets, logins, browser, request, counter,
                  number, mailed, history, served, incidents>>

Number == 1..MaxNumber
Key == {<<"login", 0>>, <<"trigger", 0>>} \cup {<<"code", n>> : n \in Number}

Limit(k) == CASE k[1] = "login" -> LoginLimit
              [] k[1] = "trigger" -> TriggerLimit
              [] k[1] = "code" -> CodeLimit

EmptySession(key) ==
    [key |-> key, reg |-> 0, confirmed |-> FALSE, reset |-> 0, login |-> None,
     user |-> None]

HistoryInit ==
    [confirmed |-> {},   \* addresses whose code somebody has typed in
     carried |-> {},     \* addresses registered in a session confirmed before
     answered |-> {}, proven |-> {},   \* resets, by number
     broken |-> {},      \* accounts whose questions were cut short or raced
     counted |-> [k \in Key |-> 0],   \* failures recorded in the window
     overwritten |-> {},              \* keys set back by the last resort
     tries |-> [n \in Number |-> 0],  \* wrong codes of each second factor
     raced |-> {}]                    \* second factors with a lost attempt

(* One administrator, confirmed long ago. *)
NewUser(email, n) ==
    [email |-> email, password |-> n, questions |-> {}, pending |-> None]

AccountsInit ==
    /\ workload \in Workloads
    /\ \E a \in Account, e \in Email :
          /\ user = [u \in Account |->
                IF u = a /\ "register" \notin workload
                THEN [NewUser(e, 1) EXCEPT !.questions = {1}] ELSE None]
          /\ history = [HistoryInit EXCEPT !.confirmed =
                IF "register" \in workload THEN {} ELSE {e}]
    /\ regs = [n \in Number |-> None]
    /\ resets = [n \in Number |-> None]
    /\ logins = [n \in Number |-> None]
    /\ browser = [b \in Browser |-> EmptySession(1)]
    /\ request = [r \in Request |-> None]
    /\ counter = [k \in Key |-> 0]
    /\ number = 1
    /\ mailed = [n \in Number |-> None]
    /\ served = 0 /\ incidents = 0

-------------------------------------------------------------------------------
(* Requests *)

Exists(u) == user[u] \notin {None, Deleted}
AccountOf(e) == {u \in Account : Exists(u) /\ user[u].email = e}
Allowed(k) == counter[k] < Limit(k)

Begins(r, record) ==
    /\ request[r] = None
    /\ served < MaxServed
    /\ served' = served + 1
    /\ request' = [request EXCEPT ![r] = record]
    /\ UNCHANGED <<workload, user, regs, resets, logins, browser, counter, number,
                   mailed, history, incidents>>

At(r, pc) == request[r] # None /\ request[r].pc = pc

(* The middleware saves the session as the request left it. *)
Ends(r, session) ==
    LET b == request[r].browser
    IN  /\ request' = [request EXCEPT ![r] = None]
        /\ browser' = IF browser[b].key = request[r].session.key
                      THEN [browser EXCEPT ![b] = session] ELSE browser

EndsUnchanged(r) == Ends(r, request[r].session)

(* Refused; or the process dies between two writes of one request. *)
Refuse(r) ==
    /\ request[r] # None /\ request[r].pc # "questions"
    /\ EndsUnchanged(r)
    /\ UNCHANGED <<workload, user, regs, resets, logins, counter, number, mailed,
                   history, served, incidents>>

Die(r) ==
    /\ At(r, "questions")
    /\ incidents < MaxIncidents
    /\ incidents' = incidents + 1
    /\ request' = [request EXCEPT ![r] = None]
    /\ history' = [history EXCEPT !.broken = @ \cup {request[r].account}]
    /\ UNCHANGED <<workload, user, regs, resets, logins, browser, counter, number,
                   mailed, served>>

(* generate_verification_code and the mail with it. *)
Mails(code, e) ==
    /\ code <= MaxNumber
    /\ number' = code
    /\ mailed' = [mailed EXCEPT ![code] = e]

(* What a user can type: a code that was mailed, or a wrong one. *)
Typed == {0} \cup {n \in Number : mailed[n] # None}

-------------------------------------------------------------------------------
(* RateLimitService.record_attempt, on the keys in request[r].todo; then the *)
(* request ends.                                                            *)

Counts(r, k) ==
    /\ history' = [history EXCEPT !.counted[k] = @ + 1]
    /\ IF Len(request[r].todo) = 1 THEN EndsUnchanged(r)
       ELSE /\ request' = [request EXCEPT ![r].todo = Tail(@), ![r].pc = "incr"]
            /\ UNCHANGED browser

Goes(r, pc) ==
    /\ request' = [request EXCEPT ![r].pc = pc]
    /\ UNCHANGED <<counter, history, browser>>

\* Mutant of Add: set() instead of add().
Add_Set(r, k) ==
    /\ At(r, "add")
    /\ counter' = [counter EXCEPT ![k] = 1] /\ Counts(r, k)

(* cache.incr raises for a key that is not there. *)
Incr(r, k, pc, otherwise) ==
    /\ At(r, pc)
    /\ IF counter[k] > 0
       THEN counter' = [counter EXCEPT ![k] = @ + 1] /\ Counts(r, k)
       ELSE Goes(r, otherwise)

(* cache.add fails for a key that is there. *)
Add(r, k) ==
    /\ At(r, "add")
    /\ IF counter[k] = 0
       THEN counter' = [counter EXCEPT ![k] = 1] /\ Counts(r, k)
       ELSE Goes(r, "again")

(* The key expired between two calls: set to one, whatever is there now. *)
LastResort(r, k) ==
    /\ At(r, "set")
    /\ counter' = [counter EXCEPT ![k] = 1]
    /\ history' = [history EXCEPT !.counted[k] = @ + 1,
          !.overwritten = IF counter[k] > 0 THEN @ \cup {k} ELSE @]
    /\ IF Len(request[r].todo) = 1 THEN EndsUnchanged(r)
       ELSE /\ request' = [request EXCEPT ![r].todo = Tail(@), ![r].pc = "incr"]
            /\ UNCHANGED browser

RecordAttempt(r) ==
    /\ request[r] # None /\ request[r].pc \in {"incr", "add", "again", "set"}
    /\ LET k == Head(request[r].todo)
       IN  \/ Incr(r, k, "incr", "add") \/ Add(r, k)
           \/ Incr(r, k, "again", "set") \/ LastResort(r, k)
    /\ UNCHANGED <<workload, user, regs, resets, logins, number, mailed, served,
                   incidents>>

(* limiter.record_attempt comes next. *)
Fails(r, keys) ==
    request' = [request EXCEPT ![r] =
        [pc |-> "incr", browser |-> @.browser, session |-> @.session, todo |-> keys]]

WindowEnds(k) ==
    /\ counter[k] > 0
    /\ incidents < MaxIncidents
    /\ incidents' = incidents + 1
    /\ counter' = [counter EXCEPT ![k] = 0]
    /\ history' = [history EXCEPT !.counted[k] = 0, !.overwritten = @ \ {k}]
    /\ UNCHANGED <<workload, user, regs, resets, logins, browser, request, number,
                   mailed, served>>

-------------------------------------------------------------------------------
(* Registration: the account is created in the third step *)

Serves(handler) == handler \in workload

(* The form knows the address of no account; rows of it are replaced. *)
Register(r, b) ==
    /\ Serves("register") /\ browser[b].user = None
    /\ \E e \in Email : /\ AccountOf(e) = {}
                        /\ Begins(r, [pc |-> "register", browser |-> b, email |-> e,
                                      session |-> browser[b]])

CreateVerification(r) ==
    /\ At(r, "register")
    /\ LET id == number + 1   e == request[r].email
       IN  /\ Mails(id, e)
           /\ regs' = [n \in Number |->
                 CASE n = id -> [email |-> e, code |-> id]
                   [] regs[n] # None /\ regs[n].email = e -> None
                   [] OTHER -> regs[n]]
           /\ Ends(r, [request[r].session EXCEPT !.reg = id])
           /\ history' = IF request[r].session.confirmed
                         THEN [history EXCEPT !.carried = @ \cup {e}] ELSE history
    /\ UNCHANGED <<workload, user, resets, logins, counter, served, incidents>>

Registering(b) == browser[b].reg # 0 /\ regs[browser[b].reg] # None

VerifyEmail(r, b) ==
    /\ Serves("register") /\ Registering(b)
    /\ Begins(r, [pc |-> "verify", browser |-> b, session |-> browser[b],
                  row |-> regs[browser[b].reg],
                  allowed |-> Allowed(<<"code", browser[b].reg>>)])

\* Mutant of CodeMatches: any code that was mailed will do.
CodeMatches_Any(typed, code) == typed # 0

CodeMatches(typed, code) == typed # 0 /\ typed = code

EnterEmailCode(r) ==
    /\ At(r, "verify") /\ request[r].allowed
    /\ \E typed \in Typed :
          IF CodeMatches(typed, request[r].row.code)
          THEN /\ Ends(r, [request[r].session EXCEPT !.confirmed = TRUE])
               /\ history' = [history EXCEPT !.confirmed = @ \cup {mailed[typed]}]
          ELSE /\ Fails(r, << <<"code", request[r].session.reg>> >>)
               /\ UNCHANGED <<browser, history>>
    /\ UNCHANGED <<workload, user, regs, resets, logins, counter, number, mailed,
                   served, incidents>>

(* Before the limiter is asked. *)
ResendEmailCode(r) ==
    /\ At(r, "verify")
    /\ Mails(number + 1, request[r].row.email)
    /\ regs' = [regs EXCEPT ![request[r].session.reg] =
          [request[r].row EXCEPT !.code = number + 1]]
    /\ EndsUnchanged(r)
    /\ UNCHANGED <<workload, user, resets, logins, counter, history, served, incidents>>

AnswerFirstQuestions(r, b) ==
    /\ Serves("register") /\ Registering(b) /\ browser[b].confirmed
    /\ Begins(r, [pc |-> "create", browser |-> b, session |-> browser[b],
                  row |-> regs[browser[b].reg]])

Taken(e) == AccountOf(e) # {}

(* An address that has an account by now is an IntegrityError. *)
CreateUser(r) ==
    /\ At(r, "create")
    /\ IF Taken(request[r].row.email)
       THEN EndsUnchanged(r) /\ UNCHANGED user
       ELSE /\ \E u \in Account :
                  /\ user[u] = None
                  /\ user' = [user EXCEPT ![u] = NewUser(request[r].row.email, 1)]
                  /\ request' = [request EXCEPT ![r] =
                        [pc |-> "questions", account |-> u, browser |-> @.browser,
                         session |-> @.session]]
            /\ UNCHANGED browser
    /\ UNCHANGED <<workload, regs, resets, logins, counter, number, mailed, history,
                   served, incidents>>

LoggedIn(session, u) == [session EXCEPT !.key = @ + 1, !.user = u]

(* Inserted one by one: into an account whose owner may have set others      *)
(* meanwhile; when it is gone the insertion raises.                         *)
CreateQuestions(r) ==
    /\ At(r, "questions")
    /\ LET u == request[r].account   id == request[r].session.reg
       IN  IF Exists(u)
           THEN /\ user' = [user EXCEPT ![u].questions = @ \cup {id}]
                /\ regs' = [regs EXCEPT ![id] = None]
                /\ Ends(r, [LoggedIn(request[r].session, u) EXCEPT
                            !.reg = 0, !.confirmed = FALSE])
                /\ history' = IF user[u].questions = {} THEN history
                      ELSE [history EXCEPT !.broken = @ \cup {u}]
           ELSE /\ request' = [request EXCEPT ![r] = None]
                /\ UNCHANGED <<user, regs, browser, history>>
    /\ UNCHANGED <<workload, resets, logins, counter, number, mailed, served, incidents>>

-------------------------------------------------------------------------------
(* Password reset *)

(* Accounts without questions get the same answer and no row. *)
ForgotPassword(r, b) ==
    /\ Serves("reset") /\ browser[b].user = None
    /\ \E u \in Account :
          /\ Exists(u) /\ user[u].questions # {}
          /\ Begins(r, [pc |-> "forgot", browser |-> b, session |-> browser[b],
                        email |-> user[u].email])

CreateReset(r) ==
    /\ At(r, "forgot")
    /\ number < MaxNumber
    /\ number' = number + 1
    /\ resets' = [n \in Number |->
          CASE n = number' -> [email |-> request[r].email, answered |-> FALSE,
                               code |-> 0, entered |-> FALSE]
            [] resets[n] # None /\ resets[n].email = request[r].email -> None
            [] OTHER -> resets[n]]
    /\ Ends(r, [request[r].session EXCEPT !.reset = number'])
    /\ UNCHANGED <<workload, user, regs, logins, counter, mailed, history, served,
                   incidents>>

(* The later steps begin alike: the session's row, and its account. *)
ResetStep(r, b) ==
    /\ Serves("reset") /\ browser[b].reset # 0
    /\ resets[browser[b].reset] # None
    /\ Begins(r, [pc |-> "reset", browser |-> b, session |-> browser[b],
                  row |-> resets[browser[b].reset],
                  account |-> AccountOf(resets[browser[b].reset].email),
                  allowed |-> Allowed(<<"code", browser[b].reset>>)])

ResetId(r) == request[r].session.reset

(* save() writes the whole row, and inserts it again when it is gone. *)
SaveReset(r, row) == resets' = [resets EXCEPT ![ResetId(r)] = row]

(* All answers right: a code is mailed. *)
AnswerQuestions(r) ==
    /\ At(r, "reset") /\ request[r].account # {}
    /\ Mails(number + 1, request[r].row.email)
    /\ SaveReset(r, [request[r].row EXCEPT !.answered = TRUE, !.code = number + 1])
    /\ history' = [history EXCEPT !.answered = @ \cup {ResetId(r)}]
    /\ EndsUnchanged(r)
    /\ UNCHANGED <<workload, user, regs, logins, counter, served, incidents>>

EnterResetCode(r) ==
    /\ At(r, "reset") /\ request[r].row.answered /\ request[r].allowed
    /\ ~request[r].row.entered
    /\ \E typed \in Typed :
          IF CodeMatches(typed, request[r].row.code)
          THEN /\ SaveReset(r, [request[r].row EXCEPT !.entered = TRUE, !.code = 0])
               /\ history' = [history EXCEPT !.proven =
                     IF mailed[typed] = request[r].row.email THEN @ \cup {ResetId(r)}
                     ELSE @]
               /\ EndsUnchanged(r)
          ELSE /\ Fails(r, << <<"code", ResetId(r)>> >>)
               /\ UNCHANGED <<resets, history, browser>>
    /\ UNCHANGED <<workload, user, regs, logins, counter, number, mailed, served,
                   incidents>>

ResendResetCode(r) ==
    /\ At(r, "reset") /\ request[r].row.answered
    /\ request[r].account # {}
    /\ Mails(number + 1, request[r].row.email)
    /\ SaveReset(r, [request[r].row EXCEPT !.code = number + 1, !.entered = FALSE])
    /\ EndsUnchanged(r)
    /\ UNCHANGED <<workload, user, regs, logins, counter, history, served, incidents>>

MayReset(row) == row.entered

(* The last step raises before it saves: password.py calls timezone.now() and *)
(* does not import timezone.  Password, row and session stay as they were.  *)
ResetPassword(r) ==
    /\ At(r, "reset") /\ MayReset(request[r].row) /\ request[r].account # {}
    /\ request' = [request EXCEPT ![r] = None]
    /\ UNCHANGED <<workload, user, regs, resets, logins, browser, counter, number,
                   mailed, history, served, incidents>>

-------------------------------------------------------------------------------
(* Login; all browsers share an address *)

Login(r, b) ==
    /\ Serves("login") /\ browser[b].user = None
    /\ Allowed(<<"login", 0>>)
    /\ \E u \in Account :
          Exists(u) /\ Begins(r, [pc |-> "login", browser |-> b, session |-> browser[b],
                                  account |-> u])

WrongPassword(r) ==
    /\ At(r, "login")
    /\ Fails(r, << <<"login", 0>>, <<"trigger", 0>> >>)
    /\ UNCHANGED <<workload, user, regs, resets, logins, browser, counter, number,
                   mailed, history, served, incidents>>

(* limiter.reset deletes the keys. *)
Forgets(keys) ==
    /\ counter' = [k \in Key |-> IF k \in keys THEN 0 ELSE counter[k]]
    /\ history' = [history EXCEPT
          !.counted = [k \in Key |-> IF k \in keys THEN 0 ELSE @[k]],
          !.overwritten = @ \ keys]

RightPassword(r) ==
    /\ At(r, "login") /\ Exists(request[r].account)
    /\ Allowed(<<"trigger", 0>>)
    /\ Ends(r, LoggedIn(request[r].session, request[r].account))
    /\ Forgets({<<"login", 0>>})
    /\ UNCHANGED <<workload, user, regs, resets, logins, number, mailed, served,
                   incidents>>

SecondFactor(r) ==
    /\ At(r, "login") /\ Exists(request[r].account)
    /\ ~Allowed(<<"trigger", 0>>)
    /\ Mails(number + 1, user[request[r].account].email)
    /\ logins' = [logins EXCEPT ![number + 1] =
          [account |-> request[r].account, verified |-> FALSE, attempts |-> 0]]
    /\ Ends(r, [request[r].session EXCEPT !.login = request[r].account])
    /\ UNCHANGED <<workload, user, regs, resets, counter, history, served, incidents>>

(* The latest verification of the account that is not used. *)
Latest(u) ==
    {n \in Number : /\ logins[n] # None /\ logins[n].account = u
                    /\ ~logins[n].verified
                    /\ \A m \in n + 1 .. MaxNumber :
                          logins[m] = None \/ logins[m].account # u
                             \/ logins[m].verified}

AttemptsRemain(row) == row.attempts < MaxAttempts

VerifyLogin(r, b) ==
    /\ Serves("login") /\ browser[b].login # None
    /\ \E n \in Latest(browser[b].login) :
          /\ AttemptsRemain(logins[n])
          /\ Begins(r, [pc |-> "code", browser |-> b, session |-> browser[b],
                        id |-> n, row |-> logins[n]])

(* attempts += 1 on the row as it was read; one that is gone raises. *)
WrongLoginCode(r) ==
    /\ At(r, "code") /\ logins[request[r].id] # None
    /\ LET n == request[r].id
       IN  /\ logins' = [logins EXCEPT ![n].attempts = request[r].row.attempts + 1]
           /\ history' = [history EXCEPT !.tries[n] = @ + 1,
                 !.raced = IF logins[n].attempts # request[r].row.attempts
                           THEN @ \cup {n} ELSE @]
    /\ EndsUnchanged(r)
    /\ UNCHANGED <<workload, user, regs, resets, counter, number, mailed, served,
                   incidents>>

RightLoginCode(r) ==
    /\ At(r, "code") /\ logins[request[r].id] # None
    /\ logins' = [logins EXCEPT ![request[r].id].verified = TRUE]
    /\ Ends(r, [LoggedIn(request[r].session, request[r].session.login)
                EXCEPT !.login = None])
    /\ Forgets({<<"login", 0>>, <<"trigger", 0>>})
    /\ UNCHANGED <<workload, user, regs, resets, number, mailed, served, incidents>>

Logout(b) ==
    /\ Serves("login") /\ browser[b].user # None
    /\ browser' = [browser EXCEPT ![b] = EmptySession(@.key + 1)]
    /\ UNCHANGED <<workload, user, regs, resets, logins, request, counter, number,
                   mailed, history, served, incidents>>

-------------------------------------------------------------------------------
(* Settings; the password is checked against the row as it was read *)

Settings(r, b) ==
    /\ Serves("settings")
    /\ \E u \in Account :
          Exists(u) /\ Begins(r, [pc |-> "settings", browser |-> b, account |-> u,
                                  session |-> browser[b], row |-> user[u]])

(* update_fields: the other columns keep what others wrote meanwhile. *)
SettingsStep(r, columns) ==
    /\ At(r, "settings") /\ Exists(request[r].account)
    /\ user' = [user EXCEPT ![request[r].account] = columns]
    /\ EndsUnchanged(r)
    /\ UNCHANGED <<workload, regs, resets, logins, counter, served, incidents>>

Current(r) == user[request[r].account]

UpdatePassword(r) ==
    /\ At(r, "settings") /\ number < MaxNumber /\ number' = number + 1
    /\ SettingsStep(r, [Current(r) EXCEPT !.password = number'])
    /\ UNCHANGED <<mailed, history>>

UpdateEmail(r) ==
    \E e \in Email :
        /\ At(r, "settings") /\ AccountOf(e) = {}
        /\ Mails(number + 1, e)
        /\ SettingsStep(r, [Current(r) EXCEPT !.pending =
                            [email |-> e, code |-> number + 1]])
        /\ UNCHANGED history

(* The pending address as it was read; one that is taken by now raises. *)
VerifyEmailChange(r) ==
    /\ At(r, "settings") /\ request[r].row.pending # None
    /\ LET pending == request[r].row.pending
       IN  \E typed \in Typed :
           IF CodeMatches(typed, pending.code)
           THEN /\ AccountOf(pending.email) \subseteq {request[r].account}
                /\ SettingsStep(r, [Current(r) EXCEPT !.email = pending.email,
                                                      !.pending = None])
                /\ history' = [history EXCEPT !.confirmed = @ \cup {mailed[typed]}]
           ELSE /\ SettingsStep(r, [Current(r) EXCEPT !.pending = None])
                /\ UNCHANGED history
    /\ UNCHANGED <<number, mailed>>

\* Mutant of Replaced: the old questions are not deleted.
Replaced_Added(now, seen, new) == now \cup {new}

(* Deletes the questions it can see, waiting for who deletes them too. *)
Replaced(now, seen, new) == (now \ seen) \cup {new}

UpdateQuestions(r) ==
    /\ At(r, "settings") /\ number < MaxNumber /\ number' = number + 1
    /\ SettingsStep(r, [Current(r) EXCEPT !.questions =
                        Replaced(@, request[r].row.questions, number')])
    /\ history' = IF request[r].row.questions = Current(r).questions THEN history
                  ELSE [history EXCEPT !.broken = @ \cup {request[r].account}]
    /\ UNCHANGED mailed

(* With no election running; the session ends, the rows go with the user. *)
DeleteAccount(r) ==
    /\ At(r, "settings") /\ Exists(request[r].account)
    /\ user' = [user EXCEPT ![request[r].account] = Deleted]
    /\ logins' = [n \in Number |->
          IF logins[n] # None /\ logins[n].account = request[r].account THEN None
          ELSE logins[n]]
    /\ Ends(r, EmptySession(request[r].session.key + 1))
    /\ UNCHANGED <<workload, regs, resets, counter, number, mailed, history, served,
                   incidents>>

-------------------------------------------------------------------------------
Calls(r, b) ==
    \/ Register(r, b) \/ VerifyEmail(r, b) \/ AnswerFirstQuestions(r, b)
    \/ ForgotPassword(r, b) \/ ResetStep(r, b)
    \/ Login(r, b) \/ VerifyLogin(r, b) \/ Settings(r, b)

Handles(r) ==
    \/ Refuse(r) \/ Die(r) \/ RecordAttempt(r)
    \/ CreateVerification(r) \/ EnterEmailCode(r) \/ ResendEmailCode(r)
    \/ CreateUser(r) \/ CreateQuestions(r)
    \/ CreateReset(r) \/ AnswerQuestions(r) \/ EnterResetCode(r)
    \/ ResendResetCode(r) \/ ResetPassword(r)
    \/ WrongPassword(r) \/ RightPassword(r) \/ SecondFactor(r)
    \/ WrongLoginCode(r) \/ RightLoginCode(r)
    \/ UpdatePassword(r) \/ UpdateEmail(r) \/ VerifyEmailChange(r)
    \/ UpdateQuestions(r) \/ DeleteAccount(r)

AccountsNext ==
    \/ \E r \in Request, b \in Browser : Calls(r, b)
    \/ \E r \in Request : Handles(r)
    \/ \E b \in Browser : Logout(b)
    \/ \E k \in Key : WindowEnds(k)

AccountsSpec == AccountsInit /\ [][AccountsNext]_accountsVars

-------------------------------------------------------------------------------
(* Properties *)

(* Whatever requests overlap and however late they save the rows and the    *)
(* sessions they have read: an account has an address whose code somebody   *)
(* entered (unless the browser had entered the code of an earlier           *)
(* registration, which the third step does not tell apart), and a reset     *)
(* comes to the form for a new password only after the answers to the       *)
(* questions and the code mailed to the account's address, whatever the     *)
(* requests for that reset save over each other.                            *)
MailboxIsProven ==
    /\ \A u \in Account : Exists(u) =>
          user[u].email \in history.confirmed \cup history.carried
    /\ \A n \in Number : resets[n] # None /\ MayReset(resets[n]) =>
          n \in history.answered \cap history.proven

(* An account has one set of security questions, unless its registration    *)
(* was cut short, or an update of them overlapped with another one or with  *)
(* the end of the registration: the second then adds to what the first has  *)
(* written.                                                                 *)
QuestionsAreOneSet ==
    \A u \in Account : Exists(u) /\ u \notin history.broken =>
        \/ Cardinality(user[u].questions) = 1
        \/ \E r \in Request : At(r, "questions") /\ request[r].account = u

(* The limiter counts every failure of its window, unless it had to fall    *)
(* back on setting the key, and lets through at most the requests that had  *)
(* passed the check before the limit was reached.  The attempts of a second *)
(* factor are bounded by their maximum if no two requests overlap, and by   *)
(* MaxAttempts * (MaxAttempts + 3) / 2 if two requests at a time save old   *)
(* numbers over new ones.                                                   *)
TriesAreBounded ==
    /\ \A k \in Key \ history.overwritten :
          /\ counter[k] = history.counted[k]
          /\ k[1] # "trigger" => counter[k] <= Limit(k) + Cardinality(Request) - 1
    /\ \A n \in Number :
          /\ n \notin history.raced => history.tries[n] <= MaxAttempts
          /\ Cardinality(Request) <= 2 =>
                2 * history.tries[n] <= MaxAttempts * (MaxAttempts + 3)
===============================================================================
