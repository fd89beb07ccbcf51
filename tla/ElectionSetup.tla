---------------------------- MODULE ElectionSetup -----------------------------
(***************************************************************************)
(* One election from its draft to its launch.  Requests of the owner run   *)
(* concurrently: each reads the Election row (get_election) and later      *)
(* writes what its handler decided from that reading; only the launch      *)
(* locks the row.  The launch deploys the election to the Solana program   *)
(* in the middle of its transaction.                                       *)
(*                                                                         *)
(* The readings of a request are taken together when it opens.  Voters are *)
(* counted: credentials are ordered by primary key and never deleted while *)
(* the election exists, so a number stands for a prefix of the roll.       *)
(***************************************************************************)
EXTENDS Integers, FiniteSets, Sequences

CONSTANTS
    Request,       \* the requests served at a time
    ElectionName, PostName,
    CandName,      \* candidate names, numbers so that they sort
    NewWindows,    \* voting periods typed into the edit form
    NewTimes,      \* times typed into the voting-period editor
    MaxPosts, MaxCandidates, MaxVoters,  \* limits of the owner's plan
    Drafts,        \* database states the model starts from
    MaxRequests,   \* bound: how many requests are served
    MaxIncidents,  \* bound: failures of the node, killed workers
    MaxClock,      \* bound on the clock
    NoElection,
    NoSignature, PdaAlreadyExisted  \* values of blockchain_deploy_tx that are
                                    \* no transaction's signature

ASSUME SetupAssumption ==
    /\ IsFiniteSet(PostName) /\ CandName \subseteq Int /\ IsFiniteSet(CandName)
    /\ NewWindows \subseteq Int \X Int /\ NewTimes \subseteq Int
    /\ {MaxPosts, MaxCandidates, MaxVoters} \subseteq Nat
    /\ {MaxRequests, MaxIncidents, MaxClock} \subseteq Nat
    /\ NoSignature \notin Nat /\ PdaAlreadyExisted \notin Nat
    /\ NoSignature # PdaAlreadyExisted

(* The Election row; a post with the order values of its candidates.        *)
ElectionRow ==
    [name : ElectionName, start_time : Int, end_time : Int,
     is_launched : BOOLEAN, deploy_tx : Nat \cup {NoSignature, PdaAlreadyExisted}]

IsPost(post) ==
    /\ post = [name |-> post.name, order |-> post.order,
               candidates |-> [c \in DOMAIN post.candidates |-> post.candidates[c]]]
    /\ post.name \in PostName /\ post.order \in Int
    /\ DOMAIN post.candidates \subseteq CandName
    /\ \A c \in DOMAIN post.candidates : post.candidates[c] \in Int

VARIABLES
    db,         \* election row, posts, voters: see Draft
    chain,      \* the election's account on chain, or NoAccount
    tx,         \* initialize_election transactions sent
    tree,       \* leaves of the cached Merkle tree, 0 if there is none
    request,
    raced,      \* a request opened on the draft has changed the ballot since
                \* the launch read it
    clock, served, incidents

setupVars == <<db, chain, tx, tree, request, raced, clock, served, incidents>>

(* A draft with its first posts; order is the position the owner sees. *)
Row(name, start, end) ==
    [name |-> name, start_time |-> start, end_time |-> end,
     is_launched |-> FALSE, deploy_tx |-> NoSignature]

Draft(row, posts, voters) ==
    [election |-> row, posts |-> posts, created |-> Cardinality(DOMAIN posts),
     voters |-> voters, indexed |-> 0, pending |-> FALSE]

ASSUME DraftsAssumption ==
    /\ NoElection \notin ElectionRow
    /\ \A d \in Drafts :
          /\ d = Draft(Row(d.election.name, d.election.start_time,
                           d.election.end_time), d.posts, d.voters)
          /\ d.election \in ElectionRow /\ d.voters \in Nat
          /\ IsFiniteSet(DOMAIN d.posts)
          /\ d.posts = [p \in 1..Cardinality(DOMAIN d.posts) |-> d.posts[p]]
          /\ \A p \in DOMAIN d.posts : IsPost(d.posts[p])
          /\ \A p, q \in DOMAIN d.posts :
                d.posts[p].name = d.posts[q].name => p = q

(* No account, and a request that is not being served. *)
NoAccount == [n |-> 0]
NoRequest == [pc |-> "none"]

SetupInit ==
    /\ db \in Drafts
    /\ chain = NoAccount
    /\ tx = {}
    /\ tree = 0
    /\ request = [r \in Request |-> NoRequest]
    /\ raced = FALSE
    /\ clock = 0 /\ served = 0 /\ incidents = 0

-------------------------------------------------------------------------------
(* Reading *)

Exists == db.election # NoElection

(* Election.current_status of a row read at some time. *)
Status(row, time) ==
    IF ~row.is_launched THEN "Pre-launch"
    ELSE IF time < row.start_time THEN "Inactive"
    ELSE IF time <= row.end_time THEN "Active"
    ELSE "Concluded"

Names(posts) == {posts[p].name : p \in DOMAIN posts}

(* The ballot as config_hash and candidates_per_post describe it: posts by  *)
(* (order, created_at), candidates by (order, name).                        *)
PostsBefore(posts, p) ==
    {q \in DOMAIN posts : \/ posts[q].order < posts[p].order
                          \/ posts[q].order = posts[p].order /\ q < p}

CandidatesBefore(cands, c) ==
    {d \in DOMAIN cands : \/ cands[d] < cands[c]
                          \/ cands[d] = cands[c] /\ d < c}

Ballot(posts) ==
    {[name |-> posts[p].name, place |-> Cardinality(PostsBefore(posts, p)),
      candidates |-> {<<c, Cardinality(CandidatesBefore(posts[p].candidates, c))>> :
                          c \in DOMAIN posts[p].candidates}] :
        p \in DOMAIN posts}

(* candidates_per_post: how many candidates the post in each place has.     *)
Layout(posts) ==
    {<<Cardinality(PostsBefore(posts, p)), Cardinality(DOMAIN posts[p].candidates)>> :
        p \in DOMAIN posts}

(* get_election, with what the handler reads next. *)
Open(r) ==
    /\ request[r] = NoRequest
    /\ Exists
    /\ served < MaxRequests
    /\ served' = served + 1
    /\ request' = [request EXCEPT ![r] =
           [pc |-> "open", election |-> db.election, posts |-> db.posts,
            voters |-> db.voters, time |-> clock]]
    /\ UNCHANGED <<db, chain, tx, tree, raced, clock, incidents>>

Opened(r) == request[r].pc = "open"

\* Mutant of CanEdit: a handler forgets the test.
CanEdit_Always(r) == Opened(r)

(* can_edit, on the row that was read. *)
CanEdit(r) == Opened(r) /\ ~request[r].election.is_launched

Launching(r) == request[r].pc \in {"locked", "hashed", "built", "sent", "deployed"}

(* While a launch holds the Election row FOR UPDATE, updates of the row and *)
(* inserts that refer to it wait.                                           *)
Locked == \E r \in Request : Launching(r)

Answer(r, d) ==
    /\ db' = d
    /\ request' = [request EXCEPT ![r] = NoRequest]
    /\ UNCHANGED <<chain, tx, tree, clock, served, incidents>>

(* An answer that changes what voters will see on the ballot. *)
SaveBallot(r, d) ==
    /\ Answer(r, d)
    /\ raced' = (raced \/ (/\ ~request[r].election.is_launched
                           /\ Locked \/ (Exists /\ db.election.is_launched)))

SavePosts(r, posts) == SaveBallot(r, [db EXCEPT !.posts = posts])

(* Wrong password, too many requests, malformed input, a failed check or a *)
(* database error: nothing is written.                                     *)
Refuse(r) ==
    /\ Opened(r)
    /\ Answer(r, db)
    /\ UNCHANGED raced

-------------------------------------------------------------------------------
(* The Election row *)

(* ElectionForm.save writes every column of the row that was read, and     *)
(* inserts the row again if it was deleted meanwhile.                      *)
EditElection(r) ==
    /\ CanEdit(r) /\ ~Locked
    /\ \E n \in ElectionName, w \in NewWindows :
          /\ w[1] < w[2]
          /\ clock <= w[1] \/ w[1] = request[r].election.start_time
          /\ SaveBallot(r, [db EXCEPT !.election =
                [request[r].election EXCEPT !.name = n, !.start_time = w[1],
                                            !.end_time = w[2]]])

UpdateElectionName(r) ==
    /\ CanEdit(r) /\ ~Locked /\ Exists
    /\ \E n \in ElectionName :
          SaveBallot(r, [db EXCEPT !.election.name = n])

PeriodOrdered(row, start, end) == start < end

(* Start, end or both; the other one is taken from the row that was read. *)
UpdateVotingPeriod(r) ==
    /\ Opened(r) /\ ~Locked /\ Exists
    /\ Status(request[r].election, request[r].time) \in {"Pre-launch", "Inactive"}
    /\ \E typed \in (SUBSET {"start_time", "end_time"}) \ {{}},
          start \in NewTimes, end \in NewTimes :
          LET row == request[r].election
              s == IF "start_time" \in typed THEN start ELSE row.start_time
              e == IF "end_time" \in typed THEN end ELSE row.end_time
          IN  /\ PeriodOrdered(row, s, e)
              /\ Answer(r, [db EXCEPT
                    !.election.start_time = IF "start_time" \in typed THEN s ELSE @,
                    !.election.end_time = IF "end_time" \in typed THEN e ELSE @])
    /\ UNCHANGED raced

(* can_delete; posts, candidates, credentials and access requests go too. *)
DeleteElection(r) ==
    /\ Opened(r) /\ ~Locked
    /\ Status(request[r].election, request[r].time) # "Active"
    /\ Answer(r, [db EXCEPT !.election = NoElection, !.posts = <<>>,
                            !.voters = 0, !.indexed = 0, !.pending = FALSE])
    /\ UNCHANGED raced

-------------------------------------------------------------------------------
(* Posts *)

Put(f, k, v) == [x \in DOMAIN f \cup {k} |-> IF x = k THEN v ELSE f[x]]
Without(f, k) == [x \in DOMAIN f \ {k} |-> f[x]]

NameLists == {<<n>> : n \in PostName} \cup
             {s \in PostName \X PostName : s[1] # s[2]}

(* Posts with the given names after those there are; the names are unique. *)
Appended(names, base) ==
    [p \in DOMAIN db.posts \cup db.created + 1 .. db.created + Len(names) |->
        IF p <= db.created THEN db.posts[p]
        ELSE [name |-> names[p - db.created], order |-> base + p - db.created - 1,
              candidates |-> <<>>]]

\* Mutant of NameFree: names are not unique.
NameFree_Unchecked(n) == TRUE

NameFree(n) == n \notin Names(db.posts)

AddPosts(r, names) ==
    /\ CanEdit(r) /\ ~Locked /\ Exists
    /\ \A i \in 1..Len(names) : NameFree(names[i])
    /\ SaveBallot(r, [db EXCEPT
          !.posts = Appended(names, Cardinality(DOMAIN request[r].posts)),
          !.created = @ + Len(names)])

AddPost(r) ==
    /\ Opened(r)
    /\ Cardinality(DOMAIN request[r].posts) < MaxPosts
    /\ \E n \in PostName : AddPosts(r, <<n>>)

\* Mutant of WithinPostLimit: the posts there are, are not added.
WithinPostLimit_BatchOnly(posts, new) == new <= MaxPosts

WithinPostLimit(posts, new) == Cardinality(DOMAIN posts) + new <= MaxPosts

AddPostsBulk(r) ==
    /\ Opened(r)
    /\ \E names \in NameLists :
          /\ WithinPostLimit(request[r].posts, Len(names))
          /\ AddPosts(r, names)

DeletePost(r) ==
    /\ CanEdit(r)
    /\ \E p \in DOMAIN request[r].posts : SavePosts(r, Without(db.posts, p))

DeleteAllPosts(r) ==
    /\ CanEdit(r)
    /\ SavePosts(r, <<>>)

RenamePost(r) ==
    /\ CanEdit(r)
    /\ \E p \in DOMAIN request[r].posts \cap DOMAIN db.posts,
          n \in PostName :
          NameFree(n) /\ SavePosts(r, [db.posts EXCEPT ![p].name = n])

(* One CASE over the ids given, all posts of the election when it was read; *)
(* a post added since would get a NULL order, and the update fails.         *)
ReorderPosts(r) ==
    /\ CanEdit(r)
    /\ DOMAIN db.posts \subseteq DOMAIN request[r].posts
    /\ \E order \in [DOMAIN request[r].posts ->
                        0 .. Cardinality(DOMAIN request[r].posts) - 1] :
          /\ \A p, q \in DOMAIN order : order[p] = order[q] => p = q
          /\ SavePosts(r, [p \in DOMAIN db.posts |->
                              [db.posts[p] EXCEPT !.order = order[p]]])

-------------------------------------------------------------------------------
(* Candidates *)

(* Candidate rows with the default order, for posts that still exist; the  *)
(* pair (post, name) is unique.                                            *)
AddRows(r, rows) ==
    /\ CanEdit(r) /\ ~Locked /\ Exists
    /\ \A row \in rows : /\ row[1] \in DOMAIN db.posts
                         /\ row[2] \notin DOMAIN db.posts[row[1]].candidates
    /\ SavePosts(r, [p \in DOMAIN db.posts |->
          [db.posts[p] EXCEPT !.candidates =
              [c \in DOMAIN @ \cup {d \in CandName : <<p, d>> \in rows} |->
                  IF c \in DOMAIN @ THEN @[c] ELSE 0]]])

(* Names the post has already are skipped, after they were counted. *)
AddCandidatesBulk(r) ==
    /\ CanEdit(r)
    /\ \E p \in DOMAIN request[r].posts, new \in (SUBSET CandName) \ {{}} :
          LET there == DOMAIN request[r].posts[p].candidates
          IN  /\ Cardinality(there) + Cardinality(new) <= MaxCandidates
              /\ AddRows(r, {<<p, c>> : c \in new \ there})

(* One candidate for each of some posts; the limit counts the new ones. *)
ImportCandidates(r) ==
    /\ CanEdit(r)
    /\ \E P \in (SUBSET DOMAIN request[r].posts) \ {{}}, c \in CandName :
          LET new == {p \in P : c \notin DOMAIN request[r].posts[p].candidates}
          IN  /\ \A p \in new :
                    Cardinality(DOMAIN request[r].posts[p].candidates) + 1
                        <= MaxCandidates
              /\ AddRows(r, {<<p, c>> : p \in new})

UpdateCandidate(r) ==
    /\ CanEdit(r)
    /\ \E p \in DOMAIN request[r].posts \cap DOMAIN db.posts :
       LET cands == db.posts[p].candidates
       IN  \E c \in DOMAIN cands \cap DOMAIN request[r].posts[p].candidates,
              d \in CandName \ DOMAIN cands :
              SavePosts(r, [db.posts EXCEPT ![p].candidates =
                               Put(Without(cands, c), d, cands[c])])

DeleteCandidate(r) ==
    /\ CanEdit(r)
    /\ \E p \in DOMAIN request[r].posts \cap DOMAIN db.posts :
       \E c \in DOMAIN request[r].posts[p].candidates :
          SavePosts(r, [db.posts EXCEPT ![p].candidates = Without(@, c)])

(* Candidates that are not among the ids given go to the end. *)
LastPlace == 9999

ReorderCandidates(r) ==
    /\ CanEdit(r)
    /\ \E p \in DOMAIN request[r].posts \cap DOMAIN db.posts :
       LET given == DOMAIN request[r].posts[p].candidates
           there == DOMAIN db.posts[p].candidates
       IN  \E order \in [given -> 0 .. Cardinality(given) - 1] :
              /\ given # {}
              /\ \A c, d \in given : order[c] = order[d] => c = d
              /\ SavePosts(r, [db.posts EXCEPT ![p].candidates =
                    [c \in there |-> IF c \in given THEN order[c] ELSE LastPlace]])

(* The names of a file that no position has, in the order of the file. *)
Missing(new, names) ==
    /\ {new[i] : i \in 1..Len(new)} =
          {names[i] : i \in {j \in 1..Len(names) : names[j] \notin Names(db.posts)}}
    /\ Len(new) = 2 => new = names

(* A file of positions, each with the same candidate: missing positions are *)
(* created with their place in the file, and only positions are limited.    *)
BulkImportPositions(r) ==
    /\ CanEdit(r) /\ ~Locked /\ Exists
    /\ \E names \in NameLists, c \in CandName, new \in NameLists \cup {<<>>} :
       LET unseen == {i \in 1..Len(names) : names[i] \notin Names(request[r].posts)}
           place(n) == (CHOOSE i \in 1..Len(names) : names[i] = n) - 1
           posts == Appended(new, 0)
       IN  /\ Missing(new, names)
           /\ WithinPostLimit(request[r].posts, Cardinality(unseen))
           /\ SaveBallot(r, [db EXCEPT
                 !.created = @ + Len(new),
                 !.posts = [p \in DOMAIN posts |->
                    IF \A i \in 1..Len(names) : names[i] # posts[p].name
                    THEN posts[p]
                    ELSE [name |-> posts[p].name,
                          order |-> IF p <= db.created THEN posts[p].order
                                    ELSE place(posts[p].name),
                          candidates |->
                             IF c \in DOMAIN posts[p].candidates
                             THEN posts[p].candidates
                             ELSE Put(posts[p].candidates, c, 0)]]])

-------------------------------------------------------------------------------
(* Voters *)

(* From a file of either importer, or a batch of offline credentials.  The   *)
(* plan's limit is on those not revoked, or for one importer on all; who is  *)
(* revoked is not told apart here.                                          *)
ImportVoter(r) ==
    /\ CanEdit(r) /\ ~Locked /\ Exists
    /\ \E revoked \in 0..request[r].voters :
          request[r].voters - revoked + 1 <= MaxVoters
    /\ Answer(r, [db EXCEPT !.voters = @ + 1])
    /\ UNCHANGED raced

(* A voter asks for access, which a launched election does not allow. *)
RequestAccess ==
    /\ Exists /\ ~Locked
    /\ ~db.election.is_launched
    /\ ~db.pending
    /\ served < MaxRequests
    /\ served' = served + 1
    /\ db' = [db EXCEPT !.pending = TRUE]
    /\ UNCHANGED <<chain, tx, tree, request, raced, clock, incidents>>

(* Approval does not ask whether the election was launched. *)
ReviewAccess(r) ==
    /\ Opened(r) /\ ~Locked /\ Exists
    /\ db.pending
    /\ \E approved \in BOOLEAN :
          Answer(r, [db EXCEPT !.pending = FALSE,
                               !.voters = IF approved THEN @ + 1 ELSE @])
    /\ UNCHANGED raced

-------------------------------------------------------------------------------
(* The launch *)

GoesTo(r, pc) == request' = [request EXCEPT ![r].pc = pc]

(* The prerequisites, before the lock. *)
CheckPrerequisites(r) ==
    /\ CanEdit(r)
    /\ Exists
    /\ DOMAIN db.posts # {}
    /\ \A p \in DOMAIN db.posts : DOMAIN db.posts[p].candidates # {}
    /\ db.voters > 0
    /\ ~db.pending
    /\ GoesTo(r, "checked")
    /\ UNCHANGED <<db, chain, tx, tree, raced, clock, served, incidents>>

Checked(r) == request[r].pc = "checked"

\* Mutant of StillDraft: the row is locked but not looked at again.
StillDraft_NotRead == Exists

StillDraft == Exists /\ ~db.election.is_launched

LockElection(r) ==
    /\ Checked(r) /\ ~Locked
    /\ StillDraft
    /\ GoesTo(r, "locked")
    /\ UNCHANGED <<db, chain, tx, tree, raced, clock, served, incidents>>

AlreadyLaunched(r) ==
    /\ Checked(r) /\ ~Locked
    /\ ~StillDraft
    /\ Answer(r, db)
    /\ UNCHANGED raced

(* deploy_election reads the ballot for config_hash; posts and candidates    *)
(* are not locked.                                                          *)
ComputeConfigHash(r) ==
    /\ Launching(r) /\ request[r].pc = "locked"
    /\ request' = [request EXCEPT ![r] =
          [pc |-> "hashed", name |-> db.election.name, ballot |-> Ballot(db.posts)]]
    /\ raced' = FALSE
    /\ UNCHANGED <<db, chain, tx, tree, clock, served, incidents>>

(* It reads the ballot again, to count, and the voters; it indexes them in   *)
(* the open transaction and caches the tree at once.                        *)
BuildTree(r) ==
    /\ Launching(r) /\ request[r].pc = "hashed"
    /\ db.voters > 0
    /\ request' = [request EXCEPT ![r] =
          [pc |-> "built", roll |-> db.voters, name |-> @.name, ballot |-> @.ballot,
           layout |-> Layout(db.posts), start_time |-> db.election.start_time,
           end_time |-> db.election.end_time]]
    /\ tree' = db.voters
    /\ UNCHANGED <<db, chain, tx, raced, clock, served, incidents>>

Signature(t) == t.n

\* Mutant of ExistingSignature: the account's own signature is looked up.
ExistingSignature_LookedUp == chain.n

ExistingSignature == PdaAlreadyExisted

(* The account is there already: no transaction, whatever it contains. *)
FindAccount(r) ==
    /\ Launching(r) /\ request[r].pc = "built"
    /\ chain # NoAccount
    /\ request' = [request EXCEPT ![r] = [pc |-> "deployed", roll |-> @.roll,
                                          sig |-> ExistingSignature]]
    /\ UNCHANGED <<db, chain, tx, tree, raced, clock, served, incidents>>

(* require!s of initialize_election, in the preflight and on execution. *)
CanInitialize(t) == chain = NoAccount /\ t.start_time < t.end_time

SendInitialize(r) ==
    /\ Launching(r) /\ request[r].pc = "built"
    /\ LET t == [n |-> Cardinality(tx) + 1, fate |-> "sent",
                 roll |-> request[r].roll, name |-> request[r].name,
                 ballot |-> request[r].ballot, layout |-> request[r].layout,
                 start_time |-> request[r].start_time,
                 end_time |-> request[r].end_time]
       IN  /\ CanInitialize(t)
           /\ tx' = tx \cup {t}
           /\ request' = [request EXCEPT ![r] =
                 [pc |-> "sent", roll |-> @.roll, sig |-> t.n]]
    /\ UNCHANGED <<db, chain, tree, raced, clock, served, incidents>>

Settled(t, fate) == tx' = (tx \ {t}) \cup {[t EXCEPT !.fate = fate]}

Lands(t) ==
    /\ t.fate = "sent"
    /\ Settled(t, "executed")
    /\ chain' = IF CanInitialize(t) THEN t ELSE chain
    /\ UNCHANGED <<db, tree, request, raced, clock, served, incidents>>

(* The transaction's blockhash expires: it will never be executed. *)
Expires(t) ==
    /\ t.fate = "sent"
    /\ incidents < MaxIncidents
    /\ incidents' = incidents + 1
    /\ Settled(t, "expired")
    /\ UNCHANGED <<db, chain, tree, request, raced, clock, served>>

\* Mutant of Seen: sent is good enough.
Seen_Sent(t) == TRUE

(* program.rpc returns once the transaction was executed, with or without   *)
(* an error.                                                                *)
Seen(t) == t.fate = "executed"

Confirm(r) ==
    /\ Launching(r) /\ request[r].pc = "sent"
    /\ \E t \in tx : Signature(t) = request[r].sig /\ Seen(t)
    /\ GoesTo(r, "deployed")
    /\ UNCHANGED <<db, chain, tx, tree, raced, clock, served, incidents>>

CommitLaunch(r) ==
    /\ Launching(r) /\ request[r].pc = "deployed"
    /\ Answer(r, [db EXCEPT !.election.is_launched = TRUE,
                            !.election.deploy_tx = request[r].sig,
                            !.indexed = request[r].roll])
    /\ UNCHANGED raced

(* The voters indexed so far: a failed deploy returns a response, and the  *)
(* atomic block commits.                                                   *)
IndexedBy(r) ==
    IF request[r].pc \in {"locked", "hashed"} THEN db.indexed ELSE request[r].roll

\* Mutant of MustFail: an expired transaction is waited for.
MustFail_Waits(r) == request[r].pc = "hashed" /\ db.voters = 0

(* deploy_election raises: no voters, a refusing preflight, an expired     *)
(* transaction, or an incident (no connection, the 120 s are over).        *)
MustFail(r) ==
    CASE request[r].pc = "hashed" -> db.voters = 0
      [] request[r].pc = "built" ->
            chain = NoAccount /\ request[r].start_time >= request[r].end_time
      [] request[r].pc = "sent" ->
            \E t \in tx : Signature(t) = request[r].sig /\ t.fate = "expired"
      [] OTHER -> FALSE

DeployFails(r) ==
    /\ Launching(r)
    /\ IF MustFail(r) THEN UNCHANGED incidents
       ELSE incidents < MaxIncidents /\ incidents' = incidents + 1
    /\ db' = [db EXCEPT !.indexed = IndexedBy(r)]
    /\ request' = [request EXCEPT ![r] = NoRequest]
    /\ UNCHANGED <<chain, tx, tree, raced, clock, served>>

(* The connection is lost with the open transaction: all is rolled back. *)
WorkerKilled(r) ==
    /\ Launching(r)
    /\ incidents < MaxIncidents
    /\ incidents' = incidents + 1
    /\ request' = [request EXCEPT ![r] = NoRequest]
    /\ UNCHANGED <<db, chain, tx, tree, raced, clock, served>>

Tick ==
    /\ clock < MaxClock
    /\ clock' = clock + 1
    /\ UNCHANGED <<db, chain, tx, tree, request, raced, served, incidents>>

-------------------------------------------------------------------------------
Edits(r) ==
    \/ EditElection(r) \/ UpdateElectionName(r) \/ UpdateVotingPeriod(r)
    \/ DeleteElection(r)
    \/ AddPost(r) \/ AddPostsBulk(r) \/ DeletePost(r) \/ DeleteAllPosts(r)
    \/ RenamePost(r) \/ ReorderPosts(r)
    \/ AddCandidatesBulk(r) \/ ImportCandidates(r) \/ UpdateCandidate(r)
    \/ DeleteCandidate(r) \/ ReorderCandidates(r) \/ BulkImportPositions(r)
    \/ ImportVoter(r) \/ ReviewAccess(r)

(* What a worker that runs a launch does next. *)
LaunchStep(r) ==
    \/ LockElection(r) \/ AlreadyLaunched(r) \/ ComputeConfigHash(r)
    \/ BuildTree(r) \/ FindAccount(r) \/ SendInitialize(r) \/ Confirm(r)
    \/ CommitLaunch(r) \/ DeployFails(r)

Network == \E t \in tx : Lands(t) \/ Expires(t)

SetupNext ==
    \/ \E r \in Request :
          \/ Open(r) \/ Refuse(r) \/ Edits(r)
          \/ CheckPrerequisites(r) \/ LaunchStep(r) \/ WorkerKilled(r)
    \/ RequestAccess \/ Network \/ Tick

SetupSpec ==
    /\ SetupInit /\ [][SetupNext]_setupVars
    /\ \A r \in Request : WF_setupVars(LaunchStep(r))
    /\ WF_setupVars(Network)

-------------------------------------------------------------------------------
(* Properties *)

Attempts == 1 .. Cardinality(tx)

(* Rows, requests and transactions have the shape the handlers give them.  *)
SetupTypeOK ==
    /\ Exists => /\ db.election.name \in ElectionName
                 /\ db.election.is_launched \in BOOLEAN
                 /\ db.election.deploy_tx \in
                       Attempts \cup {NoSignature, PdaAlreadyExisted}
    /\ ~Exists => DOMAIN db.posts = {}
    /\ DOMAIN db.posts \subseteq 1 .. db.created
    /\ \A p \in DOMAIN db.posts :
          /\ db.posts[p].name \in PostName
          /\ DOMAIN db.posts[p].candidates \subseteq CandName
    /\ Cardinality(Names(db.posts)) = Cardinality(DOMAIN db.posts)
    /\ Exists => db.indexed <= db.voters
    /\ {t.n : t \in tx} = Attempts

Launched == Exists /\ db.election.is_launched

(* The launch transaction created the account, as the row says. *)
CreatedBy == Launched /\ chain # NoAccount /\ db.election.deploy_tx = chain.n

(* An election that is launched has its account on chain and the deployment *)
(* is on its row, whatever the launch met: refused, expired and doubled     *)
(* transactions, failures after the deployment, rows saved from old reads.  *)
LaunchedIsDeployed ==
    Launched => chain # NoAccount /\ db.election.deploy_tx # NoSignature

(* If the row's deployment is the transaction that created the account, the *)
(* root on chain is that of the indexed voters and of the cached tree, so   *)
(* the proofs the server makes verify: also after failed attempts with      *)
(* other rolls, and with late approvals of voters.                          *)
RollAsDeployed ==
    CreatedBy => chain.roll = db.indexed /\ chain.roll = tree

(* Under the same condition the ballot that voters see, and by which their  *)
(* choices become indices, is the one the account was laid out for and whose *)
(* hash it has, as long as no request that had been opened on the draft was *)
(* saved late.                                                              *)
BallotAsDeployed ==
    CreatedBy /\ ~raced =>
        /\ chain.ballot = Ballot(db.posts) /\ chain.layout = Layout(db.posts)
        /\ chain.name = db.election.name

(* A launch that holds the row is alone and holds a draft: of two requests  *)
(* that both passed the first test, one finds the election launched.        *)
OneLaunchAtATime ==
    \A r \in Request : Launching(r) =>
        /\ Exists /\ ~Launched
        /\ \A q \in Request : Launching(q) => q = r

(* The rest of what a request read is as it was read. *)
Current(r) ==
    /\ request[r].election = db.election
    /\ request[r].posts = db.posts
    /\ request[r].voters = db.voters

(* A handler whose readings are still current takes the election neither   *)
(* past its plan's number of positions nor to a period that ends before it *)
(* starts: only requests that overlap can, since nothing is locked.        *)
OnlyRacesBreakLimits ==
    [][\A r \in Request :
          Opened(r) /\ request'[r] = NoRequest /\ Current(r) /\ Exists' =>
             /\ Cardinality(DOMAIN db'.posts) > MaxPosts =>
                   Cardinality(DOMAIN db'.posts) <= Cardinality(DOMAIN db.posts)
             /\ db'.election.start_time >= db'.election.end_time =>
                   db.election.start_time >= db.election.end_time]_setupVars

(* The Election row does not stay locked: whatever happens to the deploy,  *)
(* the launch ends and the requests that wait for the row go on.           *)
LockIsReleased == Locked ~> ~Locked
===============================================================================
