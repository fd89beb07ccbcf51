------------------------- MODULE ElectionSetupProofs --------------------------
(***************************************************************************)
(* The safety properties of ElectionSetup, for any number of concurrent    *)
(* requests, failures and transactions.  The launch is the only request    *)
(* that locks the row; the invariant says what it holds while the others   *)
(* go on writing what they decided from older readings.                    *)
(***************************************************************************)
EXTENDS ElectionSetup, FiniteSetTheorems, TLAPS

Candidates == UNION {[C -> Int] : C \in SUBSET CandName}
PostRow == [name : PostName, order : Int, candidates : Candidates]
Posts == UNION {[D -> PostRow] : D \in SUBSET Nat}
Ballots == {Ballot(posts) : posts \in Posts}
Layouts == {Layout(posts) : posts \in Posts}

DbRow ==
    [election : ElectionRow \cup {NoElection}, posts : Posts, created : Nat,
     voters : Nat, indexed : Nat, pending : BOOLEAN]

Transaction ==
    [n : Nat \ {0}, fate : {"sent", "executed", "expired"}, roll : Nat,
     name : ElectionName, ballot : Ballots, layout : Layouts,
     start_time : Int, end_time : Int]

OpenRow ==
    [pc : {"open", "checked", "locked"}, election : ElectionRow, posts : Posts,
     voters : Nat, time : Nat]
HashedRow == [pc : {"hashed"}, name : ElectionName, ballot : Ballots]
BuiltRow ==
    [pc : {"built"}, roll : Nat, name : ElectionName, ballot : Ballots,
     layout : Layouts, start_time : Int, end_time : Int]
SentRow == [pc : {"sent"}, roll : Nat, sig : Nat \ {0}]
DeployedRow ==
    [pc : {"deployed"}, roll : Nat, sig : (Nat \ {0}) \cup {PdaAlreadyExisted}]

RequestRow ==
    {NoRequest} \cup OpenRow \cup HashedRow \cup BuiltRow \cup SentRow \cup DeployedRow

Typed ==
    /\ db \in DbRow
    /\ request \in [Request -> RequestRow]
    /\ chain \in Transaction \cup {NoAccount}
    /\ tx \subseteq Transaction
    /\ tree \in Nat /\ raced \in BOOLEAN /\ clock \in Nat

(* Posts are numbered as they are created, and their names are unique.      *)
WellNamed(posts, created) ==
    /\ DOMAIN posts \subseteq 1 .. created
    /\ \A p, q \in DOMAIN posts : posts[p].name = posts[q].name => p = q

(* A row says how it was deployed exactly if it is launched.                *)
RowSound(row) == ~row.is_launched => row.deploy_tx = NoSignature

DbSound ==
    /\ ~Exists => DOMAIN db.posts = {}
    /\ WellNamed(db.posts, db.created)
    /\ db.indexed <= db.voters
    /\ Exists => RowSound(db.election)
    /\ Exists => db.election.deploy_tx \in Attempts \cup {NoSignature, PdaAlreadyExisted}
    /\ \A r \in Request : request[r].pc \in {"open", "checked", "locked"} =>
          RowSound(request[r].election) /\ IsFiniteSet(DOMAIN request[r].posts)

(* Transactions are numbered; the one on chain was one of them.             *)
TxSound ==
    /\ IsFiniteSet(tx)
    /\ {t.n : t \in tx} = Attempts
    /\ \A t, u \in tx : t.n = u.n => t = u
    /\ \A t \in tx : t.start_time < t.end_time
    /\ \A t \in tx : t.fate = "executed" => chain # NoAccount
    /\ chain # NoAccount => chain.n \in Attempts
    /\ \A t \in tx : t.n = chain.n =>
          /\ t.roll = chain.roll /\ t.name = chain.name
          /\ t.ballot = chain.ballot /\ t.layout = chain.layout

(* The ballot and the name of the row are those given, and the layout too,  *)
(* unless a request raced the launch.                                       *)
SameBallot(ballot, name) ==
    ~raced => ballot = Ballot(db.posts) /\ name = db.election.name

OnRow(ballot, layout, name) ==
    /\ SameBallot(ballot, name)
    /\ ~raced => layout = Layout(db.posts)

(* What a launch that holds the row knows.                                  *)
Knows(r) ==
    /\ request[r].pc \notin {"locked", "hashed"} =>
          tree = request[r].roll /\ request[r].roll <= db.voters
    /\ request[r].pc = "hashed" => SameBallot(request[r].ballot, request[r].name)
    /\ request[r].pc = "built" =>
          OnRow(request[r].ballot, request[r].layout, request[r].name)
    /\ request[r].pc \in {"sent", "deployed"} =>
          \/ request[r].pc = "deployed" /\ request[r].sig = PdaAlreadyExisted
          \/ \E t \in tx : /\ t.n = request[r].sig /\ t.roll = request[r].roll
                           /\ OnRow(t.ballot, t.layout, t.name)
    /\ request[r].pc = "deployed" => chain # NoAccount

LaunchSound == \A r \in Request : Launching(r) => Knows(r)

SetupInv ==
    /\ Typed /\ DbSound /\ TxSound
    /\ OneLaunchAtATime /\ LaunchSound
    /\ LaunchedIsDeployed /\ RollAsDeployed /\ BallotAsDeployed

-------------------------------------------------------------------------------
(* Functions into rows *)

(* There are as many images as elements, if no two have the same image.     *)
LEMMA SameCount ==
    ASSUME NEW S, IsFiniteSet(S), NEW f,
           \A p, q \in S : f[p] = f[q] => p = q
    PROVE  /\ IsFiniteSet({f[p] : p \in S})
           /\ Cardinality({f[p] : p \in S}) = Cardinality(S)
<1> DEFINE T == {f[p] : p \in S}
           g == [p \in S |-> f[p]]
<1>1. g \in Bijection(S, T)
  BY DEF Bijection, Injection, Surjection, IsInjective
<1>2. ExistsBijection(S, T)
  BY <1>1 DEF ExistsBijection
<1> HIDE DEF T
<1>3. IsFiniteSet(T) /\ Cardinality(T) = Cardinality(S)
  BY <1>2, FS_Bijection
<1> QED BY <1>3 DEF T

LEMMA PostsShape ==
    ASSUME NEW posts
    PROVE  posts \in Posts <=>
              DOMAIN posts \subseteq Nat /\ posts \in [DOMAIN posts -> PostRow]
BY DEF Posts

LEMMA CandidatesShape ==
    ASSUME NEW cands
    PROVE  cands \in Candidates <=>
              DOMAIN cands \subseteq CandName /\ cands \in [DOMAIN cands -> Int]
BY DEF Candidates

LEMMA NoPosts == <<>> \in Posts /\ <<>> \in Candidates /\ DOMAIN <<>> = {}
<1>1. DOMAIN <<>> = {} /\ <<>> = [x \in {} |-> 0]
  OBVIOUS
<1>2. <<>> \in [{} -> PostRow] /\ <<>> \in [{} -> Int]
  BY <1>1
<1> QED BY <1>1, <1>2 DEF Posts, Candidates

-------------------------------------------------------------------------------
(* An answer to a request that was opened and holds no lock does this much   *)
(* to the database and no more, whatever it read.                           *)
Edited(r) ==
    /\ request[r].pc \in {"open", "checked"}
    /\ request' = [request EXCEPT ![r] = NoRequest]
    /\ UNCHANGED <<chain, tx, tree, clock>>
    /\ db' \in DbRow /\ raced' \in BOOLEAN
    /\ ~Exists' => DOMAIN db'.posts = {}
    /\ WellNamed(db'.posts, db'.created)
    /\ db'.indexed <= db'.voters
    /\ Exists' => \/ db'.election.deploy_tx = NoSignature /\ ~db'.election.is_launched
                  \/ /\ Exists /\ db'.indexed = db.indexed
                     /\ db'.election.deploy_tx = db.election.deploy_tx
                     /\ db'.election.is_launched = db.election.is_launched
    /\ Locked => /\ Exists => Exists'
                 /\ Launched' => Launched
                 /\ db.voters <= db'.voters
    /\ Locked \/ Launched' =>
          raced' \/ (/\ ~raced /\ db'.posts = db.posts
                     /\ Exists' => db'.election.name = db.election.name)

(* Every edit of the ballot is of this kind.                                *)
LEMMA BallotEdits ==
    ASSUME SetupInv, NEW r \in Request, CanEdit(r), NEW d, SaveBallot(r, d),
           d \in DbRow, d.election = db.election,
           WellNamed(d.posts, d.created), ~Exists => DOMAIN d.posts = {},
           d.voters = db.voters, d.indexed = db.indexed
    PROVE  Edited(r)
<1>1. /\ db' = d /\ request' = [request EXCEPT ![r] = NoRequest]
      /\ UNCHANGED <<chain, tx, tree, clock>>
      /\ raced' = (raced \/ (/\ ~request[r].election.is_launched
                             /\ Locked \/ (Exists /\ db.election.is_launched)))
      /\ Opened(r) /\ ~request[r].election.is_launched
  BY DEF SaveBallot, Answer, CanEdit
<1>2. raced \in BOOLEAN /\ db.indexed <= db.voters /\ db.voters \in Nat
  BY DEF SetupInv, Typed, DbSound, DbRow
<1>3. /\ Exists' <=> Exists
      /\ Launched' <=> Launched
  BY <1>1 DEF Exists, Launched
<1>4. Locked \/ Launched' => raced'
  BY <1>1, <1>3 DEF Launched
<1> QED BY <1>1, <1>2, <1>3, <1>4 DEF Edited, Opened

LEMMA PostEdits ==
    ASSUME SetupInv, NEW r \in Request, CanEdit(r), NEW posts, SavePosts(r, posts),
           posts \in Posts, WellNamed(posts, db.created),
           ~Exists => DOMAIN posts = {}
    PROVE  Edited(r)
<1> DEFINE d == [db EXCEPT !.posts = posts]
<1>1. db \in DbRow
  BY DEF SetupInv, Typed
<1>2. /\ d \in DbRow /\ d.posts = posts /\ d.created = db.created
      /\ d.election = db.election /\ d.voters = db.voters /\ d.indexed = db.indexed
  BY <1>1 DEF DbRow
<1>3. SaveBallot(r, d)
  BY DEF SavePosts
<1> HIDE DEF d
<1> QED BY <1>2, <1>3, BallotEdits

(* Posts that keep their numbers and names keep them unique.                *)
LEMMA SameNames ==
    ASSUME SetupInv, NEW posts, posts \in [DOMAIN db.posts -> PostRow],
           \A p \in DOMAIN db.posts : posts[p].name = db.posts[p].name
    PROVE  /\ posts \in Posts /\ WellNamed(posts, db.created)
           /\ ~Exists => DOMAIN posts = {}
<1>1. db.posts \in Posts /\ WellNamed(db.posts, db.created)
      /\ (~Exists => DOMAIN db.posts = {})
  BY DEF SetupInv, Typed, DbRow, DbSound
<1>2. DOMAIN posts = DOMAIN db.posts
  OBVIOUS
<1>3. posts \in Posts
  BY <1>1, <1>2, PostsShape
<1> QED BY <1>1, <1>2, <1>3 DEF WellNamed

LEMMA DbPosts ==
    ASSUME SetupInv
    PROVE  /\ db \in DbRow /\ db.posts \in Posts
           /\ DOMAIN db.posts \subseteq Nat
           /\ db.posts \in [DOMAIN db.posts -> PostRow]
           /\ \A p \in DOMAIN db.posts :
                 /\ db.posts[p] \in PostRow
                 /\ DOMAIN db.posts[p].candidates \subseteq CandName
                 /\ db.posts[p].candidates \in [DOMAIN db.posts[p].candidates -> Int]
<1>1. db \in DbRow /\ db.posts \in Posts
  BY DEF SetupInv, Typed, DbRow
<1>2. DOMAIN db.posts \subseteq Nat /\ db.posts \in [DOMAIN db.posts -> PostRow]
  BY <1>1, PostsShape
<1>3. \A p \in DOMAIN db.posts : /\ db.posts[p] \in PostRow
                                 /\ db.posts[p].candidates \in Candidates
  BY <1>2 DEF PostRow
<1> QED BY <1>1, <1>2, <1>3, CandidatesShape

(* New candidates of one post.                                              *)
LEMMA CandidateEdits ==
    ASSUME SetupInv, NEW r \in Request, CanEdit(r), NEW p \in DOMAIN db.posts,
           NEW cands \in Candidates,
           SavePosts(r, [db.posts EXCEPT ![p].candidates = cands])
    PROVE  Edited(r)
<1> DEFINE posts == [db.posts EXCEPT ![p].candidates = cands]
<1>1. /\ posts \in [DOMAIN db.posts -> PostRow]
      /\ \A q \in DOMAIN db.posts : posts[q].name = db.posts[q].name
  BY DbPosts DEF PostRow
<1>2. SavePosts(r, posts)
  OBVIOUS
<1> HIDE DEF posts
<1> QED BY <1>1, <1>2, SameNames, PostEdits

LEMMA SmallPostEdits ==
    ASSUME SetupInv, NEW r \in Request,
           DeletePost(r) \/ DeleteAllPosts(r) \/ RenamePost(r) \/ ReorderPosts(r)
    PROVE  Edited(r)
<1>1. /\ CanEdit(r) /\ WellNamed(db.posts, db.created)
      /\ ~Exists => DOMAIN db.posts = {}
  BY DEF DeletePost, DeleteAllPosts, RenamePost, ReorderPosts, SetupInv, DbSound
<1>2. ASSUME NEW p, SavePosts(r, Without(db.posts, p))
      PROVE  Edited(r)
  <2> DEFINE posts == Without(db.posts, p)
  <2>1. /\ DOMAIN posts \subseteq DOMAIN db.posts
        /\ \A q \in DOMAIN posts : posts[q] = db.posts[q]
        /\ posts \in [DOMAIN posts -> PostRow]
    BY DbPosts DEF Without
  <2>2. SavePosts(r, posts)
    BY <1>2
  <2> HIDE DEF posts
  <2>3. posts \in Posts
    BY <2>1, DbPosts, PostsShape
  <2>4. WellNamed(posts, db.created)
    BY <1>1, <2>1 DEF WellNamed
  <2> QED BY <1>1, <2>1, <2>2, <2>3, <2>4, PostEdits
<1>3. ASSUME SavePosts(r, <<>>)
      PROVE  Edited(r)
  BY <1>1, <1>3, NoPosts, PostEdits DEF WellNamed
<1>4. ASSUME NEW p \in DOMAIN db.posts, NEW n \in PostName, NameFree(n),
             SavePosts(r, [db.posts EXCEPT ![p].name = n])
      PROVE  Edited(r)
  <2> DEFINE posts == [db.posts EXCEPT ![p].name = n]
  <2>1. /\ posts \in [DOMAIN db.posts -> PostRow]
        /\ DOMAIN posts = DOMAIN db.posts
        /\ posts[p].name = n
        /\ \A q \in DOMAIN db.posts : q # p => posts[q].name = db.posts[q].name
    BY DbPosts DEF PostRow
  <2>2. \A q \in DOMAIN db.posts : db.posts[q].name # n
    BY <1>4 DEF NameFree, Names
  <2>3. SavePosts(r, posts)
    BY <1>4
  <2> HIDE DEF posts
  <2>4. posts \in Posts /\ WellNamed(posts, db.created)
    BY <1>1, <2>1, <2>2, DbPosts, PostsShape DEF WellNamed
  <2> QED BY <1>1, <2>1, <2>3, <2>4, PostEdits
<1>5. ASSUME NEW order,
             \A p \in DOMAIN db.posts : order[p] \in Int,
             SavePosts(r, [p \in DOMAIN db.posts |->
                              [db.posts[p] EXCEPT !.order = order[p]]])
      PROVE  Edited(r)
  <2> DEFINE posts == [p \in DOMAIN db.posts |->
                          [db.posts[p] EXCEPT !.order = order[p]]]
  <2>1. /\ posts \in [DOMAIN db.posts -> PostRow]
        /\ \A p \in DOMAIN db.posts : posts[p].name = db.posts[p].name
    BY <1>5, DbPosts DEF PostRow
  <2>2. SavePosts(r, posts)
    BY <1>5
  <2> HIDE DEF posts
  <2> QED BY <1>1, <2>1, <2>2, SameNames, PostEdits
<1>6. ASSUME ReorderPosts(r)
      PROVE  Edited(r)
  <2>1. PICK order \in [DOMAIN request[r].posts ->
                          0 .. Cardinality(DOMAIN request[r].posts) - 1] :
           SavePosts(r, [p \in DOMAIN db.posts |->
                            [db.posts[p] EXCEPT !.order = order[p]]])
    BY <1>6 DEF ReorderPosts
  <2>2. DOMAIN db.posts \subseteq DOMAIN request[r].posts
    BY <1>6 DEF ReorderPosts
  <2>3. \A p \in DOMAIN db.posts : order[p] \in Int
    BY <2>2
  <2> QED BY <1>5, <2>1, <2>3
<1> QED BY <1>2, <1>3, <1>4, <1>6 DEF DeletePost, DeleteAllPosts, RenamePost

LEMMA WithoutCandidate ==
    ASSUME NEW cands \in Candidates, NEW c
    PROVE  Without(cands, c) \in Candidates
<1>1. /\ DOMAIN Without(cands, c) \subseteq CandName
      /\ Without(cands, c) \in [DOMAIN Without(cands, c) -> Int]
  BY CandidatesShape DEF Without
<1> QED BY <1>1, CandidatesShape

LEMMA PutCandidate ==
    ASSUME NEW cands \in Candidates, NEW c \in CandName, NEW v \in Int
    PROVE  Put(cands, c, v) \in Candidates
<1>1. /\ DOMAIN Put(cands, c, v) \subseteq CandName
      /\ Put(cands, c, v) \in [DOMAIN Put(cands, c, v) -> Int]
  BY CandidatesShape DEF Put
<1> QED BY <1>1, CandidatesShape

LEMMA SmallCandidateEdits ==
    ASSUME SetupInv, NEW r \in Request,
           UpdateCandidate(r) \/ DeleteCandidate(r) \/ ReorderCandidates(r)
    PROVE  Edited(r)
<1>1. CanEdit(r)
  BY DEF UpdateCandidate, DeleteCandidate, ReorderCandidates
<1>2. \A p \in DOMAIN db.posts :
         /\ db.posts[p].candidates \in Candidates
         /\ \A c \in DOMAIN db.posts[p].candidates : db.posts[p].candidates[c] \in Int
  BY DbPosts, CandidatesShape
<1>3. ASSUME UpdateCandidate(r)
      PROVE  Edited(r)
  <2>1. PICK p \in DOMAIN request[r].posts \cap DOMAIN db.posts :
           \E c \in DOMAIN db.posts[p].candidates
                  \cap DOMAIN request[r].posts[p].candidates,
              d \in CandName \ DOMAIN db.posts[p].candidates :
              SavePosts(r, [db.posts EXCEPT ![p].candidates =
                 Put(Without(db.posts[p].candidates, c), d,
                     db.posts[p].candidates[c])])
    BY <1>3 DEF UpdateCandidate
  <2>2. PICK c \in DOMAIN db.posts[p].candidates, d \in CandName :
              SavePosts(r, [db.posts EXCEPT ![p].candidates =
                 Put(Without(db.posts[p].candidates, c), d,
                     db.posts[p].candidates[c])])
    BY <2>1
  <2>3. Without(db.posts[p].candidates, c) \in Candidates
        /\ db.posts[p].candidates[c] \in Int
    BY WithoutCandidate, <1>2, <2>2
  <2>4. Put(Without(db.posts[p].candidates, c), d, db.posts[p].candidates[c])
           \in Candidates
    BY PutCandidate, <2>2, <2>3
  <2> QED BY <1>1, <2>1, <2>2, <2>4, CandidateEdits
<1>4. ASSUME DeleteCandidate(r)
      PROVE  Edited(r)
  <2>1. PICK p, c :
           /\ p \in DOMAIN db.posts
           /\ SavePosts(r, [db.posts EXCEPT ![p].candidates =
                               Without(db.posts[p].candidates, c)])
    BY <1>4 DEF DeleteCandidate
  <2> QED BY <1>1, <1>2, WithoutCandidate, <2>1, CandidateEdits
<1>5. ASSUME ReorderCandidates(r)
      PROVE  Edited(r)
  <2> DEFINE Given(p) == DOMAIN request[r].posts[p].candidates
             Order(p, order) ==
                [c \in DOMAIN db.posts[p].candidates |->
                    IF c \in Given(p) THEN order[c] ELSE LastPlace]
  <2>1. \E p \in DOMAIN request[r].posts \cap DOMAIN db.posts :
        \E order \in [Given(p) -> 0 .. Cardinality(Given(p)) - 1] :
           /\ Given(p) # {}
           /\ \A c, d \in Given(p) : order[c] = order[d] => c = d
           /\ SavePosts(r, [db.posts EXCEPT ![p].candidates = Order(p, order)])
    BY <1>5, Zenon DEF ReorderCandidates
  <2> HIDE DEF Order
  <2>2. PICK p, order :
           /\ p \in DOMAIN db.posts
           /\ order \in [Given(p) -> 0 .. Cardinality(Given(p)) - 1]
           /\ SavePosts(r, [db.posts EXCEPT ![p].candidates = Order(p, order)])
    BY <2>1, Zenon
  <2>3. \A c \in Given(p) : order[c] \in Int
    <3> HIDE DEF Given
    <3> QED BY <2>2
  <2>4. /\ DOMAIN Order(p, order) \subseteq CandName
        /\ Order(p, order) \in [DOMAIN Order(p, order) -> Int]
    <3> HIDE DEF Given
    <3> QED BY <2>2, <2>3, DbPosts DEF Order, LastPlace
  <2>5. Order(p, order) \in Candidates
    BY <2>4, CandidatesShape
  <2> QED BY <1>1, <2>2, <2>5, CandidateEdits
<1> QED BY <1>3, <1>4, <1>5

LEMMA AddedCandidates ==
    ASSUME SetupInv, NEW r \in Request, AddCandidatesBulk(r) \/ ImportCandidates(r)
    PROVE  Edited(r)
<1>1. PICK rows : AddRows(r, rows)
  BY DEF AddCandidatesBulk, ImportCandidates
<1> DEFINE
      Cands(p) ==
          [c \in DOMAIN db.posts[p].candidates
                    \cup {d \in CandName : <<p, d>> \in rows} |->
              IF c \in DOMAIN db.posts[p].candidates
              THEN db.posts[p].candidates[c] ELSE 0]
      posts ==
          [p \in DOMAIN db.posts |->
              [db.posts[p] EXCEPT !.candidates = Cands(p)]]
<1>2. CanEdit(r) /\ SavePosts(r, posts)
  BY <1>1 DEF AddRows
<1>3. ASSUME NEW p \in DOMAIN db.posts
      PROVE  Cands(p) \in Candidates
  <2>1. DOMAIN Cands(p) \subseteq CandName /\ Cands(p) \in [DOMAIN Cands(p) -> Int]
    BY DbPosts
  <2> HIDE DEF Cands
  <2> QED BY <2>1, CandidatesShape
<1> HIDE DEF Cands
<1>4. /\ posts \in [DOMAIN db.posts -> PostRow]
      /\ \A p \in DOMAIN db.posts : posts[p].name = db.posts[p].name
  BY <1>3, DbPosts DEF PostRow
<1> HIDE DEF posts
<1> QED BY <1>2, <1>4, SameNames, PostEdits

(* A list of new names.                                                     *)
Fresh(names) ==
    /\ names \in Seq(PostName)
    /\ \A i, j \in 1 .. Len(names) : names[i] = names[j] => i = j
    /\ \A i \in 1 .. Len(names) : NameFree(names[i])

LEMMA NameListsShape ==
    ASSUME NEW names \in NameLists \cup {<<>>}
    PROVE  /\ names \in Seq(PostName)
           /\ \A i, j \in 1 .. Len(names) : names[i] = names[j] => i = j
<1>1. CASE names = <<>>
  BY <1>1
<1>2. CASE \E n \in PostName : names = <<n>>
  BY <1>2
<1>3. ASSUME NEW a \in PostName, NEW b \in PostName, names = <<a, b>>, a # b
      PROVE  /\ names \in Seq(PostName)
             /\ \A i, j \in 1 .. Len(names) : names[i] = names[j] => i = j
  BY <1>3
<1>4. CASE names \in PostName \X PostName /\ names[1] # names[2]
  BY <1>3, <1>4
<1> QED BY <1>1, <1>2, <1>4 DEF NameLists

(* New posts come after those there are, and all names are still unique.    *)
LEMMA AppendedPosts ==
    ASSUME SetupInv, NEW names, Fresh(names), NEW base \in Int
    PROVE  /\ Appended(names, base) \in Posts
           /\ WellNamed(Appended(names, base), db.created + Len(names))
           /\ Appended(names, base) \in [DOMAIN Appended(names, base) -> PostRow]
           /\ db.created + Len(names) \in Nat
<1> DEFINE D == DOMAIN db.posts
           N == db.created + 1 .. db.created + Len(names)
           posts == Appended(names, base)
<1>1. /\ db.created \in Nat /\ D \subseteq 1 .. db.created
      /\ \A p, q \in D : db.posts[p].name = db.posts[q].name => p = q
  BY DbPosts DEF SetupInv, DbSound, WellNamed, DbRow
<1>2. Len(names) \in Nat /\ \A i \in 1 .. Len(names) : names[i] \in PostName
  BY DEF Fresh
<1>3. \A p \in N : p - db.created \in 1 .. Len(names) /\ ~(p <= db.created)
  BY <1>1, <1>2
<1>4. DOMAIN posts = D \cup N
  BY DEF Appended
<1>5. \A p \in D : posts[p] = db.posts[p]
  BY <1>1, <1>4 DEF Appended
<1>6. ASSUME NEW p \in N
      PROVE  posts[p] = [name |-> names[p - db.created],
                         order |-> base + p - db.created - 1, candidates |-> <<>>]
  BY <1>3, <1>4 DEF Appended
<1>7. posts = [p \in D \cup N |-> posts[p]]
  BY DEF Appended
<1> HIDE DEF posts
<1>8. ASSUME NEW p \in N
      PROVE  posts[p] \in PostRow /\ posts[p].name = names[p - db.created]
  <2>1. names[p - db.created] \in PostName /\ base + p - db.created - 1 \in Int
    BY <1>1, <1>2, <1>3
  <2> DEFINE none == <<>>
  <2>2. none \in Candidates
    BY NoPosts
  <2>3. posts[p] = [name |-> names[p - db.created],
                    order |-> base + p - db.created - 1, candidates |-> none]
    BY <1>6
  <2> HIDE DEF none
  <2> QED BY <2>1, <2>2, <2>3 DEF PostRow
<1>9. posts \in [D \cup N -> PostRow]
  BY <1>5, <1>7, <1>8, DbPosts
<1>10. D \cup N \subseteq 1 .. db.created + Len(names)
  BY <1>1, <1>2
<1>11. posts \in Posts /\ DOMAIN posts = D \cup N
  BY <1>9, <1>10, PostsShape
<1>12. ASSUME NEW p \in D \cup N, NEW q \in D \cup N, posts[p].name = posts[q].name
       PROVE  p = q
  <2>1. CASE p \in D /\ q \in D
    BY <1>1, <1>5, <1>12, <2>1
  <2>2. ASSUME NEW x \in D, NEW y \in N
        PROVE  posts[x].name # posts[y].name
    <3>1. names[y - db.created] \notin Names(db.posts)
      BY <1>3 DEF Fresh, NameFree
    <3> QED BY <1>5, <1>8, <3>1 DEF Names
  <2>3. CASE p \in N /\ q \in N
    <3>1. names[p - db.created] = names[q - db.created]
      BY <1>8, <1>12, <2>3
    <3>2. p - db.created = q - db.created
      BY <1>3, <2>3, <3>1 DEF Fresh
    <3> QED BY <1>1, <2>3, <3>2
  <2> QED BY <1>12, <2>1, <2>2, <2>3
<1>13. WellNamed(posts, db.created + Len(names))
  BY <1>10, <1>11, <1>12 DEF WellNamed
<1>14. db.created + Len(names) \in Nat
  BY <1>1, <1>2
<1> QED BY <1>9, <1>11, <1>13, <1>14 DEF posts

LEMMA AddedPosts ==
    ASSUME SetupInv, NEW r \in Request, AddPost(r) \/ AddPostsBulk(r)
    PROVE  Edited(r)
<1>1. PICK names \in NameLists : AddPosts(r, names)
  BY DEF AddPost, AddPostsBulk, NameLists
<1> DEFINE base == Cardinality(DOMAIN request[r].posts)
           posts == Appended(names, base)
           created == db.created + Len(names)
           d == [db EXCEPT !.posts = posts, !.created = created]
<1>2. /\ CanEdit(r) /\ Exists /\ SaveBallot(r, d)
      /\ \A i \in 1 .. Len(names) : NameFree(names[i])
  BY <1>1 DEF AddPosts
<1>3. Fresh(names)
  BY <1>2, NameListsShape DEF Fresh
<1>4. base \in Int
  <2>1. IsFiniteSet(DOMAIN request[r].posts)
    BY <1>2 DEF CanEdit, Opened, SetupInv, DbSound
  <2> QED BY <2>1, FS_CardinalityType
<1>5. posts \in Posts /\ WellNamed(posts, created) /\ created \in Nat
  BY <1>3, <1>4, AppendedPosts
<1> HIDE DEF posts, created
<1>6. /\ d \in DbRow /\ d.posts = posts /\ d.created = created
      /\ d.election = db.election /\ d.voters = db.voters /\ d.indexed = db.indexed
  BY <1>5, DbPosts DEF DbRow
<1> HIDE DEF d
<1> QED BY <1>2, <1>5, <1>6, BallotEdits

(* A file of positions gives each of them a candidate; names stay as they   *)
(* are in the posts that are there and those that are new.                  *)
LEMMA ImportedPositions ==
    ASSUME SetupInv, NEW r \in Request, BulkImportPositions(r)
    PROVE  Edited(r)
<1>1. PICK names \in NameLists :
      \E c \in CandName, new \in NameLists \cup {<<>>} :
         LET place(n) == (CHOOSE i \in 1..Len(names) : names[i] = n) - 1
             posts == Appended(new, 0)
         IN  /\ Missing(new, names)
             /\ SaveBallot(r, [db EXCEPT
                   !.created = @ + Len(new),
                   !.posts = [p \in DOMAIN posts |->
                      IF \A i \in 1..Len(names) : names[i] # posts[p].name
                      THEN posts[p]
                      ELSE [name |-> posts[p].name,
                            order |-> IF p <= db.created THEN posts[p].order
                                      ELSE place(posts[p].name),
                            candidates |->
                               IF c \in DOMAIN posts[p].candidates
                               THEN posts[p].candidates
                               ELSE Put(posts[p].candidates, c, 0)]]])
  BY DEF BulkImportPositions
<1> DEFINE place(n) == (CHOOSE i \in 1..Len(names) : names[i] = n) - 1
           Filled(posts, c) ==
              [p \in DOMAIN posts |->
                  IF \A i \in 1..Len(names) : names[i] # posts[p].name
                  THEN posts[p]
                  ELSE [name |-> posts[p].name,
                        order |-> IF p <= db.created THEN posts[p].order
                                  ELSE place(posts[p].name),
                        candidates |->
                           IF c \in DOMAIN posts[p].candidates
                           THEN posts[p].candidates
                           ELSE Put(posts[p].candidates, c, 0)]]
<1>2. PICK c \in CandName, new \in NameLists \cup {<<>>} :
         /\ Missing(new, names)
         /\ SaveBallot(r, [db EXCEPT !.created = @ + Len(new),
                                     !.posts = Filled(Appended(new, 0), c)])
  BY <1>1, Zenon
<1>3. CanEdit(r) /\ Exists
  BY DEF BulkImportPositions
<1>4. Fresh(new)
  <2>1. new \in Seq(PostName) /\ (\A i, j \in 1 .. Len(new) : new[i] = new[j] => i = j)
    BY NameListsShape
  <2>2. \A i \in 1 .. Len(new) : new[i] \notin Names(db.posts)
    BY <1>2 DEF Missing
  <2> QED BY <2>1, <2>2 DEF Fresh, NameFree
<1> DEFINE posts == Appended(new, 0)
           filled == Filled(posts, c)
           created == db.created + Len(new)
           d == [db EXCEPT !.created = created, !.posts = filled]
<1>5. /\ posts \in Posts /\ WellNamed(posts, created)
      /\ posts \in [DOMAIN posts -> PostRow] /\ created \in Nat
  BY <1>4, AppendedPosts
<1>6. ASSUME NEW n \in PostName, ~\A i \in 1..Len(names) : names[i] # n
      PROVE  place(n) \in Int
  <2>1. PICK i \in 1..Len(names) : names[i] = n
    BY <1>6
  <2>2. (CHOOSE k \in 1..Len(names) : names[k] = n) \in 1..Len(names)
    BY <2>1
  <2>3. Len(names) \in Nat
    BY NameListsShape
  <2> QED BY <2>2, <2>3
<1> HIDE DEF place, posts, created
<1>7. ASSUME NEW p \in DOMAIN posts
      PROVE  filled[p] \in PostRow /\ filled[p].name = posts[p].name
  <2>1. /\ posts[p] \in PostRow /\ posts[p].name \in PostName
        /\ posts[p].order \in Int /\ posts[p].candidates \in Candidates
    BY <1>5 DEF PostRow
  <2>2. CASE \A i \in 1..Len(names) : names[i] # posts[p].name
    BY <2>1, <2>2
  <2>3. CASE ~\A i \in 1..Len(names) : names[i] # posts[p].name
    <3> DEFINE order == IF p <= db.created THEN posts[p].order
                        ELSE place(posts[p].name)
               cands == IF c \in DOMAIN posts[p].candidates
                        THEN posts[p].candidates
                        ELSE Put(posts[p].candidates, c, 0)
    <3>1. order \in Int
      BY <1>6, <2>1, <2>3
    <3>2. Put(posts[p].candidates, c, 0) \in Candidates
      BY <2>1, PutCandidate
    <3>3. cands \in Candidates
      BY <2>1, <3>2
    <3>4. filled[p] = [name |-> posts[p].name, order |-> order, candidates |-> cands]
      BY <2>3
    <3> HIDE DEF order, cands
    <3> QED BY <2>1, <3>1, <3>3, <3>4 DEF PostRow
  <2> QED BY <2>2, <2>3
<1>8. filled \in [DOMAIN posts -> PostRow] /\ DOMAIN filled = DOMAIN posts
  <2>1. filled = [p \in DOMAIN posts |-> filled[p]]
    OBVIOUS
  <2> HIDE DEF filled
  <2> QED BY <1>7, <2>1
<1>9. SaveBallot(r, d)
  BY <1>2 DEF posts, created
<1> HIDE DEF filled
<1>10. filled \in Posts /\ WellNamed(filled, created)
  <2>1. DOMAIN posts \subseteq Nat
    BY <1>5, PostsShape
  <2>2. filled \in Posts
    BY <1>8, <2>1, PostsShape
  <2> QED BY <1>5, <1>7, <1>8, <2>2 DEF WellNamed
<1>11. /\ d \in DbRow /\ d.posts = filled /\ d.created = created
       /\ d.election = db.election /\ d.voters = db.voters /\ d.indexed = db.indexed
  BY <1>5, <1>10, DbPosts DEF DbRow
<1> HIDE DEF d
<1> QED BY <1>3, <1>9, <1>10, <1>11, BallotEdits

-------------------------------------------------------------------------------
(* The row, the voters, and answers that write nothing                      *)

LEMMA RowEdits ==
    ASSUME SetupInv, NEW r \in Request,
           EditElection(r) \/ UpdateElectionName(r) \/ UpdateVotingPeriod(r)
    PROVE  Edited(r)
<1>1. /\ raced \in BOOLEAN /\ db.indexed <= db.voters /\ db.voters \in Nat
      /\ db.election \in ElectionRow \cup {NoElection}
      /\ WellNamed(db.posts, db.created)
      /\ Opened(r) => request[r].election \in ElectionRow
      /\ Opened(r) => RowSound(request[r].election)
  BY DEF SetupInv, Typed, DbSound, DbRow, Opened, RequestRow, NoRequest, OpenRow,
         HashedRow, BuiltRow, SentRow, DeployedRow
<1>2. NoElection \notin ElectionRow
  BY DraftsAssumption
<1>3. ASSUME EditElection(r)
      PROVE  Edited(r)
  <2>1. PICK n \in ElectionName, w \in NewWindows :
           SaveBallot(r, [db EXCEPT !.election =
              [request[r].election EXCEPT !.name = n, !.start_time = w[1],
                                          !.end_time = w[2]]])
    BY <1>3 DEF EditElection
  <2> DEFINE row == [request[r].election EXCEPT !.name = n, !.start_time = w[1],
                                                !.end_time = w[2]]
             d == [db EXCEPT !.election = row]
  <2>2. Opened(r) /\ ~Locked /\ ~request[r].election.is_launched
    BY <1>3 DEF EditElection, CanEdit
  <2>3. w[1] \in Int /\ w[2] \in Int
    BY SetupAssumption
  <2>4. row \in ElectionRow /\ ~row.is_launched /\ row.deploy_tx = NoSignature
    BY <1>1, <2>2, <2>3 DEF ElectionRow, RowSound
  <2>5. SaveBallot(r, d)
    BY <2>1
  <2> HIDE DEF row
  <2>6. /\ d \in DbRow /\ d.election = row /\ d.posts = db.posts
        /\ d.created = db.created /\ d.voters = db.voters /\ d.indexed = db.indexed
    BY <2>4, DbPosts DEF DbRow
  <2> HIDE DEF d
  <2>7. /\ db' = d /\ request' = [request EXCEPT ![r] = NoRequest]
        /\ UNCHANGED <<chain, tx, tree, clock>>
        /\ raced' \in BOOLEAN
    BY <1>1, <2>5 DEF SaveBallot, Answer
  <2>8. Exists' /\ ~Launched'
    BY <1>2, <2>4, <2>6, <2>7 DEF Exists, Launched
  <2> QED BY <1>1, <2>2, <2>4, <2>6, <2>7, <2>8 DEF Edited, Opened
<1>4. ASSUME UpdateElectionName(r)
      PROVE  Edited(r)
  <2>1. PICK n \in ElectionName : SaveBallot(r, [db EXCEPT !.election.name = n])
    BY <1>4 DEF UpdateElectionName
  <2> DEFINE row == [db.election EXCEPT !.name = n]
             d == [db EXCEPT !.election = row]
  <2>2. Opened(r) /\ ~Locked /\ Exists /\ ~request[r].election.is_launched
    BY <1>4 DEF UpdateElectionName, CanEdit
  <2>3. /\ row \in ElectionRow /\ row.is_launched = db.election.is_launched
        /\ row.deploy_tx = db.election.deploy_tx
    BY <1>1, <2>2 DEF ElectionRow, Exists
  <2>4. SaveBallot(r, d)
    BY <2>1, DbPosts DEF DbRow
  <2> HIDE DEF row
  <2>5. /\ d \in DbRow /\ d.election = row /\ d.posts = db.posts
        /\ d.created = db.created /\ d.voters = db.voters /\ d.indexed = db.indexed
    BY <2>3, DbPosts DEF DbRow
  <2> HIDE DEF d
  <2>6. /\ db' = d /\ request' = [request EXCEPT ![r] = NoRequest]
        /\ UNCHANGED <<chain, tx, tree, clock>>
        /\ raced' = (raced \/ db.election.is_launched)
    BY <1>1, <2>2, <2>4 DEF SaveBallot, Answer
  <2>7. Exists' /\ (Launched' <=> Launched) /\ (Launched => raced')
    BY <1>2, <2>2, <2>3, <2>5, <2>6 DEF Exists, Launched
  <2>8. raced' \in BOOLEAN
    BY <1>1, <2>2, <2>6 DEF ElectionRow, Exists
  <2> QED BY <1>1, <2>2, <2>3, <2>5, <2>6, <2>7, <2>8 DEF Edited, Opened
<1>5. ASSUME UpdateVotingPeriod(r)
      PROVE  Edited(r)
  <2>1. Opened(r) /\ ~Locked /\ Exists /\ raced' = raced
    BY <1>5 DEF UpdateVotingPeriod
  <2>2. PICK s, e :
           /\ s \in Int /\ e \in Int
           /\ Answer(r, [db EXCEPT !.election.start_time = s,
                                   !.election.end_time = e])
    <3>1. PICK typed \in (SUBSET {"start_time", "end_time"}) \ {{}},
               start \in NewTimes, end \in NewTimes :
          Answer(r, [db EXCEPT
             !.election.start_time = IF "start_time" \in typed
                 THEN IF "start_time" \in typed THEN start
                      ELSE request[r].election.start_time
                 ELSE @,
             !.election.end_time = IF "end_time" \in typed
                 THEN IF "end_time" \in typed THEN end
                      ELSE request[r].election.end_time
                 ELSE @])
      BY <1>5 DEF UpdateVotingPeriod
    <3>2. start \in Int /\ end \in Int
      BY SetupAssumption
    <3>3. db.election.start_time \in Int /\ db.election.end_time \in Int
      BY <1>1, <2>1 DEF ElectionRow, Exists
    <3>4. PICK s, e :
             /\ s = IF "start_time" \in typed THEN start ELSE db.election.start_time
             /\ e = IF "end_time" \in typed THEN end ELSE db.election.end_time
      OBVIOUS
    <3>5. [db EXCEPT
             !.election.start_time = IF "start_time" \in typed
                 THEN IF "start_time" \in typed THEN start
                      ELSE request[r].election.start_time
                 ELSE @,
             !.election.end_time = IF "end_time" \in typed
                 THEN IF "end_time" \in typed THEN end
                      ELSE request[r].election.end_time
                 ELSE @]
          = [db EXCEPT !.election.start_time = s, !.election.end_time = e]
      BY <1>1, <2>1, <3>4, DbPosts DEF DbRow, ElectionRow, Exists
    <3> QED BY <3>1, <3>2, <3>3, <3>4, <3>5
  <2> DEFINE row == [db.election EXCEPT !.start_time = s, !.end_time = e]
             d == [db EXCEPT !.election = row]
  <2>3. /\ row \in ElectionRow /\ row.is_launched = db.election.is_launched
        /\ row.deploy_tx = db.election.deploy_tx /\ row.name = db.election.name
    BY <1>1, <2>1, <2>2 DEF ElectionRow, Exists
  <2>4. Answer(r, d)
    BY <2>2, DbPosts DEF DbRow
  <2> HIDE DEF row
  <2>5. /\ d \in DbRow /\ d.election = row /\ d.posts = db.posts
        /\ d.created = db.created /\ d.voters = db.voters /\ d.indexed = db.indexed
    BY <2>3, DbPosts DEF DbRow
  <2> HIDE DEF d
  <2>6. /\ db' = d /\ request' = [request EXCEPT ![r] = NoRequest]
        /\ UNCHANGED <<chain, tx, tree, clock>>
    BY <2>4 DEF Answer
  <2>7. Exists' /\ (Launched' <=> Launched)
    BY <1>2, <2>1, <2>3, <2>5, <2>6 DEF Exists, Launched
  <2> QED BY <1>1, <2>1, <2>3, <2>5, <2>6, <2>7 DEF Edited, Opened
<1> QED BY <1>3, <1>4, <1>5

LEMMA OtherAnswers ==
    ASSUME SetupInv, NEW r \in Request,
           \/ DeleteElection(r) \/ ImportVoter(r) \/ ReviewAccess(r)
           \/ Refuse(r) \/ AlreadyLaunched(r)
    PROVE  Edited(r)
<1>1. /\ raced \in BOOLEAN /\ db.indexed <= db.voters /\ db.voters \in Nat
      /\ db.indexed \in Nat
      /\ db.election \in ElectionRow \cup {NoElection} /\ db.created \in Nat
      /\ WellNamed(db.posts, db.created) /\ (~Exists => DOMAIN db.posts = {})
      /\ Exists => db.election.is_launched \in BOOLEAN
      /\ ~Exists => ~Launched
      /\ Exists => db.election.deploy_tx = NoSignature \/ db.election.is_launched
  BY DEF SetupInv, Typed, DbSound, DbRow, RowSound, ElectionRow, Exists, Launched
<1>2. ASSUME NEW d \in DbRow, Answer(r, d), UNCHANGED raced,
             request[r].pc \in {"open", "checked"},
             d.election = db.election, d.posts = db.posts, d.created = db.created,
             d.indexed = db.indexed, db.voters <= d.voters
      PROVE  Edited(r)
  <2>1. /\ db' = d /\ request' = [request EXCEPT ![r] = NoRequest]
        /\ UNCHANGED <<chain, tx, tree, clock, raced>>
    BY <1>2 DEF Answer
  <2>2. (Exists' <=> Exists) /\ (Launched' <=> Launched)
    BY <1>2, <2>1 DEF Exists, Launched
  <2>3. d.indexed <= d.voters
    BY <1>1, <1>2 DEF DbRow
  <2> QED BY <1>1, <1>2, <2>1, <2>2, <2>3 DEF Edited
<1>3. ASSUME DeleteElection(r)
      PROVE  Edited(r)
  <2> DEFINE none == <<>>
             d == [db EXCEPT !.election = NoElection, !.posts = none,
                             !.voters = 0, !.indexed = 0, !.pending = FALSE]
  <2>1. /\ Opened(r) /\ ~Locked /\ Answer(r, d) /\ raced' = raced
    BY <1>3 DEF DeleteElection
  <2>2. none \in Posts /\ DOMAIN none = {}
    BY NoPosts
  <2> HIDE DEF none
  <2>3. /\ d \in DbRow /\ d.election = NoElection /\ d.posts = none
        /\ d.created = db.created /\ d.voters = 0 /\ d.indexed = 0
    BY <2>2, DbPosts DEF DbRow
  <2> HIDE DEF d
  <2>4. /\ db' = d /\ request' = [request EXCEPT ![r] = NoRequest]
        /\ UNCHANGED <<chain, tx, tree, clock>>
    BY <2>1 DEF Answer
  <2>5. ~Exists' /\ ~Launched' /\ DOMAIN db'.posts = {}
    BY <2>2, <2>3, <2>4 DEF Exists, Launched
  <2>6. WellNamed(d.posts, d.created)
    BY <2>2, <2>3 DEF WellNamed
  <2> QED BY <1>1, <2>1, <2>3, <2>4, <2>5, <2>6 DEF Edited, Opened
<1>4. ASSUME ImportVoter(r)
      PROVE  Edited(r)
  <2> DEFINE d == [db EXCEPT !.voters = db.voters + 1]
  <2>1. Opened(r) /\ Answer(r, d) /\ UNCHANGED raced
    BY <1>4, DbPosts DEF ImportVoter, CanEdit, DbRow
  <2>2. /\ d \in DbRow /\ d.election = db.election /\ d.posts = db.posts
        /\ d.created = db.created /\ d.indexed = db.indexed /\ db.voters <= d.voters
    BY <1>1, DbPosts DEF DbRow
  <2> HIDE DEF d
  <2> QED BY <1>2, <2>1, <2>2 DEF Opened
<1>5. ASSUME ReviewAccess(r)
      PROVE  Edited(r)
  <2>1. PICK approved \in BOOLEAN :
           Answer(r, [db EXCEPT !.pending = FALSE,
                                !.voters = IF approved THEN @ + 1 ELSE @])
    BY <1>5 DEF ReviewAccess
  <2> DEFINE more == IF approved THEN db.voters + 1 ELSE db.voters
             d == [db EXCEPT !.pending = FALSE, !.voters = more]
  <2>2. Opened(r) /\ UNCHANGED raced
    BY <1>5 DEF ReviewAccess
  <2>3. Answer(r, d)
    BY <2>1, DbPosts DEF DbRow
  <2>4. more \in Nat /\ db.voters <= more
    BY <1>1
  <2> HIDE DEF more
  <2>5. /\ d \in DbRow /\ d.election = db.election /\ d.posts = db.posts
        /\ d.created = db.created /\ d.indexed = db.indexed /\ db.voters <= d.voters
    BY <1>1, <2>4, DbPosts DEF DbRow
  <2> HIDE DEF d
  <2> QED BY <1>2, <2>2, <2>3, <2>5 DEF Opened
<1>6. ASSUME Refuse(r) \/ AlreadyLaunched(r)
      PROVE  Edited(r)
  <2>1. /\ Answer(r, db) /\ UNCHANGED raced /\ request[r].pc \in {"open", "checked"}
    BY <1>6 DEF Refuse, AlreadyLaunched, Opened, Checked
  <2> QED BY <1>1, <1>2, <2>1, DbPosts
<1> QED BY <1>3, <1>4, <1>5, <1>6

LEMMA EveryEdit ==
    ASSUME SetupInv, NEW r \in Request, Edits(r) \/ Refuse(r) \/ AlreadyLaunched(r)
    PROVE  Edited(r)
BY SmallPostEdits, SmallCandidateEdits, AddedCandidates, AddedPosts,
   ImportedPositions, RowEdits, OtherAnswers DEF Edits

-------------------------------------------------------------------------------
(* The steps                                                                *)

LEMMA RequestShape ==
    ASSUME SetupInv, NEW r \in Request
    PROVE  /\ request[r] \in RequestRow
           /\ request[r].pc \in {"open", "checked", "locked"} =>
                 /\ request[r] \in OpenRow
                 /\ RowSound(request[r].election)
                 /\ IsFiniteSet(DOMAIN request[r].posts)
           /\ request[r].pc = "hashed" => request[r] \in HashedRow
           /\ request[r].pc = "built" => request[r] \in BuiltRow
           /\ request[r].pc = "sent" => request[r] \in SentRow
           /\ request[r].pc = "deployed" => request[r] \in DeployedRow
<1>1. request[r] \in RequestRow
  BY DEF SetupInv, Typed
<1>2. request[r].pc \in {"open", "checked", "locked"} =>
         RowSound(request[r].election) /\ IsFiniteSet(DOMAIN request[r].posts)
  BY DEF SetupInv, DbSound
<1> QED BY <1>1, <1>2 DEF RequestRow, NoRequest, OpenRow, HashedRow, BuiltRow,
                          SentRow, DeployedRow

LEMMA EditedKeeps ==
    ASSUME SetupInv, NEW r \in Request, Edited(r)
    PROVE  SetupInv'
<1> USE DEF Edited
<1>1. /\ request' \in [Request -> RequestRow]
      /\ request'[r] = NoRequest
      /\ \A q \in Request : q # r => request'[q] = request[q]
  BY DEF SetupInv, Typed, RequestRow
<1>2. /\ ~Launching(r) /\ ~Launching(r)'
      /\ \A q \in Request : q # r => (Launching(q)' <=> Launching(q))
  BY <1>1 DEF Launching, NoRequest
<1>3. \A q \in Request : Launching(q)' =>
         q # r /\ Launching(q) /\ Locked /\ Exists /\ ~Launched
  BY <1>2 DEF Locked, SetupInv, OneLaunchAtATime
<1>4. Typed'
  BY <1>1 DEF SetupInv, Typed
<1>5. DbSound'
  <2>1. Exists' => RowSound(db'.election)
    BY DEF SetupInv, DbSound, RowSound
  <2>2. Exists' => db'.election.deploy_tx
                      \in Attempts \cup {NoSignature, PdaAlreadyExisted}
    BY DEF SetupInv, DbSound
  <2>3. Attempts' = Attempts
    BY DEF Attempts
  <2>4. \A q \in Request : request'[q].pc \in {"open", "checked", "locked"} =>
           /\ RowSound(request'[q].election)
           /\ IsFiniteSet(DOMAIN request'[q].posts)
    BY <1>1, RequestShape DEF NoRequest
  <2> QED BY <2>1, <2>2, <2>3, <2>4 DEF DbSound
<1>6. TxSound'
  BY DEF SetupInv, TxSound, Attempts
<1>7. OneLaunchAtATime'
  BY <1>2, <1>3 DEF SetupInv, OneLaunchAtATime
<1>8. LaunchSound'
  <2> SUFFICES ASSUME NEW q \in Request, Launching(q)'
               PROVE  Knows(q)'
    BY DEF LaunchSound
  <2>1. /\ q # r /\ Launching(q) /\ Knows(q) /\ request'[q] = request[q]
        /\ db.voters <= db'.voters
    BY <1>1, <1>3 DEF SetupInv, LaunchSound
  <2>2. \A ballot, layout, name :
           /\ SameBallot(ballot, name) => SameBallot(ballot, name)'
           /\ OnRow(ballot, layout, name) => OnRow(ballot, layout, name)'
    BY <1>3 DEF OnRow, SameBallot
  <2>3. db.voters \in Nat /\ db'.voters \in Nat
    BY DbPosts DEF DbRow
  <2>4. request[q].pc \notin {"locked", "hashed"} => request[q].roll \in Nat
    BY <2>1, RequestShape DEF Launching, BuiltRow, SentRow, DeployedRow
  <2>5. request[q].pc \notin {"locked", "hashed"} =>
           tree' = request'[q].roll /\ request'[q].roll <= db'.voters
    BY <2>1, <2>3, <2>4 DEF Knows
  <2> QED BY <2>1, <2>2, <2>5 DEF Knows
<1>9. Launched' => Launched /\ db'.indexed = db.indexed
                  /\ db'.election.deploy_tx = db.election.deploy_tx
  BY DEF Launched
<1>10. LaunchedIsDeployed' /\ RollAsDeployed'
  BY <1>9 DEF SetupInv, LaunchedIsDeployed, RollAsDeployed, CreatedBy
<1>11. BallotAsDeployed'
  <2>1. Launched' /\ ~raced' => /\ ~raced /\ db'.posts = db.posts
                               /\ db'.election.name = db.election.name
    BY DEF Launched
  <2> QED BY <1>9, <2>1 DEF SetupInv, BallotAsDeployed, CreatedBy
<1> QED BY <1>4, <1>5, <1>6, <1>7, <1>8, <1>10, <1>11 DEF SetupInv

(* The shape of the steps that leave rows, posts and transactions alone: one *)
(* request moves on, and if it holds the lock then it knows what it should. *)
RowsKept ==
    /\ db' \in DbRow
    /\ UNCHANGED <<db.election, db.posts, db.created, db.voters, db.indexed>>

Moved(q) == q \in Request /\ request'[q] # request[q]

RequestMoves ==
    /\ RowsKept /\ UNCHANGED <<chain, tx>> /\ clock' \in Nat
    /\ request' \in [Request -> RequestRow]
    /\ tree' \in Nat /\ raced' \in BOOLEAN
    /\ UNCHANGED <<tree, raced>> \/ \E q : Moved(q) /\ Launching(q)'
    /\ \A p, q : Moved(p) /\ Moved(q) => p = q
    /\ \A q : Moved(q) =>
          /\ request'[q].pc \in {"open", "checked", "locked"} =>
                /\ RowSound(request'[q].election)
                /\ IsFiniteSet(DOMAIN request'[q].posts)
          /\ Launching(q)' =>
                /\ Exists /\ ~Launched /\ Knows(q)'
                /\ \A p \in Request : Launching(p) => p = q

LEMMA MoveKeeps ==
    ASSUME SetupInv, RequestMoves
    PROVE  SetupInv'
<1> USE DEF RequestMoves, RowsKept
<1>1. (Exists' <=> Exists) /\ (Launched' <=> Launched) /\ Attempts' = Attempts
  BY DEF Exists, Launched, Attempts
<1>2. \A q \in Request : Moved(q) \/ request'[q] = request[q]
  BY DEF Moved
<1>3. \A q \in Request : ~Moved(q) => (Launching(q)' <=> Launching(q))
  BY <1>2 DEF Launching
<1>4. ASSUME NEW p, Moved(p), Launching(p)'
      PROVE  \A q \in Request : Launching(q)' => q = p
  BY <1>3, <1>4
<1>5. Typed'
  BY DEF SetupInv, Typed
<1>6. DbSound'
  <2>1. WellNamed(db'.posts, db'.created)
    BY DEF SetupInv, DbSound
  <2>2. \A q \in Request : request'[q].pc \in {"open", "checked", "locked"} =>
           /\ RowSound(request'[q].election)
           /\ IsFiniteSet(DOMAIN request'[q].posts)
    BY <1>2 DEF SetupInv, DbSound
  <2> QED BY <1>1, <2>1, <2>2 DEF SetupInv, DbSound
<1>7. TxSound'
  BY <1>1 DEF SetupInv, TxSound
<1>8. OneLaunchAtATime'
  <2> SUFFICES ASSUME NEW p \in Request, Launching(p)'
               PROVE  /\ Exists' /\ ~Launched'
                      /\ \A q \in Request : Launching(q)' => q = p
    BY DEF OneLaunchAtATime
  <2>1. CASE Moved(p)
    BY <1>1, <1>4, <2>1
  <2>2. CASE ~Moved(p)
    <3>1. Exists /\ ~Launched /\ \A q \in Request : Launching(q) => q = p
      BY <1>3, <2>2 DEF SetupInv, OneLaunchAtATime
    <3>2. \A q \in Request : Moved(q) => ~Launching(q)'
      BY <1>3, <2>2
    <3> QED BY <1>1, <1>3, <3>1, <3>2
  <2> QED BY <2>1, <2>2
<1>9. LaunchSound'
  <2> SUFFICES ASSUME NEW p \in Request, Launching(p)', ~Moved(p)
               PROVE  Knows(p)'
    BY DEF LaunchSound
  <2>1. UNCHANGED <<tree, raced>> /\ request'[p] = request[p]
    BY <1>2, <1>4
  <2>2. \A ballot, layout, name :
           /\ SameBallot(ballot, name) => SameBallot(ballot, name)'
           /\ OnRow(ballot, layout, name) => OnRow(ballot, layout, name)'
    BY <2>1 DEF OnRow, SameBallot
  <2>3. Knows(p)
    BY <1>3 DEF SetupInv, LaunchSound
  <2> QED BY <2>1, <2>2, <2>3 DEF Knows
<1>10. Launched => UNCHANGED <<tree, raced>>
  OBVIOUS
<1>11. LaunchedIsDeployed' /\ RollAsDeployed' /\ BallotAsDeployed'
  BY <1>1, <1>10 DEF SetupInv, LaunchedIsDeployed, RollAsDeployed, BallotAsDeployed,
                     CreatedBy
<1> QED BY <1>5, <1>6, <1>7, <1>8, <1>9, <1>11 DEF SetupInv

LEMMA MovesOne ==
    ASSUME SetupInv, NEW r \in Request, NEW row \in RequestRow,
           request' = [request EXCEPT ![r] = row],
           RowsKept, UNCHANGED <<chain, tx, clock>>,
           tree' \in Nat, raced' \in BOOLEAN,
           row.pc \in {"open", "checked", "locked"} =>
              RowSound(row.election) /\ IsFiniteSet(DOMAIN row.posts),
           Launching(r)' =>
              /\ Exists /\ ~Launched /\ Knows(r)'
              /\ \A p \in Request : Launching(p) => p = r,
           \/ UNCHANGED <<tree, raced>>
           \/ row # request[r] /\ Launching(r)'
    PROVE  RequestMoves
<1>1. /\ request' \in [Request -> RequestRow] /\ request'[r] = row
      /\ \A q : Moved(q) => q = r
      /\ row # request[r] => Moved(r)
  BY DEF SetupInv, Typed, Moved
<1>2. clock' \in Nat
  BY DEF SetupInv, Typed
<1> QED BY <1>1, <1>2 DEF RequestMoves

LEMMA SameRows ==
    ASSUME SetupInv
    PROVE  /\ UNCHANGED db => RowsKept
           /\ tree \in Nat /\ raced \in BOOLEAN /\ clock \in Nat
           /\ NoRequest \in RequestRow
           /\ NoRequest.pc = "none"
BY DbPosts DEF RowsKept, SetupInv, Typed, RequestRow, NoRequest

LEMMA PostsAreFinite ==
    ASSUME SetupInv
    PROVE  IsFiniteSet(DOMAIN db.posts)
<1>1. DOMAIN db.posts \subseteq 1 .. db.created /\ db.created \in Int /\ 1 \in Int
  BY DbPosts DEF SetupInv, DbSound, WellNamed, DbRow
<1>2. IsFiniteSet(1 .. db.created)
  BY <1>1, FS_Interval, Zenon
<1> QED BY <1>1, <1>2, FS_Subset, Zenon

(* Steps of a request before its launch, and those outside the requests.    *)
LEMMA WaitingMoves ==
    ASSUME SetupInv, NEW r \in Request,
           \/ Open(r) \/ CheckPrerequisites(r) \/ LockElection(r) \/ WorkerKilled(r)
    PROVE  RequestMoves
<1> USE SameRows
<1>1. CASE Open(r)
  <2> DEFINE row == [pc |-> "open", election |-> db.election, posts |-> db.posts,
                     voters |-> db.voters, time |-> clock]
  <2>1. row \in OpenRow
    BY <1>1, DbPosts DEF Open, Exists, DbRow, OpenRow, SetupInv, Typed
  <2>2. RowSound(row.election)
    BY <1>1 DEF Open, SetupInv, DbSound
  <2>3. IsFiniteSet(DOMAIN row.posts)
    BY PostsAreFinite
  <2>4. /\ request' = [request EXCEPT ![r] = row]
        /\ UNCHANGED <<db, chain, tx, tree, raced, clock>>
        /\ row.pc = "open"
    BY <1>1 DEF Open
  <2> HIDE DEF row
  <2>5. ~Launching(r)'
    BY <2>4 DEF Launching, SetupInv, Typed
  <2> QED BY <2>1, <2>2, <2>3, <2>4, <2>5, MovesOne DEF RequestRow
<1>2. ASSUME NEW pc \in {"checked", "locked"}, GoesTo(r, pc),
             request[r].pc \in {"open", "checked"},
             UNCHANGED <<db, chain, tx, tree, raced, clock>>,
             pc = "locked" => ~Locked /\ StillDraft
      PROVE  RequestMoves
  <2> DEFINE row == [request[r] EXCEPT !.pc = pc]
  <2>1. /\ row \in OpenRow /\ row.pc = pc /\ row.election = request[r].election
        /\ row.posts = request[r].posts
    BY <1>2, RequestShape DEF OpenRow
  <2>2. RowSound(row.election) /\ IsFiniteSet(DOMAIN row.posts)
    BY <1>2, <2>1, RequestShape
  <2>3. request' = [request EXCEPT ![r] = row] /\ request'[r] = row
    BY <1>2 DEF GoesTo, SetupInv, Typed
  <2> HIDE DEF row
  <2>4. Launching(r)' => pc = "locked"
    BY <1>2, <2>1, <2>3 DEF Launching
  <2>5. pc = "locked" => /\ Exists /\ ~Launched /\ Knows(r)'
                         /\ \A p \in Request : ~Launching(p)
    BY <1>2, <2>1, <2>3 DEF Knows, Locked, StillDraft, Launched
  <2> QED BY <1>2, <2>1, <2>2, <2>3, <2>4, <2>5, MovesOne DEF RequestRow
<1>3. CASE CheckPrerequisites(r)
  BY <1>2, <1>3 DEF CheckPrerequisites, CanEdit, Opened
<1>4. CASE LockElection(r)
  BY <1>2, <1>4 DEF LockElection, Checked
<1>5. CASE WorkerKilled(r)
  <2>1. /\ request' = [request EXCEPT ![r] = NoRequest]
        /\ UNCHANGED <<db, chain, tx, tree, raced, clock>>
    BY <1>5 DEF WorkerKilled
  <2>2. ~Launching(r)'
    BY <2>1 DEF Launching, SetupInv, Typed
  <2> QED BY <2>1, <2>2, MovesOne
<1> QED BY <1>1, <1>3, <1>4, <1>5

LEMMA OutsideMoves ==
    ASSUME SetupInv, RequestAccess \/ Tick
    PROVE  RequestMoves
<1>1. UNCHANGED <<request, chain, tx, tree, raced>> /\ clock' \in Nat
  BY SameRows DEF RequestAccess, Tick
<1>2. RowsKept
  BY DbPosts, SameRows DEF RequestAccess, Tick, RowsKept, DbRow
<1>3. \A q : ~Moved(q)
  BY <1>1 DEF Moved
<1> QED BY <1>1, <1>2, <1>3 DEF RequestMoves, SetupInv, Typed

(* A launch that holds the row is the only one, and its row a draft.        *)
LEMMA LaunchAlone ==
    ASSUME SetupInv, NEW r \in Request, Launching(r)
    PROVE  /\ Exists /\ ~Launched /\ Knows(r)
           /\ \A q \in Request : Launching(q) => q = r
BY DEF SetupInv, OneLaunchAtATime, LaunchSound

LEMMA DeployMoves ==
    ASSUME SetupInv, NEW r \in Request,
           ComputeConfigHash(r) \/ BuildTree(r) \/ FindAccount(r) \/ Confirm(r)
    PROVE  RequestMoves
<1> USE SameRows
<1>1. Launching(r)
  BY DEF ComputeConfigHash, BuildTree, FindAccount, Confirm
<1>2. CASE ComputeConfigHash(r)
  <2> DEFINE row == [pc |-> "hashed", name |-> db.election.name,
                     ballot |-> Ballot(db.posts)]
  <2>1. db.election \in ElectionRow /\ Ballot(db.posts) \in Ballots
    BY <1>1, LaunchAlone, DbPosts DEF DbRow, Exists, Ballots
  <2>2. row \in HashedRow /\ row.pc = "hashed"
        /\ row.ballot = Ballot(db.posts) /\ row.name = db.election.name
    BY <2>1 DEF HashedRow, ElectionRow
  <2>3. /\ request' = [request EXCEPT ![r] = row] /\ request[r].pc = "locked"
        /\ UNCHANGED <<db, chain, tx, tree, clock>> /\ raced' = FALSE
    BY <1>2 DEF ComputeConfigHash
  <2> HIDE DEF row
  <2>4. request'[r] = row
    BY <2>3 DEF SetupInv, Typed
  <2>5. Knows(r)'
    BY <2>1, <2>2, <2>3, <2>4 DEF Knows, SameBallot
  <2>6. row # request[r] /\ Launching(r)'
    BY <2>2, <2>3, <2>4 DEF Launching
  <2> QED BY <1>1, <2>1, <2>2, <2>3, <2>5, <2>6, LaunchAlone, MovesOne DEF RequestRow
<1>3. CASE BuildTree(r)
  <2> DEFINE row ==
          [pc |-> "built", roll |-> db.voters, name |-> request[r].name,
           ballot |-> request[r].ballot, layout |-> Layout(db.posts),
           start_time |-> db.election.start_time,
           end_time |-> db.election.end_time]
  <2>1. /\ db.election \in ElectionRow /\ db.voters \in Nat
        /\ Layout(db.posts) \in Layouts
        /\ request[r] \in HashedRow /\ request[r].pc = "hashed"
    BY <1>1, <1>3, LaunchAlone, DbPosts, RequestShape
    DEF BuildTree, DbRow, Exists, Layouts
  <2>2. row \in BuiltRow /\ row.pc = "built" /\ row.roll = db.voters
        /\ row.ballot = request[r].ballot /\ row.name = request[r].name
        /\ row.layout = Layout(db.posts)
    BY <2>1 DEF BuiltRow, HashedRow, ElectionRow
  <2>3. /\ request' = [request EXCEPT ![r] = row]
        /\ UNCHANGED <<db, chain, tx, raced, clock>> /\ tree' = db.voters
    BY <1>3 DEF BuildTree
  <2> HIDE DEF row
  <2>4. request'[r] = row
    BY <2>3 DEF SetupInv, Typed
  <2>5. Knows(r)'
    BY <1>1, <2>1, <2>2, <2>3, <2>4, LaunchAlone DEF Knows, OnRow, SameBallot
  <2>6. row # request[r] /\ Launching(r)'
    BY <2>1, <2>2, <2>4 DEF Launching
  <2> QED BY <1>1, <2>1, <2>2, <2>3, <2>5, <2>6, LaunchAlone, MovesOne DEF RequestRow
<1>4. CASE FindAccount(r)
  <2> DEFINE row == [pc |-> "deployed", roll |-> request[r].roll,
                     sig |-> PdaAlreadyExisted]
  <2>1. request[r] \in BuiltRow /\ request[r].pc = "built"
    BY <1>4, RequestShape DEF FindAccount
  <2>2. row \in DeployedRow /\ row.pc = "deployed" /\ row.roll = request[r].roll
        /\ row.sig = PdaAlreadyExisted
    BY <2>1 DEF BuiltRow, DeployedRow
  <2>3. /\ request' = [request EXCEPT ![r] = row] /\ chain # NoAccount
        /\ UNCHANGED <<db, chain, tx, tree, raced, clock>>
    BY <1>4 DEF FindAccount, ExistingSignature
  <2> HIDE DEF row
  <2>4. request'[r] = row
    BY <2>3 DEF SetupInv, Typed
  <2>5. Knows(r)'
    BY <1>1, <2>1, <2>2, <2>3, <2>4, LaunchAlone DEF Knows
  <2> QED BY <1>1, <2>2, <2>3, <2>5, LaunchAlone, MovesOne DEF RequestRow
<1>5. CASE Confirm(r)
  <2> DEFINE row == [request[r] EXCEPT !.pc = "deployed"]
  <2>1. request[r] \in SentRow /\ request[r].pc = "sent"
    BY <1>5, RequestShape DEF Confirm
  <2>2. row \in DeployedRow /\ row.pc = "deployed" /\ row.roll = request[r].roll
        /\ row.sig = request[r].sig
    BY <2>1 DEF SentRow, DeployedRow
  <2>3. request' = [request EXCEPT ![r] = row]
        /\ UNCHANGED <<db, chain, tx, tree, raced, clock>>
    BY <1>5 DEF Confirm, GoesTo
  <2> HIDE DEF row
  <2>4. request'[r] = row
    BY <2>3 DEF SetupInv, Typed
  <2>5. chain # NoAccount
    BY <1>5 DEF Confirm, Seen, SetupInv, TxSound
  <2>6. \A ballot, layout, name :
           /\ SameBallot(ballot, name) => SameBallot(ballot, name)'
           /\ OnRow(ballot, layout, name) => OnRow(ballot, layout, name)'
    BY <2>3 DEF OnRow, SameBallot
  <2>7. Knows(r)'
    BY <1>1, <2>1, <2>2, <2>3, <2>4, <2>5, <2>6, LaunchAlone DEF Knows
  <2> QED BY <1>1, <2>2, <2>3, <2>7, LaunchAlone, MovesOne DEF RequestRow
<1> QED BY <1>2, <1>3, <1>4, <1>5

(* The deployment fails, or is committed: the row is released.              *)
LEMMA ReleaseKeeps ==
    ASSUME SetupInv, NEW r \in Request, CommitLaunch(r) \/ DeployFails(r)
    PROVE  SetupInv'
<1>1. /\ Launching(r) /\ Exists /\ ~Launched /\ Knows(r)
      /\ \A q \in Request : Launching(q) => q = r
  BY LaunchAlone DEF CommitLaunch, DeployFails
<1>2. /\ request' = [request EXCEPT ![r] = NoRequest]
      /\ UNCHANGED <<chain, tx, tree, clock, raced>>
  BY DEF CommitLaunch, DeployFails, Answer
<1>3. /\ request' \in [Request -> RequestRow]
      /\ \A q \in Request : request'[q] = NoRequest \/ request'[q] = request[q]
      /\ \A q \in Request : ~Launching(q)'
  BY <1>1, <1>2, SameRows DEF Launching, SetupInv, Typed
<1>4. OneLaunchAtATime' /\ LaunchSound'
  BY <1>3 DEF OneLaunchAtATime, LaunchSound
<1>5. TxSound' /\ Attempts' = Attempts
  BY <1>2 DEF SetupInv, TxSound, Attempts
<1>6. request[r].pc \notin {"locked", "hashed"} =>
         request[r].roll \in Nat /\ request[r].roll <= db.voters
  BY <1>1, RequestShape DEF Launching, BuiltRow, SentRow, DeployedRow, Knows
<1>7. /\ db \in DbRow /\ db.election \in ElectionRow /\ NoElection \notin ElectionRow
      /\ WellNamed(db.posts, db.created) /\ db.indexed \in Nat /\ db.voters \in Nat
      /\ db.indexed <= db.voters
  BY <1>1, DbPosts, DraftsAssumption DEF DbRow, Exists, SetupInv, DbSound
<1>8. ASSUME NEW row \in ElectionRow, NEW k \in Nat, k <= db.voters,
             db' = [db EXCEPT !.election = row, !.indexed = k],
             RowSound(row), row.deploy_tx \in Attempts \cup {NoSignature, PdaAlreadyExisted}
      PROVE  /\ Typed' /\ DbSound' /\ Exists' /\ db'.election = row
             /\ db'.posts = db.posts /\ db'.indexed = k
  <2>1. /\ db' \in DbRow /\ db'.election = row /\ db'.indexed = k
        /\ db'.posts = db.posts /\ db'.created = db.created /\ db'.voters = db.voters
    BY <1>7, <1>8 DEF DbRow
  <2>2. Exists'
    BY <1>7, <2>1 DEF Exists
  <2>3. Typed'
    BY <1>2, <1>3, <2>1 DEF SetupInv, Typed
  <2>4. \A q \in Request : request'[q].pc \in {"open", "checked", "locked"} =>
           RowSound(request'[q].election) /\ IsFiniteSet(DOMAIN request'[q].posts)
    BY <1>3, RequestShape, SameRows
  <2>5. DbSound'
    BY <1>5, <1>7, <1>8, <2>1, <2>2, <2>4 DEF DbSound
  <2> QED BY <2>1, <2>2, <2>3, <2>5
<1>9. CASE DeployFails(r)
  <2> DEFINE k == IndexedBy(r)
  <2>1. k \in Nat /\ k <= db.voters
    BY <1>6, <1>7 DEF IndexedBy
  <2>2. db' = [db EXCEPT !.indexed = k]
    BY <1>9 DEF DeployFails
  <2> HIDE DEF k
  <2>3. db' = [db EXCEPT !.election = db.election, !.indexed = k]
    BY <1>7, <2>2 DEF DbRow
  <2>4. RowSound(db.election)
        /\ db.election.deploy_tx \in Attempts \cup {NoSignature, PdaAlreadyExisted}
    BY <1>1 DEF SetupInv, DbSound
  <2>5. Typed' /\ DbSound' /\ ~Launched'
    BY <1>1, <1>7, <1>8, <2>1, <2>3, <2>4 DEF Launched
  <2> QED BY <1>4, <1>5, <2>5 DEF SetupInv, LaunchedIsDeployed, RollAsDeployed,
                                 BallotAsDeployed, CreatedBy
<1>10. CASE CommitLaunch(r)
  <2> DEFINE row == [db.election EXCEPT !.is_launched = TRUE,
                                        !.deploy_tx = request[r].sig]
             k == request[r].roll
  <2>1. request[r] \in DeployedRow /\ request[r].pc = "deployed"
    BY <1>10, RequestShape DEF CommitLaunch
  <2>2. PdaAlreadyExisted \notin Nat /\ NoSignature \notin Nat
        /\ NoSignature # PdaAlreadyExisted
    BY SetupAssumption
  <2>3. /\ chain # NoAccount /\ tree = k /\ k \in Nat /\ k <= db.voters
        /\ \/ request[r].sig = PdaAlreadyExisted
           \/ \E t \in tx : /\ t.n = request[r].sig /\ t.roll = k
                            /\ OnRow(t.ballot, t.layout, t.name)
    BY <1>1, <1>6, <2>1 DEF Knows
  <2>4. request[r].sig \in (Nat \ {0}) \cup {PdaAlreadyExisted}
    BY <2>1 DEF DeployedRow
  <2>5. request[r].sig \in Attempts \cup {NoSignature, PdaAlreadyExisted}
    BY <2>3 DEF SetupInv, TxSound
  <2>6. /\ row \in ElectionRow /\ row.is_launched = TRUE
        /\ row.deploy_tx = request[r].sig /\ row.name = db.election.name
    BY <1>7, <2>4 DEF ElectionRow
  <2>7. db' = [db EXCEPT !.election = row, !.indexed = k]
    BY <1>7, <1>10 DEF CommitLaunch, Answer, DbRow
  <2> HIDE DEF row, k
  <2>8. /\ Typed' /\ DbSound' /\ Exists' /\ db'.election = row
        /\ db'.posts = db.posts /\ db'.indexed = k
    BY <1>8, <2>3, <2>5, <2>6, <2>7 DEF RowSound
  <2>9. LaunchedIsDeployed'
    BY <1>2, <2>2, <2>3, <2>4, <2>6, <2>8 DEF LaunchedIsDeployed
  <2>10. CreatedBy' => \E t \in tx : /\ t.n = chain.n /\ t.roll = k
                                     /\ OnRow(t.ballot, t.layout, t.name)
    <3>1. chain.n \in Nat
      BY <2>3 DEF SetupInv, Typed, Transaction
    <3> QED BY <1>2, <2>2, <2>3, <2>6, <2>8, <3>1 DEF CreatedBy
  <2>11. CreatedBy' => /\ chain.roll = k
                       /\ OnRow(chain.ballot, chain.layout, chain.name)
    BY <2>10 DEF SetupInv, TxSound
  <2>12. RollAsDeployed'
    BY <1>2, <2>3, <2>8, <2>11 DEF RollAsDeployed
  <2>13. BallotAsDeployed'
    BY <1>2, <2>6, <2>8, <2>11 DEF BallotAsDeployed, OnRow, SameBallot
  <2> QED BY <1>4, <1>5, <2>8, <2>9, <2>12, <2>13 DEF SetupInv
<1> QED BY <1>9, <1>10

-------------------------------------------------------------------------------
(* Transactions                                                             *)

LEMMA TxFacts ==
    ASSUME SetupInv
    PROVE  /\ tx \subseteq Transaction /\ IsFiniteSet(tx) /\ Cardinality(tx) \in Nat
           /\ Attempts = 1 .. Cardinality(tx)
           /\ {t.n : t \in tx} = Attempts
           /\ \A t, u \in tx : t.n = u.n => t = u
           /\ \A t \in tx : t.n \in Nat \ {0} /\ t.start_time < t.end_time
<1>1. IsFiniteSet(tx) /\ tx \subseteq Transaction
  BY DEF SetupInv, TxSound, Typed
<1>2. Cardinality(tx) \in Nat
  BY <1>1, FS_CardinalityType
<1> QED BY <1>1, <1>2 DEF SetupInv, TxSound, Attempts, Transaction

LEMMA SendKeeps ==
    ASSUME SetupInv, NEW r \in Request, SendInitialize(r)
    PROVE  SetupInv'
<1> DEFINE t == [n |-> Cardinality(tx) + 1, fate |-> "sent",
                 roll |-> request[r].roll, name |-> request[r].name,
                 ballot |-> request[r].ballot, layout |-> request[r].layout,
                 start_time |-> request[r].start_time,
                 end_time |-> request[r].end_time]
           row == [pc |-> "sent", roll |-> request[r].roll, sig |-> t.n]
<1>1. /\ Launching(r) /\ request[r].pc = "built" /\ CanInitialize(t)
      /\ tx' = tx \cup {t} /\ request' = [request EXCEPT ![r] = row]
      /\ UNCHANGED <<db, chain, tree, raced, clock>>
  BY DEF SendInitialize
<1>2. /\ Exists /\ ~Launched /\ Knows(r)
      /\ \A q \in Request : Launching(q) => q = r
  BY <1>1, LaunchAlone
<1>3. request[r] \in BuiltRow
  BY <1>1, RequestShape
<1>4. /\ t \in Transaction /\ t.n = Cardinality(tx) + 1 /\ t.fate = "sent"
      /\ t.roll = request[r].roll /\ t.name = request[r].name
      /\ t.ballot = request[r].ballot /\ t.layout = request[r].layout
      /\ t.start_time < t.end_time /\ chain = NoAccount
  BY <1>1, <1>3, TxFacts DEF Transaction, BuiltRow, CanInitialize
<1>5. /\ row \in SentRow /\ row.pc = "sent" /\ row.roll = request[r].roll
      /\ row.sig = t.n
  <2>1. t.n \in Nat \ {0} /\ request[r].roll \in Nat
    BY <1>3, <1>4 DEF Transaction, BuiltRow
  <2> HIDE DEF t
  <2> QED BY <2>1 DEF SentRow
<1> HIDE DEF t, row
<1>6. /\ IsFiniteSet(tx') /\ Cardinality(tx') = Cardinality(tx) + 1
  <2>1. t \notin tx
    BY <1>4, TxFacts
  <2> QED BY <1>1, <2>1, TxFacts, FS_AddElement
<1>7. Attempts' = Attempts \cup {t.n}
  BY <1>4, <1>6, TxFacts DEF Attempts
<1>8. TxSound'
  <2>1. {u.n : u \in tx'} = Attempts'
    BY <1>1, <1>7, TxFacts
  <2>2. \A u \in tx : u.n # t.n
    BY <1>4, TxFacts
  <2>3. \A u, v \in tx' : u.n = v.n => u = v
    BY <1>1, <2>2, TxFacts
  <2>4. \A u \in tx' : u.start_time < u.end_time
    BY <1>1, <1>4, TxFacts
  <2>5. \A u \in tx' : u.fate = "executed" => chain' # NoAccount
    BY <1>1, <1>4 DEF SetupInv, TxSound
  <2>6. chain'.n = 0 /\ chain' = NoAccount
    BY <1>1, <1>4 DEF NoAccount
  <2>7. \A u \in tx' : u.n # 0
    BY <1>1, <1>4, TxFacts
  <2> QED BY <1>6, <2>1, <2>3, <2>4, <2>5, <2>6, <2>7 DEF TxSound
<1>9. /\ request' \in [Request -> RequestRow] /\ request'[r] = row
      /\ \A q \in Request : q # r => request'[q] = request[q]
  BY <1>1, <1>5 DEF SetupInv, Typed, RequestRow
<1>10. Typed'
  BY <1>1, <1>4, <1>9 DEF SetupInv, Typed
<1>11. DbSound'
  <2>1. (Exists' <=> Exists) /\ Attempts \subseteq Attempts'
    BY <1>1, <1>7 DEF Exists
  <2>2. \A q \in Request : request'[q].pc \in {"open", "checked", "locked"} =>
           RowSound(request'[q].election) /\ IsFiniteSet(DOMAIN request'[q].posts)
    BY <1>5, <1>9, RequestShape
  <2> QED BY <1>1, <2>1, <2>2 DEF SetupInv, DbSound
<1>12. /\ \A q \in Request : Launching(q)' => q = r
       /\ Exists' /\ ~Launched'
  BY <1>1, <1>2, <1>9 DEF Launching, Exists, Launched
<1>13. Knows(r)'
  <2>1. OnRow(t.ballot, t.layout, t.name) /\ tree' = row.roll /\ row.roll <= db'.voters
    BY <1>1, <1>2, <1>4, <1>5 DEF Knows
  <2>2. \A ballot, layout, name :
           /\ SameBallot(ballot, name) => SameBallot(ballot, name)'
           /\ OnRow(ballot, layout, name) => OnRow(ballot, layout, name)'
    BY <1>1 DEF OnRow, SameBallot
  <2>3. PICK u : u = t
    OBVIOUS
  <2>4. u \in tx' /\ u.n = row.sig /\ u.roll = row.roll /\ OnRow(u.ballot, u.layout, u.name)'
    BY <1>1, <1>4, <1>5, <2>1, <2>2, <2>3
  <2> QED BY <1>5, <1>9, <2>1, <2>4 DEF Knows
<1>14. OneLaunchAtATime' /\ LaunchSound'
  BY <1>12, <1>13 DEF OneLaunchAtATime, LaunchSound
<1> QED BY <1>8, <1>10, <1>11, <1>12, <1>14 DEF SetupInv, LaunchedIsDeployed,
                                      RollAsDeployed, BallotAsDeployed, CreatedBy

(* What a transaction meets changes nothing else of it.                     *)
LEMMA SettledShape ==
    ASSUME SetupInv, NEW t \in tx, t.fate = "sent",
           NEW fate \in {"executed", "expired"}, Settled(t, fate)
    PROVE  /\ tx' \subseteq Transaction /\ IsFiniteSet(tx')
           /\ Cardinality(tx') = Cardinality(tx)
           /\ \A v \in tx : \E w \in tx' :
                 /\ w.n = v.n /\ w.roll = v.roll /\ w.name = v.name
                 /\ w.ballot = v.ballot /\ w.layout = v.layout
           /\ \A w \in tx' : \E v \in tx :
                 /\ w.n = v.n /\ w.roll = v.roll /\ w.name = v.name
                 /\ w.ballot = v.ballot /\ w.layout = v.layout
                 /\ w.start_time = v.start_time /\ w.end_time = v.end_time
                 /\ w.fate = v.fate \/ w.fate = fate
           /\ \A v, w \in tx' : v.n = w.n => v = w
<1> DEFINE u == [t EXCEPT !.fate = fate]
<1>1. /\ tx' = (tx \ {t}) \cup {u} /\ u \in Transaction /\ u.fate = fate
      /\ u.n = t.n /\ u.roll = t.roll /\ u.name = t.name /\ u.ballot = t.ballot
      /\ u.layout = t.layout /\ u.start_time = t.start_time /\ u.end_time = t.end_time
  BY TxFacts DEF Settled, Transaction
<1> HIDE DEF u
<1>2. u \notin tx
  BY <1>1, TxFacts
<1>3. IsFiniteSet(tx \ {t}) /\ Cardinality(tx \ {t}) = Cardinality(tx) - 1
  BY TxFacts, FS_RemoveElement
<1>4. IsFiniteSet(tx') /\ Cardinality(tx') = Cardinality(tx)
  <2>1. Cardinality(tx') = Cardinality(tx \ {t}) + 1 /\ IsFiniteSet(tx')
    BY <1>1, <1>2, <1>3, FS_AddElement
  <2> QED BY <1>3, <2>1, TxFacts
<1>5. \A v, w \in tx' : v.n = w.n => v = w
  BY <1>1, TxFacts
<1>6. \A v \in tx : v \in tx' \/ v = t
  BY <1>1
<1>7. \A w \in tx' : w \in tx \/ w = u
  BY <1>1
<1>8. u \in tx' /\ tx' \subseteq Transaction
  BY <1>1, TxFacts
<1>9. \A v \in tx : \E w \in tx' :
         /\ w.n = v.n /\ w.roll = v.roll /\ w.name = v.name
         /\ w.ballot = v.ballot /\ w.layout = v.layout
  BY <1>1, <1>6, <1>8
<1>10. \A w \in tx' : \E v \in tx :
          /\ w.n = v.n /\ w.roll = v.roll /\ w.name = v.name
          /\ w.ballot = v.ballot /\ w.layout = v.layout
          /\ w.start_time = v.start_time /\ w.end_time = v.end_time
          /\ w.fate = v.fate \/ w.fate = fate
  BY <1>1, <1>7
<1> QED BY <1>4, <1>5, <1>8, <1>9, <1>10

LEMMA NetworkKeeps ==
    ASSUME SetupInv, NEW t \in tx, Lands(t) \/ Expires(t)
    PROVE  SetupInv'
<1>1. PICK fate \in {"executed", "expired"} :
         /\ t.fate = "sent" /\ Settled(t, fate)
         /\ UNCHANGED <<db, tree, request, raced, clock>>
         /\ fate = "executed" => chain' = IF CanInitialize(t) THEN t ELSE chain
         /\ fate = "expired" => chain' = chain
  BY DEF Lands, Expires
<1> DEFINE Like(w, v) == w.n = v.n /\ w.roll = v.roll /\ w.name = v.name
                         /\ w.ballot = v.ballot /\ w.layout = v.layout
<1>2. /\ tx' \subseteq Transaction /\ IsFiniteSet(tx')
      /\ Cardinality(tx') = Cardinality(tx)
      /\ \A v \in tx : \E w \in tx' : Like(w, v)
      /\ \A w \in tx' : \E v \in tx :
            /\ Like(w, v)
            /\ w.start_time = v.start_time /\ w.end_time = v.end_time
            /\ w.fate = v.fate \/ w.fate = fate
      /\ \A v, w \in tx' : v.n = w.n => v = w
  BY <1>1, SettledShape
<1>3. Attempts' = Attempts
  BY <1>2 DEF Attempts
<1>4. /\ chain # NoAccount => chain' = chain
      /\ chain = NoAccount => chain' = NoAccount \/ chain' = t
      /\ fate = "executed" => chain' # NoAccount
  <2>1. t.start_time < t.end_time /\ t # NoAccount
    BY TxFacts DEF NoAccount
  <2> QED BY <1>1, <2>1 DEF CanInitialize
<1>5. TxSound'
  <2>1. {w.n : w \in tx'} = Attempts'
    <3>1. \A w \in tx' : \E v \in tx : w.n = v.n
      BY <1>2
    <3>2. \A v \in tx : \E w \in tx' : w.n = v.n
      BY <1>2
    <3> QED BY <1>3, <3>1, <3>2, TxFacts
  <2>2. \A w \in tx' : w.start_time < w.end_time
    BY <1>2, TxFacts
  <2>3. \A w \in tx' : w.fate = "executed" => chain' # NoAccount
    <3> SUFFICES ASSUME NEW w \in tx', w.fate = "executed"
                 PROVE  chain' # NoAccount
      OBVIOUS
    <3>1. PICK v \in tx : w.fate = v.fate \/ w.fate = fate
      BY <1>2
    <3> QED BY <1>4, <3>1 DEF SetupInv, TxSound
  <2>4. chain' # NoAccount => chain'.n \in Attempts'
    BY <1>3, <1>4, TxFacts DEF SetupInv, TxSound
  <2>5. \A v \in tx : v.n = chain'.n =>
           /\ v.roll = chain'.roll /\ v.name = chain'.name
           /\ v.ballot = chain'.ballot /\ v.layout = chain'.layout
    BY <1>4, TxFacts DEF SetupInv, TxSound, NoAccount
  <2>6. \A w \in tx' : w.n = chain'.n =>
           /\ w.roll = chain'.roll /\ w.name = chain'.name
           /\ w.ballot = chain'.ballot /\ w.layout = chain'.layout
    BY <1>2, <2>5
  <2> QED BY <1>2, <2>1, <2>2, <2>3, <2>4, <2>6 DEF TxSound
<1>6. Typed'
  <2>1. chain' \in Transaction \cup {NoAccount}
    BY <1>4, TxFacts DEF SetupInv, Typed
  <2> QED BY <1>1, <1>2, <2>1 DEF SetupInv, Typed
<1>7. (Exists' <=> Exists) /\ (Launched' <=> Launched)
      /\ \A q \in Request : Launching(q)' <=> Launching(q)
  BY <1>1 DEF Exists, Launched, Launching
<1>8. DbSound' /\ OneLaunchAtATime'
  BY <1>1, <1>3, <1>7 DEF SetupInv, DbSound, OneLaunchAtATime
<1>9. LaunchSound'
  <2> SUFFICES ASSUME NEW q \in Request, Launching(q)
               PROVE  Knows(q)'
    BY <1>7 DEF LaunchSound
  <2>1. Knows(q)
    BY DEF SetupInv, LaunchSound
  <2>2. \A ballot, layout, name :
           /\ SameBallot(ballot, name) => SameBallot(ballot, name)'
           /\ OnRow(ballot, layout, name) => OnRow(ballot, layout, name)'
    BY <1>1 DEF OnRow, SameBallot
  <2>3. ASSUME NEW v \in tx, v.n = request[q].sig, v.roll = request[q].roll,
               OnRow(v.ballot, v.layout, v.name)
        PROVE  \E w \in tx' : /\ w.n = request'[q].sig /\ w.roll = request'[q].roll
                              /\ OnRow(w.ballot, w.layout, w.name)'
    <3>1. PICK w \in tx' : Like(w, v)
      BY <1>2
    <3> QED BY <1>1, <2>2, <2>3, <3>1
  <2>4. chain # NoAccount => chain' # NoAccount
    BY <1>4
  <2> QED BY <1>1, <2>1, <2>2, <2>3, <2>4 DEF Knows
<1>10. Launched => chain' = chain
  BY <1>4 DEF SetupInv, LaunchedIsDeployed
<1>11. LaunchedIsDeployed' /\ RollAsDeployed' /\ BallotAsDeployed'
  BY <1>1, <1>7, <1>10 DEF SetupInv, LaunchedIsDeployed, RollAsDeployed,
                           BallotAsDeployed, CreatedBy
<1> QED BY <1>5, <1>6, <1>8, <1>9, <1>11 DEF SetupInv

-------------------------------------------------------------------------------
(* The theorems                                                             *)

(* Every draft the model starts from is a sound state.                      *)
LEMMA InitInv == SetupInit => SetupInv
<1> SUFFICES ASSUME SetupInit
             PROVE  SetupInv
  OBVIOUS
<1> DEFINE n == Cardinality(DOMAIN db.posts)
           row == Row(db.election.name, db.election.start_time, db.election.end_time)
<1>1. /\ db = Draft(row, db.posts, db.voters)
      /\ db.election \in ElectionRow /\ db.voters \in Nat
      /\ db.posts = [p \in 1 .. n |-> db.posts[p]]
      /\ \A p \in DOMAIN db.posts : IsPost(db.posts[p])
      /\ \A p, q \in DOMAIN db.posts : db.posts[p].name = db.posts[q].name => p = q
      /\ NoElection \notin ElectionRow /\ IsFiniteSet(DOMAIN db.posts)
  BY DraftsAssumption DEF SetupInit
<1>2. DOMAIN db.posts = 1 .. n /\ (\A p \in 1 .. n : IsPost(db.posts[p]))
  <2>1. \A p \in DOMAIN db.posts : IsPost(db.posts[p])
    BY <1>1, Zenon
  <2>2. DOMAIN db.posts = 1 .. n
    BY <1>1
  <2> HIDE DEF n
  <2> QED BY <2>1, <2>2
<1>3. db.election = row /\ db.created = n /\ db.indexed = 0 /\ db.pending = FALSE
      /\ db = [election |-> db.election, posts |-> db.posts, created |-> n,
               voters |-> db.voters, indexed |-> 0, pending |-> FALSE]
  BY <1>1 DEF Draft
<1>4. ~db.election.is_launched /\ db.election.deploy_tx = NoSignature
  BY <1>3 DEF Row
<1> HIDE DEF row
<1>5. n \in Nat
  BY <1>1, FS_CardinalityType
<1>6. db.posts \in [1 .. n -> PostRow]
  <2>1. ASSUME NEW p \in 1 .. n
        PROVE  db.posts[p] \in PostRow
    <3>1. IsPost(db.posts[p])
      BY <1>2
    <3> DEFINE cands == [c \in DOMAIN db.posts[p].candidates |->
                            db.posts[p].candidates[c]]
    <3>2. DOMAIN cands \subseteq CandName /\ cands \in [DOMAIN cands -> Int]
      BY <3>1 DEF IsPost
    <3>3. db.posts[p] = [name |-> db.posts[p].name, order |-> db.posts[p].order,
                         candidates |-> cands]
      BY <3>1 DEF IsPost
    <3> HIDE DEF cands
    <3>4. cands \in Candidates
      BY <3>2, CandidatesShape
    <3> QED BY <3>1, <3>3, <3>4 DEF IsPost, PostRow
  <2> QED BY <1>1, <2>1
<1>7. db.posts \in Posts
  <2>1. 1 .. n \subseteq Nat
    BY <1>5
  <2> QED BY <1>2, <1>6, <2>1, PostsShape
<1> HIDE DEF n
<1>8. db \in DbRow
  <2>1. PICK election, posts, voters :
           election = db.election /\ posts = db.posts /\ voters = db.voters
    OBVIOUS
  <2>2. db = [election |-> election, posts |-> posts, created |-> n,
              voters |-> voters, indexed |-> 0, pending |-> FALSE]
    BY <1>3, <2>1, Zenon
  <2>3. election \in ElectionRow /\ posts \in Posts /\ voters \in Nat
    BY <1>1, <1>7, <2>1
  <2> QED BY <1>5, <2>2, <2>3 DEF DbRow
<1>9. /\ tx = {} /\ chain = NoAccount /\ tree = 0 /\ raced = FALSE /\ clock = 0
      /\ request = [r \in Request |-> NoRequest]
      /\ \A r \in Request : request[r].pc = "none" /\ ~Launching(r)
  BY DEF SetupInit, NoRequest, Launching
<1>10. Exists /\ ~Launched
  BY <1>1, <1>4 DEF Exists, Launched
<1>11. IsFiniteSet(tx) /\ Cardinality(tx) = 0
  BY <1>9, FS_EmptySet
<1>12. Typed
  BY <1>8, <1>9 DEF Typed, RequestRow
<1>13. DbSound
  BY <1>1, <1>2, <1>3, <1>4, <1>9, <1>10 DEF DbSound, WellNamed, RowSound
<1>14. TxSound
  BY <1>9, <1>11 DEF TxSound, Attempts
<1> QED BY <1>9, <1>10, <1>12, <1>13, <1>14 DEF SetupInv, OneLaunchAtATime,
           LaunchSound, LaunchedIsDeployed, RollAsDeployed, BallotAsDeployed, CreatedBy

LEMMA StepInv == SetupInv /\ [SetupNext]_setupVars => SetupInv'
<1> SUFFICES ASSUME SetupInv, [SetupNext]_setupVars
             PROVE  SetupInv'
  OBVIOUS
<1>1. ASSUME NEW r \in Request, Edits(r) \/ Refuse(r) \/ AlreadyLaunched(r)
      PROVE  SetupInv'
  BY <1>1, EveryEdit, EditedKeeps
<1>2. ASSUME NEW r \in Request,
             \/ Open(r) \/ CheckPrerequisites(r) \/ LockElection(r) \/ WorkerKilled(r)
             \/ ComputeConfigHash(r) \/ BuildTree(r) \/ FindAccount(r) \/ Confirm(r)
      PROVE  SetupInv'
  BY <1>2, WaitingMoves, DeployMoves, MoveKeeps
<1>3. ASSUME NEW r \in Request, SendInitialize(r)
      PROVE  SetupInv'
  BY <1>3, SendKeeps
<1>4. ASSUME NEW r \in Request, CommitLaunch(r) \/ DeployFails(r)
      PROVE  SetupInv'
  BY <1>4, ReleaseKeeps
<1>5. CASE RequestAccess \/ Tick
  BY <1>5, OutsideMoves, MoveKeeps
<1>6. CASE Network
  BY <1>6, NetworkKeeps DEF Network
<1>7. CASE UNCHANGED setupVars
  BY <1>7 DEF setupVars, SetupInv, Typed, DbSound, TxSound, OneLaunchAtATime,
     LaunchSound, Knows, OnRow, SameBallot, LaunchedIsDeployed, RollAsDeployed, BallotAsDeployed,
     CreatedBy, Launched, Exists, Launching, Attempts
<1> QED BY <1>1, <1>2, <1>3, <1>4, <1>5, <1>6, <1>7 DEF SetupNext, LaunchStep

(* The inductive invariant: what the database, the transactions, the account *)
(* and a launch that holds the row have to do with each other.              *)
THEOREM SetupInvariant == SetupSpec => []SetupInv
BY InitInv, StepInv, PTL DEF SetupSpec

(* A launched election has its account on chain, and its row says how it    *)
(* was deployed.                                                            *)
THEOREM LaunchDeploys == SetupSpec => []LaunchedIsDeployed
<1>1. SetupInv => LaunchedIsDeployed
  BY DEF SetupInv
<1> QED BY <1>1, SetupInvariant, PTL

(* The root on chain is that of the indexed voters and of the cached tree,  *)
(* if the row's deployment created the account.                             *)
THEOREM RollIsDeployed == SetupSpec => []RollAsDeployed
<1>1. SetupInv => RollAsDeployed
  BY DEF SetupInv
<1> QED BY <1>1, SetupInvariant, PTL

(* So is the ballot, unless a request opened on the draft was saved late.   *)
THEOREM BallotIsDeployed == SetupSpec => []BallotAsDeployed
<1>1. SetupInv => BallotAsDeployed
  BY DEF SetupInv
<1> QED BY <1>1, SetupInvariant, PTL

(* Of concurrent launches one at a time holds the row, and holds a draft.   *)
THEOREM LaunchesAlone == SetupSpec => []OneLaunchAtATime
<1>1. SetupInv => OneLaunchAtATime
  BY DEF SetupInv
<1> QED BY <1>1, SetupInvariant, PTL

(* Rows, requests and transactions have the shape the handlers give them;   *)
(* no two posts have the same name, whatever requests overlapped.           *)
THEOREM SetupTypeCorrect == SetupSpec => []SetupTypeOK
<1>1. SetupInv => SetupTypeOK
  <2> SUFFICES ASSUME SetupInv
               PROVE  SetupTypeOK
    OBVIOUS
  <2>1. Cardinality(Names(db.posts)) = Cardinality(DOMAIN db.posts)
    <3> DEFINE name == [p \in DOMAIN db.posts |-> db.posts[p].name]
    <3>1. \A p, q \in DOMAIN db.posts : name[p] = name[q] => p = q
      BY DEF SetupInv, DbSound, WellNamed
    <3>2. Names(db.posts) = {name[p] : p \in DOMAIN db.posts}
      BY DEF Names
    <3> HIDE DEF name
    <3> QED BY <3>1, <3>2, PostsAreFinite, SameCount
  <2>2. \A p \in DOMAIN db.posts :
           /\ db.posts[p].name \in PostName
           /\ DOMAIN db.posts[p].candidates \subseteq CandName
    BY DbPosts DEF PostRow
  <2>3. Exists => db.election.name \in ElectionName /\ db.election.is_launched \in BOOLEAN
    BY DbPosts DEF DbRow, ElectionRow, Exists
  <2> QED BY <2>1, <2>2, <2>3 DEF SetupTypeOK, SetupInv, DbSound, TxSound, WellNamed
<1> QED BY <1>1, SetupInvariant, PTL

-------------------------------------------------------------------------------
(* The limits, when nobody else has written since the request read          *)

KeepsLimits ==
    /\ Cardinality(DOMAIN db'.posts) > MaxPosts =>
          Cardinality(DOMAIN db'.posts) <= Cardinality(DOMAIN db.posts)
    /\ db'.election.start_time >= db'.election.end_time =>
          db.election.start_time >= db.election.end_time

LEMMA FewerPosts ==
    ASSUME SetupInv, DOMAIN db'.posts \subseteq DOMAIN db.posts,
           \/ db'.election = db.election
           \/ /\ db'.election.start_time = db.election.start_time
              /\ db'.election.end_time = db.election.end_time
           \/ ~(db'.election.start_time >= db'.election.end_time)
    PROVE  KeepsLimits
<1>1. Cardinality(DOMAIN db'.posts) <= Cardinality(DOMAIN db.posts)
  BY PostsAreFinite, FS_Subset
<1> QED BY <1>1 DEF KeepsLimits

LEMMA SavedPosts ==
    ASSUME SetupInv, NEW r, NEW posts, SavePosts(r, posts)
    PROVE  db'.posts = posts /\ db'.election = db.election
BY DbPosts DEF SavePosts, SaveBallot, Answer, DbRow

LEMMA PostEditsKeepLimits ==
    ASSUME SetupInv, NEW r \in Request,
           \/ DeletePost(r) \/ DeleteAllPosts(r) \/ RenamePost(r) \/ ReorderPosts(r)
           \/ AddCandidatesBulk(r) \/ ImportCandidates(r) \/ UpdateCandidate(r)
           \/ DeleteCandidate(r) \/ ReorderCandidates(r)
    PROVE  KeepsLimits
<1>1. ASSUME NEW posts, SavePosts(r, posts), DOMAIN posts \subseteq DOMAIN db.posts
      PROVE  KeepsLimits
  BY <1>1, SavedPosts, FewerPosts
<1>2. CASE DeletePost(r)
  <2>1. PICK p : SavePosts(r, Without(db.posts, p))
    BY <1>2 DEF DeletePost
  <2>2. DOMAIN Without(db.posts, p) \subseteq DOMAIN db.posts
    BY DEF Without
  <2> QED BY <1>1, <2>1, <2>2
<1>3. CASE DeleteAllPosts(r)
  BY <1>1, <1>3, NoPosts DEF DeleteAllPosts
<1>4. CASE RenamePost(r)
  BY <1>1, <1>4 DEF RenamePost
<1>5. CASE ReorderPosts(r)
  <2>1. PICK order : SavePosts(r, [p \in DOMAIN db.posts |->
                                     [db.posts[p] EXCEPT !.order = order[p]]])
    BY <1>5, Zenon DEF ReorderPosts
  <2> QED BY <1>1, <2>1
<1>6. ASSUME NEW rows, AddRows(r, rows)
      PROVE  KeepsLimits
  BY <1>1, <1>6 DEF AddRows
<1>7. CASE AddCandidatesBulk(r) \/ ImportCandidates(r)
  BY <1>6, <1>7 DEF AddCandidatesBulk, ImportCandidates
<1>8. ASSUME NEW p, NEW cands, SavePosts(r, [db.posts EXCEPT ![p].candidates = cands])
      PROVE  KeepsLimits
  BY <1>1, <1>8
<1>9. CASE UpdateCandidate(r)
  BY <1>8, <1>9 DEF UpdateCandidate
<1>10. CASE DeleteCandidate(r)
  BY <1>8, <1>10 DEF DeleteCandidate
<1>11. CASE ReorderCandidates(r)
  BY <1>8, <1>11, Zenon DEF ReorderCandidates
<1> QED BY <1>2, <1>3, <1>4, <1>5, <1>7, <1>9, <1>10, <1>11

LEMMA RowEditsKeepLimits ==
    ASSUME SetupInv, NEW r \in Request, Current(r),
           \/ EditElection(r) \/ UpdateElectionName(r) \/ UpdateVotingPeriod(r)
           \/ ImportVoter(r) \/ ReviewAccess(r) \/ Refuse(r)
    PROVE  KeepsLimits
<1>1. db \in DbRow /\ request[r].election = db.election
  BY DbPosts DEF Current
<1>2. CASE ImportVoter(r) \/ ReviewAccess(r) \/ Refuse(r)
  <2>1. db'.posts = db.posts /\ db'.election = db.election
    BY <1>1, <1>2 DEF ImportVoter, ReviewAccess, Refuse, Answer, DbRow
  <2> QED BY <2>1, FewerPosts
<1>3. CASE UpdateElectionName(r)
  <2>1. db.election \in ElectionRow
    BY <1>1, <1>3 DEF UpdateElectionName, Exists, DbRow
  <2>2. /\ db'.posts = db.posts
        /\ db'.election.start_time = db.election.start_time
        /\ db'.election.end_time = db.election.end_time
    BY <1>1, <1>3, <2>1 DEF UpdateElectionName, SaveBallot, Answer, DbRow, ElectionRow
  <2> QED BY <2>2, FewerPosts
<1>4. CASE EditElection(r)
  <2>1. request[r].election \in ElectionRow
    BY <1>4, RequestShape DEF EditElection, CanEdit, Opened, OpenRow
  <2>2. PICK n \in ElectionName, w \in NewWindows :
           /\ w[1] < w[2]
           /\ SaveBallot(r, [db EXCEPT !.election =
                 [request[r].election EXCEPT !.name = n, !.start_time = w[1],
                                             !.end_time = w[2]]])
    BY <1>4 DEF EditElection
  <2>3. w[1] \in Int /\ w[2] \in Int
    BY SetupAssumption
  <2>4. db'.posts = db.posts /\ db'.election.start_time = w[1]
        /\ db'.election.end_time = w[2]
    BY <1>1, <2>1, <2>2 DEF SaveBallot, Answer, DbRow, ElectionRow
  <2> QED BY <2>2, <2>3, <2>4, FewerPosts
<1>5. CASE UpdateVotingPeriod(r)
  <2>1. db.election \in ElectionRow
    BY <1>1, <1>5 DEF UpdateVotingPeriod, Exists, DbRow
  <2>2. PICK typed \in (SUBSET {"start_time", "end_time"}) \ {{}},
             start \in NewTimes, end \in NewTimes :
           LET row == request[r].election
               s == IF "start_time" \in typed THEN start ELSE row.start_time
               e == IF "end_time" \in typed THEN end ELSE row.end_time
           IN  /\ PeriodOrdered(row, s, e)
               /\ Answer(r, [db EXCEPT
                     !.election.start_time = IF "start_time" \in typed THEN s ELSE @,
                     !.election.end_time = IF "end_time" \in typed THEN e ELSE @])
    BY <1>5 DEF UpdateVotingPeriod
  <2> DEFINE s == IF "start_time" \in typed THEN start ELSE db.election.start_time
             e == IF "end_time" \in typed THEN end ELSE db.election.end_time
  <2>3. s < e /\ db'.posts = db.posts /\ db'.election.start_time = s
        /\ db'.election.end_time = e
    BY <1>1, <2>1, <2>2 DEF PeriodOrdered, Answer, DbRow, ElectionRow
  <2>4. s \in Int /\ e \in Int
    BY <2>1, SetupAssumption DEF ElectionRow
  <2> HIDE DEF s, e
  <2> QED BY <2>3, <2>4, FewerPosts
<1> QED BY <1>2, <1>3, <1>4, <1>5

LEMMA IntervalCount ==
    ASSUME NEW a \in Nat, NEW n \in Nat
    PROVE  IsFiniteSet(a + 1 .. a + n) /\ Cardinality(a + 1 .. a + n) = n
<1>1. a + 1 \in Int /\ a + n \in Int
  OBVIOUS
<1>2. /\ IsFiniteSet(a + 1 .. a + n)
      /\ Cardinality(a + 1 .. a + n) = IF a + 1 > a + n THEN 0 ELSE (a + n) - (a + 1) + 1
  BY <1>1, FS_Interval, Zenon
<1> QED BY <1>2

(* As many posts are added as there are names.                              *)
LEMMA AppendedCount ==
    ASSUME SetupInv, NEW names, Len(names) \in Nat, NEW base
    PROVE  Cardinality(DOMAIN Appended(names, base)) =
              Cardinality(DOMAIN db.posts) + Len(names)
<1> DEFINE D == DOMAIN db.posts
           N == db.created + 1 .. db.created + Len(names)
<1>1. db.created \in Nat /\ D \subseteq 1 .. db.created
  BY DbPosts DEF SetupInv, DbSound, WellNamed, DbRow
<1>2. DOMAIN Appended(names, base) = D \cup N
  BY DEF Appended
<1>3. D \cap N = {}
  BY <1>1
<1>4. IsFiniteSet(N) /\ Cardinality(N) = Len(names)
  BY <1>1, IntervalCount
<1>5. IsFiniteSet(D) /\ Cardinality(D) \in Nat
  BY PostsAreFinite, FS_CardinalityType
<1> HIDE DEF D, N
<1>6. Cardinality(D \cup N) = Cardinality(D) + Cardinality(N)
  <2>1. Cardinality(D \cup N) = Cardinality(D) + Cardinality(N) - Cardinality(D \cap N)
    BY <1>4, <1>5, FS_Union
  <2>2. Cardinality(D \cap N) = 0
    BY <1>3, FS_EmptySet
  <2>3. Cardinality(N) \in Nat
    BY <1>4, FS_CardinalityType
  <2> QED BY <1>5, <2>1, <2>2, <2>3
<1> QED BY <1>2, <1>4, <1>6 DEF D

LEMMA AddedWithinLimit ==
    ASSUME SetupInv, NEW names \in NameLists \cup {<<>>}, NEW base,
           DOMAIN db'.posts = DOMAIN Appended(names, base),
           db'.election = db.election,
           Cardinality(DOMAIN db.posts) + Len(names) <= MaxPosts
    PROVE  KeepsLimits
<1>1. Len(names) \in Nat
  BY NameListsShape
<1>2. Cardinality(DOMAIN db'.posts) = Cardinality(DOMAIN db.posts) + Len(names)
  BY <1>1, AppendedCount
<1>3. Cardinality(DOMAIN db.posts) \in Nat /\ MaxPosts \in Nat
  BY PostsAreFinite, FS_CardinalityType, SetupAssumption
<1> QED BY <1>1, <1>2, <1>3 DEF KeepsLimits

LEMMA AddsKeepLimits ==
    ASSUME SetupInv, NEW r \in Request, Current(r),
           AddPost(r) \/ AddPostsBulk(r) \/ BulkImportPositions(r)
    PROVE  KeepsLimits
<1>1. db \in DbRow /\ request[r].posts = db.posts
  BY DbPosts DEF Current
<1>2. Cardinality(DOMAIN db.posts) \in Nat /\ MaxPosts \in Nat
  BY PostsAreFinite, FS_CardinalityType, SetupAssumption
<1>3. CASE AddPost(r) \/ AddPostsBulk(r)
  <2>1. PICK names \in NameLists :
           /\ AddPosts(r, names)
           /\ Cardinality(DOMAIN db.posts) + Len(names) <= MaxPosts
    <3>1. CASE AddPost(r)
      <4>1. PICK n \in PostName : AddPosts(r, <<n>>)
        BY <3>1 DEF AddPost
      <4>2. Cardinality(DOMAIN db.posts) < MaxPosts
        BY <1>1, <3>1 DEF AddPost
      <4>3. <<n>> \in NameLists /\ Len(<<n>>) = 1
        BY DEF NameLists
      <4>4. Cardinality(DOMAIN db.posts) + 1 <= MaxPosts
        BY <1>2, <4>2
      <4> QED BY <4>1, <4>3, <4>4
    <3>2. CASE AddPostsBulk(r)
      BY <1>1, <3>2 DEF AddPostsBulk, WithinPostLimit
    <3> QED BY <1>3, <3>1, <3>2
  <2> DEFINE posts == Appended(names, Cardinality(DOMAIN request[r].posts))
             created == db.created + Len(names)
  <2>2. SaveBallot(r, [db EXCEPT !.posts = posts, !.created = created])
    BY <2>1 DEF AddPosts
  <2> HIDE DEF posts, created
  <2>3. db'.posts = posts /\ db'.election = db.election
    BY <1>1, <2>2 DEF SaveBallot, Answer, DbRow
  <2> QED BY <2>1, <2>3, AddedWithinLimit DEF posts
<1>4. CASE BulkImportPositions(r)
  <2>1. PICK names \in NameLists :
        \E c \in CandName, new \in NameLists \cup {<<>>} :
           LET unseen == {i \in 1..Len(names) : names[i] \notin Names(request[r].posts)}
               place(n) == (CHOOSE i \in 1..Len(names) : names[i] = n) - 1
               posts == Appended(new, 0)
           IN  /\ Missing(new, names)
               /\ WithinPostLimit(request[r].posts, Cardinality(unseen))
               /\ SaveBallot(r, [db EXCEPT
                     !.created = @ + Len(new),
                     !.posts = [p \in DOMAIN posts |->
                        IF \A i \in 1..Len(names) : names[i] # posts[p].name
                        THEN posts[p]
                        ELSE [name |-> posts[p].name,
                              order |-> IF p <= db.created THEN posts[p].order
                                        ELSE place(posts[p].name),
                              candidates |->
                                 IF c \in DOMAIN posts[p].candidates
                                 THEN posts[p].candidates
                                 ELSE Put(posts[p].candidates, c, 0)]]])
    BY <1>4 DEF BulkImportPositions
  <2> DEFINE unseen == {i \in 1..Len(names) : names[i] \notin Names(db.posts)}
  <2>2. PICK new \in NameLists \cup {<<>>} :
           /\ Missing(new, names)
           /\ WithinPostLimit(db.posts, Cardinality(unseen))
           /\ \E row : SaveBallot(r, [db EXCEPT
                 !.created = @ + Len(new),
                 !.posts = [p \in DOMAIN Appended(new, 0) |-> row[p]]])
    <3>1. PICK c \in CandName, new \in NameLists \cup {<<>>} :
           LET place(n) == (CHOOSE i \in 1..Len(names) : names[i] = n) - 1
               posts == Appended(new, 0)
           IN  /\ Missing(new, names)
               /\ WithinPostLimit(db.posts, Cardinality(unseen))
               /\ SaveBallot(r, [db EXCEPT
                     !.created = @ + Len(new),
                     !.posts = [p \in DOMAIN posts |->
                        IF \A i \in 1..Len(names) : names[i] # posts[p].name
                        THEN posts[p]
                        ELSE [name |-> posts[p].name,
                              order |-> IF p <= db.created THEN posts[p].order
                                        ELSE place(posts[p].name),
                              candidates |->
                                 IF c \in DOMAIN posts[p].candidates
                                 THEN posts[p].candidates
                                 ELSE Put(posts[p].candidates, c, 0)]]])
      BY <1>1, <2>1, Zenon
    <3> DEFINE place(n) == (CHOOSE i \in 1..Len(names) : names[i] = n) - 1
               posts == Appended(new, 0)
               row == [p \in DOMAIN posts |->
                        IF \A i \in 1..Len(names) : names[i] # posts[p].name
                        THEN posts[p]
                        ELSE [name |-> posts[p].name,
                              order |-> IF p <= db.created THEN posts[p].order
                                        ELSE place(posts[p].name),
                              candidates |->
                                 IF c \in DOMAIN posts[p].candidates
                                 THEN posts[p].candidates
                                 ELSE Put(posts[p].candidates, c, 0)]]
    <3>2. SaveBallot(r, [db EXCEPT !.created = @ + Len(new), !.posts = row])
      BY <3>1, Zenon
    <3>3. row = [p \in DOMAIN Appended(new, 0) |-> row[p]]
      OBVIOUS
    <3> HIDE DEF row
    <3> QED BY <3>1, <3>2, <3>3
  <2>3. DOMAIN db'.posts = DOMAIN Appended(new, 0) /\ db'.election = db.election
    BY <1>1, <2>2 DEF SaveBallot, Answer, DbRow
  <2>4. Cardinality(unseen) = Len(new)
    <3> DEFINE image == {names[i] : i \in unseen}
    <3>1. /\ Len(names) \in Nat /\ Len(new) \in Nat
          /\ \A i, j \in 1..Len(names) : names[i] = names[j] => i = j
          /\ \A i, j \in 1..Len(new) : new[i] = new[j] => i = j
      BY NameListsShape
    <3>2. IsFiniteSet(1..Len(names)) /\ IsFiniteSet(1..Len(new))
          /\ Cardinality(1..Len(new)) = Len(new)
      <4>1. \A n \in Nat : IsFiniteSet(1 .. n) /\ Cardinality(1 .. n) = n
        <5>1. \A n \in Nat : 0 + 1 = 1 /\ 0 + n = n
          OBVIOUS
        <5> QED BY <5>1, IntervalCount
      <4> QED BY <3>1, <4>1
    <3>3. IsFiniteSet(unseen) /\ \A i, j \in unseen : names[i] = names[j] => i = j
      BY <3>1, <3>2, FS_Subset
    <3>4. {new[i] : i \in 1..Len(new)} = image
      BY <2>2 DEF Missing
    <3> HIDE DEF unseen
    <3>5. Cardinality(image) = Cardinality(unseen)
      BY <3>3, SameCount
    <3>6. Cardinality({new[i] : i \in 1..Len(new)}) = Cardinality(1..Len(new))
      <4> DEFINE S == 1..Len(new)
      <4>1. IsFiniteSet(S) /\ \A i, j \in S : new[i] = new[j] => i = j
        BY <3>1, <3>2
      <4> HIDE DEF S
      <4>2. Cardinality({new[i] : i \in S}) = Cardinality(S)
        BY <4>1, SameCount
      <4> QED BY <4>2 DEF S
    <3> QED BY <3>2, <3>4, <3>5, <3>6
  <2>5. Cardinality(DOMAIN db.posts) + Len(new) <= MaxPosts
    BY <2>2, <2>4 DEF WithinPostLimit
  <2> QED BY <2>3, <2>5, AddedWithinLimit
<1> QED BY <1>3, <1>4

(* Only an answer of its own ends a request that was opened.                *)
LEMMA OwnAnswer ==
    ASSUME SetupInv, SetupNext, NEW r \in Request, Opened(r), request'[r] = NoRequest
    PROVE  Edits(r) \/ Refuse(r)
<1>1. request[r] # NoRequest /\ request[r].pc = "open" /\ ~Launching(r) /\ ~Checked(r)
  BY DEF Opened, NoRequest, Launching, Checked
<1>2. request \in [Request -> RequestRow]
  BY DEF SetupInv, Typed
<1>3. ASSUME NEW q \in Request, Edits(q) \/ Refuse(q) \/ AlreadyLaunched(q)
      PROVE  q = r
  <2>1. request' = [request EXCEPT ![q] = NoRequest]
    BY <1>3, EveryEdit DEF Edited
  <2> QED BY <1>1, <1>2, <2>1
<1>4. ASSUME NEW q \in Request,
             \/ Open(q) \/ CheckPrerequisites(q) \/ LockElection(q) \/ WorkerKilled(q)
             \/ ComputeConfigHash(q) \/ BuildTree(q) \/ FindAccount(q) \/ Confirm(q)
             \/ SendInitialize(q)
             \/ CommitLaunch(q) \/ DeployFails(q)
      PROVE  FALSE
  <2>1. PICK v : request' = [request EXCEPT ![q] = v]
    BY <1>4 DEF Open, CheckPrerequisites, LockElection, WorkerKilled, BuildTree,
                ComputeConfigHash, FindAccount, Confirm, SendInitialize, CommitLaunch, DeployFails,
                Answer, GoesTo
  <2>2. q = r
    BY <1>1, <1>2, <2>1
  <2>3. CheckPrerequisites(r)
    BY <1>1, <1>4, <2>2 DEF Open, LockElection, WorkerKilled, BuildTree,
                ComputeConfigHash, FindAccount, Confirm, SendInitialize, CommitLaunch, DeployFails
  <2>4. request'[r].pc = "checked"
    BY <1>1, <1>2, <2>3, RequestShape DEF CheckPrerequisites, GoesTo, OpenRow
  <2> QED BY <2>4 DEF NoRequest
<1>5. CASE RequestAccess \/ Tick \/ Network
  <2>1. request' = request
    BY <1>5 DEF RequestAccess, Tick, Network, Lands, Expires
  <2> QED BY <1>1, <2>1
<1> QED BY <1>1, <1>3, <1>4, <1>5 DEF SetupNext, LaunchStep, AlreadyLaunched

(* A handler whose readings are still current breaks neither the plan's     *)
(* number of positions nor the order of the voting period.                  *)
THEOREM OnlyRaces == SetupSpec => OnlyRacesBreakLimits
<1>1. ASSUME SetupInv, SetupNext, NEW r \in Request, Opened(r),
             request'[r] = NoRequest, Current(r), Exists'
      PROVE  KeepsLimits
  <2>1. ~DeleteElection(r)
    BY <1>1, DbPosts DEF DeleteElection, Answer, Exists, DbRow
  <2> QED BY <1>1, <2>1, OwnAnswer, PostEditsKeepLimits, RowEditsKeepLimits,
             AddsKeepLimits DEF Edits
<1>2. SetupInv /\ [SetupNext]_setupVars =>
         [\A r \in Request :
             Opened(r) /\ request'[r] = NoRequest /\ Current(r) /\ Exists' =>
                /\ Cardinality(DOMAIN db'.posts) > MaxPosts =>
                      Cardinality(DOMAIN db'.posts) <= Cardinality(DOMAIN db.posts)
                /\ db'.election.start_time >= db'.election.end_time =>
                      db.election.start_time >= db.election.end_time]_setupVars
  BY <1>1 DEF KeepsLimits
<1> QED BY <1>2, SetupInvariant, PTL DEF SetupSpec, OnlyRacesBreakLimits

===============================================================================
