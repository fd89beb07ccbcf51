---------------------------- MODULE CandidateImages ----------------------------
(***************************************************************************)
(* The photos of candidates in the object store, which knows nothing of    *)
(* the database's transactions.  A photo that the owner uploads has the     *)
(* fixed key candidate-{id}.webp; one that an import fetches has a key made *)
(* of the candidate's name, and the store overwrites (file_overwrite), so   *)
(* candidates of one name in an election share it.  Every night a task      *)
(* deletes the objects nobody refers to.                                    *)
(*                                                                         *)
(* An hour is longer than any request and than the task; the browser's     *)
(* upload and its confirmation are requests apart.                          *)
(***************************************************************************)
EXTENDS Integers, FiniteSets

CONSTANTS
    Candidate, Key,
    FixedKey, NameKey,   \* the keys of each candidate
    MaxPuts, MaxSweeps,  \* bounds
    NoCandidate, NoImage

ASSUME ImagesAssumption ==
    /\ FixedKey \in [Candidate -> Key] /\ NameKey \in [Candidate -> Key]
    /\ {MaxPuts, MaxSweeps} \subseteq Nat
    /\ NoCandidate \notin Key /\ NoImage \notin Key

VARIABLES
    image,     \* the image column of each row, NoCandidate without a row
    object,    \* the store: "none", "fresh" (under an hour old) or "old"
    upload,    \* what the requests of each candidate are doing
    cleanup,   \* cleanup_orphaned_candidate_images
    raced,     \* keys written, or confirmed an hour late, since the clean-up
               \* began, which only the property sees
    puts, sweeps

imagesVars == <<image, object, upload, cleanup, raced, puts, sweeps>>

Idle == [pc |-> "idle"]

ImagesInit ==
    /\ image = [c \in Candidate |-> NoCandidate]
    /\ object = [k \in Key |-> "none"]
    /\ upload = [c \in Candidate |-> Idle]
    /\ cleanup = [pc |-> "idle", referenced |-> {}, listed |-> {}]
    /\ raced = {}
    /\ puts = 0 /\ sweeps = 0

Exists(c) == image[c] # NoCandidate
Referenced == {image[c] : c \in Candidate} \cap Key

Doing(c, pc) == upload[c].pc = pc
Becomes(c, record) == upload' = [upload EXCEPT ![c] = record]
Done(c) == Becomes(c, Idle)

Put(k) ==
    /\ puts < MaxPuts
    /\ puts' = puts + 1
    /\ object' = [object EXCEPT ![k] = "fresh"]
    /\ raced' = raced \cup {k}

-------------------------------------------------------------------------------
(* ImportCandidates and BulkImportPositions: image.save writes the object   *)
(* before the row is inserted, inside one transaction for all rows.         *)
FetchImage(c) ==
    /\ ~Exists(c) /\ Doing(c, "idle")
    /\ Put(NameKey[c])
    /\ Becomes(c, [pc |-> "importing"])
    /\ UNCHANGED <<image, cleanup, sweeps>>

ImportCommits(c) ==
    /\ Doing(c, "importing")
    /\ image' = [image EXCEPT ![c] = NameKey[c]]
    /\ Done(c)
    /\ UNCHANGED <<object, cleanup, raced, puts, sweeps>>

(* An exception rolls the rows back; the objects stay. *)
ImportFails(c) ==
    /\ Doing(c, "importing")
    /\ Done(c)
    /\ UNCHANGED <<image, object, cleanup, raced, puts, sweeps>>

(* AddCandidatesBulkView adds candidates without photos. *)
AddCandidate(c) ==
    /\ ~Exists(c) /\ Doing(c, "idle")
    /\ image' = [image EXCEPT ![c] = NoImage]
    /\ UNCHANGED <<object, upload, cleanup, raced, puts, sweeps>>

-------------------------------------------------------------------------------
(* UpdateCandidateImageView: the object, then the row; the object of a      *)
(* photo that was imported stays behind.                                    *)
UploadImage(c) ==
    /\ Exists(c) /\ Doing(c, "idle")
    /\ Put(FixedKey[c])
    /\ Becomes(c, [pc |-> "uploading"])
    /\ UNCHANGED <<image, cleanup, sweeps>>

(* The same key through a pre-signed address (GenerateUploadUrlView): the    *)
(* browser writes the object, and confirms in another request.               *)
BrowserPut(c) ==
    /\ Exists(c) /\ Doing(c, "idle")
    /\ Put(FixedKey[c])
    /\ Becomes(c, [pc |-> "unconfirmed"])
    /\ UNCHANGED <<image, cleanup, sweeps>>

(* save(update_fields) or ConfirmUploadView's update(), which does not look  *)
(* whether the object is there.  Neither brings back a deleted row.          *)
SetImage(c) ==
    /\ Doing(c, "uploading") \/ Doing(c, "unconfirmed")
    /\ image' = [image EXCEPT ![c] = IF Exists(c) THEN FixedKey[c] ELSE NoCandidate]
    /\ raced' = raced \cup (IF object[FixedKey[c]] = "old" THEN {FixedKey[c]} ELSE {})
    /\ Done(c)
    /\ UNCHANGED <<object, cleanup, puts, sweeps>>

(* A failed save, a page that was closed. *)
UploadAbandoned(c) ==
    /\ Doing(c, "uploading") \/ Doing(c, "unconfirmed")
    /\ Done(c)
    /\ UNCHANGED <<image, object, cleanup, raced, puts, sweeps>>

-------------------------------------------------------------------------------
(* Candidate.delete: the row, then the object of the name it had. *)
DeleteCandidate(c) ==
    /\ Exists(c) /\ Doing(c, "idle")
    /\ image' = [image EXCEPT ![c] = NoCandidate]
    /\ IF image[c] = NoImage THEN UNCHANGED upload
       ELSE Becomes(c, [pc |-> "deleting", name |-> image[c]])
    /\ UNCHANGED <<object, cleanup, raced, puts, sweeps>>

(* The store's error is only logged. *)
DeleteObject(c) ==
    /\ Doing(c, "deleting")
    /\ \E deleted \in BOOLEAN :
          object' = IF deleted THEN [object EXCEPT ![upload[c].name] = "none"]
                    ELSE object
    /\ Done(c)
    /\ UNCHANGED <<image, cleanup, raced, puts, sweeps>>

(* Deleting a position or an election cascades in the database and calls    *)
(* no delete method.                                                        *)
DeletePost(c) ==
    /\ Exists(c)
    /\ image' = [image EXCEPT ![c] = NoCandidate]
    /\ UNCHANGED <<object, upload, cleanup, raced, puts, sweeps>>

-------------------------------------------------------------------------------
(* cleanup_orphaned_candidate_images: the references, then the list, then   *)
(* one object after the other.                                              *)
CleanupReads ==
    /\ cleanup.pc = "idle"
    /\ sweeps < MaxSweeps
    /\ sweeps' = sweeps + 1
    /\ cleanup' = [pc |-> "read", referenced |-> Referenced, listed |-> {}]
    /\ raced' = {}
    /\ UNCHANGED <<image, object, upload, puts>>

\* Mutant of OldEnough: without the cutoff.
OldEnough_Any(k) == object[k] # "none"

(* last_modified < cutoff *)
OldEnough(k) == object[k] = "old"

CleanupLists ==
    /\ cleanup.pc = "read"
    /\ cleanup' = [cleanup EXCEPT
          !.pc = "deleting",
          !.listed = {k \in Key : OldEnough(k)} \ cleanup.referenced]
    /\ UNCHANGED <<image, object, upload, raced, puts, sweeps>>

CleanupDeletes ==
    /\ \E k \in cleanup.listed, deleted \in BOOLEAN :
          /\ object' = IF deleted THEN [object EXCEPT ![k] = "none"] ELSE object
          /\ cleanup' = [cleanup EXCEPT !.listed = @ \ {k}]
    /\ UNCHANGED <<image, upload, raced, puts, sweeps>>

CleanupEnds ==
    /\ cleanup.pc = "deleting" /\ cleanup.listed = {}
    /\ cleanup' = [pc |-> "idle", referenced |-> {}, listed |-> {}]
    /\ UNCHANGED <<image, object, upload, raced, puts, sweeps>>

(* An hour passes: every request and the task are over, but not the         *)
(* browser's.                                                               *)
HourPasses ==
    /\ cleanup.pc = "idle"
    /\ \A c \in Candidate : upload[c].pc \in {"idle", "unconfirmed"}
    /\ \E k \in Key : object[k] = "fresh"
    /\ object' = [k \in Key |-> IF object[k] = "fresh" THEN "old" ELSE object[k]]
    /\ UNCHANGED <<image, upload, cleanup, raced, puts, sweeps>>

-------------------------------------------------------------------------------
ImagesNext ==
    \/ \E c \in Candidate :
          \/ FetchImage(c) \/ ImportCommits(c) \/ ImportFails(c) \/ AddCandidate(c)
          \/ UploadImage(c) \/ BrowserPut(c) \/ SetImage(c) \/ UploadAbandoned(c)
          \/ DeleteCandidate(c) \/ DeleteObject(c) \/ DeletePost(c)
    \/ CleanupReads \/ CleanupLists \/ CleanupDeletes \/ CleanupEnds \/ HourPasses

ImagesSpec == ImagesInit /\ [][ImagesNext]_imagesVars

-------------------------------------------------------------------------------
(* A photo that a candidate shows is deleted under it only with a candidate *)
(* whose row named the same key, or when it was put, or confirmed after an  *)
(* hour, while the clean-up ran: the clean-up spares an upload of the last  *)
(* hour although its row is not committed yet (tasks.py: "only considers    *)
(* objects older than 1 hour to avoid deleting files mid-upload").          *)
Lost(k) == k \in Referenced /\ object[k] # "none" /\ object'[k] = "none"

ReferencedSurvive ==
    [][\A k \in Key : Lost(k) =>
          \/ \E c \in Candidate : Doing(c, "deleting") /\ upload[c].name = k
          \/ k \in raced]_imagesVars
===============================================================================
