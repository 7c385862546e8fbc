------------------------------ MODULE BlobStore ------------------------------
(***************************************************************************)
(* Content-addressed blobs: the files and blobs tables, the object store   *)
(* and every task that changes them -- uploads, deletions, moderation, the *)
(* background job's expiry, thumbnail and garbage passes, storage gc and   *)
(* storage import.                                                         *)
(*                                                                         *)
(* A database transaction that awaits nothing but the database is one      *)
(* step.  A BlobMutation is a transaction held open across object-store    *)
(* calls; it is a sequence of steps under the lock of its hash, and what   *)
(* it wrote becomes visible in its commit step.                            *)
(***************************************************************************)
EXTENDS Naturals, FiniteSets

CONSTANTS
    Hash,            \* content hashes
    File,            \* rows the files table can ever hold; ids are never reused
    Task,            \* request handlers, job passes and commands in flight
    Process,         \* operating-system processes (servers, the CLI)
    ProcessOf,       \* the process a task runs in
    Handler, Job,    \* slots that serve requests; slots that run clean-up passes
    NoTask, NoHash, NoFile,
    Thumbnail,       \* hashes a generated thumbnail can have
    Importable,      \* hashes an import directory can hold
    MayExpire,       \* bound: files whose expiry can come
    SingleWriter,    \* TRUE: SQLite (one writer); FALSE: PostgreSQL
    Faults,          \* TRUE: calls fail, futures are dropped, processes die
    LateDeletes      \* TRUE: a delete may land after its caller was dropped

ASSUME BlobStoreAssumption ==
    /\ IsFiniteSet(File)
    /\ ProcessOf \in [Task -> Process]
    /\ Handler \subseteq Task /\ Job \subseteq Task
    /\ NoTask \notin Task /\ NoHash \notin Hash /\ NoFile \notin File
    /\ Thumbnail \subseteq Hash /\ Importable \subseteq Hash /\ MayExpire \subseteq File
    /\ SingleWriter \in BOOLEAN /\ Faults \in BOOLEAN /\ LateDeletes \in BOOLEAN

VARIABLES
    state, blobOf, thumbOf,   \* files: state, blob_hash, thumbnail_hash
    due,                      \* files whose expires_at is not after now
    rows, refCount,           \* blobs: the hashes with a row, and ref_count
    objects,                  \* hashes the object store holds
    lock,                     \* lock[h]: the task holding the mutation of h
    quotaLock,                \* quotaLock[p]: the holder of upload_quota_lock
    pc, hash, item, existed,  \* per task: next step, its blob, its file,
                              \*   object_already_existed
    todo,                     \* per task: zero-reference hashes left to clean
    expiring,                 \* per task: the expired_files() left to expire
    lateDeletes               \* deletes the store has accepted, not yet applied

fileVars  == <<state, blobOf, thumbOf, due>>
storeVars == <<rows, refCount, objects, lateDeletes>>
taskVars  == <<pc, hash, item, existed, todo, expiring>>
vars      == <<fileVars, storeVars, lock, quotaLock, taskVars>>

Releasable     == {"active", "quarantined"}
LiveStates     == Releasable \cup {"withheld"}      \* takedown and legal_hold
TerminalStates == {"deleted", "expired"}
FileStates     == {"none"} \cup LiveStates \cup TerminalStates

UploadSteps    == {"u_begin", "u_exists", "u_put", "u_commit"}
ThumbnailSteps == {"t_begin", "t_exists", "t_put", "t_commit"}
CleanupSteps   == {"c_begin", "c_check", "c_delete", "c_commit"}
ImportSteps    == {"i_begin", "i_put", "i_commit"}
BeginSteps     == {"u_begin", "t_begin", "c_begin", "i_begin"}
MutationSteps  == (UploadSteps \cup ThumbnailSteps \cup CleanupSteps \cup ImportSteps)
                      \ BeginSteps
Steps          == {"idle", "j_expire"} \cup BeginSteps \cup MutationSteps

Refs(h)      == {f \in File : state[f] \in LiveStates /\ blobOf[f] = h}
ThumbRefs(h) == {f \in File : state[f] \in LiveStates /\ thumbOf[f] = h}

Init == /\ state = [f \in File |-> "none"]
        /\ blobOf = [f \in File |-> NoHash] /\ thumbOf = [f \in File |-> NoHash]
        /\ due = {}
        /\ rows = {} /\ refCount = [h \in Hash |-> 0]
        /\ objects = {} /\ lateDeletes = {}
        /\ lock = [h \in Hash |-> NoTask]
        /\ quotaLock = [p \in Process |-> NoTask]
        /\ pc = [t \in Task |-> "idle"] /\ hash = [t \in Task |-> NoHash]
        /\ item = [t \in Task |-> NoFile] /\ existed = [t \in Task |-> FALSE]
        /\ todo = [t \in Task |-> {}] /\ expiring = [t \in Task |-> {}]

-----------------------------------------------------------------------------
(* Locks and the end of a task. *)

\* A write transaction can start: SQLite admits none beside an open mutation.
CanWrite == SingleWriter => \A h \in Hash : lock[h] = NoTask

\* Mutant: nobody waits for upload_quota_lock.
QuotaLockIgnored(t) == t \in Task

QuotaLockFree(t) == quotaLock[ProcessOf[t]] = NoTask
TakeQuotaLock(t) == quotaLock' = [quotaLock EXCEPT ![ProcessOf[t]] = t]

\* Commit, rollback or drop of the mutation t holds, if it holds one.
Unlock(t) == lock' = [h \in Hash |-> IF lock[h] = t THEN NoTask ELSE lock[h]]

\* The handler returns; its guard on upload_quota_lock goes with it.
Return(t) == /\ pc' = [pc EXCEPT ![t] = "idle"]
             /\ hash' = [hash EXCEPT ![t] = NoHash]
             /\ item' = [item EXCEPT ![t] = NoFile]
             /\ existed' = [existed EXCEPT ![t] = FALSE]
             /\ todo' = [todo EXCEPT ![t] = {}]
             /\ expiring' = [expiring EXCEPT ![t] = {}]
             /\ quotaLock' = [p \in Process |->
                                 IF quotaLock[p] = t THEN NoTask ELSE quotaLock[p]]

\* cleanup_zero_ref_blob on each of H in turn, under upload_quota_lock (a CLI
\* process has one of its own, which nobody else wants), then return.
CleanUp(t, H) ==
    \/ /\ H = {}
       /\ Return(t)
    \/ \E h \in H : /\ pc' = [pc EXCEPT ![t] = "c_begin"]
                    /\ hash' = [hash EXCEPT ![t] = h]
                    /\ item' = [item EXCEPT ![t] = NoFile]
                    /\ existed' = [existed EXCEPT ![t] = FALSE]
                    /\ todo' = [todo EXCEPT ![t] = H \ {h}]
                    /\ expiring' = [expiring EXCEPT ![t] = {}]
                    /\ TakeQuotaLock(t)

Goto(t, step) == pc' = [pc EXCEPT ![t] = step]

-----------------------------------------------------------------------------
(* The blob mutation: begin, existence check, put. *)

\* Where each task goes on once it has its lock.
Begun == [u_begin |-> "u_exists", t_begin |-> "t_exists",
          c_begin |-> "c_check", i_begin |-> "i_put"]

\* Mutant: nothing waits for the lock of the hash.
MutationBeginUnlocked(t) ==
    /\ pc[t] \in BeginSteps
    /\ lock' = [lock EXCEPT ![hash[t]] = t]
    /\ Goto(t, Begun[pc[t]])
    /\ UNCHANGED <<fileVars, storeVars, quotaLock, hash, item, existed, todo, expiring>>

\* begin_blob_mutation: wait for the lock of the hash (PostgreSQL), or for the
\* one write lock there is (SQLite).
MutationBegin(t) ==
    /\ pc[t] \in BeginSteps
    /\ lock[hash[t]] = NoTask /\ CanWrite
    /\ lock' = [lock EXCEPT ![hash[t]] = t]
    /\ Goto(t, Begun[pc[t]])
    /\ UNCHANGED <<fileVars, storeVars, quotaLock, hash, item, existed, todo, expiring>>

CheckExists(t) ==
    /\ pc[t] \in {"u_exists", "t_exists"}
    /\ existed' = [existed EXCEPT ![t] = hash[t] \in objects]
    /\ Goto(t, IF pc[t] = "u_exists" THEN "u_put" ELSE "t_put")
    /\ UNCHANGED <<fileVars, storeVars, lock, quotaLock, hash, item, todo, expiring>>

\* Mutant: the put is skipped when the database already has the row.
PutObjectUnlessRow(t) ==
    /\ pc[t] \in {"u_put", "t_put"}
    /\ objects' = IF hash[t] \in rows THEN objects ELSE objects \cup {hash[t]}
    /\ Goto(t, IF pc[t] = "u_put" THEN "u_commit" ELSE "t_commit")
    /\ UNCHANGED <<fileVars, rows, refCount, lateDeletes, lock, quotaLock,
                   hash, item, existed, todo, expiring>>

\* The object is written only if the check did not find it.
PutObject(t) ==
    /\ pc[t] \in {"u_put", "t_put"}
    /\ objects' = IF existed[t] THEN objects ELSE objects \cup {hash[t]}
    /\ Goto(t, IF pc[t] = "u_put" THEN "u_commit" ELSE "t_commit")
    /\ UNCHANGED <<fileVars, rows, refCount, lateDeletes, lock, quotaLock,
                   hash, item, existed, todo, expiring>>

-----------------------------------------------------------------------------
(* Uploads: persist_file_upload from the quota lock on. *)

\* f is the row the upload will insert: a fresh id, so nobody else's.
UploadStart(t, f, h) ==
    /\ pc[t] = "idle" /\ QuotaLockFree(t)
    /\ state[f] = "none" /\ \A u \in Task : item[u] # f
    /\ TakeQuotaLock(t)
    /\ Goto(t, "u_begin")
    /\ hash' = [hash EXCEPT ![t] = h] /\ item' = [item EXCEPT ![t] = f]
    /\ UNCHANGED <<fileVars, storeVars, lock, existed, todo, expiring>>

\* What the transaction of an upload writes: the blob row if it is missing,
\* one more reference, the file.
Publish(t, s) ==
    /\ rows' = rows \cup {hash[t]}
    /\ refCount' = [refCount EXCEPT ![hash[t]] = @ + 1]
    /\ state' = [state EXCEPT ![item[t]] = s]
    /\ blobOf' = [blobOf EXCEPT ![item[t]] = hash[t]]
    /\ UNCHANGED <<thumbOf, due, objects, lateDeletes>>

\* Mutant: a failed upload leaves the object it put.
NoCompensation(t) == CleanUp(t, {})

\* The caller saw an error: an object this upload created is cleaned up again.
Compensate(t) == CleanUp(t, IF existed[t] THEN {} ELSE {hash[t]})

UploadCommit(t, s) ==
    /\ pc[t] = "u_commit"
    /\ Publish(t, s)
    /\ Unlock(t) /\ Return(t)

\* create_file_item or commit failed and the transaction rolled back.
UploadFail(t) ==
    /\ pc[t] = "u_commit"
    /\ Unlock(t) /\ Compensate(t)
    /\ UNCHANGED <<fileVars, storeVars>>

\* commit reported an error after the database had committed.
UploadCommitUnknown(t, s) ==
    /\ Faults /\ pc[t] = "u_commit"
    /\ Publish(t, s)
    /\ Unlock(t) /\ Compensate(t)

-----------------------------------------------------------------------------
(* The thumbnail pass of the job, and storage import. *)

ThumbnailStart(t, f, h) ==
    /\ pc[t] = "idle"
    /\ state[f] = "active" /\ f \notin due /\ thumbOf[f] = NoHash
    /\ Goto(t, "t_begin")
    /\ hash' = [hash EXCEPT ![t] = h] /\ item' = [item EXCEPT ![t] = f]
    /\ UNCHANGED <<fileVars, storeVars, lock, quotaLock, existed, todo, expiring>>

\* attach_thumbnail looks at the file again: it may have been withheld, retired
\* or given a thumbnail since.  Attached or not, the blob row is committed.
ThumbnailCommit(t) ==
    /\ pc[t] = "t_commit"
    /\ rows' = rows \cup {hash[t]}
    /\ thumbOf' = IF state[item[t]] = "active" /\ thumbOf[item[t]] = NoHash
                  THEN [thumbOf EXCEPT ![item[t]] = hash[t]] ELSE thumbOf
    /\ Unlock(t) /\ Return(t)
    /\ UNCHANGED <<state, blobOf, due, refCount, objects, lateDeletes>>

ImportStart(t, h) ==
    /\ pc[t] = "idle"
    /\ Goto(t, "i_begin") /\ hash' = [hash EXCEPT ![t] = h]
    /\ UNCHANGED <<fileVars, storeVars, lock, quotaLock, item, existed, todo, expiring>>

ImportPut(t) ==
    /\ pc[t] = "i_put"
    /\ objects' = objects \cup {hash[t]}
    /\ Goto(t, "i_commit")
    /\ UNCHANGED <<fileVars, rows, refCount, lateDeletes, lock, quotaLock,
                   hash, item, existed, todo, expiring>>

ImportCommit(t) ==
    /\ pc[t] = "i_commit"
    /\ Unlock(t) /\ Return(t)
    /\ UNCHANGED <<fileVars, storeVars>>

-----------------------------------------------------------------------------
(* cleanup_zero_ref_blob *)

\* Mutant: thumbnails do not count as references.
UnreferencedByUploads(h) ==
    /\ h \in rows => refCount[h] = 0
    /\ Refs(h) = {}

Unreferenced(h) ==
    /\ h \in rows => refCount[h] = 0
    /\ Refs(h) = {} /\ ThumbRefs(h) = {}

\* Mutant: the early return keeps the mutation open.
CleanupCheckLeak(t) ==
    /\ pc[t] = "c_check"
    /\ \/ /\ Unreferenced(hash[t])
          /\ Goto(t, "c_delete")
          /\ UNCHANGED <<lock, quotaLock, hash, item, existed, todo, expiring>>
       \/ /\ ~Unreferenced(hash[t])
          /\ UNCHANGED lock /\ CleanUp(t, todo[t])
    /\ UNCHANGED <<fileVars, storeVars>>

CleanupCheck(t) ==
    /\ pc[t] = "c_check"
    /\ \/ /\ Unreferenced(hash[t])
          /\ Goto(t, "c_delete")
          /\ UNCHANGED <<lock, quotaLock, hash, item, existed, todo, expiring>>
       \/ /\ ~Unreferenced(hash[t])
          /\ Unlock(t) /\ CleanUp(t, todo[t])
    /\ UNCHANGED <<fileVars, storeVars>>

CleanupDelete(t) ==
    /\ pc[t] = "c_delete"
    /\ objects' = objects \ {hash[t]}
    /\ Goto(t, "c_commit")
    /\ UNCHANGED <<fileVars, rows, refCount, lateDeletes, lock, quotaLock,
                   hash, item, existed, todo, expiring>>

\* delete_if_unreferenced asks again before the row goes.
CleanupCommit(t) ==
    /\ pc[t] = "c_commit"
    /\ rows' = IF Unreferenced(hash[t]) THEN rows \ {hash[t]} ELSE rows
    /\ Unlock(t) /\ CleanUp(t, todo[t])
    /\ UNCHANGED <<fileVars, refCount, objects, lateDeletes>>

\* Any error is logged and swallowed; the row stays for a later pass.
CleanupFail(t) ==
    /\ Faults /\ pc[t] \in CleanupSteps
    /\ Unlock(t) /\ CleanUp(t, todo[t])
    /\ UNCHANGED <<fileVars, storeVars>>

-----------------------------------------------------------------------------
(* Retiring files. *)

\* The count of h once the files of F gave theirs back: never below zero.
CountWithout(F, h) ==
    LET k == Cardinality({f \in F : blobOf[f] = h})
    IN  IF k <= refCount[h] THEN refCount[h] - k ELSE 0

\* One transaction: the files of F become s and give back their references.
Release(F, s) ==
    /\ state' = [f \in File |-> IF f \in F THEN s ELSE state[f]]
    /\ refCount' = [h \in Hash |-> CountWithout(F, h)]
    /\ UNCHANGED <<blobOf, thumbOf, due, rows, objects, lateDeletes>>

\* The hashes Release(F, s) leaves at zero.
Zeroed(F) == {h \in rows : CountWithout(F, h) = 0 /\ \E f \in F : blobOf[f] = h}

\* delete_file, or the deletion of an account's files in bulk: the files of F
\* are those that are active or quarantined, the others are skipped.
DeleteFiles(t, F) ==
    /\ pc[t] = "idle" /\ QuotaLockFree(t) /\ CanWrite
    /\ \A f \in F : state[f] \in Releasable
    /\ Release(F, "deleted") /\ CleanUp(t, Zeroed(F))
    /\ UNCHANGED lock

\* A moderator's deletion reaches every live file, takedowns and holds too.
ModerateDelete(t, f) ==
    /\ pc[t] = "idle" /\ QuotaLockFree(t) /\ CanWrite
    /\ state[f] \in LiveStates
    /\ Release({f}, "deleted") /\ CleanUp(t, Zeroed({f}))
    /\ UNCHANGED lock

\* Deleting what is already gone only renames its state.
ModerateDeleted(f) ==
    /\ CanWrite
    /\ state[f] \in TerminalStates
    /\ state' = [state EXCEPT ![f] = "deleted"]
    /\ UNCHANGED <<blobOf, thumbOf, due, storeVars, lock, quotaLock, taskVars>>

\* Mutant: a moderator can move any file that exists.
ModerateAnyState(f, s) ==
    /\ CanWrite
    /\ state[f] # "none" /\ s # state[f]
    /\ state' = [state EXCEPT ![f] = s]
    /\ UNCHANGED <<blobOf, thumbOf, due, storeVars, lock, quotaLock, taskVars>>

\* A moderator, a report action or a scanner retry moves a live file.
ModerateState(f, s) ==
    /\ CanWrite
    /\ state[f] \in LiveStates /\ s # state[f]
    /\ state' = [state EXCEPT ![f] = s]
    /\ UNCHANGED <<blobOf, thumbOf, due, storeVars, lock, quotaLock, taskVars>>

\* An owner moves the expiry of a file (retired or not) into the future.
SetExpiry(f) ==
    /\ CanWrite
    /\ state[f] # "none" /\ due' = due \ {f} /\ due' # due
    /\ UNCHANGED <<state, blobOf, thumbOf, storeVars, lock, quotaLock, taskVars>>

\* The clock reaches the expiry of f.
Tick(f) ==
    /\ f \in MayExpire /\ state[f] \notin {"none"} \cup TerminalStates
    /\ due' = due \cup {f} /\ due' # due
    /\ UNCHANGED <<state, blobOf, thumbOf, storeVars, lock, quotaLock, taskVars>>

-----------------------------------------------------------------------------
(* cleanup_expired, and storage gc, which does the same. *)

Expired == {f \in due : state[f] \in Releasable}

JobStart(t) ==
    /\ pc[t] = "idle" /\ QuotaLockFree(t)
    /\ TakeQuotaLock(t)
    /\ Goto(t, "j_expire")
    /\ expiring' = [expiring EXCEPT ![t] = Expired]
    /\ UNCHANGED <<fileVars, storeVars, lock, hash, item, existed, todo>>

\* Mutants: the transaction trusts the list; it reads the state again, but not
\* the expiry.
JobExpireListed(t, f) ==
    /\ pc[t] = "j_expire" /\ f \in expiring[t] /\ CanWrite
    /\ Release({f}, "expired")
    /\ expiring' = [expiring EXCEPT ![t] = @ \ {f}]
    /\ UNCHANGED <<lock, quotaLock, pc, hash, item, existed, todo>>
JobExpireByState(t, f) ==
    /\ pc[t] = "j_expire" /\ f \in expiring[t] /\ CanWrite
    /\ IF state[f] \in Releasable THEN Release({f}, "expired")
                                  ELSE UNCHANGED <<fileVars, storeVars>>
    /\ expiring' = [expiring EXCEPT ![t] = @ \ {f}]
    /\ UNCHANGED <<lock, quotaLock, pc, hash, item, existed, todo>>

\* One transaction per file of the list; it reads state and expiry again.
JobExpire(t, f) ==
    /\ pc[t] = "j_expire" /\ f \in expiring[t] /\ CanWrite
    /\ IF f \in Expired THEN Release({f}, "expired") ELSE UNCHANGED <<fileVars, storeVars>>
    /\ expiring' = [expiring EXCEPT ![t] = @ \ {f}]
    /\ UNCHANGED <<lock, quotaLock, pc, hash, item, existed, todo>>

\* Mutant: only the blobs of uploads are selected.
ZeroRefUploads == {h \in rows : refCount[h] = 0 /\ \E f \in File : blobOf[f] = h}

\* zero_ref_blob_hashes
ZeroRef == {h \in rows : refCount[h] = 0 /\ ThumbRefs(h) = {}}

JobSelect(t) ==
    /\ pc[t] = "j_expire" /\ expiring[t] = {}
    /\ CleanUp(t, ZeroRef)
    /\ UNCHANGED <<fileVars, storeVars, lock>>

-----------------------------------------------------------------------------
(* Faults. *)

\* An error leaves the handler, its future is dropped, or its process dies:
\* the transaction rolls back and the locks go.
Drop(t) ==
    /\ Faults /\ pc[t] # "idle"
    /\ Unlock(t) /\ Return(t)
    /\ UNCHANGED <<fileVars, storeVars>>

\* ... while the object store is working on a delete, which it will still do.
DropDelete(t) ==
    /\ LateDeletes /\ pc[t] = "c_delete"
    /\ lateDeletes' = lateDeletes \cup {hash[t]}
    /\ Unlock(t) /\ Return(t)
    /\ UNCHANGED <<fileVars, rows, refCount, objects>>

LateDelete(h) ==
    /\ h \in lateDeletes
    /\ objects' = objects \ {h}
    /\ lateDeletes' = lateDeletes \ {h}
    /\ UNCHANGED <<fileVars, rows, refCount, lock, quotaLock, taskVars>>

-----------------------------------------------------------------------------

\* The steps of a task that has started; nothing outside it needs to move.
TaskStep(t) ==
    \/ MutationBegin(t) \/ CheckExists(t) \/ PutObject(t)
    \/ \E s \in Releasable : UploadCommit(t, s) \/ UploadCommitUnknown(t, s)
    \/ UploadFail(t) \/ ThumbnailCommit(t) \/ ImportPut(t) \/ ImportCommit(t)
    \/ CleanupCheck(t) \/ CleanupDelete(t) \/ CleanupCommit(t) \/ CleanupFail(t)
    \/ \E f \in File : JobExpire(t, f)
    \/ JobSelect(t)

\* What clients and operators start (the passes that make thumbnails run in
\* slots of their own, one for every process), and what the job timer starts.
TaskStart(t) ==
    \/ /\ t \in Handler
       /\ \/ \E f \in File, h \in Hash : UploadStart(t, f, h)
          \/ \E f \in File, h \in Thumbnail : ThumbnailStart(t, f, h)
          \/ \E h \in Importable : ImportStart(t, h)
          \/ \E F \in (SUBSET File) \ {{}} : DeleteFiles(t, F)
          \/ \E f \in File : ModerateDelete(t, f)
    \/ t \in Job /\ JobStart(t)

Environment ==
    \/ \E f \in File : \/ ModerateDeleted(f) \/ SetExpiry(f) \/ Tick(f)
                       \/ \E s \in LiveStates : ModerateState(f, s)
    \/ \E h \in Hash : LateDelete(h)

Next == \/ \E t \in Task : TaskStep(t) \/ TaskStart(t) \/ Drop(t) \/ DropDelete(t)
        \/ Environment

Spec == Init /\ [][Next]_vars

\* PostgreSQL queues the waiters of an advisory lock and tokio those of a mutex;
\* a started task keeps running; the timer of the job keeps firing.
Fairness == \A t \in Task : /\ WF_vars(TaskStep(t))
                            /\ SF_vars(MutationBegin(t))
                            /\ SF_vars(t \in Job /\ JobStart(t))

FairSpec == Spec /\ Fairness

-----------------------------------------------------------------------------
(* Properties. *)

\* The type invariant.
TypeOK ==
    /\ state \in [File -> FileStates] /\ due \subseteq File
    /\ blobOf \in [File -> Hash \cup {NoHash}]
    /\ thumbOf \in [File -> Hash \cup {NoHash}]
    /\ rows \subseteq Hash /\ refCount \in [Hash -> Nat]
    /\ objects \subseteq Hash /\ lateDeletes \subseteq Hash
    /\ lock \in [Hash -> Task \cup {NoTask}]
    /\ quotaLock \in [Process -> Task \cup {NoTask}]
    /\ pc \in [Task -> Steps] /\ hash \in [Task -> Hash \cup {NoHash}]
    /\ item \in [Task -> File \cup {NoFile}] /\ existed \in [Task -> BOOLEAN]
    /\ todo \in [Task -> SUBSET Hash] /\ expiring \in [Task -> SUBSET File]

\* blobs.ref_count counts the files that still need the blob, in every
\* interleaving of uploads, deletions, expiry and clean-up: the floor at zero
\* of the SQL never hides a reference that was given back twice.
RefCountExact == \A h \in Hash : refCount[h] = Cardinality(Refs(h))

\* The bytes and the thumbnail of a file that is not retired are in the object
\* store and have a blobs row, whatever clean-up runs beside it.
NoDanglingReference ==
    \A f \in File : state[f] \in LiveStates =>
        /\ blobOf[f] \in rows /\ blobOf[f] \in objects
        /\ thumbOf[f] # NoHash => thumbOf[f] \in rows /\ thumbOf[f] \in objects

\* Without faults or imports nothing leaks: an object without a blobs row is in
\* the hands of a task, which will insert the row or remove the object.
OrphanHasOwner ==
    \A h \in objects \ rows : \E t \in Task : hash[t] = h

\* What a task does with upload_quota_lock of its process in its hands.
StorageSteps == UploadSteps \cup CleanupSteps \cup {"j_expire"}

\* "Prevent a hash from being reused between the ref-count update and object
\* deletion": within a process nothing is uploaded while a retired file's blobs,
\* or those of an expiry pass, are still being cleaned up.
OneStorageTaskPerProcess ==
    \A t, u \in Task :
        /\ pc[t] \in StorageSteps /\ pc[u] \in StorageSteps
        /\ ProcessOf[t] = ProcessOf[u]
        => t = u

-----------------------------------------------------------------------------
(* Why the counts are exact and no reference dangles, as an invariant every  *)
(* step preserves.                                                           *)

\* A task that works on a blob names it, and on a file names that.
NamesOK ==
    \A t \in Task : /\ pc[t] \in BeginSteps \cup MutationSteps => hash[t] \in Hash
                    /\ pc[t] \in UploadSteps \cup ThumbnailSteps => item[t] \in File

\* The row an upload will insert is nobody else's and does not exist yet.
FreshItems ==
    \A t \in Task : pc[t] \in UploadSteps =>
        /\ state[item[t]] = "none"
        /\ \A u \in Task \ {t} : pc[u] \in UploadSteps => item[u] # item[t]

\* The lock of a hash is held by the one task inside a mutation of it.
LockHeld ==
    \A h \in Hash, t \in Task :
        lock[h] = t <=> pc[t] \in MutationSteps /\ hash[t] = h

\* An upload or thumbnail about to commit has its object in the store; the
\* existence check is still true when it is used.
ObjectReady ==
    \A t \in Task : \/ pc[t] \in {"u_commit", "t_commit"}
                    \/ pc[t] \in {"u_put", "t_put"} /\ existed[t]
                    => hash[t] \in objects

\* Past its check, a clean-up works on a hash no file needs, and stays so.
StillUnreferenced ==
    \A t \in Task : pc[t] \in {"c_delete", "c_commit"} =>
        Refs(hash[t]) = {} /\ ThumbRefs(hash[t]) = {}

\* Files that do not exist yet have no thumbnail.
NoEarlyThumbnail == \A f \in File : state[f] = "none" => thumbOf[f] = NoHash

CountInvariant == TypeOK /\ NamesOK /\ FreshItems /\ RefCountExact

\* Clean-up deletes objects no file needs: the proof of NoDanglingReference.
StoreInvariant ==
    /\ CountInvariant /\ LockHeld /\ ObjectReady /\ StillUnreferenced
    /\ NoEarlyThumbnail /\ NoDanglingReference /\ lateDeletes = {}

\* The quota lock of a process is in the hands of the task that needs it.
QuotaLockHeld == \A t \in Task : pc[t] \in StorageSteps => quotaLock[ProcessOf[t]] = t

\* t will insert the row of h or remove its object: it put the object and has
\* not committed, or it is about to clean up.
Disposes(t, h) ==
    /\ hash[t] = h
    /\ \/ pc[t] \in {"u_commit", "t_commit"} /\ ~existed[t]
       \/ pc[t] \in {"c_begin", "c_check", "c_delete"}

\* Why nothing leaks without faults: the proof of OrphanHasOwner.
OrphansHandled ==
    /\ \A h \in objects \ rows : \E t \in Task : Disposes(t, h)
    /\ \A t \in Task : pc[t] = "c_commit" => hash[t] \notin objects
    /\ \A t \in Task : pc[t] \notin ImportSteps

-----------------------------------------------------------------------------
(* What a step may never do, and what must happen. *)

\* The job works through a list it read before; a file whose owner moved the
\* expiry, or that a moderator withheld in the meantime, is not expired.
ExpiryReadAgain ==
    [][\A f \in File : state'[f] = "expired" /\ state[f] # "expired" =>
            f \in due /\ state[f] \in Releasable]_vars

\* A retired file gave its reference back and must never count again: "deleted
\* or expired files cannot be reactivated".
RetiredForever ==
    [][\A f \in File : state[f] \in TerminalStates => state'[f] \in TerminalStates]_vars

\* Every request and pass that started ends: nobody waits forever for a hash
\* or for the quota lock.
TasksEnd == \A t \in Task : pc[t] # "idle" ~> pc[t] = "idle"

\* Without faults a blobs row nobody needs any more, be it of an upload or of a
\* thumbnail, is reclaimed in the end, or needed anew.
GarbageReclaimed ==
    \A h \in Hash : h \in rows /\ Unreferenced(h) ~> h \notin rows \/ ~Unreferenced(h)

-----------------------------------------------------------------------------
(* What users see of all this: FileService. *)

Readable == {f \in File : /\ state[f] \in LiveStates
                         /\ blobOf[f] \in objects
                         /\ thumbOf[f] \in objects \cup {NoHash}}

Service == INSTANCE FileService WITH item <- state, readable <- Readable

\* Blobs, counts and clean-up are invisible: what is published stays readable
\* until it is retired.
ImplementsService == Service!Spec
=============================================================================
