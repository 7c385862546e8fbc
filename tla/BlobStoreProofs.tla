--------------------------- MODULE BlobStoreProofs ---------------------------
(* Theorems about BlobStore, for every choice of its constants. *)
EXTENDS BlobStore, TLAPS, FiniteSetTheorems

\* The step that ends a task, or moves it to the next blob to clean up, keeps
\* the types of everything it touches.
LEMMA CleanUpType ==
    ASSUME TypeOK, NamesOK, NEW t \in Task, NEW H \in SUBSET Hash, CleanUp(t, H)
    PROVE  /\ NamesOK'
           /\ pc' \in [Task -> Steps] /\ hash' \in [Task -> Hash \cup {NoHash}]
           /\ item' \in [Task -> File \cup {NoFile}] /\ existed' \in [Task -> BOOLEAN]
           /\ todo' \in [Task -> SUBSET Hash] /\ expiring' \in [Task -> SUBSET File]
           /\ quotaLock' \in [Process -> Task \cup {NoTask}]
  <1>1. CASE Return(t)
    BY <1>1 DEF Return, TypeOK, Steps, NamesOK, BeginSteps, MutationSteps, UploadSteps,
       ThumbnailSteps, CleanupSteps, ImportSteps
  <1>2. CASE \E h \in H : /\ pc' = [pc EXCEPT ![t] = "c_begin"]
                          /\ hash' = [hash EXCEPT ![t] = h]
                          /\ item' = [item EXCEPT ![t] = NoFile]
                          /\ existed' = [existed EXCEPT ![t] = FALSE]
                          /\ todo' = [todo EXCEPT ![t] = H \ {h}]
                          /\ expiring' = [expiring EXCEPT ![t] = {}]
                          /\ TakeQuotaLock(t)
    <2>1. PICK h \in H : /\ pc' = [pc EXCEPT ![t] = "c_begin"]
                         /\ hash' = [hash EXCEPT ![t] = h]
                         /\ item' = [item EXCEPT ![t] = NoFile]
                         /\ existed' = [existed EXCEPT ![t] = FALSE]
                         /\ todo' = [todo EXCEPT ![t] = H \ {h}]
                         /\ expiring' = [expiring EXCEPT ![t] = {}]
                         /\ TakeQuotaLock(t)
      BY <1>2
    <2> QED  BY <2>1 DEF TakeQuotaLock, TypeOK, Steps, NamesOK, BeginSteps, MutationSteps,
            UploadSteps, ThumbnailSteps
  <1> QED  BY <1>1, <1>2 DEF CleanUp

\* Giving references back keeps states and counts in range.
LEMMA ReleaseType ==
    ASSUME TypeOK, NEW F \in SUBSET File, NEW s \in TerminalStates, Release(F, s)
    PROVE  /\ state' \in [File -> FileStates] /\ refCount' \in [Hash -> Nat]
           /\ UNCHANGED <<blobOf, thumbOf, due, rows, objects, lateDeletes>>
  <1>1. ASSUME NEW h \in Hash PROVE CountWithout(F, h) \in Nat
    <2>1. IsFiniteSet({f \in F : blobOf[f] = h})
      BY BlobStoreAssumption, FS_Subset
    <2>2. Cardinality({f \in F : blobOf[f] = h}) \in Nat
      BY <2>1, FS_CardinalityType
    <2> QED  BY <2>2 DEF CountWithout, TypeOK
  <1> QED  BY <1>1 DEF Release, TypeOK, FileStates

\* The locks a task leaves behind are free.
LEMMA UnlockType ==
    ASSUME TypeOK, NEW t \in Task, Unlock(t)
    PROVE  lock' \in [Hash -> Task \cup {NoTask}]
  BY DEF Unlock, TypeOK

\* What a task may have finished cleaning up lies among the hashes.
LEMMA ZeroedHashes ==
    ASSUME TypeOK
    PROVE  /\ \A F \in SUBSET File : Zeroed(F) \in SUBSET Hash
           /\ ZeroRef \in SUBSET Hash
           /\ \A t \in Task : Expired \in SUBSET File
  BY DEF TypeOK, Zeroed, ZeroRef, Expired

-----------------------------------------------------------------------------
(* The type invariant, which needs NamesOK: what a task writes at the end of a *)
(* mutation is the hash and the file it started with.                         *)

USE DEF taskVars, storeVars, fileVars

LEMMA MutationType ==
    ASSUME TypeOK, NamesOK, NEW t \in Task,
           \/ MutationBegin(t) \/ CheckExists(t) \/ PutObject(t)
           \/ ThumbnailCommit(t) \/ ImportPut(t) \/ ImportCommit(t)
    PROVE  TypeOK' /\ NamesOK'
  <1> USE DEF Goto, Steps, BeginSteps, MutationSteps, UploadSteps, ThumbnailSteps,
              CleanupSteps, ImportSteps, TypeOK, NamesOK
  <1>1. CASE MutationBegin(t)  BY <1>1 DEF MutationBegin, Begun
  <1>2. CASE CheckExists(t)    BY <1>2 DEF CheckExists
  <1>3. CASE PutObject(t)      BY <1>3 DEF PutObject
  <1>4. CASE ThumbnailCommit(t)
    BY <1>4, UnlockType DEF ThumbnailCommit, Return
  <1>5. CASE ImportPut(t)      BY <1>5 DEF ImportPut
  <1>6. CASE ImportCommit(t)
    BY <1>6, UnlockType DEF ImportCommit, Return
  <1> QED  BY <1>1, <1>2, <1>3, <1>4, <1>5, <1>6

LEMMA UploadType ==
    ASSUME TypeOK, NamesOK, NEW t \in Task,
           \/ \E f \in File, h \in Hash : UploadStart(t, f, h)
           \/ \E s \in Releasable : UploadCommit(t, s) \/ UploadCommitUnknown(t, s)
           \/ UploadFail(t)
    PROVE  TypeOK' /\ NamesOK'
  <1> USE DEF Steps, BeginSteps, MutationSteps, UploadSteps, ThumbnailSteps,
              CleanupSteps, ImportSteps
  <1>1. ASSUME NEW f \in File, NEW h \in Hash, UploadStart(t, f, h)
        PROVE  TypeOK' /\ NamesOK'
    BY <1>1 DEF UploadStart, TakeQuotaLock, Goto, TypeOK, NamesOK
  <1>2. ASSUME NEW s \in Releasable, UploadCommit(t, s) \/ UploadCommitUnknown(t, s)
        PROVE  TypeOK' /\ NamesOK'
    <2>1. hash[t] \in Hash /\ item[t] \in File /\ Publish(t, s) /\ Unlock(t)
      BY <1>2 DEF UploadCommit, UploadCommitUnknown, NamesOK
    <2>3. \E H \in SUBSET Hash : CleanUp(t, H)
      <3>1. CASE UploadCommit(t, s)
        <4>1. CleanUp(t, {})  BY <3>1 DEF UploadCommit, CleanUp
        <4> QED  BY <4>1
      <3>2. CASE UploadCommitUnknown(t, s)
        BY <2>1, <3>2 DEF UploadCommitUnknown, Compensate
      <3> QED  BY <1>2, <3>1, <3>2
    <2>2. /\ state' \in [File -> FileStates] /\ rows' \subseteq Hash
          /\ blobOf' \in [File -> Hash \cup {NoHash}] /\ refCount' \in [Hash -> Nat]
          /\ UNCHANGED <<thumbOf, due, objects, lateDeletes>>
      BY <2>1 DEF Publish, TypeOK, FileStates, LiveStates
    <2> QED  BY <2>1, <2>2, <2>3, CleanUpType, UnlockType DEF TypeOK
  <1>3. CASE UploadFail(t)
    <2>1. hash[t] \in Hash
      BY <1>3 DEF UploadFail, NamesOK
    <2>2. \E H \in SUBSET Hash : CleanUp(t, H)
      BY <1>3, <2>1 DEF UploadFail, Compensate
    <2> QED  BY <1>3, <2>2, CleanUpType, UnlockType DEF UploadFail, TypeOK
  <1> QED  BY <1>1, <1>2, <1>3

LEMMA CleanupType ==
    ASSUME TypeOK, NamesOK, NEW t \in Task,
           CleanupCheck(t) \/ CleanupDelete(t) \/ CleanupCommit(t) \/ CleanupFail(t)
    PROVE  TypeOK' /\ NamesOK'
  <1> USE DEF Steps, BeginSteps, MutationSteps, UploadSteps, ThumbnailSteps,
              CleanupSteps, ImportSteps
  <1>1. todo[t] \in SUBSET Hash  BY DEF TypeOK
  <1>2. CASE CleanupCheck(t)
    <2>1. CASE Goto(t, "c_delete") /\ UNCHANGED <<lock, quotaLock, hash, item, existed, todo, expiring>>
      BY <1>2, <2>1 DEF CleanupCheck, Goto, TypeOK, NamesOK
    <2>2. CASE Unlock(t) /\ CleanUp(t, todo[t])
      BY <1>1, <1>2, <2>2, CleanUpType, UnlockType DEF CleanupCheck, TypeOK
    <2> QED  BY <1>2, <2>1, <2>2 DEF CleanupCheck
  <1>3. CASE CleanupDelete(t)
    BY <1>3 DEF CleanupDelete, Goto, TypeOK, NamesOK
  <1>4. CASE CleanupCommit(t)
    BY <1>1, <1>4, CleanUpType, UnlockType DEF CleanupCommit, TypeOK
  <1>5. CASE CleanupFail(t)
    BY <1>1, <1>5, CleanUpType, UnlockType DEF CleanupFail, TypeOK
  <1> QED  BY <1>2, <1>3, <1>4, <1>5

LEMMA RetireType ==
    ASSUME TypeOK, NamesOK, NEW t \in Task,
           \/ \E F \in (SUBSET File) \ {{}} : DeleteFiles(t, F)
           \/ \E f \in File : ModerateDelete(t, f) \/ JobExpire(t, f)
           \/ JobStart(t) \/ JobSelect(t)
    PROVE  TypeOK' /\ NamesOK'
  <1> USE DEF Steps, BeginSteps, MutationSteps, UploadSteps, ThumbnailSteps,
              CleanupSteps, ImportSteps, TerminalStates
  <1>1. ASSUME NEW F \in SUBSET File, DeleteFiles(t, F)
        PROVE  TypeOK' /\ NamesOK'
    BY <1>1, ReleaseType, CleanUpType, ZeroedHashes DEF DeleteFiles, TypeOK
  <1>2. ASSUME NEW f \in File, ModerateDelete(t, f)
        PROVE  TypeOK' /\ NamesOK'
    <2> DEFINE F == {f}
    <2>1. F \in SUBSET File /\ Release(F, "deleted") /\ CleanUp(t, Zeroed(F)) /\ UNCHANGED lock
      BY <1>2 DEF ModerateDelete
    <2> HIDE DEF F
    <2> QED  BY <2>1, ReleaseType, CleanUpType, ZeroedHashes DEF TypeOK
  <1>3. ASSUME NEW f \in File, JobExpire(t, f)
        PROVE  TypeOK' /\ NamesOK'
    <2> DEFINE F == {f}
    <2>1. F \in SUBSET File /\ (Release(F, "expired") \/ UNCHANGED <<fileVars, storeVars>>)
      BY <1>3 DEF JobExpire
    <2> HIDE DEF F
    <2>2. /\ state' \in [File -> FileStates] /\ refCount' \in [Hash -> Nat]
          /\ UNCHANGED <<blobOf, thumbOf, due, rows, objects, lateDeletes>>
      BY <2>1, ReleaseType DEF TypeOK
    <2> QED  BY <1>3, <2>2 DEF JobExpire, TypeOK, NamesOK
  <1>4. CASE JobStart(t)
    BY <1>4, ZeroedHashes DEF JobStart, TakeQuotaLock, Goto, TypeOK, NamesOK
  <1>5. CASE JobSelect(t)
    BY <1>5, ZeroedHashes, CleanUpType DEF JobSelect, TypeOK
  <1> QED  BY <1>1, <1>2, <1>3, <1>4, <1>5

LEMMA OtherType ==
    ASSUME TypeOK, NamesOK, NEW t \in Task,
           \/ \E f \in File, h \in Thumbnail : ThumbnailStart(t, f, h)
           \/ \E h \in Importable : ImportStart(t, h)
           \/ Drop(t) \/ DropDelete(t)
    PROVE  TypeOK' /\ NamesOK'
  <1> USE DEF Steps, BeginSteps, MutationSteps, UploadSteps, ThumbnailSteps,
              CleanupSteps, ImportSteps
  <1>1. ASSUME NEW f \in File, NEW h \in Thumbnail, ThumbnailStart(t, f, h)
        PROVE  TypeOK' /\ NamesOK'
    BY <1>1, BlobStoreAssumption DEF ThumbnailStart, Goto, TypeOK, NamesOK
  <1>2. ASSUME NEW h \in Importable, ImportStart(t, h)
        PROVE  TypeOK' /\ NamesOK'
    BY <1>2, BlobStoreAssumption DEF ImportStart, Goto, TypeOK, NamesOK
  <1>3. CASE Drop(t) \/ DropDelete(t)
    <2>1. CleanUp(t, {})
      BY <1>3 DEF Drop, DropDelete, CleanUp
    <2>2. hash[t] \in Hash \/ UNCHANGED lateDeletes
      BY <1>3 DEF Drop, DropDelete, NamesOK
    <2> QED  BY <1>3, <2>1, <2>2, CleanUpType, UnlockType DEF Drop, DropDelete, TypeOK
  <1> QED  BY <1>1, <1>2, <1>3

LEMMA EnvironmentType ==
    ASSUME TypeOK, NamesOK, Environment
    PROVE  TypeOK' /\ NamesOK'
  <1>1. ASSUME NEW f \in File, ModerateDeleted(f) \/ SetExpiry(f) \/ Tick(f)
        PROVE  TypeOK' /\ NamesOK'
    BY <1>1 DEF ModerateDeleted, SetExpiry, Tick, TypeOK, NamesOK, FileStates, TerminalStates
  <1>2. ASSUME NEW f \in File, NEW s \in LiveStates, ModerateState(f, s)
        PROVE  TypeOK' /\ NamesOK'
    BY <1>2 DEF ModerateState, TypeOK, NamesOK, FileStates
  <1>3. ASSUME NEW h \in Hash, LateDelete(h)
        PROVE  TypeOK' /\ NamesOK'
    BY <1>3 DEF LateDelete, TypeOK, NamesOK
  <1> QED  BY <1>1, <1>2, <1>3 DEF Environment

LEMMA StepType == TypeOK /\ NamesOK /\ [Next]_vars => TypeOK' /\ NamesOK'
  <1> SUFFICES ASSUME TypeOK, NamesOK, [Next]_vars PROVE TypeOK' /\ NamesOK'
    OBVIOUS
  <1>1. CASE UNCHANGED vars
    BY <1>1 DEF vars, TypeOK, NamesOK
  <1>2. ASSUME NEW t \in Task, TaskStep(t) PROVE TypeOK' /\ NamesOK'
    BY <1>2, MutationType, UploadType, CleanupType, RetireType DEF TaskStep
  <1>3. ASSUME NEW t \in Task, TaskStart(t) PROVE TypeOK' /\ NamesOK'
    BY <1>3, UploadType, RetireType, OtherType DEF TaskStart
  <1>4. ASSUME NEW t \in Task, Drop(t) \/ DropDelete(t) PROVE TypeOK' /\ NamesOK'
    BY <1>4, OtherType
  <1>5. CASE Environment
    BY <1>5, EnvironmentType
  <1> QED  BY <1>1, <1>2, <1>3, <1>4, <1>5 DEF Next

\* Every variable of the store keeps its type, whatever fails and whoever runs.
THEOREM TypeCorrect == Spec => []TypeOK
  <1>1. Init => TypeOK /\ NamesOK
    BY BlobStoreAssumption DEF Init, TypeOK, NamesOK, FileStates, Steps, BeginSteps,
       MutationSteps, UploadSteps, ThumbnailSteps, CleanupSteps, ImportSteps
  <1> QED  BY <1>1, StepType, PTL DEF Spec

-----------------------------------------------------------------------------
(* How a step moves its task, and what it does to the files table. *)

Acts(t) == TaskStep(t) \/ TaskStart(t) \/ Drop(t) \/ DropDelete(t)

\* The handler ends, or turns to the next blob it has to clean up.
LEMMA CleanUpMoves ==
    ASSUME TypeOK, NEW t \in Task, NEW H, CleanUp(t, H)
    PROVE  /\ \A u \in Task \ {t} : /\ pc'[u] = pc[u] /\ hash'[u] = hash[u]
                                   /\ item'[u] = item[u] /\ existed'[u] = existed[u]
           /\ pc'[t] \in {"idle", "c_begin"}
  BY DEF CleanUp, Return, TypeOK

\* A step of one task leaves the program counters and locals of the others.
LEMMA OthersStay ==
    ASSUME TypeOK, NEW t \in Task, Acts(t)
    PROVE  \A u \in Task \ {t} : /\ pc'[u] = pc[u] /\ hash'[u] = hash[u]
                                /\ item'[u] = item[u] /\ existed'[u] = existed[u]
  <1>1. CASE \E H : CleanUp(t, H)
    BY <1>1, CleanUpMoves
  <1>2. CASE Return(t)
    BY <1>2 DEF Return, TypeOK
  <1>3. CASE /\ \E step : Goto(t, step) \/ UNCHANGED pc
             /\ \E h : UNCHANGED hash \/ hash' = [hash EXCEPT ![t] = h]
             /\ \E f : UNCHANGED item \/ item' = [item EXCEPT ![t] = f]
             /\ \E e : UNCHANGED existed \/ existed' = [existed EXCEPT ![t] = e]
    BY <1>3 DEF Goto, TypeOK
  <1>4. CASE \/ MutationBegin(t) \/ CheckExists(t) \/ PutObject(t) \/ ImportPut(t)
             \/ CleanupDelete(t) \/ JobStart(t)
             \/ \E f \in File : JobExpire(t, f)
             \/ \E f \in File, h \in Hash : UploadStart(t, f, h)
             \/ \E f \in File, h \in Thumbnail : ThumbnailStart(t, f, h)
             \/ \E h \in Importable : ImportStart(t, h)
    BY <1>3, <1>4 DEF MutationBegin, CheckExists, PutObject, ImportPut, CleanupDelete,
       JobStart, JobExpire, UploadStart, ThumbnailStart, ImportStart
  <1>5. CASE \/ ThumbnailCommit(t) \/ ImportCommit(t) \/ Drop(t) \/ DropDelete(t)
             \/ \E s \in Releasable : UploadCommit(t, s)
    BY <1>2, <1>5 DEF ThumbnailCommit, ImportCommit, Drop, DropDelete, UploadCommit
  <1>6. CASE \/ \E s \in Releasable : UploadCommitUnknown(t, s)
             \/ UploadFail(t) \/ CleanupCommit(t) \/ CleanupFail(t) \/ JobSelect(t)
             \/ \E F \in (SUBSET File) \ {{}} : DeleteFiles(t, F)
             \/ \E f \in File : ModerateDelete(t, f)
    BY <1>1, <1>6 DEF UploadCommitUnknown, UploadFail, Compensate, CleanupCommit,
       CleanupFail, JobSelect, DeleteFiles, ModerateDelete
  <1>7. CASE CleanupCheck(t)
    BY <1>1, <1>3, <1>7 DEF CleanupCheck
  <1> QED  BY <1>4, <1>5, <1>6, <1>7 DEF Acts, TaskStep, TaskStart

\* An upload under way is the one that was under way, or has just begun.
LEMMA UploadStays ==
    ASSUME TypeOK, NEW t \in Task, Acts(t)
    PROVE  \/ pc'[t] \notin UploadSteps
           \/ /\ pc[t] \in UploadSteps \ {"u_commit"} /\ item'[t] = item[t]
              /\ UNCHANGED state
           \/ \E f \in File, h \in Hash : UploadStart(t, f, h)
  <1> USE DEF Goto, TypeOK, UploadSteps
  <1>1. CASE \/ \E H : CleanUp(t, H)
             \/ Return(t)
    BY <1>1, CleanUpMoves DEF Return
  <1>2. CASE MutationBegin(t) \/ CheckExists(t) \/ PutObject(t)
    BY <1>2 DEF MutationBegin, CheckExists, PutObject, Begun, BeginSteps
  <1>3. CASE \/ ImportPut(t) \/ CleanupDelete(t) \/ JobStart(t)
             \/ \E f \in File : JobExpire(t, f)
             \/ \E f \in File, h \in Thumbnail : ThumbnailStart(t, f, h)
             \/ \E h \in Importable : ImportStart(t, h)
    BY <1>3 DEF ImportPut, CleanupDelete, JobStart, JobExpire, ThumbnailStart, ImportStart
  <1>4. CASE \/ ThumbnailCommit(t) \/ ImportCommit(t) \/ Drop(t) \/ DropDelete(t)
             \/ \E s \in Releasable : UploadCommit(t, s)
    BY <1>1, <1>4 DEF ThumbnailCommit, ImportCommit, Drop, DropDelete, UploadCommit
  <1>5. CASE \/ \E s \in Releasable : UploadCommitUnknown(t, s)
             \/ UploadFail(t) \/ CleanupCommit(t) \/ CleanupFail(t) \/ JobSelect(t)
             \/ \E F \in (SUBSET File) \ {{}} : DeleteFiles(t, F)
             \/ \E f \in File : ModerateDelete(t, f)
    BY <1>1, <1>5 DEF UploadCommitUnknown, UploadFail, Compensate, CleanupCommit,
       CleanupFail, JobSelect, DeleteFiles, ModerateDelete
  <1>6. CASE CleanupCheck(t)
    BY <1>1, <1>6 DEF CleanupCheck
  <1> QED  BY <1>2, <1>3, <1>4, <1>5, <1>6 DEF Acts, TaskStep, TaskStart

\* The four things that can happen to the files table and the counts.
Published(t, s) == pc[t] = "u_commit" /\ Publish(t, s) /\ Acts(t)
Retired(F, s)   == (\A f \in F : state[f] \in LiveStates) /\ Release(F, s)
Moved(f, s)     == /\ \/ state[f] \in LiveStates /\ s \in LiveStates
                      \/ state[f] \in TerminalStates /\ s = "deleted"
                   /\ state' = [state EXCEPT ![f] = s]
                   /\ UNCHANGED <<blobOf, thumbOf, refCount, objects>>

LEMMA FilesStep ==
    ASSUME TypeOK, [Next]_vars
    PROVE  \/ UNCHANGED <<state, blobOf, refCount>>
           \/ \E t \in Task, s \in Releasable : Published(t, s)
           \/ \E F \in SUBSET File, s \in TerminalStates : Retired(F, s)
           \/ \E f \in File, s \in FileStates : Moved(f, s)
  <1>1. ASSUME NEW t \in Task,
               \/ MutationBegin(t) \/ CheckExists(t) \/ PutObject(t)
               \/ ThumbnailCommit(t) \/ ImportPut(t) \/ ImportCommit(t)
               \/ UploadFail(t) \/ CleanupCheck(t) \/ CleanupDelete(t) \/ CleanupCommit(t)
               \/ CleanupFail(t) \/ JobStart(t) \/ JobSelect(t) \/ Drop(t) \/ DropDelete(t)
               \/ \E f \in File, h \in Hash : UploadStart(t, f, h)
               \/ \E f \in File, h \in Thumbnail : ThumbnailStart(t, f, h)
               \/ \E h \in Importable : ImportStart(t, h)
        PROVE  UNCHANGED <<state, blobOf, refCount>>
    BY <1>1 DEF MutationBegin, CheckExists, PutObject, ThumbnailCommit, ImportPut,
       ImportCommit, UploadFail, CleanupCheck, CleanupDelete, CleanupCommit, CleanupFail,
       JobStart, JobSelect, Drop, DropDelete, UploadStart, ThumbnailStart, ImportStart
  <1>2. ASSUME NEW t \in Task, NEW s \in Releasable,
               UploadCommit(t, s) \/ UploadCommitUnknown(t, s)
        PROVE  Published(t, s)
    BY <1>2 DEF UploadCommit, UploadCommitUnknown, Published, Acts, TaskStep
  <1>3. ASSUME NEW t \in Task, NEW F \in SUBSET File, DeleteFiles(t, F)
        PROVE  Retired(F, "deleted")
    BY <1>3 DEF DeleteFiles, Retired, LiveStates
  <1>4. ASSUME NEW t \in Task, NEW f \in File, ModerateDelete(t, f)
        PROVE  Retired({f}, "deleted")
    BY <1>4 DEF ModerateDelete, Retired
  <1>5. ASSUME NEW t \in Task, NEW f \in File, JobExpire(t, f)
        PROVE  UNCHANGED <<state, blobOf, refCount>> \/ Retired({f}, "expired")
    BY <1>5 DEF JobExpire, Expired, Retired, LiveStates
  <1>6. CASE Environment
    BY <1>6 DEF Environment, ModerateDeleted, ModerateState, SetExpiry, Tick, LateDelete,
       Moved, FileStates, TerminalStates
  <1>7. ASSUME NEW t \in Task, TaskStep(t)
        PROVE  \/ UNCHANGED <<state, blobOf, refCount>>
               \/ \E s \in Releasable : Published(t, s)
               \/ \E f \in File : Retired({f}, "expired")
    BY <1>1, <1>2, <1>5, <1>7 DEF TaskStep
  <1>8. ASSUME NEW t \in Task, TaskStart(t)
        PROVE  \/ UNCHANGED <<state, blobOf, refCount>>
               \/ \E F \in SUBSET File : Retired(F, "deleted")
    BY <1>1, <1>3, <1>4, <1>8 DEF TaskStart
  <1>9. CASE UNCHANGED vars
    BY <1>9 DEF vars
  <1>10. "deleted" \in TerminalStates /\ "expired" \in TerminalStates
    BY DEF TerminalStates
  <1> QED  BY <1>1, <1>6, <1>7, <1>8, <1>9, <1>10 DEF Next

-----------------------------------------------------------------------------
(* RefCountExact: the count of a hash moves exactly as the set of its files. *)

LEMMA FreshItemsStep ==
    TypeOK /\ NamesOK /\ FreshItems /\ [Next]_vars => FreshItems'
  <1> SUFFICES ASSUME TypeOK, NamesOK, FreshItems, [Next]_vars PROVE FreshItems'
    OBVIOUS
  <1>1. ASSUME NEW t \in Task, Acts(t) PROVE FreshItems'
    <2>1. CASE \E f \in File, h \in Hash : UploadStart(t, f, h)
      <3>1. PICK f \in File, h \in Hash : UploadStart(t, f, h)
        BY <2>1
      <3>2. /\ state' = state /\ state[f] = "none" /\ item'[t] = f
            /\ \A u \in Task \ {t} : item'[u] # f
        BY <3>1, <1>1, OthersStay DEF UploadStart, TypeOK
      <3> QED  BY <3>2, <1>1, OthersStay DEF FreshItems
    <2>2. CASE /\ pc[t] \in UploadSteps \ {"u_commit"} /\ item'[t] = item[t]
               /\ UNCHANGED state
      BY <2>2, <1>1, OthersStay DEF FreshItems
    <2>3. CASE pc'[t] \notin UploadSteps
      <3> SUFFICES ASSUME NEW u \in Task \ {t}, pc'[u] \in UploadSteps
                   PROVE  state'[item'[u]] = "none"
        BY <2>3, <1>1, OthersStay DEF FreshItems
      <3>1. /\ pc[u] \in UploadSteps /\ item'[u] = item[u] /\ item[u] \in File
            /\ state[item[u]] = "none"
        BY <1>1, OthersStay DEF FreshItems, NamesOK
      <3>2. CASE UNCHANGED state
        BY <3>1, <3>2
      <3>3. ASSUME NEW v \in Task, NEW s \in Releasable, Published(v, s)
            PROVE  state'[item'[u]] = "none"
        <4>1. Acts(v) /\ pc[v] = "u_commit" /\ state' = [state EXCEPT ![item[v]] = s]
          BY <3>3 DEF Published, Publish
        <4>2. pc'[v] \notin UploadSteps
          BY <4>1, UploadStays DEF UploadStart
        <4>3. v # u
          BY <4>2
        <4> QED  BY <3>1, <4>1, <4>3 DEF FreshItems, TypeOK, UploadSteps
      <3>4. ASSUME NEW F \in SUBSET File, NEW s \in TerminalStates, Retired(F, s)
            PROVE  state'[item'[u]] = "none"
        BY <3>1, <3>4 DEF Retired, Release, LiveStates, Releasable
      <3>5. ASSUME NEW f \in File, NEW s \in FileStates, Moved(f, s)
            PROVE  state'[item'[u]] = "none"
        BY <3>1, <3>5 DEF Moved, LiveStates, Releasable, TerminalStates, TypeOK
      <3> QED  BY FilesStep, <3>2, <3>3, <3>4, <3>5
    <2> QED  BY <1>1, UploadStays, <2>1, <2>2, <2>3
  <1>2. CASE Environment
    <2>1. UNCHANGED <<pc, item>>
      BY <1>2 DEF Environment, ModerateDeleted, ModerateState, SetExpiry, Tick, LateDelete
    <2>2. \A f \in File : state[f] = "none" => state'[f] = "none"
      BY <1>2 DEF Environment, ModerateDeleted, ModerateState, SetExpiry, Tick, LateDelete,
         LiveStates, Releasable, TerminalStates, TypeOK
    <2> QED  BY <2>1, <2>2 DEF FreshItems, NamesOK
  <1>3. CASE UNCHANGED vars
    BY <1>3 DEF vars, FreshItems
  <1> QED  BY <1>1, <1>2, <1>3 DEF Next, Acts

LEMMA CardinalityWithout ==
    ASSUME NEW S, IsFiniteSet(S), NEW T \in SUBSET S
    PROVE  Cardinality(S \ T) = Cardinality(S) - Cardinality(T)
  <1>1. S \cap T = T
    OBVIOUS
  <1>2. Cardinality(S \ T) = Cardinality(S) - Cardinality(S \cap T)
    BY FS_Difference, Zenon
  <1> QED  BY <1>1, <1>2, Zenon

LEMMA RefCountStep ==
    CountInvariant /\ [Next]_vars => RefCountExact'
  <1> SUFFICES ASSUME CountInvariant, [Next]_vars, NEW h \in Hash
               PROVE  refCount'[h] = Cardinality(Refs(h)')
    BY DEF RefCountExact
  <1> USE DEF CountInvariant
  <1>1. IsFiniteSet(Refs(h)) /\ refCount[h] = Cardinality(Refs(h))
    BY BlobStoreAssumption, FS_Subset DEF Refs, RefCountExact
  <1>2. CASE UNCHANGED <<state, blobOf, refCount>>
    <2>1. Refs(h)' = Refs(h)  BY <1>2 DEF Refs
    <2> QED  BY <1>1, <1>2, <2>1
  <1>3. ASSUME NEW t \in Task, NEW s \in Releasable, Published(t, s)
        PROVE  refCount'[h] = Cardinality(Refs(h)')
    <2>1. /\ item[t] \in File /\ hash[t] \in Hash /\ state[item[t]] = "none"
          /\ Publish(t, s)
      BY <1>3 DEF Published, NamesOK, FreshItems, UploadSteps, MutationSteps, BeginSteps
    <2>2. Refs(h)' = IF h = hash[t] THEN Refs(h) \cup {item[t]} ELSE Refs(h)
      BY <2>1 DEF Publish, Refs, LiveStates, Releasable, TypeOK
    <2>3. item[t] \notin Refs(h)
      BY <2>1 DEF Refs, LiveStates, Releasable
    <2>4. refCount'[h] = IF h = hash[t] THEN refCount[h] + 1 ELSE refCount[h]
      BY <2>1 DEF Publish, TypeOK
    <2> QED  BY <1>1, <2>2, <2>3, <2>4, FS_AddElement, SMTT(60)
  <1>4. ASSUME NEW F \in SUBSET File, NEW s \in TerminalStates, Retired(F, s)
        PROVE  refCount'[h] = Cardinality(Refs(h)')
    <2> DEFINE G == {f \in F : blobOf[f] = h}
    <2>1. /\ G \in SUBSET Refs(h) /\ IsFiniteSet(G)
          /\ Cardinality(G) \in Nat /\ Cardinality(G) <= Cardinality(Refs(h))
      BY <1>1, <1>4, FS_Subset, FS_CardinalityType DEF Retired, Refs
    <2>2. Refs(h)' = Refs(h) \ G
      BY <1>4 DEF Retired, Release, Refs, TerminalStates, LiveStates, Releasable
    <2>3. CountWithout(F, h) = IF Cardinality(G) <= refCount[h]
                               THEN refCount[h] - Cardinality(G) ELSE 0
      BY DEF CountWithout
    <2> HIDE DEF G
    <2>4. Cardinality(Refs(h) \ G) = Cardinality(Refs(h)) - Cardinality(G)
      BY <1>1, <2>1, CardinalityWithout
    <2>5. refCount'[h] = CountWithout(F, h)
      BY <1>4 DEF Retired, Release
    <2> QED  BY <1>1, <2>1, <2>2, <2>3, <2>4, <2>5
  <1>5. ASSUME NEW f \in File, NEW s \in FileStates, Moved(f, s)
        PROVE  refCount'[h] = Cardinality(Refs(h)')
    <2>1. Refs(h)' = Refs(h)
      BY <1>5 DEF Moved, Refs, LiveStates, Releasable, TerminalStates, TypeOK
    <2> QED  BY <1>1, <1>5, <2>1 DEF Moved
  <1> QED  BY FilesStep, <1>2, <1>3, <1>4, <1>5

LEMMA InitCounts == Init => CountInvariant
  <1> SUFFICES ASSUME Init PROVE CountInvariant
    OBVIOUS
  <1>1. TypeOK /\ NamesOK /\ FreshItems
    BY BlobStoreAssumption DEF Init, TypeOK, NamesOK, FreshItems, FileStates, Steps,
       BeginSteps, MutationSteps, UploadSteps, ThumbnailSteps, CleanupSteps, ImportSteps
  <1>2. \A h \in Hash : Refs(h) = {} /\ refCount[h] = 0
    BY DEF Init, Refs, LiveStates, Releasable
  <1> QED  BY <1>1, <1>2, FS_EmptySet DEF CountInvariant, RefCountExact

\* In every interleaving of uploads, retirements, thumbnails and clean-up passes,
\* with failures and late deletes, ref_count is the number of files that still
\* need the blob.
THEOREM RefCountsExact == Spec => []RefCountExact
  <1>1. Init => CountInvariant
    BY InitCounts
  <1>2. CountInvariant /\ [Next]_vars => CountInvariant'
    BY StepType, FreshItemsStep, RefCountStep DEF CountInvariant
  <1>3. CountInvariant => RefCountExact
    BY DEF CountInvariant
  <1> QED  BY <1>1, <1>2, <1>3, PTL DEF Spec

-----------------------------------------------------------------------------
(* NoDanglingReference: what a clean-up removes, nobody refers to, because   *)
(* every new reference is made under the lock the clean-up holds.            *)

\* How a step of a task moves it in or out of a mutation.
LEMMA LockMoves ==
    ASSUME TypeOK, NamesOK, NEW t \in Task, Acts(t)
    PROVE  \/ MutationBegin(t)
           \/ Unlock(t) /\ pc'[t] \notin MutationSteps
           \/ /\ UNCHANGED lock
              /\ pc[t] \in MutationSteps <=> pc'[t] \in MutationSteps
              /\ pc[t] \in MutationSteps => hash'[t] = hash[t]
  <1> USE DEF Goto, TypeOK, MutationSteps, BeginSteps, UploadSteps, ThumbnailSteps,
              CleanupSteps, ImportSteps
  <1>1. CASE CheckExists(t) \/ PutObject(t) \/ ImportPut(t) \/ CleanupDelete(t)
    BY <1>1 DEF CheckExists, PutObject, ImportPut, CleanupDelete
  <1>2. CASE \/ JobStart(t)
             \/ \E f \in File : JobExpire(t, f)
             \/ \E f \in File, h \in Hash : UploadStart(t, f, h)
             \/ \E f \in File, h \in Thumbnail : ThumbnailStart(t, f, h)
             \/ \E h \in Importable : ImportStart(t, h)
    BY <1>2 DEF JobStart, JobExpire, UploadStart, ThumbnailStart, ImportStart
  <1>3. CASE \/ ThumbnailCommit(t) \/ ImportCommit(t) \/ Drop(t) \/ DropDelete(t)
             \/ \E s \in Releasable : UploadCommit(t, s)
    BY <1>3 DEF ThumbnailCommit, ImportCommit, Drop, DropDelete, UploadCommit, Return
  <1>4. CASE \/ \E s \in Releasable : UploadCommitUnknown(t, s)
             \/ UploadFail(t) \/ CleanupCommit(t) \/ CleanupFail(t)
    BY <1>4, CleanUpMoves DEF UploadCommitUnknown, UploadFail, Compensate, CleanupCommit,
       CleanupFail
  <1>5. CASE \/ JobSelect(t)
             \/ \E F \in (SUBSET File) \ {{}} : DeleteFiles(t, F)
             \/ \E f \in File : ModerateDelete(t, f)
    BY <1>5, CleanUpMoves DEF JobSelect, DeleteFiles, ModerateDelete
  <1>6. CASE CleanupCheck(t)
    BY <1>6, CleanUpMoves DEF CleanupCheck
  <1> QED  BY <1>1, <1>2, <1>3, <1>4, <1>5, <1>6 DEF Acts, TaskStep, TaskStart

LEMMA LockHeldStep ==
    TypeOK /\ NamesOK /\ LockHeld /\ [Next]_vars => LockHeld'
  <1> SUFFICES ASSUME TypeOK, NamesOK, LockHeld, [Next]_vars PROVE LockHeld'
    OBVIOUS
  <1>1. ASSUME NEW t \in Task, Acts(t), NEW h \in Hash, NEW u \in Task
        PROVE  lock'[h] = u <=> pc'[u] \in MutationSteps /\ hash'[u] = h
    <2>1. u # t => pc'[u] = pc[u] /\ hash'[u] = hash[u]
      BY <1>1, OthersStay
    <2>2. lock[h] = u <=> pc[u] \in MutationSteps /\ hash[u] = h
      BY DEF LockHeld
    <2>3. CASE MutationBegin(t)
      <3>1. /\ hash[t] \in Hash /\ lock[hash[t]] = NoTask
            /\ lock' = [lock EXCEPT ![hash[t]] = t] /\ hash' = hash
            /\ pc[t] \in BeginSteps /\ pc'[t] \in MutationSteps
        BY <2>3 DEF MutationBegin, Goto, Begun, NamesOK, TypeOK, MutationSteps, BeginSteps,
           UploadSteps, ThumbnailSteps, CleanupSteps, ImportSteps
      <3>2. pc[t] \notin MutationSteps
        BY <3>1 DEF MutationSteps
      <3> QED  BY <2>1, <2>2, <3>1, <3>2, BlobStoreAssumption DEF TypeOK
    <2>4. CASE Unlock(t) /\ pc'[t] \notin MutationSteps
      BY <2>1, <2>2, <2>4, BlobStoreAssumption DEF Unlock, TypeOK
    <2>5. CASE /\ UNCHANGED lock
               /\ pc[t] \in MutationSteps <=> pc'[t] \in MutationSteps
               /\ pc[t] \in MutationSteps => hash'[t] = hash[t]
      BY <2>1, <2>2, <2>5
    <2> QED  BY <1>1, LockMoves, <2>3, <2>4, <2>5
  <1>2. CASE Environment \/ UNCHANGED vars
    BY <1>2 DEF Environment, ModerateDeleted, ModerateState, SetExpiry, Tick, LateDelete,
       vars, LockHeld
  <1> QED  BY <1>1, <1>2 DEF Next, Acts, LockHeld

\* Rows and objects go only where a clean-up takes them, thumbnails appear only
\* where a thumbnail commits.
LEMMA StoreStep ==
    ASSUME [Next]_vars, ~LateDeletes, lateDeletes = {}
    PROVE  /\ lateDeletes' = {}
           /\ rows \subseteq rows' \/ \E t \in Task : CleanupCommit(t)
           /\ objects \subseteq objects' \/ \E t \in Task : CleanupDelete(t)
           /\ UNCHANGED thumbOf \/ \E t \in Task : ThumbnailCommit(t)
  <1>1. ASSUME NEW t \in Task, TaskStep(t)
        PROVE  /\ lateDeletes' = {}
               /\ rows \subseteq rows' \/ CleanupCommit(t)
               /\ objects \subseteq objects' \/ CleanupDelete(t)
               /\ UNCHANGED thumbOf \/ ThumbnailCommit(t)
    BY <1>1 DEF TaskStep, MutationBegin, CheckExists, PutObject, UploadCommit,
       UploadCommitUnknown, UploadFail, Publish, ThumbnailCommit, ImportPut, ImportCommit,
       CleanupCheck, CleanupDelete, CleanupCommit, CleanupFail, JobExpire, Release, JobSelect
  <1>2. ASSUME NEW t \in Task, TaskStart(t) \/ Drop(t) \/ DropDelete(t)
        PROVE  UNCHANGED <<rows, objects, lateDeletes, thumbOf>>
    BY <1>2 DEF TaskStart, UploadStart, ThumbnailStart, ImportStart, DeleteFiles,
       ModerateDelete, JobStart, Release, Drop, DropDelete
  <1>3. CASE Environment
    BY <1>3 DEF Environment, ModerateDeleted, ModerateState, SetExpiry, Tick, LateDelete
  <1> QED  BY <1>1, <1>2, <1>3 DEF Next, vars

\* A file comes to need a blob only through an upload that commits its hash.
LEMMA NewReference ==
    ASSUME CountInvariant, [Next]_vars, NEW h \in Hash, NEW f \in File,
           f \in Refs(h)', f \notin Refs(h)
    PROVE  \E t \in Task : /\ pc[t] = "u_commit" /\ hash[t] = h /\ item[t] = f
                          /\ \E s \in Releasable : Publish(t, s)
  <1> USE DEF CountInvariant
  <1>1. CASE UNCHANGED <<state, blobOf, refCount>>
    BY <1>1 DEF Refs
  <1>2. ASSUME NEW t \in Task, NEW s \in Releasable, Published(t, s)
        PROVE  pc[t] = "u_commit" /\ hash[t] = h /\ item[t] = f /\ Publish(t, s)
    BY <1>2 DEF Published, Publish, Refs, TypeOK
  <1>3. ASSUME NEW F \in SUBSET File, NEW s \in TerminalStates, Retired(F, s) PROVE FALSE
    BY <1>3 DEF Retired, Release, Refs, TerminalStates, LiveStates, Releasable
  <1>4. ASSUME NEW g \in File, NEW s \in FileStates, Moved(g, s) PROVE FALSE
    BY <1>4 DEF Moved, Refs, TerminalStates, LiveStates, Releasable, TypeOK
  <1> QED  BY FilesStep, <1>1, <1>2, <1>3, <1>4

\* A file comes to need a thumbnail only when the thumbnail of that hash commits.
LEMMA NewThumbReference ==
    ASSUME CountInvariant, NoEarlyThumbnail, [Next]_vars, ~LateDeletes, lateDeletes = {},
           NEW h \in Hash, NEW f \in File, f \in ThumbRefs(h)', f \notin ThumbRefs(h)
    PROVE  \E t \in Task : /\ hash[t] = h /\ ThumbnailCommit(t) /\ state[f] = "active"
  <1> USE DEF CountInvariant
  <1>1. ASSUME NEW t \in Task, ThumbnailCommit(t)
        PROVE  hash[t] = h /\ state[f] = "active"
    BY <1>1 DEF ThumbnailCommit, ThumbRefs, TypeOK
  <1>2. CASE UNCHANGED thumbOf
    <2>1. CASE UNCHANGED state
      BY <1>2, <2>1 DEF ThumbRefs
    <2>2. ASSUME NEW t \in Task, NEW s \in Releasable, Published(t, s) PROVE FALSE
      <3>1. item[t] \in File /\ state[item[t]] = "none"
        BY <2>2 DEF Published, NamesOK, FreshItems, UploadSteps, MutationSteps, BeginSteps
      <3>2. thumbOf[item[t]] # h
        BY <3>1, BlobStoreAssumption DEF NoEarlyThumbnail
      <3> QED  BY <1>2, <2>2, <3>2 DEF Published, Publish, ThumbRefs, TypeOK
    <2>3. ASSUME NEW F \in SUBSET File, NEW s \in TerminalStates, Retired(F, s) PROVE FALSE
      BY <1>2, <2>3 DEF Retired, Release, ThumbRefs, TerminalStates, LiveStates, Releasable
    <2>4. ASSUME NEW g \in File, NEW s \in FileStates, Moved(g, s) PROVE FALSE
      BY <1>2, <2>4 DEF Moved, ThumbRefs, TerminalStates, LiveStates, Releasable, TypeOK
    <2> QED  BY FilesStep, <2>1, <2>2, <2>3, <2>4
  <1> QED  BY StoreStep, <1>1, <1>2

LEMMA NoEarlyThumbnailStep ==
    CountInvariant /\ NoEarlyThumbnail /\ lateDeletes = {} /\ ~LateDeletes /\ [Next]_vars
        => NoEarlyThumbnail'
  <1> SUFFICES ASSUME CountInvariant, NoEarlyThumbnail, lateDeletes = {}, ~LateDeletes,
                      [Next]_vars, NEW f \in File, state'[f] = "none"
               PROVE  thumbOf'[f] = NoHash
    BY DEF NoEarlyThumbnail
  <1> USE DEF CountInvariant
  <1>1. state[f] = "none"
    <2>1. CASE UNCHANGED state  BY <2>1
    <2>2. ASSUME NEW t \in Task, NEW s \in Releasable, Published(t, s) PROVE state[f] = "none"
      BY <2>2 DEF Published, Publish, TypeOK, Releasable
    <2>3. ASSUME NEW F \in SUBSET File, NEW s \in TerminalStates, Retired(F, s)
          PROVE  state[f] = "none"
      BY <2>3 DEF Retired, Release, TerminalStates
    <2>4. ASSUME NEW g \in File, NEW s \in FileStates, Moved(g, s) PROVE state[f] = "none"
      BY <2>4 DEF Moved, TerminalStates, LiveStates, Releasable, TypeOK
    <2> QED  BY FilesStep, <2>1, <2>2, <2>3, <2>4
  <1>2. ASSUME NEW t \in Task, ThumbnailCommit(t) PROVE thumbOf'[f] = thumbOf[f]
    BY <1>1, <1>2 DEF ThumbnailCommit, TypeOK
  <1>3. thumbOf'[f] = thumbOf[f]
    BY <1>2, StoreStep
  <1> QED  BY <1>1, <1>3 DEF NoEarlyThumbnail

\* Two tasks inside mutations work on different hashes.
LEMMA MutualExclusion ==
    ASSUME NamesOK, LockHeld, NEW t \in Task, NEW u \in Task, t # u,
           pc[t] \in MutationSteps, pc[u] \in MutationSteps
    PROVE  hash[t] # hash[u]
  BY DEF NamesOK, LockHeld

LEMMA ObjectReadyStep ==
    TypeOK /\ NamesOK /\ LockHeld /\ ObjectReady /\ lateDeletes = {} /\ ~LateDeletes
        /\ [Next]_vars => ObjectReady'
  <1> SUFFICES ASSUME TypeOK, NamesOK, LockHeld, ObjectReady, lateDeletes = {},
                      ~LateDeletes, [Next]_vars
               PROVE  ObjectReady'
    OBVIOUS
  <1> USE DEF MutationSteps, BeginSteps, UploadSteps, ThumbnailSteps, CleanupSteps, ImportSteps
  <1> DEFINE Ready(t) == \/ pc[t] \in {"u_commit", "t_commit"}
                         \/ pc[t] \in {"u_put", "t_put"} /\ existed[t]
  <1>1. ASSUME NEW t \in Task, Acts(t), NEW u \in Task \ {t}, Ready(u)'
        PROVE  hash'[u] \in objects'
    <2>1. Ready(u) /\ hash'[u] = hash[u]
      BY <1>1, OthersStay
    <2>2. hash[u] \in objects /\ pc[u] \in MutationSteps
      BY <2>1 DEF ObjectReady
    <2>3. ASSUME NEW v \in Task, CleanupDelete(v) PROVE hash[u] \in objects'
      <3>1. v # u /\ pc[v] \in MutationSteps
        BY <2>1, <2>3 DEF CleanupDelete
      <3> QED  BY <2>2, <2>3, <3>1, MutualExclusion DEF CleanupDelete
    <2> QED  BY <2>1, <2>2, <2>3, StoreStep
  <1>2. ASSUME NEW t \in Task, Acts(t), Ready(t)'
        PROVE  hash'[t] \in objects'
    <2>1. CASE CheckExists(t) \/ PutObject(t)
      BY <1>2, <2>1 DEF CheckExists, PutObject, Goto, TypeOK, ObjectReady
    <2>2. CASE \/ \E H : CleanUp(t, H)
               \/ Return(t)
      BY <1>2, <2>2, CleanUpMoves DEF Return, TypeOK
    <2>7. CASE MutationBegin(t)
      BY <1>2, <2>7 DEF MutationBegin, Begun, Goto, TypeOK
    <2>3. CASE \/ ImportPut(t) \/ CleanupDelete(t) \/ JobStart(t)
               \/ \E f \in File : JobExpire(t, f)
               \/ \E f \in File, h \in Hash : UploadStart(t, f, h)
               \/ \E f \in File, h \in Thumbnail : ThumbnailStart(t, f, h)
               \/ \E h \in Importable : ImportStart(t, h)
      <3>1. pc'[t] \in {"i_commit", "c_commit", "j_expire"} \cup BeginSteps
        BY <2>3 DEF ImportPut, CleanupDelete, JobStart, JobExpire, UploadStart,
           ThumbnailStart, ImportStart, Goto, TypeOK
      <3> QED  BY <1>2, <3>1
    <2>4. CASE \/ ThumbnailCommit(t) \/ ImportCommit(t) \/ Drop(t) \/ DropDelete(t)
               \/ \E s \in Releasable : UploadCommit(t, s)
      BY <2>2, <2>4 DEF ThumbnailCommit, ImportCommit, Drop, DropDelete, UploadCommit
    <2>5. CASE \/ \E s \in Releasable : UploadCommitUnknown(t, s)
               \/ UploadFail(t) \/ CleanupCommit(t) \/ CleanupFail(t) \/ JobSelect(t)
               \/ \E F \in (SUBSET File) \ {{}} : DeleteFiles(t, F)
               \/ \E f \in File : ModerateDelete(t, f)
      BY <2>2, <2>5 DEF UploadCommitUnknown, UploadFail, Compensate, CleanupCommit,
         CleanupFail, JobSelect, DeleteFiles, ModerateDelete
    <2>6. CASE CleanupCheck(t)
      BY <1>2, <2>2, <2>6 DEF CleanupCheck, Goto, TypeOK
    <2> QED  BY <1>2, <2>1, <2>3, <2>4, <2>5, <2>6, <2>7 DEF Acts, TaskStep, TaskStart
  <1>3. CASE Environment \/ UNCHANGED vars
    BY <1>3 DEF Environment, ModerateDeleted, ModerateState, SetExpiry, Tick, LateDelete,
       vars, ObjectReady
  <1> QED  BY <1>1, <1>2, <1>3 DEF Next, Acts, ObjectReady

LEMMA StillUnreferencedStep ==
    StoreInvariant /\ ~LateDeletes /\ [Next]_vars => StillUnreferenced'
  <1> SUFFICES ASSUME StoreInvariant, ~LateDeletes, [Next]_vars,
                      NEW u \in Task, pc'[u] \in {"c_delete", "c_commit"},
                      NEW h, h = hash'[u]
               PROVE  Refs(h)' = {} /\ ThumbRefs(h)' = {}
    BY DEF StillUnreferenced, Refs, ThumbRefs
  <1> USE DEF StoreInvariant, CountInvariant
  <1>1. /\ h = hash[u] /\ hash[u] \in Hash
        /\ pc[u] \in {"c_check", "c_delete", "c_commit"}
        /\ Refs(hash[u]) = {} /\ ThumbRefs(hash[u]) = {}
    <2>1. CASE pc[u] \in {"c_delete", "c_commit"} /\ hash'[u] = hash[u]
      BY <2>1 DEF StillUnreferenced, NamesOK, MutationSteps, BeginSteps, CleanupSteps
    <2>2. ASSUME Acts(u)
          PROVE  \/ pc[u] \in {"c_delete", "c_commit"} /\ hash'[u] = hash[u]
                 \/ /\ pc[u] = "c_check" /\ hash'[u] = hash[u]
                    /\ Unreferenced(hash[u])
      <3> USE DEF Goto, TypeOK
      <3>1. CASE CleanupCheck(u)
        BY <3>1, CleanUpMoves DEF CleanupCheck
      <3>2. CASE CleanupDelete(u)
        BY <3>2 DEF CleanupDelete
      <3>3. CASE \/ \E H : CleanUp(u, H)
                 \/ Return(u)
        BY <3>3, CleanUpMoves DEF Return
      <3>4. CASE MutationBegin(u) \/ CheckExists(u) \/ PutObject(u) \/ ImportPut(u)
        BY <3>4 DEF MutationBegin, Begun, BeginSteps, CheckExists, PutObject, ImportPut
      <3>5. CASE \/ JobStart(u)
                 \/ \E f \in File : JobExpire(u, f)
                 \/ \E f \in File, g \in Hash : UploadStart(u, f, g)
                 \/ \E f \in File, g \in Thumbnail : ThumbnailStart(u, f, g)
                 \/ \E g \in Importable : ImportStart(u, g)
        <4>1. pc'[u] \in {"j_expire"} \cup BeginSteps
          BY <3>5 DEF JobStart, JobExpire, UploadStart, ThumbnailStart, ImportStart, BeginSteps
        <4> QED  BY <4>1 DEF BeginSteps
      <3>6. CASE \/ ThumbnailCommit(u) \/ ImportCommit(u) \/ Drop(u) \/ DropDelete(u)
                 \/ \E s \in Releasable : UploadCommit(u, s)
        BY <3>3, <3>6 DEF ThumbnailCommit, ImportCommit, Drop, DropDelete, UploadCommit
      <3>7. CASE \/ \E s \in Releasable : UploadCommitUnknown(u, s)
                 \/ UploadFail(u) \/ CleanupCommit(u) \/ CleanupFail(u) \/ JobSelect(u)
                 \/ \E F \in (SUBSET File) \ {{}} : DeleteFiles(u, F)
                 \/ \E f \in File : ModerateDelete(u, f)
        BY <3>3, <3>7 DEF UploadCommitUnknown, UploadFail, Compensate, CleanupCommit,
           CleanupFail, JobSelect, DeleteFiles, ModerateDelete
      <3> QED  BY <2>2, <3>1, <3>2, <3>4, <3>5, <3>6, <3>7 DEF Acts, TaskStep, TaskStart
    <2>3. ASSUME pc[u] = "c_check", Unreferenced(hash[u])
          PROVE  hash[u] \in Hash /\ Refs(hash[u]) = {} /\ ThumbRefs(hash[u]) = {}
      BY <2>3 DEF Unreferenced, NamesOK, MutationSteps, BeginSteps, CleanupSteps
    <2>4. ASSUME NEW t \in Task \ {u}, Acts(t)
          PROVE  pc[u] \in {"c_delete", "c_commit"} /\ hash'[u] = hash[u]
      BY <2>4, OthersStay
    <2>5. ASSUME Environment \/ UNCHANGED vars
          PROVE  pc[u] \in {"c_delete", "c_commit"} /\ hash'[u] = hash[u]
      BY <2>5 DEF Environment, ModerateDeleted, ModerateState, SetExpiry, Tick, LateDelete, vars
    <2> QED  BY <2>1, <2>2, <2>3, <2>4, <2>5 DEF Next, Acts
  <1>2. ASSUME NEW f \in Refs(h)' PROVE FALSE
    <2>1. PICK t \in Task : pc[t] = "u_commit" /\ hash[t] = h
      BY <1>1, <1>2, NewReference DEF Refs
    <2> QED
      BY <1>1, <2>1, MutualExclusion DEF MutationSteps, BeginSteps, UploadSteps, CleanupSteps
  <1>3. ASSUME NEW f \in ThumbRefs(h)' PROVE FALSE
    <2>1. PICK t \in Task : ThumbnailCommit(t) /\ hash[t] = h
      BY <1>1, <1>3, NewThumbReference DEF ThumbRefs
    <2> QED
      BY <1>1, <2>1, MutualExclusion
      DEF ThumbnailCommit, MutationSteps, BeginSteps, ThumbnailSteps, CleanupSteps
  <1> QED  BY <1>1, <1>2, <1>3

\* What the files of h need stays in place: a clean-up of h is past its check.
LEMMA NeededStays ==
    ASSUME StoreInvariant, ~LateDeletes, [Next]_vars, NEW h \in rows \cap objects,
           Refs(h) # {} \/ ThumbRefs(h) # {}
    PROVE  h \in rows' /\ h \in objects'
  <1> USE DEF StoreInvariant, CountInvariant
  <1>1. ASSUME NEW t \in Task, CleanupCommit(t) PROVE h \in rows'
    BY <1>1 DEF CleanupCommit, Unreferenced
  <1>2. ASSUME NEW t \in Task, CleanupDelete(t) PROVE h \in objects'
    BY <1>2 DEF CleanupDelete, StillUnreferenced
  <1> QED  BY <1>1, <1>2, StoreStep

LEMMA NoDanglingStep ==
    StoreInvariant /\ ~LateDeletes /\ [Next]_vars => NoDanglingReference'
  <1> SUFFICES ASSUME StoreInvariant, ~LateDeletes, [Next]_vars,
                      NEW f \in File, state'[f] \in LiveStates
               PROVE  /\ blobOf'[f] \in rows' /\ blobOf'[f] \in objects'
                      /\ thumbOf'[f] # NoHash =>
                            thumbOf'[f] \in rows' /\ thumbOf'[f] \in objects'
    BY DEF NoDanglingReference
  <1> USE DEF StoreInvariant, CountInvariant
  <1>1. TypeOK'
    BY StepType
  <1>2. ASSUME NEW t \in Task, pc[t] = "u_commit", item[t] = f,
               NEW s \in Releasable, Publish(t, s)
        PROVE  blobOf'[f] \in rows' /\ blobOf'[f] \in objects'
    BY <1>2 DEF Publish, ObjectReady, TypeOK
  <1>5. blobOf'[f] \in Hash
    <2>1. CASE UNCHANGED <<state, blobOf, refCount>>
      BY <2>1 DEF NoDanglingReference, TypeOK
    <2>2. ASSUME NEW t \in Task, NEW s \in Releasable, Published(t, s)
          PROVE  blobOf'[f] \in Hash
      BY <2>2 DEF Published, Publish, NoDanglingReference, TypeOK, NamesOK, UploadSteps,
         MutationSteps, BeginSteps
    <2>3. ASSUME NEW F \in SUBSET File, NEW s \in TerminalStates, Retired(F, s)
          PROVE  blobOf'[f] \in Hash
      BY <2>3 DEF Retired, Release, NoDanglingReference, TypeOK, TerminalStates,
         LiveStates, Releasable
    <2>4. ASSUME NEW g \in File, NEW s \in FileStates, Moved(g, s)
          PROVE  blobOf'[f] \in Hash
      BY <2>4 DEF Moved, NoDanglingReference, TypeOK, TerminalStates, LiveStates, Releasable
    <2> QED  BY FilesStep, <2>1, <2>2, <2>3, <2>4
  <1>3. ASSUME NEW h \in Hash, blobOf'[f] = h
        PROVE  h \in rows' /\ h \in objects'
    <2>1. CASE f \in Refs(h)
      BY <2>1, NeededStays DEF Refs, NoDanglingReference
    <2>2. CASE f \notin Refs(h)
      <3>1. f \in Refs(h)'
        BY <1>3 DEF Refs
      <3>2. \E t \in Task : /\ pc[t] = "u_commit" /\ item[t] = f
                           /\ \E s \in Releasable : Publish(t, s)
        BY <2>2, <3>1, NewReference
      <3> QED  BY <1>2, <1>3, <3>2
    <2> QED  BY <2>1, <2>2
  <1>4. ASSUME NEW h \in Hash, thumbOf'[f] = h
        PROVE  h \in rows' /\ h \in objects'
    <2>1. f \in ThumbRefs(h)'
      BY <1>4 DEF ThumbRefs
    <2>2. CASE f \in ThumbRefs(h)
      BY <2>2, NeededStays, BlobStoreAssumption DEF ThumbRefs, NoDanglingReference
    <2>3. CASE f \notin ThumbRefs(h)
      <3>1. PICK t \in Task : hash[t] = h /\ ThumbnailCommit(t)
        BY <2>1, <2>3, NewThumbReference
      <3> QED  BY <3>1 DEF ThumbnailCommit, ObjectReady
    <2> QED  BY <2>2, <2>3
  <1> QED  BY <1>1, <1>3, <1>4, <1>5 DEF TypeOK

LEMMA StoreInvariantHolds ==
    /\ Init => StoreInvariant
    /\ StoreInvariant /\ ~LateDeletes /\ [Next]_vars => StoreInvariant'
  <1>1. Init => StoreInvariant
    BY InitCounts, BlobStoreAssumption
    DEF Init, StoreInvariant, LockHeld, ObjectReady, StillUnreferenced, NoEarlyThumbnail,
        NoDanglingReference, MutationSteps, BeginSteps, UploadSteps, ThumbnailSteps,
        CleanupSteps, ImportSteps, LiveStates, Releasable
  <1>2. StoreInvariant /\ ~LateDeletes /\ [Next]_vars => CountInvariant' /\ LockHeld'
    BY StepType, FreshItemsStep, RefCountStep, LockHeldStep DEF StoreInvariant, CountInvariant
  <1>3. StoreInvariant /\ ~LateDeletes /\ [Next]_vars =>
            ObjectReady' /\ NoEarlyThumbnail' /\ lateDeletes' = {}
    BY ObjectReadyStep, NoEarlyThumbnailStep, StoreStep DEF StoreInvariant, CountInvariant
  <1> QED
    BY <1>1, <1>2, <1>3, StillUnreferencedStep, NoDanglingStep DEF StoreInvariant

\* As long as no delete outlives its caller, what a task inside a mutation relies
\* on stays true: the lock of its hash is its own, the object it found is there,
\* and a blob about to be cleaned up is still unreferenced.
THEOREM StoreConsistent ==
    ASSUME ~LateDeletes
    PROVE  Spec => []StoreInvariant
  <1>1. Init => StoreInvariant
    BY StoreInvariantHolds
  <1>2. StoreInvariant /\ [Next]_vars => StoreInvariant'
    BY StoreInvariantHolds
  <1> QED  BY <1>1, <1>2, PTL DEF Spec

\* As long as no delete outlives its caller, every file that is not retired has
\* its bytes and its thumbnail, whatever uploads, retirements, clean-up passes,
\* thumbnails, imports, failures and crashes interleave.
THEOREM NothingDangles ==
    ASSUME ~LateDeletes
    PROVE  Spec => []NoDanglingReference
  <1>1. Init => StoreInvariant
    BY StoreInvariantHolds
  <1>2. StoreInvariant /\ [Next]_vars => StoreInvariant'
    BY StoreInvariantHolds
  <1>3. StoreInvariant => NoDanglingReference
    BY DEF StoreInvariant
  <1> QED  BY <1>1, <1>2, <1>3, PTL DEF Spec

-----------------------------------------------------------------------------
(* What a step may never do, and the service the store implements. *)

\* No interleaving brings a deleted or expired file back.
THEOREM NothingComesBack == Spec => RetiredForever
  <1>1. CountInvariant /\ [Next]_vars =>
            \A f \in File : state[f] \in TerminalStates => state'[f] \in TerminalStates
    <2> SUFFICES ASSUME CountInvariant, [Next]_vars, NEW f \in File,
                        state[f] \in TerminalStates
                 PROVE  state'[f] \in TerminalStates
      OBVIOUS
    <2> USE DEF CountInvariant
    <2>1. ASSUME NEW t \in Task, NEW s \in Releasable, Published(t, s)
          PROVE  state'[f] \in TerminalStates
      BY <2>1 DEF Published, Publish, FreshItems, UploadSteps, TerminalStates, TypeOK
    <2>2. ASSUME NEW F \in SUBSET File, NEW s \in TerminalStates, Retired(F, s)
          PROVE  state'[f] \in TerminalStates
      BY <2>2 DEF Retired, Release
    <2>3. ASSUME NEW g \in File, NEW s \in FileStates, Moved(g, s)
          PROVE  state'[f] \in TerminalStates
      BY <2>3 DEF Moved, TerminalStates, LiveStates, Releasable, TypeOK
    <2> QED  BY FilesStep, <2>1, <2>2, <2>3
  <1>2. CountInvariant /\ [Next]_vars => CountInvariant'
    BY StepType, FreshItemsStep, RefCountStep DEF CountInvariant
  <1> QED  BY InitCounts, <1>1, <1>2, PTL DEF Spec, RetiredForever

LEMMA ServiceStep ==
    StoreInvariant /\ StoreInvariant' /\ [Next]_vars => [Service!Next]_(Service!vars)
  <1> SUFFICES ASSUME StoreInvariant, StoreInvariant', [Next]_vars
               PROVE  Service!Next \/ UNCHANGED Service!vars
    OBVIOUS
  <1> USE DEF Service!vars, Service!LiveStates, Service!TerminalStates, LiveStates,
              TerminalStates, Releasable
  <1>1. TypeOK /\ NamesOK /\ FreshItems
    BY DEF StoreInvariant, CountInvariant
  <1>2. /\ Readable = {f \in File : state[f] \in LiveStates}
        /\ Readable' = {f \in File : state'[f] \in LiveStates}
    BY DEF Readable, StoreInvariant, NoDanglingReference
  <1>3. CASE UNCHANGED state
    BY <1>2, <1>3
  <1>4. ASSUME NEW t \in Task, NEW s \in Releasable, Published(t, s) PROVE Service!Next
    <2>1. /\ item[t] \in File /\ state[item[t]] = "none"
          /\ state' = [state EXCEPT ![item[t]] = s]
      BY <1>1, <1>4 DEF Published, Publish, NamesOK, FreshItems, UploadSteps,
         MutationSteps, BeginSteps
    <2>2. Readable' = Readable \cup {item[t]}
      BY <1>1, <1>2, <2>1 DEF TypeOK
    <2> QED  BY <2>1, <2>2 DEF Service!Next, Service!Publish
  <1>5. ASSUME NEW F \in SUBSET File, NEW s \in TerminalStates, Retired(F, s)
        PROVE  Service!Next
    <2>1. Readable' = Readable \ F
      BY <1>1, <1>2, <1>5 DEF Retired, Release
    <2> QED  BY <1>5, <2>1 DEF Retired, Release, Service!Next, Service!Retire
  <1>6. ASSUME NEW f \in File, NEW s \in FileStates, Moved(f, s) PROVE Service!Next
    <2>1. Readable' = Readable
      BY <1>1, <1>2, <1>6 DEF Moved, TypeOK
    <2> QED  BY <1>6, <2>1 DEF Moved, Service!Next, Service!Moderate, Service!Relabel
  <1> QED  BY <1>1, FilesStep, <1>3, <1>4, <1>5, <1>6

\* Users of the store see FileService: a published file stays readable until it
\* is retired, and blobs, counts, locks and clean-up never show.
THEOREM StoreImplementsService ==
    ASSUME ~LateDeletes
    PROVE  Spec => ImplementsService
  <1>1. Init => StoreInvariant
    BY StoreInvariantHolds
  <1>2. Init => Service!Init
    BY DEF Init, Service!Init, Readable, LiveStates, Releasable
  <1>3. StoreInvariant /\ [Next]_vars => StoreInvariant'
    BY StoreInvariantHolds
  <1> QED  BY <1>1, <1>2, <1>3, ServiceStep, PTL DEF Spec, ImplementsService, Service!Spec
-----------------------------------------------------------------------------
(* ExpiryReadAgain: only the pass of the job makes a file expired. *)

\* The pass takes a file only if it finds it due and releasable when it gets to
\* it, whatever the owner and the moderators did after the list was read.
THEOREM ExpiriesReadAgain == Spec => ExpiryReadAgain
  <1>1. TypeOK /\ [Next]_vars =>
            \A f \in File : state'[f] = "expired" /\ state[f] # "expired" =>
                f \in due /\ state[f] \in Releasable
    <2> SUFFICES ASSUME TypeOK, [Next]_vars, NEW f \in File,
                        state'[f] = "expired", state[f] # "expired"
                 PROVE  f \in Expired
      BY DEF Expired
    <2>1. ASSUME NEW t \in Task, NEW g \in File, JobExpire(t, g)
          PROVE  f \in Expired
      BY <2>1 DEF JobExpire, Release
    <2>2. ASSUME NEW t \in Task, NEW s \in Releasable,
                 UploadCommit(t, s) \/ UploadCommitUnknown(t, s)
          PROVE  FALSE
      BY <2>2 DEF UploadCommit, UploadCommitUnknown, Publish, Releasable, TypeOK
    <2>3. ASSUME NEW t \in Task, NEW F \in SUBSET File, DeleteFiles(t, F)
          PROVE  FALSE
      BY <2>3 DEF DeleteFiles, Release
    <2>4. ASSUME NEW t \in Task, NEW g \in File, ModerateDelete(t, g)
          PROVE  FALSE
      BY <2>4 DEF ModerateDelete, Release
    <2>5. CASE Environment
      BY <2>5 DEF Environment, ModerateDeleted, ModerateState, SetExpiry, Tick, LateDelete,
         LiveStates, Releasable, TypeOK
    <2>6. ASSUME NEW t \in Task, TaskStep(t) PROVE f \in Expired
      <3>1. CASE \/ MutationBegin(t) \/ CheckExists(t) \/ PutObject(t) \/ UploadFail(t)
                 \/ ThumbnailCommit(t) \/ ImportPut(t) \/ ImportCommit(t)
                 \/ CleanupCheck(t) \/ CleanupDelete(t) \/ CleanupCommit(t)
                 \/ CleanupFail(t) \/ JobSelect(t)
        BY <3>1 DEF MutationBegin, CheckExists, PutObject, UploadFail, ThumbnailCommit,
           ImportPut, ImportCommit, CleanupCheck, CleanupDelete, CleanupCommit, CleanupFail,
           JobSelect
      <3> QED  BY <2>1, <2>2, <2>6, <3>1 DEF TaskStep
    <2>7. ASSUME NEW t \in Task, TaskStart(t) \/ Drop(t) \/ DropDelete(t) PROVE FALSE
      <3>1. CASE \/ JobStart(t) \/ Drop(t) \/ DropDelete(t)
                 \/ \E g \in File, h \in Hash : UploadStart(t, g, h)
                 \/ \E g \in File, h \in Thumbnail : ThumbnailStart(t, g, h)
                 \/ \E h \in Importable : ImportStart(t, h)
        BY <3>1 DEF JobStart, Drop, DropDelete, UploadStart, ThumbnailStart, ImportStart
      <3> QED  BY <2>3, <2>4, <2>7, <3>1 DEF TaskStart
    <2>8. CASE UNCHANGED vars
      BY <2>8 DEF vars
    <2> QED  BY <2>5, <2>6, <2>7, <2>8 DEF Next
  <1>2. Init => TypeOK /\ NamesOK
    BY InitCounts DEF CountInvariant
  <1> QED  BY <1>1, <1>2, StepType, PTL DEF Spec, ExpiryReadAgain

-----------------------------------------------------------------------------
(* OneStorageTaskPerProcess: whoever needs the quota lock of a process has it. *)

\* The guard on the lock goes back with the handler that held it.
QuotaLockGoes(t) ==
    quotaLock' = [p \in Process |-> IF quotaLock[p] = t THEN NoTask ELSE quotaLock[p]]

\* A step takes the lock when it is free or its own, gives it back at the end, or
\* leaves it alone and the task as much in need of it as before.
LEMMA QuotaLockMoves ==
    ASSUME TypeOK, NEW t \in Task, Acts(t)
    PROVE  \/ TakeQuotaLock(t) /\ (QuotaLockFree(t) \/ pc[t] \in StorageSteps)
           \/ QuotaLockGoes(t) /\ pc'[t] = "idle"
           \/ UNCHANGED quotaLock /\ (pc'[t] \in StorageSteps => pc[t] \in StorageSteps)
  <1> USE DEF Goto, TypeOK, StorageSteps, UploadSteps, CleanupSteps
  <1>1. CASE Return(t)
    BY <1>1 DEF Return, QuotaLockGoes
  <1>2. ASSUME NEW H, CleanUp(t, H), QuotaLockFree(t) \/ pc[t] \in StorageSteps
        PROVE  \/ TakeQuotaLock(t) /\ (QuotaLockFree(t) \/ pc[t] \in StorageSteps)
               \/ QuotaLockGoes(t) /\ pc'[t] = "idle"
    BY <1>2 DEF CleanUp, Return, QuotaLockGoes
  <1>3. CASE \/ CheckExists(t) \/ PutObject(t) \/ ImportPut(t) \/ CleanupDelete(t)
             \/ \E f \in File : JobExpire(t, f)
             \/ \E f \in File, h \in Thumbnail : ThumbnailStart(t, f, h)
             \/ \E h \in Importable : ImportStart(t, h)
    BY <1>3, ZenonT(60) DEF CheckExists, PutObject, ImportPut, CleanupDelete, JobExpire,
       ThumbnailStart, ImportStart
  <1>4. CASE MutationBegin(t)
    BY <1>4 DEF MutationBegin, Begun, BeginSteps
  <1>5. CASE JobStart(t) \/ \E f \in File, h \in Hash : UploadStart(t, f, h)
    BY <1>5 DEF JobStart, UploadStart
  <1>6. CASE \/ ThumbnailCommit(t) \/ ImportCommit(t) \/ Drop(t) \/ DropDelete(t)
             \/ \E s \in Releasable : UploadCommit(t, s)
    BY <1>1, <1>6 DEF ThumbnailCommit, ImportCommit, Drop, DropDelete, UploadCommit
  <1>7. CASE \/ \E s \in Releasable : UploadCommitUnknown(t, s)
             \/ UploadFail(t) \/ CleanupCommit(t) \/ CleanupFail(t) \/ JobSelect(t)
    BY <1>2, <1>7 DEF UploadCommitUnknown, UploadFail, Compensate, CleanupCommit,
       CleanupFail, JobSelect
  <1>8. CASE \/ \E F \in (SUBSET File) \ {{}} : DeleteFiles(t, F)
             \/ \E f \in File : ModerateDelete(t, f)
    BY <1>2, <1>8 DEF DeleteFiles, ModerateDelete
  <1>9. CASE CleanupCheck(t)
    BY <1>2, <1>9 DEF CleanupCheck
  <1> QED  BY <1>3, <1>4, <1>5, <1>6, <1>7, <1>8, <1>9 DEF Acts, TaskStep, TaskStart

LEMMA QuotaLockStep ==
    TypeOK /\ NamesOK /\ QuotaLockHeld /\ [Next]_vars => QuotaLockHeld'
  <1> SUFFICES ASSUME TypeOK, NamesOK, QuotaLockHeld, [Next]_vars,
                      NEW u \in Task, pc'[u] \in StorageSteps
               PROVE  quotaLock'[ProcessOf[u]] = u
    BY DEF QuotaLockHeld
  <1>1. ProcessOf[u] \in Process /\ u # NoTask
    BY BlobStoreAssumption
  <1>2. "idle" \notin StorageSteps
    BY DEF StorageSteps, UploadSteps, CleanupSteps
  <1>3. CASE Acts(u)
    <2>1. CASE TakeQuotaLock(u)
      BY <1>1, <2>1 DEF TakeQuotaLock, TypeOK
    <2>2. CASE UNCHANGED quotaLock /\ (pc'[u] \in StorageSteps => pc[u] \in StorageSteps)
      BY <2>2 DEF QuotaLockHeld
    <2> QED  BY <1>2, <1>3, QuotaLockMoves, <2>1, <2>2
  <1>4. ASSUME NEW t \in Task \ {u}, Acts(t)
        PROVE  quotaLock'[ProcessOf[u]] = u
    <2>1. pc[u] \in StorageSteps /\ quotaLock[ProcessOf[u]] = u
      BY <1>4, OthersStay DEF QuotaLockHeld
    <2>2. CASE TakeQuotaLock(t) /\ (QuotaLockFree(t) \/ pc[t] \in StorageSteps)
      <3>1. ProcessOf[t] # ProcessOf[u]
        BY <1>1, <2>1, <2>2 DEF QuotaLockFree, QuotaLockHeld
      <3> QED  BY <1>1, <2>1, <2>2, <3>1 DEF TakeQuotaLock, TypeOK
    <2>3. CASE QuotaLockGoes(t)
      BY <1>1, <2>1, <2>3 DEF QuotaLockGoes
    <2> QED  BY <1>4, QuotaLockMoves, <2>1, <2>2, <2>3
  <1>5. CASE Environment \/ UNCHANGED vars
    <2>1. UNCHANGED <<pc, quotaLock>>
      BY <1>5 DEF Environment, ModerateDeleted, ModerateState, SetExpiry, Tick, LateDelete,
         vars
    <2> QED  BY <2>1 DEF QuotaLockHeld
  <1> QED  BY <1>3, <1>4, <1>5 DEF Next, Acts

\* upload_quota_lock does what its comment says: within a process no upload runs
\* beside a clean-up or an expiry pass, failures and dropped handlers included.
THEOREM StorageTasksTakeTurns == Spec => []OneStorageTaskPerProcess
  <1>1. Init => TypeOK /\ NamesOK /\ QuotaLockHeld
    BY InitCounts DEF CountInvariant, Init, QuotaLockHeld, StorageSteps, UploadSteps,
       CleanupSteps
  <1>2. TypeOK /\ NamesOK /\ QuotaLockHeld /\ [Next]_vars
            => TypeOK' /\ NamesOK' /\ QuotaLockHeld'
    BY StepType, QuotaLockStep
  <1>3. QuotaLockHeld => OneStorageTaskPerProcess
    BY DEF QuotaLockHeld, OneStorageTaskPerProcess
  <1> QED  BY <1>1, <1>2, <1>3, PTL DEF Spec

-----------------------------------------------------------------------------
(* OrphanHasOwner: without faults, late deletes and imports an object is put *)
(* and a row removed only by a task that will make up for it.                *)

\* Who is about to dispose of a hash does so, or hands it to its own clean-up.
LEMMA DisposalGoesOn ==
    ASSUME StoreInvariant, ~Faults, ~LateDeletes, NEW t \in Task, Acts(t),
           NEW h \in Hash, Disposes(t, h), h \notin rows', h \in objects'
    PROVE  Disposes(t, h)'
  <1> USE DEF Disposes, Goto, TypeOK
  <1>0. TypeOK /\ RefCountExact
    BY DEF StoreInvariant, CountInvariant
  <1>1. CASE \/ ThumbnailCommit(t)
             \/ \E s \in Releasable : UploadCommit(t, s)
    BY <1>1 DEF ThumbnailCommit, UploadCommit, Publish
  <1>2. CASE UploadFail(t)
    <2>1. pc[t] = "u_commit" /\ ~existed[t] /\ hash[t] = h
      BY <1>2 DEF UploadFail
    <2>2. CleanUp(t, {h})
      BY <1>2, <2>1 DEF UploadFail, Compensate
    <2>3. pc'[t] = "c_begin" /\ hash'[t] = h
      BY <1>0, <2>2 DEF CleanUp
    <2> QED  BY <2>3
  <1>3. CASE MutationBegin(t)
    BY <1>0, <1>3 DEF MutationBegin, Begun, BeginSteps
  <1>4. CASE CleanupCheck(t)
    <2>1. CASE Unreferenced(hash[t]) /\ Goto(t, "c_delete") /\ UNCHANGED hash
      BY <1>0, <2>1
    <2>2. CASE ~Unreferenced(hash[t])
      <3>1. hash[t] = h /\ h \notin rows
        BY <1>4 DEF CleanupCheck
      <3>2. PICK f \in File : f \in Refs(h) \/ f \in ThumbRefs(h)
        BY <2>2, <3>1 DEF Unreferenced, Refs, ThumbRefs
      <3>3. f \in Refs(h) => h \in rows
        BY DEF Refs, StoreInvariant, NoDanglingReference
      <3>4. f \in ThumbRefs(h) => h \in rows
        BY BlobStoreAssumption DEF ThumbRefs, StoreInvariant, NoDanglingReference
      <3> QED  BY <3>1, <3>2, <3>3, <3>4
    <2> QED  BY <1>4, <2>1, <2>2 DEF CleanupCheck
  <1>5. CASE CleanupDelete(t)
    BY <1>5 DEF CleanupDelete
  <1>6. CASE \/ CheckExists(t) \/ PutObject(t) \/ ImportPut(t) \/ ImportCommit(t)
             \/ CleanupCommit(t) \/ CleanupFail(t) \/ Drop(t) \/ DropDelete(t)
             \/ JobSelect(t) \/ JobStart(t)
             \/ \E s \in Releasable : UploadCommitUnknown(t, s)
             \/ \E f \in File : JobExpire(t, f) \/ ModerateDelete(t, f)
             \/ \E f \in File, g \in Hash : UploadStart(t, f, g)
             \/ \E f \in File, g \in Thumbnail : ThumbnailStart(t, f, g)
             \/ \E g \in Importable : ImportStart(t, g)
             \/ \E F \in (SUBSET File) \ {{}} : DeleteFiles(t, F)
    <2>1. pc[t] \notin {"u_commit", "t_commit", "c_begin", "c_check", "c_delete"}
      BY <1>6 DEF CheckExists, PutObject, ImportPut, ImportCommit, CleanupCommit,
         CleanupFail, Drop, DropDelete, JobSelect, JobStart, UploadCommitUnknown, JobExpire,
         ModerateDelete, UploadStart, ThumbnailStart, ImportStart, DeleteFiles
    <2> QED  BY <2>1
  <1> QED  BY <1>1, <1>2, <1>3, <1>4, <1>5, <1>6 DEF Acts, TaskStep, TaskStart

\* An object that was not there before is put by the task that will commit it.
LEMMA ObjectComes ==
    ASSUME StoreInvariant, OrphansHandled, ~LateDeletes, [Next]_vars,
           NEW h \in objects', h \notin objects
    PROVE  \E t \in Task : PutObject(t) /\ hash[t] = h /\ Disposes(t, h)'
  <1>0. TypeOK /\ lateDeletes = {} /\ (\A t \in Task : pc[t] \notin ImportSteps)
    BY DEF StoreInvariant, CountInvariant, OrphansHandled
  <1>1. ASSUME NEW t \in Task, PutObject(t)
        PROVE  PutObject(t) /\ hash[t] = h /\ Disposes(t, h)'
    BY <1>0, <1>1 DEF PutObject, Disposes, Goto, TypeOK
  <1>2. ASSUME NEW t \in Task, TaskStep(t), ~PutObject(t) PROVE FALSE
    <2>1. ~ImportPut(t)
      BY <1>0 DEF ImportPut, ImportSteps
    <2> QED
      BY <1>2, <2>1 DEF TaskStep, MutationBegin, CheckExists, UploadCommit,
       UploadCommitUnknown, UploadFail, Publish, ThumbnailCommit, ImportCommit,
       CleanupCheck, CleanupDelete, CleanupCommit, CleanupFail, JobExpire, Release, JobSelect
  <1>3. ASSUME NEW t \in Task, TaskStart(t) \/ Drop(t) \/ DropDelete(t)
        PROVE  FALSE
    BY <1>3 DEF TaskStart, UploadStart, ThumbnailStart, ImportStart, DeleteFiles,
       ModerateDelete, JobStart, Release, Drop, DropDelete
  <1>4. ~Environment
    BY <1>0 DEF Environment, ModerateDeleted, ModerateState, SetExpiry, Tick, LateDelete
  <1> QED  BY <1>1, <1>2, <1>3, <1>4 DEF Next, vars

\* A row that goes is the one whose object its clean-up has just deleted.
LEMMA RowGoes ==
    ASSUME StoreInvariant, OrphansHandled, ~LateDeletes, [Next]_vars,
           NEW h \in rows, h \notin rows'
    PROVE  h \notin objects'
  <1>1. TypeOK /\ lateDeletes = {}
    BY DEF StoreInvariant, CountInvariant
  <1>2. PICK t \in Task : CleanupCommit(t)
    BY <1>1, StoreStep
  <1> QED  BY <1>2 DEF CleanupCommit, OrphansHandled

\* A clean-up that is about to commit has deleted the object, and it stays so.
LEMMA DeletedStays ==
    ASSUME StoreInvariant, OrphansHandled, ~LateDeletes, Importable = {}, [Next]_vars,
           NEW t \in Task, pc'[t] = "c_commit"
    PROVE  hash'[t] \notin objects'
  <1> USE DEF Goto
  <1>1. TypeOK /\ NamesOK /\ LockHeld
    BY DEF StoreInvariant, CountInvariant
  <1>2. CASE pc[t] = "c_commit" /\ hash'[t] = hash[t]
    <2>1. hash[t] \notin objects
      BY <1>2 DEF OrphansHandled
    <2>2. ASSUME hash[t] \in objects' PROVE FALSE
      <3>1. PICK u \in Task : PutObject(u) /\ hash[u] = hash[t]
        BY <2>1, <2>2, ObjectComes
      <3>2. u # t /\ pc[u] \in MutationSteps /\ pc[t] \in MutationSteps
        BY <1>2, <3>1 DEF PutObject, MutationSteps, UploadSteps, ThumbnailSteps,
           CleanupSteps, BeginSteps
      <3> QED  BY <1>1, <3>1, <3>2, MutualExclusion
    <2> QED  BY <1>2, <2>2
  <1>3. CASE CleanupDelete(t)
    BY <1>3 DEF CleanupDelete
  <1>4. ASSUME Acts(t), ~CleanupDelete(t) PROVE FALSE
    <2> USE <1>1 DEF TypeOK
    <2>1. CASE \/ \E H : CleanUp(t, H)
               \/ Return(t)
      BY <2>1, CleanUpMoves DEF Return
    <2>2. CASE MutationBegin(t) \/ CheckExists(t) \/ PutObject(t) \/ ImportPut(t)
      BY <2>2 DEF MutationBegin, Begun, BeginSteps, CheckExists, PutObject, ImportPut
    <2>3. CASE \/ JobStart(t)
               \/ \E f \in File : JobExpire(t, f)
               \/ \E f \in File, h \in Hash : UploadStart(t, f, h)
               \/ \E f \in File, h \in Thumbnail : ThumbnailStart(t, f, h)
               \/ \E h \in Importable : ImportStart(t, h)
      BY <2>3 DEF JobStart, JobExpire, UploadStart, ThumbnailStart, ImportStart
    <2>4. CASE \/ ThumbnailCommit(t) \/ ImportCommit(t) \/ Drop(t) \/ DropDelete(t)
               \/ \E s \in Releasable : UploadCommit(t, s)
      BY <2>1, <2>4 DEF ThumbnailCommit, ImportCommit, Drop, DropDelete, UploadCommit
    <2>5. CASE \/ \E s \in Releasable : UploadCommitUnknown(t, s)
               \/ UploadFail(t) \/ CleanupCommit(t) \/ CleanupFail(t) \/ JobSelect(t)
               \/ \E F \in (SUBSET File) \ {{}} : DeleteFiles(t, F)
               \/ \E f \in File : ModerateDelete(t, f)
      BY <2>1, <2>5 DEF UploadCommitUnknown, UploadFail, Compensate, CleanupCommit,
         CleanupFail, JobSelect, DeleteFiles, ModerateDelete
    <2>6. CASE CleanupCheck(t)
      BY <2>1, <2>6 DEF CleanupCheck
    <2> QED  BY <1>4, <2>2, <2>3, <2>4, <2>5, <2>6 DEF Acts, TaskStep, TaskStart
  <1>5. ASSUME NEW u \in Task \ {t}, Acts(u) PROVE pc[t] = "c_commit" /\ hash'[t] = hash[t]
    BY <1>1, <1>5, OthersStay
  <1>6. CASE Environment \/ UNCHANGED vars
    <2>1. UNCHANGED <<pc, hash>>
      BY <1>6 DEF Environment, ModerateDeleted, ModerateState, SetExpiry, Tick, LateDelete,
         vars
    <2> QED  BY <1>2, <2>1
  <1> QED  BY <1>2, <1>3, <1>4, <1>5, <1>6 DEF Next, Acts

\* No task is inside an import when there is nothing to import.
LEMMA NoImportsStart ==
    ASSUME TypeOK, NamesOK, Importable = {}, [Next]_vars,
           \A t \in Task : pc[t] \notin ImportSteps, NEW t \in Task
    PROVE  pc'[t] \notin ImportSteps
  <1> USE DEF Goto, TypeOK, ImportSteps
  <1>1. ASSUME Acts(t) PROVE pc'[t] \notin ImportSteps
    <2>1. CASE \/ \E H : CleanUp(t, H)
               \/ Return(t)
      BY <2>1, CleanUpMoves DEF Return
    <2>2. CASE MutationBegin(t) \/ CheckExists(t) \/ PutObject(t) \/ CleanupDelete(t)
      BY <2>2 DEF MutationBegin, Begun, BeginSteps, CheckExists, PutObject, CleanupDelete
    <2>3. CASE \/ ImportPut(t) \/ JobStart(t)
               \/ \E f \in File : JobExpire(t, f)
               \/ \E f \in File, h \in Hash : UploadStart(t, f, h)
               \/ \E f \in File, h \in Thumbnail : ThumbnailStart(t, f, h)
               \/ \E h \in Importable : ImportStart(t, h)
      BY <2>3 DEF ImportPut, JobStart, JobExpire, UploadStart, ThumbnailStart
    <2>4. CASE \/ ThumbnailCommit(t) \/ ImportCommit(t) \/ Drop(t) \/ DropDelete(t)
               \/ \E s \in Releasable : UploadCommit(t, s)
      BY <2>1, <2>4 DEF ThumbnailCommit, ImportCommit, Drop, DropDelete, UploadCommit
    <2>5. CASE \/ \E s \in Releasable : UploadCommitUnknown(t, s)
               \/ UploadFail(t) \/ CleanupCommit(t) \/ CleanupFail(t) \/ JobSelect(t)
               \/ \E F \in (SUBSET File) \ {{}} : DeleteFiles(t, F)
               \/ \E f \in File : ModerateDelete(t, f)
      BY <2>1, <2>5 DEF UploadCommitUnknown, UploadFail, Compensate, CleanupCommit,
         CleanupFail, JobSelect, DeleteFiles, ModerateDelete
    <2>6. CASE CleanupCheck(t)
      BY <2>1, <2>6 DEF CleanupCheck
    <2> QED  BY <1>1, <2>2, <2>3, <2>4, <2>5, <2>6 DEF Acts, TaskStep, TaskStart
  <1>2. ASSUME NEW u \in Task \ {t}, Acts(u) PROVE pc'[t] = pc[t]
    BY <1>2, OthersStay
  <1>3. CASE Environment \/ UNCHANGED vars
    BY <1>3 DEF Environment, ModerateDeleted, ModerateState, SetExpiry, Tick, LateDelete, vars
  <1> QED  BY <1>1, <1>2, <1>3 DEF Next, Acts

LEMMA OrphansStep ==
    StoreInvariant /\ OrphansHandled /\ ~Faults /\ ~LateDeletes /\ Importable = {}
        /\ [Next]_vars => OrphansHandled'
  <1> SUFFICES ASSUME StoreInvariant, OrphansHandled, ~Faults, ~LateDeletes,
                      Importable = {}, [Next]_vars
               PROVE  OrphansHandled'
    OBVIOUS
  <1>1. TypeOK /\ NamesOK
    BY DEF StoreInvariant, CountInvariant
  <1>2. ASSUME NEW h \in objects', h \notin rows'
        PROVE  \E t \in Task : Disposes(t, h)'
    <2>1. h \in Hash
      BY <1>1, <1>2, StepType DEF TypeOK
    <2>2. CASE h \notin objects
      BY <1>2, <2>2, ObjectComes
    <2>3. CASE h \in objects
      <3>1. h \notin rows
        BY <1>2, RowGoes
      <3>2. PICK t \in Task : Disposes(t, h)
        BY <2>3, <3>1 DEF OrphansHandled
      <3>3. CASE Acts(t)
        BY <1>2, <2>1, <3>2, <3>3, DisposalGoesOn
      <3>4. ASSUME NEW u \in Task \ {t}, Acts(u) PROVE Disposes(t, h)'
        BY <1>1, <3>2, <3>4, OthersStay DEF Disposes
      <3>5. CASE Environment \/ UNCHANGED vars
        <4>1. UNCHANGED <<pc, hash, existed>>
          BY <3>5 DEF Environment, ModerateDeleted, ModerateState, SetExpiry, Tick,
             LateDelete, vars
        <4> QED  BY <3>2, <4>1 DEF Disposes
      <3> QED  BY <3>3, <3>4, <3>5 DEF Next, Acts
    <2> QED  BY <2>2, <2>3
  <1>3. \A t \in Task : pc'[t] = "c_commit" => hash'[t] \notin objects'
    BY DeletedStays
  <1>4. \A t \in Task : pc'[t] \notin ImportSteps
    BY <1>1, NoImportsStart DEF OrphansHandled
  <1> QED  BY <1>2, <1>3, <1>4 DEF OrphansHandled

\* Nothing leaks as long as nothing fails and nothing is imported: whenever the
\* store holds an object no row names, a task is about to insert the row or to
\* remove the object, however many tasks, files and hashes there are.
THEOREM OrphansAreOwned ==
    ASSUME ~Faults, ~LateDeletes, Importable = {}
    PROVE  Spec => []OrphanHasOwner
  <1>1. Init => StoreInvariant /\ OrphansHandled
    BY StoreInvariantHolds DEF Init, OrphansHandled, ImportSteps
  <1>2. StoreInvariant /\ OrphansHandled /\ [Next]_vars
            => StoreInvariant' /\ OrphansHandled'
    BY StoreInvariantHolds, OrphansStep
  <1>3. OrphansHandled => OrphanHasOwner
    BY DEF OrphansHandled, OrphanHasOwner, Disposes
  <1> QED  BY <1>1, <1>2, <1>3, PTL DEF Spec
=============================================================================
