--------------------------------- MODULE Jobs ---------------------------------
(***************************************************************************)
(* The passes of the background job (jobs.rs): the loop of a process and   *)
(* the ones an administrator or the operator starts by hand.               *)
(*                                                                         *)
(* A pass expires, sweeps scratch files, scans again, processes images and *)
(* compares rows with objects, in this order; the first error ends it, and *)
(* what came after has to wait for a pass without one.  BlobStore has what *)
(* expiring and attaching a thumbnail do to blobs.                         *)
(***************************************************************************)
EXTENDS Naturals, SequencesExt, TLC

CONSTANTS Runner, Loop,     \* who runs passes; Loop is the one of the server itself
          MaxUpload,        \* bound: files ever uploaded, numbered by created_at
          MaxLost,          \* bound: objects that vanish from the store
          RetryLimit,       \* jobs.scanner_retry_limit
          MetadataLimit,    \* jobs.metadata_limit
          OnError,          \* scanning.default_on_error, as the state it leads to
          NoFile

Uploads == 1..MaxUpload
Shown   == {"active", "quarantined"}

ASSUME JobsAssumption ==
    /\ Loop \in Runner /\ MaxUpload \in Nat /\ MaxLost \in Nat
    /\ RetryLimit \in Nat \ {0} /\ MetadataLimit \in Nat \ {0} /\ OnError \in Shown

VARIABLES row,   \* row[f]: the file, or NoFile
          job,   \* job[r]: how far the pass of r is
          up,    \* the server runs
          due    \* the loop is to verify the storage again

jobsVars == <<row, job, up, due>>

\* "refused": a thumbnail of it is never made.  It can be a bomb or a torn file.
Row == [state : Shown \cup {"gone"}, image : {"decodes", "refused"},
        verdict : {"ok", "failed"}, metadata : BOOLEAN, thumbnail : BOOLEAN, object : BOOLEAN]
Resting == [at |-> "idle", todo |-> <<>>, verify |-> FALSE]

JobsInit == /\ row = [f \in Uploads |-> NoFile] /\ job = [r \in Runner |-> Resting]
            /\ up = FALSE /\ due = FALSE

Here   == {f \in Uploads : row[f] # NoFile}
Lost   == {f \in Here : row[f].state # "gone" /\ ~row[f].object}
Change(f, new) == row' = [row EXCEPT ![f] = new @@ @]
Step(r, at, todo) == job' = [job EXCEPT ![r].at = at, ![r].todo = todo]
EndPass(r) == job' = [job EXCEPT ![r] = Resting]

-----------------------------------------------------------------------------
\* What uploads, owners, moderators and the store do meanwhile.  Metadata is read
\* at the upload, if that was on.
UploadImage ==
    \E f \in Uploads, image \in {"decodes", "refused"}, failed \in BOOLEAN, metadata \in BOOLEAN :
        /\ Here = 1..(f - 1)
        /\ row' = [row EXCEPT ![f] =
               [state |-> IF failed THEN OnError ELSE "active", image |-> image,
                verdict |-> IF failed THEN "failed" ELSE "ok", metadata |-> metadata,
                thumbnail |-> FALSE, object |-> TRUE]]
        /\ UNCHANGED <<job, up, due>>

\* The object goes with the file, unless another file has the same bytes.
Retire(f) == /\ f \in Here /\ row[f].state # "gone"
             /\ \E kept \in {row[f].object, FALSE} :
                    Change(f, [state |-> "gone", object |-> kept])
             /\ UNCHANGED <<job, up, due>>

LoseObject(f) == /\ f \in Here \ Lost /\ row[f].state # "gone" /\ Cardinality(Lost) < MaxLost
                 /\ Change(f, [object |-> FALSE])
                 /\ UNCHANGED <<job, up, due>>

-----------------------------------------------------------------------------
\* The first rows of a selection, as they are now: they may change before their turn.
Copies(files, limit) ==
    [i \in 1..(IF limit < Len(files) THEN limit ELSE Len(files)) |->
        [file |-> files[i]] @@ row[files[i]]]
Oldest(S) == SetToSortSeq(S, <)

\* scanner_retry_file_candidates
NeedingScan == {f \in Here : row[f].state \in Shown /\ row[f].verdict = "failed"}

\* files_needing_processing: ORDER BY created_at ASC LIMIT ?
NeedingProcessing ==
    {f \in Here : row[f].state = "active" /\ ~(row[f].metadata /\ row[f].thumbnail)}
\* Mutant: the youngest come first.
SelectYoungest   == Copies(Reverse(Oldest(NeedingProcessing)), MetadataLimit)
SelectProcessing == Copies(Oldest(NeedingProcessing), MetadataLimit)

\* spawn, and the process dies: the time of the last verification is in its memory.
StartServer == ~up /\ up' = TRUE /\ due' = TRUE /\ UNCHANGED <<row, job>>
KillServer  == up /\ up' = FALSE /\ due' = FALSE
               /\ job' = [r \in Runner |-> Resting] /\ UNCHANGED row

\* storage_verify_interval_seconds pass.
FallDueAgain == up /\ ~due /\ due' = TRUE /\ UNCHANGED <<row, job, up>>

\* run_pass: cleanup_expired is BlobStore's.  By hand, a pass verifies every time.
StartPass(r) == /\ up /\ job[r].at = "idle"
                /\ job' = [job EXCEPT ![r] = [at |-> "sweep", todo |-> <<>>,
                                              verify |-> r # Loop \/ due]]
                /\ UNCHANGED <<row, up, due>>

\* cleanup_temp_files is SweepScratch of Scratch, in the same step in Housekeeping.
SweepDone(r) == /\ job[r].at = "sweep"
                /\ Step(r, "retry", Copies(Oldest(NeedingScan), RetryLimit))
                /\ UNCHANGED <<row, up, due>>

\* retry_scanners: the object must be there; then the verdict, and the state if it
\* is another one than was read, unless the file is gone by now.
RetryScan(r) ==
    /\ job[r].at = "retry" /\ job[r].todo # <<>>
    /\ LET c == Head(job[r].todo) IN
       IF ~row[c.file].object
       THEN EndPass(r) /\ UNCHANGED row
       ELSE /\ Step(r, "retry", Tail(job[r].todo))
            /\ \E decision \in {"active", "quarantined", "failed"} :
                   LET verdict == IF decision = "failed" THEN "failed" ELSE "ok"
                       state   == IF decision = "failed" THEN OnError ELSE decision
                   IN Change(c.file, [verdict |-> verdict,
                                      state |-> IF c.state # state /\ row[c.file].state # "gone"
                                                THEN state ELSE row[c.file].state])
    /\ UNCHANGED <<up, due>>

RetryDone(r) == /\ job[r].at = "retry" /\ job[r].todo = <<>>
                /\ Step(r, "process", SelectProcessing)
                /\ UNCHANGED <<row, up, due>>

\* attach_thumbnail and update_file_metadata: COALESCE, and a thumbnail only for a
\* file that is still shown and has none.
Processed(c) == [metadata |-> TRUE,
                 thumbnail |-> \/ row[c.file].thumbnail
                               \/ /\ ~c.thumbnail /\ c.image = "decodes"
                                  /\ row[c.file].state = "active"]

\* Mutant: an image nothing can be derived from is an error, and ends the pass.
ProcessDecodable(r) ==
    /\ job[r].at = "process" /\ job[r].todo # <<>>
    /\ LET c == Head(job[r].todo) IN
       IF ~row[c.file].object \/ c.image = "refused"
       THEN EndPass(r) /\ UNCHANGED row
       ELSE Step(r, "process", Tail(job[r].todo)) /\ Change(c.file, Processed(c))
    /\ UNCHANGED <<up, due>>

\* process_file_metadata: get_blob(...).await? ends the pass.
ProcessImage(r) ==
    /\ job[r].at = "process" /\ job[r].todo # <<>>
    /\ LET c == Head(job[r].todo) IN
       IF ~row[c.file].object
       THEN EndPass(r) /\ UNCHANGED row
       ELSE Step(r, "process", Tail(job[r].todo)) /\ Change(c.file, Processed(c))
    /\ UNCHANGED <<up, due>>

\* verify_storage counts what differs; the loop notes the time only if all went well.
FinishPass(r) == /\ job[r].at = "process" /\ job[r].todo = <<>>
                 /\ due' = (due /\ ~(r = Loop /\ job[r].verify))
                 /\ EndPass(r) /\ UNCHANGED <<row, up>>

\* All but the sweep.
PassStep(r) == StartPass(r) \/ RetryScan(r) \/ RetryDone(r)
               \/ ProcessImage(r) \/ FinishPass(r)

-----------------------------------------------------------------------------
\* The passes end at the same file again and again.
Stuck == \E f \in NeedingScan \cup NeedingProcessing : ~row[f].object

\* So many older files that never become ready that no younger one is selected.
CrowdedOut(f) == Cardinality({g \in NeedingProcessing : g < f /\ row[g].image = "refused"})
                     >= MetadataLimit
=============================================================================
