----------------------------- MODULE Housekeeping -----------------------------
(***************************************************************************)
(* A server that takes uploads and runs the passes of the job: a pass      *)
(* sweeps the scratch files of uploads (Jobs, Scratch), and all of them    *)
(* end with the process.                                                   *)
(***************************************************************************)
EXTENDS Jobs, Scratch

housekeepingVars == <<jobsVars, scratchVars>>

HousekeepingInit == JobsInit /\ ScratchInit

SweepPass(r) == SweepDone(r) /\ SweepScratch
OtherPass(r) == PassStep(r) /\ UNCHANGED scratchVars
Kill         == KillServer /\ KillUploads
Run          == StartServer /\ UNCHANGED scratchVars
UploadMoves  == up /\ ScratchNext /\ UNCHANGED jobsVars
ScrapAges    == \E n \in Scrap : GetOld(n) /\ UNCHANGED jobsVars
FilesMove    == \/ up /\ UploadImage /\ UNCHANGED scratchVars
                \/ FallDueAgain /\ UNCHANGED scratchVars
                \/ \E f \in Uploads : (Retire(f) \/ LoseObject(f)) /\ UNCHANGED scratchVars
Passes       == \E r \in Runner : SweepPass(r) \/ OtherPass(r)

HousekeepingNext == Passes \/ Kill \/ Run \/ UploadMoves \/ ScrapAges \/ FilesMove
HousekeepingSpec == HousekeepingInit /\ [][HousekeepingNext]_housekeepingVars

\* The loop goes on while the server runs, and time passes.
HousekeepingFairness ==
    /\ WF_housekeepingVars(SweepPass(Loop) \/ OtherPass(Loop))
    /\ \A n \in Scrap : WF_housekeepingVars(GetOld(n) /\ UNCHANGED jobsVars)

-----------------------------------------------------------------------------
\* What was abandoned is reclaimed while the server runs, whatever else its passes run
\* into: the sweep comes before anything that reads an object (run_pass, jobs.rs:60).
ScratchReclaimed ==
    \A n \in Scrap : (up /\ left[n] # NoScrap) ~> (left[n] = NoScrap \/ ~up)

\* A file that can have a thumbnail gets one, unless it leaves the active ones, a
\* file the passes look at has lost its object, or older files that can have none
\* fill the selection of every pass (files_needing_processing, jobs.rs:157).
ImageProcessed ==
    \A f \in Uploads :
        (up /\ f \in NeedingProcessing /\ row[f].image = "decodes")
            ~> (f \notin NeedingProcessing \/ Stuck \/ CrowdedOut(f) \/ ~up)

\* A verification that is due takes place, unless a file whose object is missing is
\* still to be scanned or processed: the pass it ends is the one that would report
\* it (run_pass, jobs.rs:60).
VerifyRuns == (up /\ due) ~> (~due \/ Stuck \/ ~up)
=============================================================================
