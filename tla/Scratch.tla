------------------------------- MODULE Scratch -------------------------------
(***************************************************************************)
(* Scratch files: where an upload keeps its bytes until they are an object *)
(* (web/upload.rs), and where the background scan puts an object for a     *)
(* command to read (scanner.rs).                                           *)
(*                                                                         *)
(* A file of the form is the request's own only once it was received; the  *)
(* file of a fetched URL is guarded from the start; what a stripper writes *)
(* is guarded only when it replaces the upload.  What nobody holds any     *)
(* more is removed by age alone, by the job (jobs.rs).  Names are drawn    *)
(* anew for every file, so no two writers meet.                            *)
(***************************************************************************)
EXTENDS Naturals, FiniteSets

CONSTANTS Upload,      \* requests that upload
          Scrap,       \* names of scratch files
          NoScrap

\* Why a file was left behind; NoScrap says that it was not.
Reasons == {"form", "strip", "scan", "killed"}

ASSUME ScratchAssumption == NoScrap \notin Scrap \cup Reasons

VARIABLES disk,    \* disk[n]: "none", or a file that is "fresh" or, unwritten for long, "stale"
          holds,   \* holds[u]: what request u is at, its upload and what it writes
          scan,    \* the file of the scan a pass is at
          left     \* history, left[n]: how the file came to be nobody's, or NoScrap

scratchVars == <<disk, holds, scan, left>>

Away == [at |-> "away", upload |-> NoScrap, out |-> NoScrap]

ScratchInit == /\ disk = [n \in Scrap |-> "none"] /\ holds = [u \in Upload |-> Away]
               /\ scan = NoScrap /\ left = [n \in Scrap |-> NoScrap]

Unused == {n \in Scrap : /\ disk[n] = "none" /\ n # scan
                         /\ \A u \in Upload : n \notin {holds[u].upload, holds[u].out}}

\* A name nobody has used.
NewScrap == CHOOSE n \in Unused : TRUE

At(u, at)         == holds[u].at = at
Go(u, new)        == holds' = [holds EXCEPT ![u] = new]
Disk(gone, added) == disk' = [n \in Scrap |-> IF n \in added THEN "fresh"
                                              ELSE IF n \in gone THEN "none" ELSE disk[n]]

\* The files in S are nobody's, if they are still there; those in `gone` are removed.
Abandon(S, gone, why) ==
    left' = [n \in Scrap |-> IF n \in S /\ n \notin gone /\ disk[n] # "none" THEN why
                             ELSE IF n \in gone THEN NoScrap ELSE left[n]]

\* Nothing is abandoned, and the files in `gone` are removed.
Clear(gone, added) == Disk(gone, added) /\ Abandon({}, gone, "nobody") /\ UNCHANGED scan

-----------------------------------------------------------------------------
\* read_upload_form: a field named "file", the first or one more; create_upload_temp.
ReceiveFile(u) == /\ (At(u, "away") \/ At(u, "fields")) /\ Unused # {}
                  /\ Go(u, [holds[u] EXCEPT !.at = "form", !.out = NewScrap])
                  /\ Clear({}, {NewScrap})

\* read_upload_field_to_temp: the file is the request's now; an earlier one is dropped.
FieldRead(u) == /\ At(u, "form")
                /\ Go(u, [at |-> "fields", upload |-> holds[u].out, out |-> NoScrap])
                /\ Clear({holds[u].upload}, {})

FormRead(u) == /\ At(u, "fields") /\ Go(u, [holds[u] EXCEPT !.at = "received"])
               /\ UNCHANGED <<disk, scan, left>>

\* Too large, or empty: the reader removes what it wrote.
FieldRefused(u) == /\ At(u, "form") /\ Go(u, Away)
                   /\ Clear({holds[u].upload, holds[u].out}, {})

\* The client goes away, or the body or the disk fails: nothing removes what was written.
FieldCut(u) == /\ At(u, "form") /\ Go(u, Away)
               /\ Disk({holds[u].upload}, {})
               /\ Abandon({holds[u].out}, {holds[u].upload}, "form")
               /\ UNCHANGED scan

\* fetch_url_upload: the target passed validate_url_upload_target before and
\* reject_url_upload_remote_addr after it answered; refused, nothing was created.
FetchUrl(u) == /\ At(u, "away") /\ Unused # {}
               /\ Go(u, [holds[u] EXCEPT !.at = "fetch", !.out = NewScrap])
               /\ Clear({}, {NewScrap})

\* ScratchFile::keep
Fetched(u) == /\ At(u, "fetch")
              /\ Go(u, [at |-> "received", upload |-> holds[u].out, out |-> NoScrap])
              /\ UNCHANGED <<disk, scan, left>>

\* Mutant: no ScratchFile; an error in the middle leaves the file.
FetchCutUnguarded(u) == /\ At(u, "fetch") /\ Go(u, Away) /\ UNCHANGED <<disk, scan, left>>

\* read_limited_url_response: whatever ends it early drops the ScratchFile.
FetchCut(u) == At(u, "fetch") /\ Go(u, Away) /\ Clear({holds[u].out}, {})

\* Each chunk renews the age; an unlinked file is written on.
WriteOn(u) == /\ holds[u].out # NoScrap /\ disk[holds[u].out] = "stale"
              /\ disk' = [disk EXCEPT ![holds[u].out] = "fresh"]
              /\ UNCHANGED <<holds, scan, left>>

-----------------------------------------------------------------------------
\* strip_temp_file_metadata opens the upload and creates what replaces it.
StripStart(u) == /\ At(u, "received") /\ disk[holds[u].upload] # "none" /\ Unused # {}
                 /\ Go(u, [holds[u] EXCEPT !.at = "strip", !.out = NewScrap])
                 /\ Clear({}, {NewScrap})

\* replace_with_temp_rewrite
StripEnd(u) == /\ At(u, "strip")
               /\ Go(u, [at |-> "stripped", upload |-> holds[u].out, out |-> NoScrap])
               /\ Clear({holds[u].upload}, {})

\* Not the format it claims to be: the upload stays as it was.
StripGivenUp(u) == /\ At(u, "strip")
                   /\ Go(u, [holds[u] EXCEPT !.at = "stripped", !.out = NoScrap])
                   /\ Clear({holds[u].out}, {})

\* A read or write fails, or the client goes away: only the upload is dropped.
StripCut(u) == /\ At(u, "strip") /\ Go(u, Away)
               /\ Disk({holds[u].upload}, {})
               /\ Abandon({holds[u].out}, {holds[u].upload}, "strip")
               /\ UNCHANGED scan

\* Neither a JPEG nor a PNG, or metadata_stripping is off.
NotStripped(u) == /\ At(u, "received") /\ Go(u, [holds[u] EXCEPT !.at = "stripped"])
                  /\ UNCHANGED <<disk, scan, left>>

\* sha256_hex, then the scan and the quota: all read the upload, and fail if it was swept.
Hash(u) == /\ At(u, "stripped") /\ disk[holds[u].upload] # "none"
           /\ Go(u, [holds[u] EXCEPT !.at = "hashed"])
           /\ UNCHANGED <<disk, scan, left>>

\* persist_file_upload ends: stored, a second copy of a stored object, refused, or
\* failed.  Drop removes the upload.
EndUpload(u) == /\ holds[u].at \in {"fields", "received", "stripped", "hashed"}
                /\ Go(u, Away) /\ Clear({holds[u].upload}, {})

-----------------------------------------------------------------------------
\* run_command_scanner, when a pass scans an object again; passes started by hand may
\* sweep meanwhile, so a scan begins and ends whenever it will.
ScanWrite == /\ scan = NoScrap /\ Unused # {} /\ scan' = NewScrap
             /\ Disk({}, {NewScrap}) /\ UNCHANGED <<holds, left>>
ScanRead  == /\ scan # NoScrap /\ scan' = NoScrap
             /\ Disk({scan}, {}) /\ Abandon({}, {scan}, "nobody") /\ UNCHANGED holds

\* timeout drops the future before it gets to remove_file.
ScanTimeout == /\ scan # NoScrap /\ scan' = NoScrap
               /\ Abandon({scan}, {}, "scan") /\ UNCHANGED <<disk, holds>>

\* The process dies: no Drop.
KillUploads == /\ holds' = [u \in Upload |-> Away] /\ scan' = NoScrap
               /\ left' = [n \in Scrap |-> IF disk[n] # "none" /\ left[n] = NoScrap
                                           THEN "killed" ELSE left[n]]
               /\ UNCHANGED disk

GetOld(n) == /\ disk[n] = "fresh" /\ disk' = [disk EXCEPT ![n] = "stale"]
             /\ UNCHANGED <<holds, scan, left>>

\* Mutant: the prefix of the scanner is missing from the list.
SweepUploadsOnly == LET stale == {n \in Scrap : disk[n] = "stale" /\ left[n] # "scan"}
                    IN /\ Disk(stale, {}) /\ Abandon({}, stale, "nobody")
                       /\ UNCHANGED <<holds, scan>>

\* cleanup_temp_files: what was not written since temp_file_max_age_seconds.
SweepScratch == LET stale == {n \in Scrap : disk[n] = "stale"}
                IN /\ Disk(stale, {}) /\ Abandon({}, stale, "nobody")
                   /\ UNCHANGED <<holds, scan>>

UploadStep(u) == \/ ReceiveFile(u) \/ FieldRead(u) \/ FormRead(u) \/ FieldRefused(u) \/ FieldCut(u)
                 \/ FetchUrl(u) \/ Fetched(u) \/ FetchCut(u) \/ WriteOn(u)
                 \/ StripStart(u) \/ StripEnd(u) \/ StripGivenUp(u) \/ StripCut(u) \/ NotStripped(u)
                 \/ Hash(u) \/ EndUpload(u)

ScratchNext == (\E u \in Upload : UploadStep(u)) \/ ScanWrite \/ ScanRead \/ ScanTimeout

\* With what the process, the clock and the job do to the files.
ScratchSpec == /\ ScratchInit
               /\ [][ScratchNext \/ KillUploads \/ SweepScratch
                     \/ \E n \in Scrap : GetOld(n)]_scratchVars

-----------------------------------------------------------------------------
Names(u) == {holds[u].upload, holds[u].out} \ {NoScrap}
Held(n)  == n = scan \/ \E u \in Upload : n \in {holds[u].upload, holds[u].out}

\* A request has an output only while it writes one, and an upload once it received one.
Places == {"away", "fields", "form", "fetch", "received", "strip", "stripped", "hashed"}
ScratchTypeOK ==
    /\ disk \in [Scrap -> {"none", "fresh", "stale"}] /\ scan \in Scrap \cup {NoScrap}
    /\ left \in [Scrap -> Reasons \cup {NoScrap}]
    /\ holds \in [Upload -> [at : Places, upload : Scrap \cup {NoScrap},
                                           out : Scrap \cup {NoScrap}]]
    /\ \A u \in Upload : /\ holds[u].at \in {"away", "fetch"} => holds[u].upload = NoScrap
                         /\ holds[u].at \notin {"form", "fetch", "strip"} => holds[u].out = NoScrap

\* No two writers share a file.
NamesApart ==
    /\ \A u \in Upload : holds[u].out = holds[u].upload => holds[u].out = NoScrap
    /\ \A u \in Upload : scan \notin Names(u)
    /\ \A u, v \in Upload : u # v => Names(u) \cap Names(v) = {}

\* A scratch file on disk is somebody's, or was abandoned by one of the four paths that
\* clean up nothing: reading a form, rewriting an image, a scan that timed out, a process
\* that died (web/upload.rs:810, :580, scanner.rs:53).  Every other way out, early or
\* not, takes its files along, and nobody goes on using a file it has abandoned.
ScratchInvariant ==
    /\ ScratchTypeOK /\ NamesApart
    /\ \A n \in Scrap : disk[n] # "none" => (Held(n) <=> left[n] = NoScrap)
    /\ \A n \in Scrap : left[n] # NoScrap => disk[n] # "none"
=============================================================================
