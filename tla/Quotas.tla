-------------------------------- MODULE Quotas --------------------------------
(***************************************************************************)
(* How much an owner may upload.                                           *)
(*                                                                         *)
(* Uploads of one process check the quota and publish under its            *)
(* upload_quota_lock; those of another process do not wait for it, and     *)
(* claims and moderators take no lock.  A file here is only what quotas    *)
(* count; Moderation and BlobStore have the handlers that withhold and     *)
(* retire it.                                                              *)
(***************************************************************************)
EXTENDS Integers, FiniteSetsExt

CONSTANTS Account,     \* who may be signed in
          Anonymous,   \* the owner of what nobody has claimed
          File,        \* rows of files to be
          Replica,     \* server processes, each with its lock
          Sizes,       \* bytes of a file
          Quota,       \* Quota[o]: the limits of an owner
          NoRow

QuotasOwner == Account \cup {Anonymous}

ASSUME QuotasAssumption ==
    /\ Anonymous \notin Account /\ IsFiniteSet(File) /\ Sizes \subseteq Nat
    /\ Quota \in [QuotasOwner -> [storage : Nat, daily : Nat, monthly : Nat, items : Nat]]

VARIABLES file,    \* file[f]: a record, or NoRow
          inside   \* inside[s]: the upload that process s has under its lock, or NoRow

quotaVars == <<file, inside>>

\* How a file came to count where it does: uploaded, uploaded beside an upload of
\* another process, claimed, or brought back by a moderator.
Origins == {"upload", "beside", "claim", "back"}

\* "held" is taken down or on legal hold, "gone" deleted or expired.
FileStates == {"active", "quarantined", "held", "gone"}

FileRow   == [owner : QuotasOwner, state : FileStates, size : Sizes,
              age : {"day", "month", "old"}, came : Origins]
UploadRow == [owner : QuotasOwner, size : Sizes, came : {"upload", "beside"}]

QuotasInit == file = [f \in File |-> NoRow] /\ inside = [s \in Replica |-> NoRow]

-----------------------------------------------------------------------------
Total(S) == MapThenSumSet(LAMBDA f : file[f].size, S)
OwnedBy(o) == {f \in File : file[f] # NoRow /\ file[f].owner = o}

\* file_usage_for_user: what is stored counts while it is there; what was uploaded
\* counts for its window, whatever became of it.
Stored(S) == {f \in S : file[f].state \in {"active", "quarantined"}}
Recent(S) == {f \in S : file[f].age = "day"}
Monthly(S) == {f \in S : file[f].age \in {"day", "month"}}

\* Mutant: what was deleted again does not count as uploaded.
UsageOfStored(o) == LET S == Stored(OwnedBy(o)) IN
    [storage |-> Total(S), daily |-> Total(Recent(S)), monthly |-> Total(Monthly(S)),
     items |-> Cardinality(S)]

Usage(o) == LET S == Stored(OwnedBy(o)) IN
    [storage |-> Total(S), daily |-> Total(Recent(OwnedBy(o))),
     monthly |-> Total(Monthly(OwnedBy(o))), items |-> Cardinality(S)]

\* check_quota
WithinQuota(o, size) == LET u == Usage(o) IN
    /\ u.storage + size <= Quota[o].storage
    /\ u.daily + size <= Quota[o].daily
    /\ u.monthly + size <= Quota[o].monthly
    /\ u.items + 1 <= Quota[o].items

\* persist_file_upload, whose file came with a form, through the API or from a URL,
\* takes the lock and checks the quota...
EnforceQuota(s, o, size) ==
    /\ inside[s] = NoRow
    /\ WithinQuota(o, size)
    /\ inside' = [inside EXCEPT ![s] = [owner |-> o, size |-> size, came |-> "upload"]]
    /\ UNCHANGED file

\* ... and publishes the file, active or quarantined by the scanner.  An upload that
\* another process has checked meanwhile has not counted this one.
Publish(s, f, to) ==
    /\ inside[s] # NoRow /\ file[f] = NoRow
    /\ LET u == inside[s]
       IN  /\ file' = [file EXCEPT ![f] = [owner |-> u.owner, state |-> to, size |-> u.size,
                                           age |-> "day", came |-> u.came]]
           /\ inside' = [q \in Replica |->
                            IF q = s \/ inside[q] = NoRow THEN NoRow
                            ELSE IF inside[q].owner = u.owner
                                 THEN [inside[q] EXCEPT !.came = "beside"] ELSE inside[q]]

\* The object could not be put, the row not inserted, the client is gone.
AbandonUpload(s) == /\ inside[s] # NoRow
                    /\ inside' = [inside EXCEPT ![s] = NoRow]
                    /\ UNCHANGED file

\* Time goes on: created_at falls out of the windows.
Age(f) == /\ file[f] # NoRow /\ file[f].age # "old"
          /\ file' = [file EXCEPT ![f].age = IF @ = "day" THEN "month" ELSE "old"]
          /\ UNCHANGED inside

\* transition_file_and_release_blob: deleted by a right holder, or expired.
RetireFile(f) == /\ file[f] # NoRow /\ file[f].state \in {"active", "quarantined"}
                 /\ file' = [file EXCEPT ![f].state = "gone"]
                 /\ UNCHANGED inside

\* apply_item_moderation: a terminal file stays what it is.  To set the state a file
\* has changes nothing that counts.
ModerateFile(f, to) ==
    /\ file[f] # NoRow /\ file[f].state \notin {"gone", to}
    /\ file' = [file EXCEPT ![f].state = to,
                            ![f].came = IF /\ to \in {"active", "quarantined"}
                                           /\ file[f].state = "held"
                                           /\ @ = "upload"
                                        THEN "back" ELSE @]
    /\ UNCHANGED inside

\* claim_file_by_public_id: one UPDATE, which says what must hold.
ClaimFile(u, f) ==
    /\ file[f] # NoRow
    /\ file[f].owner = Anonymous /\ file[f].state = "active"
    /\ file' = [file EXCEPT ![f].owner = u, ![f].came = "claim"]
    /\ UNCHANGED inside

-----------------------------------------------------------------------------

QuotasNext ==
    \/ \E s \in Replica : \/ \E o \in QuotasOwner, n \in Sizes : EnforceQuota(s, o, n)
                          \/ \E f \in File, to \in {"active", "quarantined"} : Publish(s, f, to)
                          \/ AbandonUpload(s)
    \/ \E f \in File : \/ Age(f)
                       \/ \E u \in Account : ClaimFile(u, f)
                       \/ RetireFile(f)
                       \/ \E to \in FileStates : ModerateFile(f, to)

QuotasSpec == QuotasInit /\ [][QuotasNext]_quotaVars

-----------------------------------------------------------------------------
(* Properties. *)

\* The type invariant.
QuotasTypeOK == /\ file \in [File -> FileRow \cup {NoRow}]
                /\ inside \in [Replica -> UploadRow \cup {NoRow}]

\* What an owner has had for its own uploads, and what of it is kept as it was uploaded.
Own(o)  == {f \in OwnedBy(o) : file[f].came \in {"upload", "back"}}
Kept(o) == {f \in Stored(Own(o)) : file[f].came = "upload"}

\* There is room for that, and for n files more of size bytes.
HasRoom(o, size, n) ==
    /\ Total(Kept(o)) + size <= Quota[o].storage
    /\ Cardinality(Kept(o)) + n <= Quota[o].items
    /\ Total(Recent(Own(o))) + size <= Quota[o].daily
    /\ Total(Monthly(Own(o))) + size <= Quota[o].monthly

\* Quotas hold for what an owner uploads: neither deleting nor another upload of the
\* process gets more in.  What is claimed, brought back, or uploaded through another
\* process at the same time is counted, but nothing is refused because of it.
QuotaHolds == \A o \in QuotasOwner : HasRoom(o, 0, 0)

\* An upload that no other process has published beside still fits.
RoomForUpload(s) ==
    inside[s] # NoRow /\ inside[s].came = "upload" => HasRoom(inside[s].owner, inside[s].size, 1)

\* What the run checks.
QuotasInvariant == QuotasTypeOK /\ QuotaHolds /\ \A s \in Replica : RoomForUpload(s)
=============================================================================
