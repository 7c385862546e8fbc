------------------------------ MODULE Moderation ------------------------------
(***************************************************************************)
(* Who decides about files and pastes: moderators (item by item, or by     *)
(* closing reports in batches), owners who delete, the scanner retries and *)
(* the expiry of the background job.                                       *)
(*                                                                         *)
(* A moderator's transaction locks row after row (SELECT ... FOR UPDATE),  *)
(* checks each, and writes all of them in its last step, which waits for   *)
(* nothing; a single UPDATE waits until its row is not locked and looks at *)
(* its condition then.  This is PostgreSQL; SQLite lets one writer at a    *)
(* time through and gives up the others, which is a subset of it.          *)
(***************************************************************************)
EXTENDS Naturals, FiniteSets

CONSTANTS
    File, Paste, Report,   \* rows the tables can ever hold
    Rank,                  \* the order of ids
    Age,                   \* the order in which files are created
    MayExpire,             \* bound: items whose expiry can come
    Moderator,             \* requests of moderators
    Deleter,               \* requests that delete an item for its owner
    Scanner,               \* retry passes, one per process
    Scanning,              \* scanning.enabled
    Hopeless,              \* files every scan of which fails
    RetryLimit,            \* jobs.scanner_retry_limit
    NoTask, NoItem

Item == File \cup Paste
Row  == Item \cup Report
Task == Moderator \cup Deleter \cup Scanner

ASSUME ModerationAssumption ==
    /\ Rank \in [Row -> Nat]
    /\ \A x, y \in Row : x # y => Rank[x] # Rank[y]
    /\ Age \in [File -> Nat] /\ \A f, g \in File : f # g => Age[f] # Age[g]
    /\ MayExpire \subseteq Item
    /\ \A r \in Report, i \in Item : Rank[r] < Rank[i]
    /\ \A f \in File, p \in Paste : Rank[f] < Rank[p]
    /\ File \cap Paste = {} /\ Report \cap Item = {}
    /\ Moderator \cap Deleter = {} /\ Scanner \cap (Moderator \cup Deleter) = {}
    /\ Scanning \in BOOLEAN /\ Hopeless \subseteq File /\ RetryLimit \in Nat
    /\ NoTask \notin Task /\ NoItem \notin Item

VARIABLES
    state,      \* files.state, pastes.state
    due,        \* items whose expires_at is not after now
    report,     \* reports.state
    about,      \* reports.item_kind and item_public_id
    failed,     \* files whose last verdict of some scanner is a failure
    rowLock,    \* rowLock[x]: the transaction that holds row x
    pc,         \* what a task does next
    plan,       \* per moderator: what to write, and the rows still to lock
    target,     \* per deleter: the item the handler has read
    seen        \* per scanner: the files still to retry, as the pass read them

vars == <<state, due, report, about, failed, rowLock, pc, plan, target, seen>>

Releasable     == {"active", "quarantined"}
Withheld       == {"withheld"}                      \* takedown and legal_hold
TerminalStates == {"deleted", "expired"}
ItemStates     == {"none"} \cup Releasable \cup Withheld \cup TerminalStates
Closed         == {"resolved", "dismissed"}

\* ReportAction: what becomes of the items ("keep": nothing), and of the reports.
ReportAction == [to : {"quarantined"} \cup Withheld, closed : {"resolved"}]
                    \cup [to : {"keep"}, closed : Closed]

NoPlan == [to |-> "keep", closed |-> "resolved", reports |-> {}, items |-> {}, need |-> {}]

First(x, X) == x \in X /\ \A y \in X : Rank[x] <= Rank[y]
Free(X)     == \A x \in X : rowLock[x] = NoTask
Unlock(t) == rowLock' = [x \in Row |-> IF rowLock[x] = t THEN NoTask ELSE rowLock[x]]

Init == /\ state = [i \in Item |-> "none"] /\ due = {}
        /\ report = [r \in Report |-> "none"] /\ about = [r \in Report |-> NoItem]
        /\ failed = {}
        /\ rowLock = [x \in Row |-> NoTask]
        /\ pc = [t \in Task |-> "idle"]
        /\ plan = [m \in Moderator |-> NoPlan]
        /\ target = [d \in Deleter |-> NoItem]
        /\ seen = [s \in Scanner |-> <<>>]

-----------------------------------------------------------------------------
(* Items and reports come into being. *)

\* s is what the scan of the upload said; fails: one of its scanners failed, and
\* the failure was recorded.  Pastes are not scanned.
Create(i, s, fails) ==
    /\ state[i] = "none"
    /\ i \in File => \A f \in File : Age[f] < Age[i] => state[f] # "none"
    /\ i \in Paste \/ ~Scanning => s = "active" /\ ~fails
    /\ state' = [state EXCEPT ![i] = s]
    /\ failed' = IF fails THEN failed \cup {i} ELSE failed
    /\ UNCHANGED <<due, report, about, rowLock, pc, plan, target, seen>>

\* "Items in any state are reportable", as long as they exist.
CreateReport(r, i) ==
    /\ report[r] = "none" /\ state[i] # "none"
    /\ report' = [report EXCEPT ![r] = "open"]
    /\ about' = [about EXCEPT ![r] = i]
    /\ UNCHANGED <<state, due, failed, rowLock, pc, plan, target, seen>>

\* The clock reaches the expiry of i, or the owner of i moves the expiry.
Tick(i) ==
    /\ i \in MayExpire /\ state[i] \in Releasable \cup Withheld
    /\ due' = due \cup {i} /\ due' # due
    /\ UNCHANGED <<state, report, about, failed, rowLock, pc, plan, target, seen>>
SetExpiry(i) ==
    /\ state[i] # "none" /\ Free({i})
    /\ due' = due \ {i} /\ due' # due
    /\ UNCHANGED <<state, report, about, failed, rowLock, pc, plan, target, seen>>

-----------------------------------------------------------------------------
(* Moderators: apply_report_actions and apply_item_moderation. *)

Begin(m, p) == /\ pc[m] = "idle"
               /\ pc' = [pc EXCEPT ![m] = "transaction"]
               /\ plan' = [plan EXCEPT ![m] = p]
               /\ UNCHANGED <<state, due, report, about, failed, rowLock, target, seen>>

\* Rollback, and the end of every transaction.
EndTransaction(m) == /\ Unlock(m)
                     /\ pc' = [pc EXCEPT ![m] = "idle"]
                     /\ plan' = [plan EXCEPT ![m] = NoPlan]

\* The items of a batch are not known before its reports have been read.
ModerateReports(m, R, a) ==
    Begin(m, [to |-> a.to, closed |-> a.closed, reports |-> R, items |-> {}, need |-> R])

\* A file is read FOR UPDATE, a paste is only read.
ModerateItem(m, i, s) ==
    /\ state[i] # "none"
    /\ Begin(m, [NoPlan EXCEPT !.to = s, !.items = {i},
                               !.need = IF i \in File THEN {i} ELSE {}])

\* Mutant: a report that was decided already passes.
AcceptableAnyReport(m, x) ==
    /\ x \in Report => report[x] # "none"
    /\ x \in File => plan[m].to \in {"keep", "deleted"} \/ state[x] \notin TerminalStates

\* The checks: reports must be open, and a file that was retired stays so.
Acceptable(m, x) ==
    /\ x \in Report => report[x] = "open"
    /\ x \in File => plan[m].to \in {"keep", "deleted"} \/ state[x] \notin TerminalStates

\* What there is to lock once x is locked: reports lead to their items.
NeedAfter(m, x) == (plan[m].need \ {x}) \cup (IF x \in Report THEN {about[x]} ELSE {})

\* Mutants: rows are only read; they are locked in any order.
LockRowUnlocked(m, x) ==
    /\ pc[m] = "transaction" /\ First(x, plan[m].need) /\ Free({x})
    /\ \/ /\ Acceptable(m, x)
          /\ plan' = [plan EXCEPT ![m].need = NeedAfter(m, x), ![m].items =
                                  @ \cup (IF x \in Report THEN {about[x]} ELSE {})]
          /\ UNCHANGED <<rowLock, pc>>
       \/ ~Acceptable(m, x) /\ EndTransaction(m)
    /\ UNCHANGED <<state, due, report, about, failed, target, seen>>
LockRowAnyOrder(m, x) ==
    /\ pc[m] = "transaction" /\ x \in plan[m].need /\ Free({x})
    /\ \/ /\ Acceptable(m, x)
          /\ rowLock' = [rowLock EXCEPT ![x] = m]
          /\ plan' = [plan EXCEPT ![m].need = NeedAfter(m, x), ![m].items =
                                  @ \cup (IF x \in Report THEN {about[x]} ELSE {})]
          /\ UNCHANGED pc
       \/ ~Acceptable(m, x) /\ EndTransaction(m)
    /\ UNCHANGED <<state, due, report, about, failed, target, seen>>

\* SELECT ... FOR UPDATE of the next row, in the order of the ids: reports first.
LockRow(m, x) ==
    /\ pc[m] = "transaction" /\ First(x, plan[m].need) /\ Free({x})
    /\ \/ /\ Acceptable(m, x)
          /\ rowLock' = [rowLock EXCEPT ![x] = m]
          /\ plan' = [plan EXCEPT ![m].need = NeedAfter(m, x), ![m].items =
                                  @ \cup (IF x \in Report THEN {about[x]} ELSE {})]
          /\ UNCHANGED pc
       \/ ~Acceptable(m, x) /\ EndTransaction(m)
    /\ UNCHANGED <<state, due, report, about, failed, target, seen>>

\* The updates and the commit, or a rollback if a report is not open any more; a
\* paste moderated by itself is locked only now.
Commit(m) ==
    /\ pc[m] = "transaction" /\ plan[m].need = {}
    /\ \A i \in plan[m].items : rowLock[i] \in {m, NoTask}
    /\ LET applies == \A r \in plan[m].reports : report[r] = "open"
       IN  /\ state' = [i \in Item |->
                           IF applies /\ i \in plan[m].items /\ plan[m].to # "keep"
                           THEN plan[m].to ELSE state[i]]
           /\ report' = [r \in Report |->
                            IF applies /\ r \in plan[m].reports
                            THEN plan[m].closed ELSE report[r]]
    /\ EndTransaction(m)
    /\ UNCHANGED <<due, about, failed, target, seen>>

\* An error, or a request that went away.
Abort(m) == /\ pc[m] = "transaction"
            /\ EndTransaction(m)
            /\ UNCHANGED <<state, due, report, about, failed, target, seen>>

-----------------------------------------------------------------------------
(* Owners delete; the job expires. *)

\* delete_item reads the item, which must be active, and checks the right to it...
DeleteRead(d, i) ==
    /\ pc[d] = "idle"
    /\ state[i] = "active" /\ i \notin due
    /\ pc' = [pc EXCEPT ![d] = "delete"]
    /\ target' = [target EXCEPT ![d] = i]
    /\ UNCHANGED <<state, due, report, about, failed, rowLock, plan, seen>>

\* ... and deletes it if it is still there: delete_file_and_release_blob looks at
\* the state of a file again, delete_paste only spares what is deleted already.
Deletable(i) == IF i \in File THEN state[i] \in Releasable ELSE state[i] # "deleted"

DeleteWrite(d) ==
    /\ pc[d] = "delete" /\ Free({target[d]})
    /\ state' = IF Deletable(target[d]) THEN [state EXCEPT ![target[d]] = "deleted"]
                                        ELSE state
    /\ pc' = [pc EXCEPT ![d] = "idle"]
    /\ target' = [target EXCEPT ![d] = NoItem]
    /\ UNCHANGED <<due, report, about, failed, rowLock, plan, seen>>

\* apply_account_bulk: what cannot be deleted is passed over.
BulkDelete(I) ==
    /\ \A i \in I : state[i] # "none" /\ Free({i})
    /\ state' = [i \in Item |->
                    IF /\ i \in I
                       /\ state[i] \in (IF i \in File THEN Releasable ELSE {"active"})
                    THEN "deleted" ELSE state[i]]
    /\ state' # state
    /\ UNCHANGED <<due, report, about, failed, rowLock, pc, plan, target, seen>>

ExpireFile(f) ==
    /\ state[f] \in Releasable /\ f \in due /\ Free({f})
    /\ state' = [state EXCEPT ![f] = "expired"]
    /\ UNCHANGED <<due, report, about, failed, rowLock, pc, plan, target, seen>>

\* expire_due_pastes: one UPDATE of them all.
ExpirePastes ==
    LET P == {p \in Paste \cap due : state[p] = "active"}
    IN  /\ P # {} /\ Free(P)
        /\ state' = [i \in Item |-> IF i \in P THEN "expired" ELSE state[i]]
        /\ UNCHANGED <<due, report, about, failed, rowLock, pc, plan, target, seen>>

-----------------------------------------------------------------------------
(* retry_scanners *)

\* Mutants: files a moderator withheld are retried; so are resolved failures.
CandidatesAnyState == {f \in failed : state[f] \notin TerminalStates}
CandidatesResolved == {f \in File : state[f] \in Releasable}

\* scanner_retry_file_candidates, before its LIMIT.
Candidates == {f \in failed : state[f] \in Releasable}

\* The oldest n of X.
Oldest(X, n) == {x \in X : Cardinality({y \in X : Age[y] < Age[x]}) < n}

RetryList(s) ==
    /\ Scanning /\ pc[s] = "idle" /\ Candidates # {}
    /\ seen' = [seen EXCEPT ![s] = [f \in Oldest(Candidates, RetryLimit) |-> state[f]]]
    /\ pc' = [pc EXCEPT ![s] = "scan"]
    /\ UNCHANGED <<state, due, report, about, failed, rowLock, plan, target>>

\* The pass is over, or goes on with the next file.
Proceed(s, f) ==
    /\ seen' = [seen EXCEPT ![s] = [g \in (DOMAIN @) \ {f} |-> @[g]]]
    /\ pc' = [pc EXCEPT ![s] = IF DOMAIN seen[s] = {f} THEN "idle" ELSE "scan"]

\* The file the pass is at: the oldest it has left.
IsNext(f, s) == f \in Oldest(DOMAIN seen[s], 1)

\* The scan of f says d, and its results are recorded.  It is compared with the
\* state the pass read, and the step that writes it comes later.
RetryScan(s, f, d, fails) ==
    /\ pc[s] = "scan" /\ IsNext(f, s)
    /\ f \in Hopeless => fails
    /\ failed' = IF fails THEN failed \cup {f} ELSE failed \ {f}
    /\ \/ d = seen[s][f] /\ Proceed(s, f)
       \/ /\ d # seen[s][f]
          /\ pc' = [pc EXCEPT ![s] = d]
          /\ UNCHANGED seen
    /\ UNCHANGED <<state, due, report, about, rowLock, plan, target>>

\* Mutant: the update does not look at the state of the file.
RetryWriteAnyState(s, f) ==
    /\ pc[s] \in Releasable /\ IsNext(f, s) /\ Free({f})
    /\ state' = [state EXCEPT ![f] = pc[s]]
    /\ Proceed(s, f)
    /\ UNCHANGED <<due, report, about, failed, rowLock, plan, target>>

\* update_file_state_by_public_id
RetryWrite(s, f) ==
    /\ pc[s] \in Releasable /\ IsNext(f, s) /\ Free({f})
    /\ state' = IF state[f] \in TerminalStates THEN state ELSE [state EXCEPT ![f] = pc[s]]
    /\ Proceed(s, f)
    /\ UNCHANGED <<due, report, about, failed, rowLock, plan, target>>

\* The object of a file that was retired cannot be read any more: the pass ends.  (Any
\* failure to read ends it: Jobs has the store that fails, and BlobStore why the objects of
\* live files are there.)
RetryAbort(s, f) ==
    /\ pc[s] = "scan" /\ IsNext(f, s) /\ state[f] \in TerminalStates
    /\ pc' = [pc EXCEPT ![s] = "idle"]
    /\ seen' = [seen EXCEPT ![s] = <<>>]
    /\ UNCHANGED <<state, due, report, about, failed, rowLock, plan, target>>

-----------------------------------------------------------------------------

ModeratorStep(m) == Commit(m) \/ \E x \in Row : LockRow(m, x)

ScannerStep(s) ==
    \/ RetryList(s)
    \/ \E f \in File : \/ \E d \in Releasable, fails \in BOOLEAN : RetryScan(s, f, d, fails)
                      \/ RetryWrite(s, f) \/ RetryAbort(s, f)

Environment ==
    \/ \E i \in Item :
          \/ \E s \in Releasable, fails \in BOOLEAN : Create(i, s, fails)
          \/ \E r \in Report : CreateReport(r, i)
          \/ Tick(i) \/ SetExpiry(i)
    \/ \E m \in Moderator :
          \/ \E R \in (SUBSET Report) \ {{}}, a \in ReportAction : ModerateReports(m, R, a)
          \/ \E i \in Item, s \in Releasable \cup Withheld \cup {"deleted"} :
                ModerateItem(m, i, s)
          \/ Abort(m)
    \/ \E d \in Deleter : DeleteWrite(d) \/ \E i \in Item : DeleteRead(d, i)
    \/ \E I \in SUBSET Item : BulkDelete(I)
    \/ \E f \in File : ExpireFile(f)
    \/ ExpirePastes

Next == \/ \E m \in Moderator : ModeratorStep(m)
        \/ \E s \in Scanner : ScannerStep(s)
        \/ Environment

Spec == Init /\ [][Next]_vars

\* The job's timer keeps firing, its updates get their turn at a row, and what is
\* scanned again and again gets a verdict in the end, unless it is hopeless.
Fairness ==
    /\ \A m \in Moderator : WF_vars(ModeratorStep(m))
    /\ \A s \in Scanner : WF_vars(ScannerStep(s)) /\ SF_vars(\E f \in File : RetryWrite(s, f))
    /\ \A s \in Scanner, f \in File \ Hopeless :
          SF_vars(\E d \in Releasable : RetryScan(s, f, d, FALSE))

FairSpec == Spec /\ Fairness

-----------------------------------------------------------------------------
(* Properties. *)

\* The type invariant.
TypeOK ==
    /\ state \in [Item -> ItemStates] /\ due \subseteq Item
    /\ report \in [Report -> {"none", "open"} \cup Closed]
    /\ about \in [Report -> Item \cup {NoItem}]
    /\ failed \subseteq File
    /\ rowLock \in [Row -> Moderator \cup {NoTask}]
    /\ pc \in [Task -> {"idle", "transaction", "delete", "scan"} \cup Releasable]
    /\ plan \in [Moderator -> [to : ItemStates \cup {"keep"}, closed : Closed,
                              reports : SUBSET Report, items : SUBSET Item,
                              need : SUBSET Row]]
    /\ target \in [Deleter -> Item \cup {NoItem}]
    /\ seen \in [Scanner -> UNION {[F -> Releasable] : F \in SUBSET File}]

\* A report is about something that exists.
ReportsAboutItems == \A r \in Report : report[r] # "none" => about[r] \in Item

\* Only a transaction under way holds rows.
LocksHeld == \A m \in Moderator, x \in Row : rowLock[x] = m => pc[m] = "transaction"

\* What a transaction will write it has locked, or will lock first (a paste
\* moderated by itself excepted).
PlanLocked ==
    \A m \in Moderator : pc[m] = "transaction" =>
        \A x \in plan[m].reports \cup (plan[m].items \cap File) :
            rowLock[x] = m \/ x \in plan[m].need

\* A paste moderated by itself excepted, which is locked in the step that ends the
\* transaction: that one holds nothing before, and waits for that paste alone.
ItemsLocked ==
    \A m \in Moderator : pc[m] = "transaction" =>
        \/ \A i \in plan[m].items : rowLock[i] = m \/ i \in plan[m].need
        \/ plan[m].need = {} /\ \A x \in Row : rowLock[x] # m

\* A transaction holds only rows that come before those it still needs.
LocksInOrder ==
    \A m \in Moderator, x \in Row : rowLock[x] = m =>
        \A y \in plan[m].need : Rank[x] < Rank[y]

\* What a transaction has found out about a row it locked is still true, until it
\* commits: its reports are open, its files are not retired.
ChecksHold ==
    \A m \in Moderator, x \in Row : rowLock[x] = m =>
        /\ x \in Report => report[x] = "open"
        /\ x \in File /\ plan[m].to \notin {"keep", "deleted"} =>
              state[x] \notin TerminalStates

\* Together they are the reason why decisions are never made on stale rows.
ModerationInvariant == /\ TypeOK /\ ReportsAboutItems
                       /\ LocksHeld /\ PlanLocked /\ ItemsLocked /\ LocksInOrder /\ ChecksHold

\* "Report actions cannot resurrect terminal files": what was deleted or has
\* expired stays so, whoever decides about it at the same time.
RetiredFilesStay ==
    [][\A f \in File : state[f] \in TerminalStates => state'[f] \in TerminalStates]_vars

\* A report is decided once: of two batches that name it, one finds it closed and
\* changes nothing.
DecidedOnce == [][\A r \in Report : report[r] \in Closed => report'[r] = report[r]]_vars

\* A takedown or legal hold ends by a moderator's hand, or by a task that read the
\* item before: a retry that still saw the file served or quarantined, and (pastes
\* only) a deletion that still saw it active.
WithheldKept ==
    [][\A i \in Item : state[i] \in Withheld /\ state'[i] # state[i] =>
          \/ \E m \in Moderator : pc[m] = "transaction" /\ i \in plan[m].items
          \/ \E s \in Scanner : i \in DOMAIN seen[s] /\ seen[s][i] \in Releasable
          \/ i \in Paste /\ \E d \in Deleter : target[d] = i]_vars

\* m is not waiting for a row.
CanProceed(m) == \/ \E x \in plan[m].need : First(x, plan[m].need) /\ Free({x})
                 \/ /\ plan[m].need = {}
                    /\ \A i \in plan[m].items : rowLock[i] \in {m, NoTask}

\* Moderators never all wait for each other: batches lock reports before items and
\* both in the order of their ids, so a ring of waiting transactions cannot close.
NoStandstill ==
    LET active == {m \in Moderator : pc[m] = "transaction"}
    IN  active # {} => \E m \in active : CanProceed(m)

\* As long as fewer files are hopeless than a pass retries, the failed verdict of
\* every other live file is replaced in the end, however many are older.
VerdictsResolved ==
    Cardinality(Hopeless) < RetryLimit =>
        \A f \in File \ Hopeless : f \in Candidates ~> f \notin Candidates
=============================================================================
