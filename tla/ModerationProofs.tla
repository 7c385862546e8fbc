-------------------------- MODULE ModerationProofs --------------------------
(***************************************************************************)
(* What TLAPS proves of Moderation, for any sets of files, pastes,         *)
(* reports and requests.  ModerationInvariant is inductive as it stands:   *)
(* what a transaction found out about a row stays true while it holds the  *)
(* row, and it writes to nothing it does not hold, a paste moderated by    *)
(* itself excepted.                                                        *)
(***************************************************************************)
EXTENDS Moderation, FiniteSetTheorems, WellFoundedInduction, TLAPS

\* Every row a step writes is free, or held by the moderator whose step it is.
LEMMA Kinds ==
    /\ Moderator \subseteq Task /\ Scanner \subseteq Task /\ Deleter \subseteq Task
    /\ NoTask \notin Moderator /\ Moderator \cap Scanner = {} /\ Moderator \cap Deleter = {}
    /\ Report \cap File = {} /\ Report \cap Paste = {} /\ File \cap Paste = {}
    /\ Report \subseteq Row /\ File \subseteq Row /\ Paste \subseteq Row /\ Item \subseteq Row
    /\ File \subseteq Item /\ Paste \subseteq Item /\ NoItem \notin Item
  BY ModerationAssumption DEF Task, Item, Row

-----------------------------------------------------------------------------
(* Types. *)

LEMMA TypeInit == Init => TypeOK
<1>1. ASSUME Init PROVE seen \in [Scanner -> UNION {[F -> Releasable] : F \in SUBSET File}]
  <2>1. <<>> \in [{} -> Releasable]
    OBVIOUS
  <2>2. <<>> \in UNION {[F -> Releasable] : F \in SUBSET File}
    BY <2>1
  <2> QED BY <1>1, <2>2 DEF Init
<1>2. NoPlan \in [to : ItemStates \cup {"keep"}, closed : Closed,
                  reports : SUBSET Report, items : SUBSET Item, need : SUBSET Row]
  BY DEF NoPlan, Closed
<1> QED BY <1>1, <1>2, Kinds DEF Init, TypeOK, ItemStates

\* The range of plan, and of seen.
Plans == [to : ItemStates \cup {"keep"}, closed : Closed,
          reports : SUBSET Report, items : SUBSET Item, need : SUBSET Row]
Reads == UNION {[F -> Releasable] : F \in SUBSET File}

LEMMA SeenStep ==
  ASSUME TypeOK, [Next]_vars PROVE seen' \in [Scanner -> Reads]
<1> USE DEF TypeOK, Reads
<1>1. ASSUME NEW s \in Scanner, RetryList(s) PROVE seen' \in [Scanner -> Reads]
  <2> DEFINE F == Oldest(Candidates, RetryLimit)
  <2>1. F \subseteq File /\ \A f \in F : state[f] \in Releasable
    BY DEF Oldest, Candidates
  <2>2. [f \in F |-> state[f]] \in [F -> Releasable]
    BY <2>1
  <2>3. [f \in F |-> state[f]] \in Reads
    BY <2>1, <2>2
  <2> QED BY <1>1, <2>3 DEF RetryList
<1>2. ASSUME NEW s \in Scanner, NEW f \in File, Proceed(s, f)
      PROVE  seen' \in [Scanner -> Reads]
  <2> DEFINE rest == [g \in (DOMAIN seen[s]) \ {f} |-> seen[s][g]]
  <2>1. PICK F \in SUBSET File : seen[s] \in [F -> Releasable]
    OBVIOUS
  <2>2. rest \in [F \ {f} -> Releasable]
    BY <2>1
  <2>3. rest \in Reads
    BY <2>2
  <2> QED BY <1>2, <2>3 DEF Proceed
<1>3. ASSUME NEW s \in Scanner, NEW f \in File, RetryAbort(s, f)
      PROVE  seen' \in [Scanner -> Reads]
  <2>1. <<>> \in [{} -> Releasable]
    OBVIOUS
  <2>2. <<>> \in Reads
    BY <2>1
  <2> QED BY <1>3, <2>2 DEF RetryAbort
<1>4. ASSUME NEW s \in Scanner, NEW f \in File, NEW d \in Releasable, NEW b \in BOOLEAN,
             RetryScan(s, f, d, b)
      PROVE  seen' \in [Scanner -> Reads]
  BY <1>2, <1>4 DEF RetryScan
<1>5. ASSUME NEW s \in Scanner, NEW f \in File, RetryWrite(s, f)
      PROVE  seen' \in [Scanner -> Reads]
  BY <1>2, <1>5 DEF RetryWrite
<1>6. CASE \E s \in Scanner : ScannerStep(s)
  BY <1>6, <1>1, <1>3, <1>4, <1>5 DEF ScannerStep
<1>7. CASE \E m \in Moderator : ModeratorStep(m)
  BY <1>7 DEF ModeratorStep, LockRow, Commit
<1>8. CASE Environment
  BY <1>8 DEF Environment, Create, CreateReport, Tick, SetExpiry, ModerateReports, ModerateItem,
     Begin, Abort, DeleteRead, DeleteWrite, BulkDelete, ExpireFile, ExpirePastes
<1>9. CASE UNCHANGED vars
  BY <1>9 DEF vars
<1> QED BY <1>6, <1>7, <1>8, <1>9 DEF Next

\* Types are kept by every step.
LEMMA TypeStep == ASSUME TypeOK, ReportsAboutItems, [Next]_vars PROVE TypeOK'
<1> DEFINE Rest == /\ state' \in [Item -> ItemStates] /\ due' \subseteq Item
                   /\ report' \in [Report -> {"none", "open"} \cup Closed]
                   /\ about' \in [Report -> Item \cup {NoItem}]
                   /\ failed' \subseteq File
                   /\ rowLock' \in [Row -> Moderator \cup {NoTask}]
                   /\ pc' \in [Task -> {"idle", "transaction", "delete", "scan"} \cup Releasable]
                   /\ plan' \in [Moderator -> Plans]
                   /\ target' \in [Deleter -> Item \cup {NoItem}]
<1> SUFFICES Rest
  BY SeenStep DEF TypeOK, Plans, Reads
<1> USE Kinds DEF Plans
<1>0. NoPlan \in Plans
  BY DEF NoPlan, Closed, Plans
<1>1. ASSUME NEW m \in Moderator, EndTransaction(m)
      PROVE  /\ rowLock' \in [Row -> Moderator \cup {NoTask}]
             /\ pc' \in [Task -> {"idle", "transaction", "delete", "scan"} \cup Releasable]
             /\ plan' \in [Moderator -> Plans]
  BY <1>0, <1>1 DEF TypeOK, EndTransaction, Unlock, Plans
<1>2. ASSUME NEW m \in Moderator, NEW x \in Row, LockRow(m, x) PROVE Rest
  <2>1. CASE /\ Acceptable(m, x)
             /\ rowLock' = [rowLock EXCEPT ![x] = m]
             /\ plan' = [plan EXCEPT ![m].need = NeedAfter(m, x), ![m].items =
                                @ \cup (IF x \in Report THEN {about[x]} ELSE {})]
             /\ UNCHANGED pc
    <3>1. x \in Report => about[x] \in Item
      BY <2>1 DEF Acceptable, ReportsAboutItems
    <3> DEFINE A == IF x \in Report THEN {about[x]} ELSE {}
               N == NeedAfter(m, x)
    <3>2. A \subseteq Item /\ N \subseteq Row
      BY <3>1 DEF NeedAfter, TypeOK
    <3>3. plan[m] \in Plans
      BY DEF TypeOK, Plans
    <3> HIDE DEF A, N
    <3>4. plan' = [plan EXCEPT ![m] = [plan[m] EXCEPT !.need = N, !.items = @ \cup A]]
      BY <2>1 DEF A, N, TypeOK
    <3>5. [plan[m] EXCEPT !.need = N, !.items = plan[m].items \cup A] \in Plans
      BY <3>2, <3>3 DEF Plans
    <3>6. plan' \in [Moderator -> Plans]
      BY <3>4, <3>5 DEF TypeOK, Plans
    <3> QED BY <1>2, <2>1, <3>6 DEF TypeOK, LockRow
  <2>2. CASE EndTransaction(m)
    BY <1>1, <1>2, <2>2 DEF TypeOK, LockRow
  <2> QED BY <1>2, <2>1, <2>2 DEF LockRow
<1>3. ASSUME NEW m \in Moderator, Commit(m) PROVE Rest
  <2>1. plan[m] \in Plans
    BY DEF TypeOK, Plans
  <2>2. \A i \in Item : plan[m].to # "keep" => plan[m].to \in ItemStates
    BY <2>1 DEF Plans
  <2>3. state' \in [Item -> ItemStates] /\ report' \in [Report -> {"none", "open"} \cup Closed]
    BY <1>3, <2>1, <2>2 DEF Commit, TypeOK, Plans
  <2> QED BY <1>1, <1>3, <2>3 DEF Commit, TypeOK, Plans
<1>4. ASSUME NEW m \in Moderator, Abort(m) PROVE Rest
  BY <1>1, <1>4 DEF Abort, TypeOK
<1>5. ASSUME NEW m \in Moderator, NEW p \in Plans, Begin(m, p) PROVE Rest
  BY <1>5 DEF Begin, TypeOK, Plans
<1>6. ASSUME NEW m \in Moderator, NEW R \in SUBSET Report, NEW a \in ReportAction,
             ModerateReports(m, R, a)
      PROVE  Rest
  <2>1. [to |-> a.to, closed |-> a.closed, reports |-> R, items |-> {}, need |-> R] \in Plans
    BY DEF ReportAction, Plans, ItemStates, Releasable, Withheld, Closed
  <2> QED BY <1>5, <1>6, <2>1 DEF ModerateReports
<1>7. ASSUME NEW m \in Moderator, NEW i \in Item,
             NEW s \in Releasable \cup Withheld \cup {"deleted"}, ModerateItem(m, i, s)
      PROVE  Rest
  <2> DEFINE N == IF i \in File THEN {i} ELSE {}
  <2>1. N \subseteq Row
    OBVIOUS
  <2>2. [NoPlan EXCEPT !.to = s, !.items = {i}, !.need = N] \in Plans
    BY <1>0, <2>1 DEF NoPlan, Plans, ItemStates, TerminalStates
  <2> QED BY <1>5, <1>7, <2>2 DEF ModerateItem
<1>8. ASSUME NEW s \in Scanner, ScannerStep(s) PROVE Rest
  <2>1. CASE RetryList(s)
    BY <2>1 DEF RetryList, TypeOK
  <2>2. ASSUME NEW f \in File, NEW d \in Releasable, NEW b \in BOOLEAN, RetryScan(s, f, d, b)
        PROVE  Rest
    BY <2>2 DEF RetryScan, Proceed, TypeOK
  <2>3. ASSUME NEW f \in File, RetryWrite(s, f) PROVE Rest
    BY <2>3 DEF RetryWrite, Proceed, TypeOK, ItemStates
  <2>4. ASSUME NEW f \in File, RetryAbort(s, f) PROVE Rest
    BY <2>4 DEF RetryAbort, TypeOK
  <2> QED BY <1>8, <2>1, <2>2, <2>3, <2>4 DEF ScannerStep
<1>9. CASE Environment
  <2>1. ASSUME NEW i \in Item, NEW s \in Releasable, NEW b \in BOOLEAN, Create(i, s, b)
        PROVE  Rest
    <3>1. b => i \in File
      BY <2>1 DEF Create, Item
    <3> QED BY <2>1, <3>1 DEF Create, TypeOK, ItemStates
  <2>2. ASSUME NEW i \in Item, NEW r \in Report, CreateReport(r, i) PROVE Rest
    BY <2>2 DEF CreateReport, TypeOK
  <2>3. ASSUME NEW i \in Item, Tick(i) \/ SetExpiry(i) PROVE Rest
    BY <2>3 DEF Tick, SetExpiry, TypeOK
  <2>4. ASSUME NEW d \in Deleter, DeleteWrite(d) PROVE Rest
    BY <2>4 DEF DeleteWrite, TypeOK, ItemStates, TerminalStates
  <2>5. ASSUME NEW d \in Deleter, NEW i \in Item, DeleteRead(d, i) PROVE Rest
    BY <2>5 DEF DeleteRead, TypeOK
  <2>6. ASSUME NEW I \in SUBSET Item, BulkDelete(I) PROVE Rest
    BY <2>6 DEF BulkDelete, TypeOK, ItemStates, TerminalStates
  <2>7. ASSUME NEW f \in File, ExpireFile(f) PROVE Rest
    BY <2>7 DEF ExpireFile, TypeOK, ItemStates, TerminalStates
  <2>8. CASE ExpirePastes
    BY <2>8 DEF ExpirePastes, TypeOK, ItemStates, TerminalStates
  <2> HIDE DEF Rest, Plans
  <2> QED BY <1>9, <1>4, <1>6, <1>7, <2>1, <2>2, <2>3, <2>4, <2>5, <2>6, <2>7, <2>8
          DEF Environment
<1>10. CASE UNCHANGED vars
  BY <1>10 DEF vars, TypeOK, Plans
<1> HIDE DEF Rest, Plans
<1> QED BY <1>2, <1>3, <1>8, <1>9, <1>10 DEF Next, ModeratorStep

-----------------------------------------------------------------------------
(* Rows and their locks. *)

LEMMA InvariantInit == Init => ModerationInvariant
  BY TypeInit, Kinds
  DEF Init, ModerationInvariant, ReportsAboutItems, LocksHeld, PlanLocked, ItemsLocked, LocksInOrder, ChecksHold, Task

Rows == ReportsAboutItems /\ LocksHeld /\ PlanLocked /\ ItemsLocked /\ LocksInOrder /\ ChecksHold

\* A step that moves no lock and no plan, and only makes pc of others than
\* moderators and rows that nobody holds differ, keeps what is said of the rows.
LEMMA OutsideStep ==
  ASSUME TypeOK, Rows,
         UNCHANGED <<report, about, rowLock, plan>>,
         \A m \in Moderator : pc'[m] = pc[m],
         \A f \in File : state'[f] \in TerminalStates =>
                             state[f] \in TerminalStates \/ rowLock[f] = NoTask
  PROVE  Rows'
  BY Kinds DEF TypeOK, Rows, ReportsAboutItems, LocksHeld, PlanLocked, ItemsLocked, LocksInOrder, ChecksHold

LEMMA EndStep ==
  ASSUME TypeOK, Rows, NEW m \in Moderator, pc[m] = "transaction", EndTransaction(m),
         UNCHANGED about,
         \A r \in Report : report'[r] = report[r] \/ (rowLock[r] = m /\ report'[r] \in Closed),
         \A f \in File : state'[f] = state[f] \/ rowLock[f] = m
  PROVE  Rows'
<1> USE Kinds DEF TypeOK
<1>1. /\ \A x \in Row : rowLock'[x] = IF rowLock[x] = m THEN NoTask ELSE rowLock[x]
      /\ pc'[m] = "idle" /\ plan'[m] = NoPlan
      /\ \A n \in Moderator : n # m => pc'[n] = pc[n] /\ plan'[n] = plan[n]
  BY DEF EndTransaction, Unlock
<1>2. ReportsAboutItems'
  <2>1. ASSUME NEW r \in Report, report'[r] # "none" PROVE about[r] \in Item
    <3>1. CASE report'[r] = report[r]
      BY <2>1, <3>1 DEF Rows, ReportsAboutItems
    <3>2. CASE rowLock[r] = m
      BY <3>2 DEF Rows, ReportsAboutItems, ChecksHold
    <3> QED BY <3>1, <3>2
  <2> QED BY <2>1 DEF ReportsAboutItems
<1>3. LocksHeld'
  BY <1>1 DEF Rows, LocksHeld
<1>4. PlanLocked' /\ LocksInOrder'
  BY <1>1, SMTT(60) DEF Rows, PlanLocked, LocksInOrder
<1>7. ASSUME NEW n \in Moderator, pc'[n] = "transaction"
      PROVE  \/ \A i \in plan'[n].items : rowLock'[i] = n \/ i \in plan'[n].need
             \/ plan'[n].need = {} /\ \A x \in Row : rowLock'[x] # n
  <2>1. n # m /\ pc[n] = "transaction" /\ plan'[n] = plan[n]
    BY <1>1, <1>7
  <2>2. \A x \in Row : rowLock'[x] = n <=> rowLock[x] = n
    BY <1>1, <2>1
  <2>3. \/ \A i \in plan[n].items : rowLock[i] = n \/ i \in plan[n].need
        \/ plan[n].need = {} /\ \A x \in Row : rowLock[x] # n
    BY <2>1 DEF Rows, ItemsLocked
  <2>4. plan[n].items \subseteq Row
    OBVIOUS
  <2> HIDE DEF TypeOK
  <2> QED BY <2>1, <2>2, <2>3, <2>4
<1>8. ItemsLocked'
  BY <1>7 DEF ItemsLocked
<1>5. ASSUME NEW n \in Moderator, NEW x \in Row, rowLock'[x] = n
      PROVE  /\ x \in Report => report'[x] = "open"
             /\ x \in File /\ plan'[n].to \notin {"keep", "deleted"} =>
                   state'[x] \notin TerminalStates
  <2>1. n # m /\ rowLock[x] = n
    BY <1>1, <1>5
  <2> QED BY <1>1, <2>1 DEF Rows, ChecksHold
<1>6. ChecksHold'
  BY <1>5 DEF ChecksHold
<1> QED BY <1>2, <1>3, <1>4, <1>6, <1>8 DEF Rows

LEMMA BeginStep ==
  ASSUME TypeOK, Rows, NEW m \in Moderator, NEW p \in Plans, Begin(m, p),
         p.reports \cup (p.items \cap File) \subseteq p.need,
         p.items \subseteq p.need \/ p.need = {}
  PROVE  Rows'
<1> USE Kinds DEF TypeOK, Begin
<1>1. \A x \in Row : rowLock[x] # m
  BY DEF Rows, LocksHeld
<1>2. /\ plan'[m] = p /\ pc'[m] = "transaction"
      /\ \A n \in Moderator : n # m => pc'[n] = pc[n] /\ plan'[n] = plan[n]
  OBVIOUS
<1>3. ReportsAboutItems' /\ LocksHeld'
  BY <1>2 DEF Rows, ReportsAboutItems, LocksHeld
<1>4. PlanLocked' /\ LocksInOrder'
  BY <1>1, <1>2 DEF Rows, PlanLocked, LocksInOrder
<1>6. ItemsLocked'
  BY <1>1, <1>2 DEF Rows, ItemsLocked
<1>5. ChecksHold'
  BY <1>1, <1>2 DEF Rows, ChecksHold
<1> QED BY <1>3, <1>4, <1>5, <1>6 DEF Rows

LEMMA LockStep ==
  ASSUME TypeOK, Rows, NEW m \in Moderator, NEW x \in Row, LockRow(m, x)
  PROVE  Rows'
<1>1. CASE EndTransaction(m)
  <2>1. pc[m] = "transaction" /\ UNCHANGED <<state, report, about>>
    BY DEF LockRow
  <2> QED BY <1>1, <2>1, EndStep
<1> USE Kinds DEF TypeOK
<1>2. CASE /\ Acceptable(m, x)
           /\ rowLock' = [rowLock EXCEPT ![x] = m]
           /\ plan' = [plan EXCEPT ![m].need = NeedAfter(m, x), ![m].items =
                              @ \cup (IF x \in Report THEN {about[x]} ELSE {})]
           /\ UNCHANGED pc
  <2> DEFINE A == IF x \in Report THEN {about[x]} ELSE {}
             N == NeedAfter(m, x)
  <2>1. N = (plan[m].need \ {x}) \cup A
    BY DEF NeedAfter
  <2> HIDE DEF A, N
  <2>2. plan' = [plan EXCEPT ![m] = [plan[m] EXCEPT !.need = N, !.items = @ \cup A]]
    BY <1>2 DEF A, N
  <2>3. /\ plan'[m].reports = plan[m].reports /\ plan'[m].to = plan[m].to
        /\ plan'[m].items = plan[m].items \cup A
        /\ plan'[m].need = (plan[m].need \ {x}) \cup A
        /\ \A n \in Moderator : n # m => plan'[n] = plan[n]
    BY <2>1, <2>2
  <2>4. /\ rowLock[x] = NoTask /\ rowLock'[x] = m /\ pc[m] = "transaction"
        /\ \A y \in Row : y # x => rowLock'[y] = rowLock[y]
    BY <1>2 DEF LockRow, Free
  <2>5. UNCHANGED <<state, report, about, pc>>
    BY <1>2 DEF LockRow
  <2>6. ReportsAboutItems' /\ LocksHeld'
    BY <2>4, <2>5 DEF Rows, ReportsAboutItems, LocksHeld
  <2>7. ASSUME NEW n \in Moderator, pc'[n] = "transaction",
               NEW y \in plan'[n].reports \cup (plan'[n].items \cap File)
        PROVE  rowLock'[y] = n \/ y \in plan'[n].need
    <3>1. CASE n = m
      BY <2>3, <2>4, <2>5, <2>7, <3>1 DEF Rows, PlanLocked
    <3>2. CASE n # m
      <4>1. y \in Row
        BY <2>3, <3>2, <2>7
      <4> QED BY <2>3, <2>4, <2>5, <2>7, <3>2, <4>1 DEF Rows, PlanLocked
    <3> QED BY <3>1, <3>2
  <2>8. PlanLocked'
    BY <2>7 DEF PlanLocked
  <2>9. ASSUME NEW n \in Moderator, NEW y \in Row, rowLock'[y] = n
        PROVE  /\ y \in Report => report[y] = "open"
               /\ y \in File /\ plan'[n].to \notin {"keep", "deleted"} =>
                     state[y] \notin TerminalStates
    <3>1. CASE y = x
      BY <1>2, <2>3, <2>4, <2>9, <3>1 DEF Acceptable
    <3>2. CASE y # x
      BY <2>3, <2>4, <2>9, <3>2 DEF Rows, ChecksHold
    <3> QED BY <3>1, <3>2
  <2>10. ChecksHold'
    BY <2>5, <2>9 DEF ChecksHold
  <2>11. ASSUME NEW n \in Moderator, NEW y \in Row, rowLock'[y] = n, NEW z \in plan'[n].need
         PROVE  Rank[y] < Rank[z]
    <3>1. CASE n # m
      BY <2>3, <2>4, <2>11, <3>1 DEF Rows, LocksInOrder
    <3>2. CASE n = m
      <4>1. x \in plan[m].need /\ \A w \in plan[m].need : Rank[x] <= Rank[w]
        BY DEF LockRow, First
      <4>2. \A w \in plan[m].need \ {x} : w \in Row /\ Rank[x] < Rank[w]
        <5>1. \A v, w \in Row : /\ Rank[v] \in Nat /\ Rank[w] \in Nat
                                /\ v # w => Rank[v] # Rank[w]
          BY ModerationAssumption
        <5>2. plan[m].need \subseteq Row
          OBVIOUS
        <5>3. ASSUME NEW w \in plan[m].need \ {x} PROVE w \in Row /\ Rank[x] < Rank[w]
          <6>1. w \in Row /\ x # w /\ Rank[x] <= Rank[w]
            BY <4>1, <5>2
          <6>2. Rank[x] \in Nat /\ Rank[w] \in Nat /\ Rank[x] # Rank[w]
            BY <5>1, <6>1
          <6> HIDE DEF TypeOK
          <6> QED BY <6>1, <6>2
        <5> QED BY <5>3
      <4>3. \A w \in A : w \in Row /\ Rank[x] < Rank[w]
        <5>1. \A r \in Report, i \in Item : Rank[r] < Rank[i]
          BY ModerationAssumption
        <5>2. x \in Report => about[x] \in Item
          BY <1>2 DEF Acceptable, Rows, ReportsAboutItems
        <5> QED BY <5>1, <5>2 DEF A
      <4>4. z \in Row /\ Rank[x] < Rank[z]
        BY <2>3, <2>11, <3>2, <4>2, <4>3
      <4>5. y # x => Rank[y] < Rank[x]
        BY <2>4, <2>11, <3>2, <4>1 DEF Rows, LocksInOrder
      <4> QED BY <4>4, <4>5, ModerationAssumption
    <3> QED BY <3>1, <3>2
  <2>12. LocksInOrder'
    BY <2>11 DEF LocksInOrder
  <2>13. ASSUME NEW n \in Moderator, pc[n] = "transaction"
         PROVE  \/ \A i \in plan'[n].items : rowLock'[i] = n \/ i \in plan'[n].need
                \/ plan'[n].need = {} /\ \A y \in Row : rowLock'[y] # n
    <3>1. \/ \A i \in plan[n].items : rowLock[i] = n \/ i \in plan[n].need
          \/ plan[n].need = {} /\ \A y \in Row : rowLock[y] # n
      BY <2>13 DEF Rows, ItemsLocked
    <3>2. plan[n].items \subseteq Row
      OBVIOUS
    <3>3. x \in plan[m].need
      BY DEF LockRow, First
    <3> HIDE DEF TypeOK
    <3>4. CASE n # m
      <4>1. \A y \in Row : rowLock'[y] = n <=> rowLock[y] = n
        BY <2>4, <3>4, Kinds
      <4> QED BY <2>3, <3>1, <3>2, <3>4, <4>1
    <3>5. CASE n = m
      BY <2>3, <2>4, <3>1, <3>2, <3>3, <3>5
    <3> QED BY <3>4, <3>5
  <2>14. ItemsLocked'
    BY <2>5, <2>13 DEF ItemsLocked
  <2> QED BY <2>6, <2>8, <2>10, <2>12, <2>14 DEF Rows
<1> QED BY <1>1, <1>2 DEF LockRow

LEMMA CommitStep ==
  ASSUME TypeOK, Rows, NEW m \in Moderator, Commit(m)
  PROVE  Rows'
<1>1. /\ pc[m] = "transaction" /\ plan[m].need = {}
      /\ EndTransaction(m) /\ UNCHANGED about
  BY DEF Commit
<1>2. \A x \in plan[m].reports \cup (plan[m].items \cap File) : rowLock[x] = m
  BY <1>1 DEF Rows, PlanLocked
<1>3. \A r \in Report :
         report'[r] = report[r] \/ (rowLock[r] = m /\ report'[r] \in Closed)
  BY <1>2 DEF Commit, TypeOK
<1>4. \A f \in File : state'[f] = state[f] \/ rowLock[f] = m
  BY <1>2, Kinds DEF Commit, TypeOK, Item
<1> QED BY <1>1, <1>3, <1>4, EndStep

LEMMA EnvironmentStep == ASSUME TypeOK, Rows, Environment PROVE Rows'
<1> USE Kinds
<1>1. ASSUME NEW i \in Item, NEW s \in Releasable, NEW b \in BOOLEAN, Create(i, s, b)
      PROVE  Rows'
  <2>1. \A f \in File : state'[f] \in TerminalStates => state[f] \in TerminalStates
    BY <1>1 DEF Create, TypeOK, Releasable, TerminalStates
  <2> QED BY <1>1, <2>1, OutsideStep DEF Create
<1>2. ASSUME NEW i \in Item, NEW r \in Report, CreateReport(r, i) PROVE Rows'
  BY <1>2 DEF CreateReport, TypeOK, Rows, ReportsAboutItems, LocksHeld, PlanLocked, ItemsLocked, LocksInOrder, ChecksHold
<1>3. ASSUME NEW i \in Item, Tick(i) \/ SetExpiry(i) PROVE Rows'
  BY <1>3, OutsideStep DEF Tick, SetExpiry
<1>4. ASSUME NEW m \in Moderator, NEW R \in SUBSET Report, NEW a \in ReportAction,
             ModerateReports(m, R, a)
      PROVE  Rows'
  <2> DEFINE p == [to |-> a.to, closed |-> a.closed, reports |-> R, items |-> {}, need |-> R]
  <2>1. p \in Plans /\ p.reports \cup (p.items \cap File) \subseteq p.need
    BY DEF ReportAction, Plans, ItemStates, Releasable, Withheld, Closed
  <2>3. p.items \subseteq p.need \/ p.need = {}
    OBVIOUS
  <2>2. Begin(m, p)
    BY <1>4 DEF ModerateReports
  <2> HIDE DEF p
  <2> QED BY <2>1, <2>2, <2>3, BeginStep
<1>5. ASSUME NEW m \in Moderator, NEW i \in Item,
             NEW s \in Releasable \cup Withheld \cup {"deleted"}, ModerateItem(m, i, s)
      PROVE  Rows'
  <2> DEFINE N == IF i \in File THEN {i} ELSE {}
             p == [NoPlan EXCEPT !.to = s, !.items = {i}, !.need = N]
  <2>1. N \in SUBSET Row /\ {i} \cap File \subseteq N
    OBVIOUS
  <2>2. p \in Plans /\ p.reports \cup (p.items \cap File) \subseteq p.need
    BY <2>1 DEF NoPlan, Plans, ItemStates, TerminalStates, Closed
  <2>3. Begin(m, p)
    BY <1>5 DEF ModerateItem
  <2>4. p.items \subseteq p.need \/ p.need = {}
    BY DEF NoPlan
  <2> HIDE DEF p
  <2> QED BY <2>2, <2>3, <2>4, BeginStep
<1>6. ASSUME NEW m \in Moderator, Abort(m) PROVE Rows'
  <2>1. pc[m] = "transaction" /\ EndTransaction(m) /\ UNCHANGED <<state, report, about>>
    BY <1>6 DEF Abort
  <2> QED BY <2>1, EndStep
<1>7. ASSUME NEW d \in Deleter, DeleteWrite(d) PROVE Rows'
  <2>1. \A f \in File : state'[f] = state[f] \/ rowLock[f] = NoTask
    BY <1>7 DEF DeleteWrite, Free, TypeOK
  <2>2. \A m \in Moderator : pc'[m] = pc[m]
    BY <1>7 DEF DeleteWrite, TypeOK
  <2> QED BY <1>7, <2>1, <2>2, OutsideStep DEF DeleteWrite
<1>8. ASSUME NEW d \in Deleter, NEW i \in Item, DeleteRead(d, i) PROVE Rows'
  <2>1. \A m \in Moderator : pc'[m] = pc[m]
    BY <1>8 DEF DeleteRead, TypeOK
  <2> QED BY <1>8, <2>1, OutsideStep DEF DeleteRead
<1>9. ASSUME NEW I \in SUBSET Item, BulkDelete(I) PROVE Rows'
  <2>1. \A f \in File : state'[f] = state[f] \/ rowLock[f] = NoTask
    BY <1>9 DEF BulkDelete, Free
  <2> QED BY <1>9, <2>1, OutsideStep DEF BulkDelete
<1>10. ASSUME NEW f \in File, ExpireFile(f) PROVE Rows'
  <2>1. \A g \in File : state'[g] = state[g] \/ rowLock[g] = NoTask
    BY <1>10 DEF ExpireFile, Free, TypeOK
  <2> QED BY <1>10, <2>1, OutsideStep DEF ExpireFile
<1>11. CASE ExpirePastes
  <2>1. \A f \in File : state'[f] = state[f]
    BY <1>11 DEF ExpirePastes, TypeOK
  <2> QED BY <1>11, <2>1, OutsideStep DEF ExpirePastes
<1> HIDE Kinds
<1> QED BY <1>1, <1>2, <1>3, <1>4, <1>5, <1>6, <1>7, <1>8, <1>9, <1>10, <1>11
        DEF Environment

LEMMA ScannersStep == ASSUME TypeOK, Rows, NEW s \in Scanner, ScannerStep(s) PROVE Rows'
<1> USE Kinds
<1>1. CASE RetryList(s)
  <2>1. \A m \in Moderator : pc'[m] = pc[m]
    BY <1>1 DEF RetryList, TypeOK
  <2> QED BY <1>1, <2>1, OutsideStep DEF RetryList
<1>2. ASSUME NEW f \in File, NEW d \in Releasable, NEW b \in BOOLEAN, RetryScan(s, f, d, b)
      PROVE  Rows'
  <2>1. \A m \in Moderator : pc'[m] = pc[m]
    BY <1>2 DEF RetryScan, Proceed, TypeOK
  <2> QED BY <1>2, <2>1, OutsideStep DEF RetryScan, Proceed
<1>3. ASSUME NEW f \in File, RetryWrite(s, f) PROVE Rows'
  <2>1. \A m \in Moderator : pc'[m] = pc[m]
    BY <1>3 DEF RetryWrite, Proceed, TypeOK
  <2>2. \A g \in File : state'[g] = state[g] \/ rowLock[g] = NoTask
    BY <1>3 DEF RetryWrite, Free, TypeOK
  <2> QED BY <1>3, <2>1, <2>2, OutsideStep DEF RetryWrite, Proceed
<1>4. ASSUME NEW f \in File, RetryAbort(s, f) PROVE Rows'
  <2>1. \A m \in Moderator : pc'[m] = pc[m]
    BY <1>4 DEF RetryAbort, TypeOK
  <2> QED BY <1>4, <2>1, OutsideStep DEF RetryAbort
<1> QED BY <1>1, <1>2, <1>3, <1>4 DEF ScannerStep

-----------------------------------------------------------------------------
(* The theorems. *)

\* Decisions are never made on stale rows: whatever a transaction has found out
\* about a report or a file it has locked still holds when it commits
\* (apply_report_actions, apply_item_moderation), and types are right.
THEOREM DecisionsNotStale == Spec => []ModerationInvariant
<1>1. ASSUME ModerationInvariant, [Next]_vars PROVE ModerationInvariant'
  <2>1. TypeOK /\ Rows
    BY <1>1 DEF ModerationInvariant, Rows
  <2>2. TypeOK'
    BY <1>1, <2>1, TypeStep DEF Rows
  <2> SUFFICES Rows'
    BY <2>2 DEF ModerationInvariant, Rows
  <2>3. CASE UNCHANGED vars
    BY <2>1, <2>3
       DEF vars, Rows, ReportsAboutItems, LocksHeld, PlanLocked, ItemsLocked, LocksInOrder, ChecksHold
  <2>4. CASE \E m \in Moderator : ModeratorStep(m)
    BY <2>1, <2>4, LockStep, CommitStep DEF ModeratorStep
  <2> QED BY <1>1, <2>1, <2>3, <2>4, ScannersStep, EnvironmentStep DEF Next
<1> QED BY <1>1, InvariantInit, PTL DEF Spec

\* A file that was deleted or has expired stays so, although the writes of a
\* moderator do not look at its state again.
THEOREM RetiredStay == Spec => RetiredFilesStay
<1>1. ASSUME ModerationInvariant, Next, NEW g \in File, state[g] \in TerminalStates
      PROVE  state'[g] \in TerminalStates
  <2> USE Kinds
  <2>1. TypeOK /\ Rows
    BY <1>1 DEF ModerationInvariant, Rows
  <2>2. state[g] \notin Releasable /\ state[g] # "none"
    BY <1>1 DEF TerminalStates, Releasable
  <2>3. ASSUME NEW m \in Moderator, Commit(m) PROVE state'[g] \in TerminalStates
    <3>1. CASE g \in plan[m].items /\ plan[m].to # "keep"
      <4>1. rowLock[g] = m
        BY <2>1, <2>3, <3>1 DEF Commit, Rows, PlanLocked
      <4>2. plan[m].to = "deleted"
        BY <1>1, <2>1, <3>1, <4>1 DEF Rows, ChecksHold
      <4>3. state'[g] = state[g] \/ state'[g] = plan[m].to
        BY <2>3 DEF Commit
      <4> QED BY <1>1, <4>2, <4>3 DEF TerminalStates
    <3>2. CASE g \notin plan[m].items \/ plan[m].to = "keep"
      BY <1>1, <2>3, <3>2 DEF Commit
    <3> QED BY <3>1, <3>2
  <2>4. CASE \E m \in Moderator : ModeratorStep(m)
    BY <1>1, <2>3, <2>4 DEF ModeratorStep, LockRow
  <2>5. CASE \E s \in Scanner : ScannerStep(s)
    BY <1>1, <2>1, <2>5 DEF ScannerStep, RetryList, RetryScan, RetryWrite, RetryAbort, TypeOK
  <2>6. ASSUME NEW d \in Deleter, DeleteWrite(d) PROVE state'[g] \in TerminalStates
    BY <1>1, <2>1, <2>6 DEF DeleteWrite, TypeOK, TerminalStates
  <2>7. ASSUME NEW i \in Item, NEW s \in Releasable, NEW b \in BOOLEAN, Create(i, s, b)
        PROVE  state'[g] \in TerminalStates
    BY <1>1, <2>1, <2>2, <2>7 DEF Create, TypeOK
  <2>8. ASSUME NEW I \in SUBSET Item, BulkDelete(I) PROVE state'[g] \in TerminalStates
    BY <1>1, <2>8 DEF BulkDelete, TerminalStates
  <2>9. ASSUME NEW f \in File, ExpireFile(f) PROVE state'[g] \in TerminalStates
    BY <1>1, <2>1, <2>9 DEF ExpireFile, TypeOK, TerminalStates
  <2>10. CASE ExpirePastes
    BY <1>1, <2>10 DEF ExpirePastes, TerminalStates
  <2>11. CASE Environment
    BY <1>1, <2>6, <2>7, <2>8, <2>9, <2>10, <2>11
       DEF Environment, CreateReport, Tick, SetExpiry, ModerateReports, ModerateItem, Begin,
           Abort, DeleteRead
  <2> QED BY <1>1, <2>4, <2>5, <2>11 DEF Next
<1>2. ASSUME ModerationInvariant, [Next]_vars
      PROVE  [\A f \in File : state[f] \in TerminalStates => state'[f] \in TerminalStates]_vars
  BY <1>1, <1>2
<1> QED BY <1>2, DecisionsNotStale, PTL DEF Spec, RetiredFilesStay

\* A takedown or legal hold ends by a moderator's hand, or by a task that read
\* the item before (retry_scanners, delete_item of a paste).
THEOREM WithheldStays == Spec => WithheldKept
<1> DEFINE ByHand(i) == \E m \in Moderator : pc[m] = "transaction" /\ i \in plan[m].items
           ByRetry(i) == \E s \in Scanner : i \in DOMAIN seen[s] /\ seen[s][i] \in Releasable
           ByDeletion(i) == i \in Paste /\ \E d \in Deleter : target[d] = i
           Kept(i) == ByHand(i) \/ ByRetry(i) \/ ByDeletion(i)
<1>1. ASSUME TypeOK, Next, NEW i \in Item, state[i] \in Withheld, state'[i] # state[i]
      PROVE  Kept(i)
  <2> USE Kinds
  <2>1. state[i] = "withheld" /\ i \in File \cup Paste
    BY <1>1 DEF Withheld, Item
  <2>2. CASE \E m \in Moderator : ModeratorStep(m)
    BY <1>1, <2>2 DEF ModeratorStep, LockRow, Commit
  <2>3. CASE \E s \in Scanner : ScannerStep(s)
    <3>1. PICK s \in Scanner : ScannerStep(s)
      BY <2>3
    <3>2. PICK f \in File : RetryWrite(s, f)
      BY <1>1, <3>1 DEF ScannerStep, RetryList, RetryScan, RetryAbort
    <3>3. i = f
      BY <1>1, <3>2 DEF RetryWrite, TypeOK
    <3>4. PICK F \in SUBSET File : seen[s] \in [F -> Releasable]
      BY <1>1 DEF TypeOK
    <3>5. f \in DOMAIN seen[s]
      BY <3>2 DEF RetryWrite, IsNext, Oldest
    <3>6. seen[s][f] \in Releasable
      BY <3>4, <3>5
    <3> QED BY <3>3, <3>5, <3>6
  <2>4. ASSUME NEW d \in Deleter, DeleteWrite(d) PROVE Kept(i)
    BY <1>1, <2>1, <2>4 DEF DeleteWrite, Deletable, TypeOK, Releasable
  <2>5. ASSUME NEW j \in Item, NEW s \in Releasable, NEW b \in BOOLEAN, Create(j, s, b)
        PROVE  FALSE
    BY <1>1, <2>1, <2>5 DEF Create, TypeOK
  <2>6. ASSUME NEW I \in SUBSET Item, BulkDelete(I) PROVE FALSE
    BY <1>1, <2>1, <2>6 DEF BulkDelete, Releasable
  <2>7. ASSUME NEW f \in File, ExpireFile(f) PROVE FALSE
    BY <1>1, <2>1, <2>7 DEF ExpireFile, TypeOK, Releasable
  <2>8. ~ExpirePastes
    BY <1>1, <2>1 DEF ExpirePastes
  <2>9. CASE Environment
    BY <1>1, <2>4, <2>5, <2>6, <2>7, <2>8, <2>9
       DEF Environment, CreateReport, Tick, SetExpiry, ModerateReports, ModerateItem, Begin,
           Abort, DeleteRead
  <2> QED BY <1>1, <2>2, <2>3, <2>9 DEF Next
<1>2. ASSUME ModerationInvariant, [Next]_vars
      PROVE  [\A i \in Item : state[i] \in Withheld /\ state'[i] # state[i] =>
                 \/ \E m \in Moderator : pc[m] = "transaction" /\ i \in plan[m].items
                 \/ \E s \in Scanner : i \in DOMAIN seen[s] /\ seen[s][i] \in Releasable
                 \/ i \in Paste /\ \E d \in Deleter : target[d] = i]_vars
  BY <1>1, <1>2 DEF ModerationInvariant
<1> HIDE DEF ByHand, ByRetry, ByDeletion, Kept
<1> QED BY <1>2, DecisionsNotStale, PTL DEF Spec, WithheldKept

\* A report that was resolved or dismissed stays as it was decided, however many
\* batches name it.
THEOREM ReportsDecidedOnce == Spec => DecidedOnce
<1>1. ASSUME TypeOK, Next, NEW r \in Report, report[r] \in Closed PROVE report'[r] = report[r]
  <2>1. report[r] \notin {"none", "open"}
    BY <1>1 DEF Closed
  <2>2. CASE \E m \in Moderator : ModeratorStep(m)
    BY <2>1, <2>2 DEF ModeratorStep, LockRow, Commit
  <2>3. CASE \E s \in Scanner : ScannerStep(s)
    BY <2>3 DEF ScannerStep, RetryList, RetryScan, RetryWrite, RetryAbort
  <2>4. ASSUME NEW i \in Item, NEW q \in Report, CreateReport(q, i)
        PROVE  report'[r] = report[r]
    BY <1>1, <2>1, <2>4 DEF CreateReport, TypeOK
  <2>5. CASE Environment
    BY <2>4, <2>5
       DEF Environment, Create, Tick, SetExpiry, ModerateReports, ModerateItem, Begin, Abort,
           DeleteWrite, DeleteRead, BulkDelete, ExpireFile, ExpirePastes
  <2> QED BY <1>1, <2>2, <2>3, <2>5 DEF Next
<1>2. ASSUME ModerationInvariant, [Next]_vars
      PROVE  [\A r \in Report : report[r] \in Closed => report'[r] = report[r]]_vars
  BY <1>1, <1>2 DEF ModerationInvariant
<1> QED BY <1>2, DecisionsNotStale, PTL DEF Spec, DecidedOnce

\* No two moderators wait for each other: of two rows, both transactions lock the
\* one that comes first first (apply_report_actions sorts reports and items).
THEOREM NoMutualWait ==
  Spec => [](\A m, n \in Moderator, x, y \in Row :
               ~ /\ x \in plan[m].need /\ rowLock[x] = n
                 /\ y \in plan[n].need /\ rowLock[y] = m)
<1>1. ModerationInvariant =>
        \A m, n \in Moderator, x, y \in Row :
           ~ /\ x \in plan[m].need /\ rowLock[x] = n
             /\ y \in plan[n].need /\ rowLock[y] = m
  <2> SUFFICES ASSUME ModerationInvariant, NEW m \in Moderator, NEW n \in Moderator,
                      NEW x \in Row, NEW y \in Row,
                      x \in plan[m].need, rowLock[x] = n, y \in plan[n].need, rowLock[y] = m
               PROVE  FALSE
    OBVIOUS
  <2>1. Rank[y] < Rank[x] /\ Rank[x] < Rank[y]
    BY DEF ModerationInvariant, LocksInOrder
  <2>2. Rank[x] \in Nat /\ Rank[y] \in Nat
    BY ModerationAssumption
  <2> QED BY <2>1, <2>2
<1> QED BY <1>1, DecisionsNotStale, PTL

\* A finite set of rows has a first one and a last one.
LEMMA FirstAndLast ==
  ASSUME NEW S, IsFiniteSet(S), NEW r \in [S -> Nat], NEW A \in SUBSET S, A # {}
  PROVE  /\ \E x \in A : \A y \in A : r[x] <= r[y]
         /\ \E x \in A : \A y \in A : r[y] <= r[x]
<1> DEFINE Bounded(B) == /\ \E x \in B : \A y \in B : r[x] <= r[y]
                         /\ \E x \in B : \A y \in B : r[y] <= r[x]
           Bad == {B \in SUBSET S : B # {} /\ ~Bounded(B)}
<1>1. ASSUME Bad # {} PROVE FALSE
  <2>1. PICK B \in Bad : \A C \in Bad : <<C, B>> \notin StrictSubsetOrdering(S)
    <3>1. Bad \subseteq FiniteSubsetsOf(S)
      BY FS_FiniteSubsetsOfFinite
    <3> HIDE DEF Bad
    <3> QED BY <1>1, <3>1, FS_StrictSubsetOrderingWellFounded, WFMin
  <2>2. B \in SUBSET S /\ B # {} /\ ~Bounded(B)
    BY <2>1
  <2>3. PICK x \in B : TRUE
    BY <2>2
  <2> DEFINE C == B \ {x}
  <2>4. C \in SUBSET S /\ C \notin Bad
    BY <2>1, <2>2, <2>3 DEF StrictSubsetOrdering
  <2> HIDE DEF Bad
  <2>5. \A y \in B : r[y] \in Nat
    BY <2>2
  <2>6. CASE C = {}
    <3>1. \A y \in B : y = x
      BY <2>6
    <3> QED BY <2>2, <2>3, <2>5, <3>1
  <2>7. CASE C # {}
    <3>1. Bounded(C)
      BY <2>4, <2>7 DEF Bad
    <3>2. PICK least \in C : \A y \in C : r[least] <= r[y]
      BY <3>1
    <3>3. PICK most \in C : \A y \in C : r[y] <= r[most]
      BY <3>1
    <3>4. \A y \in B : y = x \/ y \in C
      OBVIOUS
    <3>5. least \in B /\ most \in B
      OBVIOUS
    <3> HIDE DEF C
    <3>6. \E z \in B : \A y \in B : r[z] <= r[y]
      BY <2>3, <2>5, <3>2, <3>4, <3>5
    <3>7. \E z \in B : \A y \in B : r[y] <= r[z]
      BY <2>3, <2>5, <3>3, <3>4, <3>5
    <3> QED BY <2>2, <3>6, <3>7
  <2> QED BY <2>6, <2>7
<1>2. A \notin Bad
  BY <1>1
<1> QED BY <1>2

\* Of the moderators whose transactions are under way, one does not wait: the one
\* that holds the last of all held rows needs only rows that nobody holds, and if
\* none holds a row each of them may go on (apply_report_actions,
\* apply_item_moderation).  The tables are finite.
THEOREM ModeratorsGoOn ==
  ASSUME IsFiniteSet(Row)
  PROVE  Spec => []NoStandstill
<1>1. Rank \in [Row -> Nat]
  BY ModerationAssumption
<1>2. ASSUME ModerationInvariant, NEW m0 \in Moderator, pc[m0] = "transaction"
      PROVE  \E m \in Moderator : pc[m] = "transaction" /\ CanProceed(m)
  <2> DEFINE Held == {x \in Row : rowLock[x] # NoTask}
  <2>1. /\ \A x \in Row : rowLock[x] \in Moderator \cup {NoTask}
        /\ \A m \in Moderator : plan[m].need \in SUBSET Row /\ plan[m].items \subseteq Row
    BY <1>2, Kinds DEF ModerationInvariant, TypeOK
  <2>2. ASSUME NEW m \in Moderator, plan[m].need # {}
        PROVE  \E x \in plan[m].need : First(x, plan[m].need)
    BY <1>1, <2>1, <2>2, FirstAndLast DEF First
  <2>3. CASE Held = {}
    <3>1. \A x \in Row : rowLock[x] = NoTask
      BY <2>3
    <3> QED BY <1>2, <2>1, <2>2, <3>1 DEF CanProceed, Free
  <2>4. CASE Held # {}
    <3>1. PICK x \in Held : \A y \in Held : Rank[y] <= Rank[x]
      BY <1>1, <2>4, FirstAndLast
    <3>2. PICK m \in Moderator : rowLock[x] = m
      BY <2>1, <3>1
    <3>3. pc[m] = "transaction" /\ x \in Row
      BY <1>2, <3>1, <3>2 DEF ModerationInvariant, LocksHeld
    <3>4. CASE plan[m].need # {}
      <4>1. PICK z \in plan[m].need : First(z, plan[m].need)
        BY <2>2, <3>4
      <4>2. Rank[x] < Rank[z]
        BY <1>2, <3>2, <3>3 DEF ModerationInvariant, LocksInOrder
      <4>3. z \in Row /\ Rank[x] \in Nat /\ Rank[z] \in Nat
        BY <1>1, <2>1, <3>3
      <4>4. z \notin Held
        BY <3>1, <4>2, <4>3
      <4> QED BY <3>3, <4>1, <4>3, <4>4 DEF CanProceed, Free
    <3>5. CASE plan[m].need = {}
      <4>1. \A i \in plan[m].items : rowLock[i] = m
        BY <1>2, <3>2, <3>3, <3>5 DEF ModerationInvariant, ItemsLocked
      <4> QED BY <3>3, <3>5, <4>1 DEF CanProceed
    <3> QED BY <3>4, <3>5
  <2> QED BY <2>3, <2>4
<1>3. ModerationInvariant => NoStandstill
  BY <1>2 DEF NoStandstill
<1> QED BY <1>3, DecisionsNotStale, PTL
=============================================================================
