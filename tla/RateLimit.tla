------------------------------ MODULE RateLimit ------------------------------
(***************************************************************************)
(* Request limits: RateLimiter (rate_limit.rs), which counts in the memory *)
(* of each process, and Database::check_rate_limit (db.rs), which counts   *)
(* in a table all processes share and the background job prunes.           *)
(* A check reads the clock, waits for the mutex or for a connection, and   *)
(* then does everything in one step (under the mutex; one statement), with *)
(* a time that may be old by then.  Actions that are not configured or not *)
(* enabled are not counted at all and do not appear here.                  *)
(***************************************************************************)
EXTENDS Naturals, FiniteSets, FiniteSetsExt

CONSTANTS
    Process,
    Action, Identity,   \* names of limited actions; users and client addresses
    Requests, Window,   \* per action: the configured limit and window_seconds
    Backends,           \* configurations considered: TRUE is rate_limit_backend = "database"
    Retention,          \* RATE_LIMIT_BUCKET_RETENTION_SECONDS
    Lag,                \* bound: seconds a check can wait after it read the clock
    Eternity            \* bound: the clock stops there

ASSUME RateLimitAssumption ==
    /\ Requests \in [Action -> Nat \ {0}] /\ Window \in [Action -> Nat \ {0}]
    /\ Backends \subseteq BOOLEAN /\ Retention \in Nat \ {0} /\ IsFiniteSet(Process)
    /\ Lag \in Nat /\ Eternity \in Nat

Key == Action \X Identity

VARIABLES
    shared,     \* which of the Backends is configured; it never changes
    now,
    buckets,    \* buckets[p]: the HashMap of process p, a set of records
    rows,       \* rate_limit_buckets, a set of records
    admitted    \* history: admitted[p, k][s], requests p let through in second s

limitVars == <<shared, now, buckets, rows, admitted>>

Bucket == [key : Key, start : 0..Eternity, count : Nat]

LimitsInit == /\ shared \in Backends
              /\ now = 0
              /\ buckets = [p \in Process |-> {}] /\ rows = {}
              /\ admitted = [pk \in Process \X Key |-> [s \in 0..Eternity |-> 0]]

Of(B, k)     == {b \in B : b.key = k}
Fresh(k, at) == [key |-> k, start |-> at, count |-> 0]
Limit(k)     == Requests[k[1]]
WindowOf(k)  == Window[k[1]]
OneMore(b)   == [b EXCEPT !.count = @ + 1]
Admit(p, k)  == admitted' = [admitted EXCEPT ![<<p, k>>][now] = @ + 1]

\* Mutant: a window ends a second early.
RetainedShort(B, w, at) == {b \in B : at + 1 < b.start + w}

\* buckets.retain: w is the window of the action being checked, whatever the
\* action of the bucket.
Retained(B, w, at) == {b \in B : at < b.start + w}

\* Mutant: the comparison admits one request too many.
CheckMemoryOffByOne(p, k, at) ==
    /\ ~shared
    /\ LET kept == Retained(buckets[p], WindowOf(k), at)
           b    == IF Of(kept, k) = {} THEN Fresh(k, at) ELSE CHOOSE x \in Of(kept, k) : TRUE
       IN  \/ /\ b.count > Limit(k)
              /\ buckets' = [buckets EXCEPT ![p] = kept \cup {b}]
              /\ UNCHANGED admitted
           \/ /\ b.count <= Limit(k)
              /\ buckets' = [buckets EXCEPT ![p] = (kept \ {b}) \cup {OneMore(b)}]
              /\ Admit(p, k)
    /\ UNCHANGED <<shared, now, rows>>

\* RateLimiter::check.  A bucket that survives retain is within its window when
\* the action is its own, so the reset after it never finds anything to do.
CheckMemory(p, k, at) ==
    /\ ~shared
    /\ LET kept == Retained(buckets[p], WindowOf(k), at)
           b    == IF Of(kept, k) = {} THEN Fresh(k, at) ELSE CHOOSE x \in Of(kept, k) : TRUE
       IN  \/ /\ b.count >= Limit(k)
              /\ buckets' = [buckets EXCEPT ![p] = kept \cup {b}]
              /\ UNCHANGED admitted
           \/ /\ b.count < Limit(k)
              /\ buckets' = [buckets EXCEPT ![p] = (kept \ {b}) \cup {OneMore(b)}]
              /\ Admit(p, k)
    /\ UNCHANGED <<shared, now, rows>>

\* Mutant: the upsert keeps the start of a window that is over.
CheckDatabaseSameStart(p, k, at) ==
    /\ shared
    /\ \/ /\ Of(rows, k) = {}
          /\ rows' = rows \cup {OneMore(Fresh(k, at))}
          /\ Admit(p, k)
       \/ \E b \in Of(rows, k) :
             LET over == b.start + WindowOf(k) <= at
             IN  IF over \/ b.count < Limit(k)
                 THEN /\ rows' = (rows \ {b}) \cup
                                 {IF over THEN [b EXCEPT !.count = 1] ELSE OneMore(b)}
                      /\ Admit(p, k)
                 ELSE UNCHANGED <<rows, admitted>>
    /\ UNCHANGED <<shared, now, buckets>>

\* check_rate_limit: insert, reset or count, unless the limit is reached.
CheckDatabase(p, k, at) ==
    /\ shared
    /\ \/ /\ Of(rows, k) = {}
          /\ rows' = rows \cup {OneMore(Fresh(k, at))}
          /\ Admit(p, k)
       \/ \E b \in Of(rows, k) :
             LET over == b.start + WindowOf(k) <= at
             IN  IF over \/ b.count < Limit(k)
                 THEN /\ rows' = (rows \ {b}) \cup
                                 {OneMore(IF over THEN Fresh(k, at) ELSE b)}
                      /\ Admit(p, k)
                 ELSE UNCHANGED <<rows, admitted>>
    /\ UNCHANGED <<shared, now, buckets>>

\* cleanup_expired_auth_state, in any process.
Cleanup ==
    /\ shared
    /\ rows' = {b \in rows : b.start + Retention > now}
    /\ rows' # rows
    /\ UNCHANGED <<shared, now, buckets, admitted>>

\* A process dies and comes back with an empty map; the history of its limits
\* begins anew ("its counters reset on restart").
Restart(p) ==
    /\ buckets[p] # {}
    /\ buckets' = [buckets EXCEPT ![p] = {}]
    /\ admitted' = [pk \in DOMAIN admitted |->
                       IF pk[1] = p THEN [s \in 0..Eternity |-> 0] ELSE admitted[pk]]
    /\ UNCHANGED <<shared, now, rows>>

Tick == /\ now < Eternity
        /\ now' = now + 1
        /\ UNCHANGED <<shared, buckets, rows, admitted>>

LimitsNext == \/ \E p \in Process, k \in Key, at \in {u \in 0..now : now <= u + Lag} :
                    CheckMemory(p, k, at) \/ CheckDatabase(p, k, at)
              \/ \E p \in Process : Restart(p)
              \/ Cleanup \/ Tick

LimitsSpec == LimitsInit /\ [][LimitsNext]_limitVars

-----------------------------------------------------------------------------
(* Properties. *)

Counted(B) == \A b \in B : b.count \in 1..Limit(b.key) /\ Of(B, b.key) = {b}

\* The type invariant: a key has one bucket, which never counts past its limit; with the
\* database no process keeps any; nothing is let through ahead of the clock.
LimitsTypeOK ==
    /\ shared \in Backends /\ now \in 0..Eternity
    /\ buckets \in [Process -> SUBSET Bucket] /\ rows \in SUBSET Bucket
    /\ admitted \in [Process \X Key -> [0..Eternity -> Nat]]
    /\ \A p \in Process : Counted(buckets[p]) /\ (shared => buckets[p] = {})
    /\ Counted(rows)
    /\ \A pk \in Process \X Key : \A u \in now + 1..Eternity : admitted[pk][u] = 0

\* Requests of k that the processes of P let through in the seconds of S.
AdmittedIn(P, k, S) == MapThenSumSet(LAMBDA pu : admitted[<<pu[1], k>>][pu[2]], P \X S)

\* The processes that count together.
Pools == IF shared THEN {Process} ELSE {{p} : p \in Process}

\* How long a count lasts at least.  In memory that is the shortest of all the windows,
\* since a check of any action sweeps the buckets of all; with the database it is the
\* window of the action, if the clean-up job does not come before.
Spans(k) == IF shared THEN {WindowOf(k), Retention} ELSE {Window[a] : a \in Action}

\* A stretch in which a count that began before it can end only once: a check that works
\* with an old time takes the lag off either end.
Stretch(k, s) == {u \in 0..Eternity : s <= u /\ \A w \in Spans(k) : u + Lag < s + w}

\* A limiter with fixed windows lets at most twice the limit through in any such
\* stretch (the end of one, the beginning of the next): per process in memory, over all
\* processes with the database.
LimitHolds == \A k \in Key, P \in Pools, s \in 0..now :
                 AdmittedIn(P, k, Stretch(k, s)) <= 2 * Limit(k)

\* The requests from second s on.
Since(P, k, s) == AdmittedIn(P, k, s..Eternity)

\* A bucket that c requests were counted in was made in second t, when the one before it
\* had lasted: that one counts for the seconds up to t at most.
BeganAt(P, k, t, c) == \A s \in 0..now :
    /\ s > t => Since(P, k, s) <= c
    /\ (\A w \in Spans(k) : s + w > t + Lag) => Since(P, k, s) <= c + Limit(k)

\* What a bucket of B says of the requests of k that the processes of P let through.
Accounted(B, P, k) ==
    /\ Of(B, k) = {} => \E t \in 0..now : BeganAt(P, k, t, 0)
    /\ \A b \in Of(B, k) : \E t \in 0..now : t <= b.start + Lag /\ BeganAt(P, k, t, b.count)

CountsAccount == \A k \in Key, P \in Pools :
                    IF shared THEN Accounted(rows, P, k)
                              ELSE \A p \in P : Accounted(buckets[p], P, k)

\* What the run checks.
LimitsInvariant == LimitsTypeOK /\ LimitHolds /\ CountsAccount

\* The buckets of B that are still to count survive in C.
CountOn(B, C) == \A b \in B : \E c \in C : c.key = b.key /\ c.start = b.start /\ c.count >= b.count

\* A count lasts as long as it is sure to: the checks of all other keys and actions, in
\* this process or another, and the clean-up job leave it alone until then, and only the
\* restart of its process takes it in memory.
SurelyCounting(B) == {b \in B : \A w \in Spans(b.key) : now' < b.start + w}
CountsLast ==
    [][/\ CountOn(SurelyCounting(rows), rows')
       /\ \A p \in Process : Restart(p) \/ CountOn(SurelyCounting(buckets[p]), buckets'[p])]_limitVars

\* "Finished windows have to be dropped" (rate_limit.rs:36), and no others: in memory a
\* bucket whose own window is not over survives the checks of all other actions.
Unfinished(B) == {b \in B : now' < b.start + WindowOf(b.key)}
NoCountLost ==
    [][\A p \in Process : Restart(p) \/ CountOn(Unfinished(buckets[p]), buckets'[p])]_limitVars
=============================================================================
