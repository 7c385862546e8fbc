------------------------------ MODULE Migrations ------------------------------
(***************************************************************************)
(* Database::migrate (db/migrations.rs): a process that starts brings the  *)
(* database to the version it knows, in one transaction that serializes    *)
(* with those of the other processes.                                      *)
(*                                                                         *)
(* Databases of releases without a ledger are recognised by their columns. *)
(* Columns are grouped by what makes a difference; version 2 also marks    *)
(* every account as verified that is not, and must not do so to an account *)
(* that was left unverified on purpose.                                    *)
(***************************************************************************)
EXTENDS Naturals

CONSTANTS Server,        \* processes that start
          Supports,      \* Supports[p]: the last version that the binary of p knows
          Member,        \* accounts
          Postgres,      \* which database it is
          NoServer, NoMember

LastPreLedger == 4
Versions      == 1..7    \* one more than MIGRATIONS, for binaries to come

ASSUME MigrationsAssumption ==
    /\ Supports \in [Server -> 4..7] /\ Postgres \in BOOLEAN /\ NoServer \notin Server
    /\ NoMember \notin [complete : BOOLEAN, verified : BOOLEAN]

\* What the versions add; "verified" is users.email_verified_at, and the tables come
\* with every column of versions 2 to 4.
Adds(v) == CASE v = 1 -> {"tables"}
             [] v = 2 -> {"identity", "verified"}
             [] v = 3 -> {"token"}
             [] v = 4 -> {"item"}
             [] v = 5 -> IF Postgres THEN {"wide"} ELSE {}
             [] v = 6 -> {"locks"}
             [] OTHER -> {}
Additive == UNION {Adds(v) : v \in 2..LastPreLedger}

VARIABLES db,       \* the committed [columns, ledger]; misnamed are versions under another name
          work,     \* the transaction of `migrating`: [columns, ledger, backfilled]
          migrating,
          server,   \* server[p]: "starting", "ready" or "refused"
          member    \* member[m]: NoMember, or how it was created and if it is verified

migrationsVars == <<db, work, migrating, server, member>>

Database == [columns : SUBSET (Additive \cup {"tables", "wide", "locks"}),
             ledger : SUBSET Versions, misnamed : SUBSET Versions]

\* A fresh database, one of a release without a ledger, or one with a ledger, maybe of
\* a newer binary or of a fork.
Deployed ==
    {[columns |-> {}, ledger |-> {}, misnamed |-> {}]} \cup
    {[columns |-> {"tables"} \cup C, ledger |-> {}, misnamed |-> {}] : C \in SUBSET Additive} \cup
    {[columns |-> UNION {Adds(v) : v \in 1..n}, ledger |-> 1..n, misnamed |-> M] :
        n \in 4..7, M \in {{}, {2}}}
Complete(d) == Additive \subseteq d.columns

Nothing == [columns |-> {}, ledger |-> {}, backfilled |-> {}]

MigrationsInit == /\ db \in Deployed /\ migrating = NoServer /\ work = Nothing
                  /\ server = [p \in Server |-> "starting"]
                  /\ member = [m \in Member |-> NoMember]

-----------------------------------------------------------------------------
\* An account nobody verified signs up: with a process that is ready, or with an older
\* release that still runs on a database without a ledger.
SignUp(m) ==
    /\ member[m] = NoMember /\ "tables" \in db.columns
    /\ db.ledger = {} \/ \E p \in Server : server[p] = "ready"
    /\ member' = [member EXCEPT ![m] = [complete |-> Complete(db), verified |-> FALSE]]
    /\ UNCHANGED <<db, work, migrating, server>>

\* Mutant: a database without a ledger is taken through every version.
NoneAdopted(d) == d.ledger

\* adopt_completed_unversioned_migrations
Adopted(d) == IF d.ledger = {} /\ Complete(d) THEN 2..LastPreLedger ELSE d.ledger

\* validate_migration_ledger
Understood(p) == db.misnamed = {} /\ \A v \in db.ledger : v <= Supports[p]

\* lock_migration_sequence_before_ledger, lock_migration_table: one at a time.
StartMigration(p) ==
    /\ server[p] = "starting" /\ migrating = NoServer
    /\ IF Understood(p)
       THEN /\ migrating' = p
            /\ work' = [columns |-> db.columns, ledger |-> Adopted(db), backfilled |-> {}]
            /\ UNCHANGED server
       ELSE server' = [server EXCEPT ![p] = "refused"] /\ UNCHANGED <<migrating, work>>
    /\ UNCHANGED <<db, member>>

Remaining(p) == (1..Supports[p]) \ work.ledger

\* apply_migration and record_migration: the versions in their order.  The baseline is
\* CREATE TABLE IF NOT EXISTS, so it completes only what has no tables at all.
ApplyMigration(p) ==
    /\ migrating = p /\ Remaining(p) # {}
    /\ LET v == CHOOSE v \in Remaining(p) : \A w \in Remaining(p) : v <= w
       IN work' = [columns    |-> work.columns \cup Adds(v) \cup
                                  (IF v = 1 /\ "tables" \notin work.columns THEN Additive ELSE {}),
                   ledger     |-> work.ledger \cup {v},
                   backfilled |-> IF v = 2 THEN {m \in Member : member[m] # NoMember}
                                  ELSE work.backfilled]
    /\ UNCHANGED <<db, migrating, server, member>>

CommitMigration(p) ==
    /\ migrating = p /\ Remaining(p) = {}
    /\ db' = [db EXCEPT !.columns = work.columns, !.ledger = work.ledger]
    /\ member' = [m \in Member |-> IF m \in work.backfilled
                                   THEN [member[m] EXCEPT !.verified = TRUE] ELSE member[m]]
    /\ server' = [server EXCEPT ![p] = "ready"]
    /\ migrating' = NoServer /\ work' = Nothing

\* A process dies, and its transaction with it; it may be started again.
CrashServer(p) ==
    /\ server' = [server EXCEPT ![p] = "starting"]
    /\ IF migrating = p THEN migrating' = NoServer /\ work' = Nothing
                        ELSE UNCHANGED <<migrating, work>>
    /\ UNCHANGED <<db, member>>

MigrationsNext == \/ \E m \in Member : SignUp(m)
                  \/ \E p \in Server : \/ StartMigration(p) \/ ApplyMigration(p)
                                       \/ CommitMigration(p) \/ CrashServer(p)

MigrationsSpec == MigrationsInit /\ [][MigrationsNext]_migrationsVars

-----------------------------------------------------------------------------
MigrationsTypeOK ==
    /\ db \in Database /\ migrating \in Server \cup {NoServer}
    /\ work \in [columns : SUBSET (Additive \cup {"tables", "wide", "locks"}),
                 ledger : SUBSET Versions, backfilled : SUBSET Member]
    /\ server \in [Server -> {"starting", "ready", "refused"}]
    /\ member \in [Member -> {NoMember} \cup [complete : BOOLEAN, verified : BOOLEAN]]

Applied(d) == \A v \in d.ledger : Adds(v) \subseteq d.columns

\* A transaction in progress has all that is committed, what it records it has applied,
\* and it comes to version 2 only where no account can have been left unverified on
\* purpose; the accounts it verifies were there before that.
TransactionInPlace ==
    migrating # NoServer =>
        /\ db.columns \subseteq work.columns /\ db.ledger \subseteq work.ledger /\ Applied(work)
        /\ Complete(db) => 2 \in work.ledger
        /\ \A m \in work.backfilled : member[m] # NoMember /\ ~member[m].complete

\* A recorded version has been applied, a process serves only what has all of its own,
\* and no account is verified by the upgrade that signed up when the columns were
\* complete: not on adoption, not by a second process that starts, not after a crash
\* (adopt_completed_unversioned_migrations, db/migrations.rs:164).
MigrationsInvariant ==
    /\ MigrationsTypeOK /\ TransactionInPlace /\ Applied(db)
    /\ db.ledger # {} => 1..LastPreLedger \subseteq db.ledger
    /\ \A p \in Server : server[p] = "ready" => 1..Supports[p] \subseteq db.ledger
    /\ \A m \in Member : member[m] # NoMember =>
          /\ ~(member[m].complete /\ member[m].verified)
          /\ member[m].complete => Complete(db)
=============================================================================
