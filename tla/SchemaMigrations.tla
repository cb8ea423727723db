--------------------------- MODULE SchemaMigrations ---------------------------
(***************************************************************************)
(* The versioned SQL migrations and their ledger (internal/migration) as   *)
(* the deployment uses them: dbsetup on a new database (cmd/dbsetup), then *)
(* for every deployment adopt, up and the start of the new image           *)
(* (cmd/migrate; the order is that of the deployment workflow).            *)
(*                                                                         *)
(* Deployments of different images overlap, the advisory lock is all that  *)
(* keeps their runners apart, and a runner may stop before or within any   *)
(* of its statements.                                                      *)
(***************************************************************************)
EXTENDS Naturals

CONSTANTS
    LastVersion,    \* the migrations are 1 .. LastVersion, in the order of their names
    Baseline,       \* what a database from before the ledger had applied
    Deployments,    \* deployments
    Setup,          \* the run of dbsetup
    CatalogOf,      \* CatalogOf[r]: the last migration in the image of r
    Nobody

Versions == 1 .. LastVersion
Runs == Deployments \cup {Setup}

ASSUME MigrationsAssumption ==
    /\ LastVersion \in Nat /\ Baseline \in 1 .. LastVersion
    /\ Setup \notin Deployments /\ Nobody \notin Runs
    /\ CatalogOf \in [Runs -> Baseline .. LastVersion]

VARIABLES
    schema,     \* what the SQL of each migration has done to the tables
    ledger,     \* schema_migrations
    lock,       \* the connection that holds the advisory lock
    run,        \* the runs: what they do next, and the versions loadApplied did not return
    serving     \* the catalog of the image that serves, 0 for none

migrationVars == <<schema, ledger, lock, run, serving>>

Steps == {"idle", "adopt", "register", "up", "begin", "sql", "finish", "start", "over"}

MigrationTypeOK ==
    /\ schema \in [Versions -> {"absent", "partial", "present"}]
    /\ ledger \in [Versions -> {"none", "dirty", "clean"}]
    /\ lock \in Runs \cup {Nobody}
    /\ run \in [Runs -> [pc: Steps, missing: SUBSET Versions]]
    /\ serving \in {0} \cup Versions

Waiting == [pc |-> "idle", missing |-> {}]
Over == [pc |-> "over", missing |-> {}]

\* A database from before the ledger, or an empty one.
MigrationInit ==
    /\ schema \in {[v \in Versions |-> IF v <= Baseline THEN "present" ELSE "absent"],
                   [v \in Versions |-> "absent"]}
    /\ ledger = [v \in Versions |-> "none"]
    /\ lock = Nobody
    /\ run = [r \in Runs |-> Waiting]
    /\ serving = 0

Catalog(r) == 1 .. CatalogOf[r]
Applied == {v \in Versions : ledger[v] # "none"}
First(S) == CHOOSE v \in S : \A w \in S : v <= w

\* The ledger knows no version but those of the catalog, and no gap before one it knows.
\* (No checksum ever differs: a migration that was published is not edited.)
ValidateApplied(r) ==
    /\ Applied \subseteq Catalog(r)
    /\ \A v \in Applied, w \in Catalog(r) : w < v => w \in Applied

\* Mutation of EnsureClean: a dirty row counts as applied.
EnsureNothing == TRUE

EnsureClean == \A v \in Versions : ledger[v] # "dirty"

Continue(r, pc) == run' = [run EXCEPT ![r].pc = pc]
End(r) == run' = [run EXCEPT ![r] = Over]

-----------------------------------------------------------------------------
\* A deployment begins; that of an empty database waits for dbsetup, which may have failed.
Deploy(d) ==
    /\ run[d].pc \in {"idle", "over"}
    /\ schema[1] = "present" /\ run[Setup].pc \in {"idle", "over"}
    /\ Continue(d, "adopt")
    /\ UNCHANGED <<schema, ledger, lock, serving>>

\* AutoMigrate creates the tables of the current models, that is, of the whole catalog.
AutoMigrate ==
    /\ run[Setup].pc = "idle"
    /\ \A v \in Versions : schema[v] = "absent"
    /\ schema' = [v \in Versions |-> IF v \in Catalog(Setup) THEN "present" ELSE "absent"]
    /\ Continue(Setup, "adopt")
    /\ UNCHANGED <<ledger, lock, serving>>

\* What adopt registers: all of the catalog for dbsetup, the fixed baseline for a deployment.
Through(r) == 1 .. IF r = Setup THEN CatalogOf[r] ELSE Baseline

\* GET_LOCK, ensureLedger, loadApplied and the two checks: Adopt.
BeginAdopt(r) ==
    /\ run[r].pc = "adopt" /\ lock = Nobody
    /\ IF ValidateApplied(r) /\ EnsureClean
       THEN /\ lock' = r
            /\ run' = [run EXCEPT ![r] = [pc |-> "register", missing |-> Through(r) \ Applied]]
       ELSE UNCHANGED lock /\ End(r)
    /\ UNCHANGED <<schema, ledger, serving>>

\* One INSERT each, in the order of the catalog and outside of any transaction.
Register(r) ==
    LET v == First(run[r].missing) IN
    /\ run[r].pc = "register" /\ run[r].missing # {}
    /\ ledger' = [ledger EXCEPT ![v] = "clean"]
    /\ run' = [run EXCEPT ![r].missing = @ \ {v}]
    /\ UNCHANGED <<schema, lock, serving>>

EndAdopt(r) ==
    /\ run[r].pc = "register" /\ run[r].missing = {}
    /\ lock' = Nobody
    /\ IF r = Setup THEN End(r) ELSE Continue(r, "up")
    /\ UNCHANGED <<schema, ledger, serving>>

\* The same for Up, which refuses an empty ledger.
BeginUp(r) ==
    /\ run[r].pc = "up" /\ lock = Nobody
    /\ IF Applied # {} /\ ValidateApplied(r) /\ EnsureClean
       THEN /\ lock' = r
            /\ run' = [run EXCEPT ![r] = [pc |-> "begin", missing |-> Catalog(r) \ Applied]]
       ELSE UNCHANGED lock /\ End(r)
    /\ UNCHANGED <<schema, ledger, serving>>

MarkDirty(r) ==
    /\ run[r].pc = "begin" /\ run[r].missing # {}
    /\ ledger' = [ledger EXCEPT ![First(run[r].missing)] = "dirty"]
    /\ Continue(r, "sql")
    /\ UNCHANGED <<schema, lock, serving>>

ExecuteSQL(r) ==
    LET v == First(run[r].missing) IN
    /\ run[r].pc = "sql"
    /\ schema[v] = "absent"
    /\ schema' = [schema EXCEPT ![v] = "present"]
    /\ Continue(r, "finish")
    /\ UNCHANGED <<ledger, lock, serving>>

\* A statement of the file fails; on tables that have the change already the first one does.
ExecuteSQLFails(r) ==
    LET v == First(run[r].missing) IN
    /\ run[r].pc = "sql"
    /\ schema' = [schema EXCEPT ![v] = IF @ = "absent" THEN "partial" ELSE @]
    /\ lock' = Nobody
    /\ End(r)
    /\ UNCHANGED <<ledger, serving>>

FinishMigration(r) ==
    LET v == First(run[r].missing) IN
    /\ run[r].pc = "finish"
    /\ ledger' = [ledger EXCEPT ![v] = "clean"]
    /\ run' = [run EXCEPT ![r] = [pc |-> "begin", missing |-> @.missing \ {v}]]
    /\ UNCHANGED <<schema, lock, serving>>

EndUp(r) ==
    /\ run[r].pc = "begin" /\ run[r].missing = {}
    /\ lock' = Nobody
    /\ Continue(r, "start")
    /\ UNCHANGED <<schema, ledger, serving>>

\* docker compose up: the workflow comes here only when adopt and up returned no error.
StartService(r) ==
    /\ run[r].pc = "start"
    /\ serving' = CatalogOf[r]
    /\ End(r)
    /\ UNCHANGED <<schema, ledger, lock>>

\* The lock is not got in time, a statement fails or the process stops: the server ends the
\* connection and with it the lock.
RunStops(r) ==
    /\ run[r].pc \notin {"idle", "over"}
    /\ lock' = IF lock = r THEN Nobody ELSE lock
    /\ End(r)
    /\ UNCHANGED <<schema, ledger, serving>>

\* The operator brings the tables back to before the dirty migration, and its row with them.
\* (AutoMigrate may have made the change before, in a dbsetup that did not get to its ledger.)
RestoreDirty(v) ==
    /\ ledger[v] = "dirty" /\ lock = Nobody
    /\ ledger' = [ledger EXCEPT ![v] = "none"]
    /\ \E s \in {"absent", schema[v]} \ {"partial"} : schema' = [schema EXCEPT ![v] = s]
    /\ UNCHANGED <<lock, run, serving>>

MigrationNext ==
    \/ AutoMigrate
    \/ \E d \in Deployments : Deploy(d)
    \/ \E r \in Runs :
         \/ BeginAdopt(r) \/ Register(r) \/ EndAdopt(r)
         \/ BeginUp(r) \/ MarkDirty(r) \/ ExecuteSQL(r) \/ ExecuteSQLFails(r)
         \/ FinishMigration(r) \/ EndUp(r)
         \/ StartService(r) \/ RunStops(r)
    \/ \E v \in Versions : RestoreDirty(v)

MigrationSpec == MigrationInit /\ [][MigrationNext]_migrationVars

-----------------------------------------------------------------------------
(* Properties.                                                             *)

\* What the ledger calls applied is in the tables; it has no gap, a dirty version is its last,
\* and a migration that is half done is there as dirty (applyOne marks before it executes, and
\* Up and Adopt go no further on a dirty ledger), whichever runner stops where.
LedgerTellsTheSchema ==
    \A v \in Versions :
        /\ ledger[v] = "clean" => schema[v] = "present"
        /\ schema[v] = "partial" => ledger[v] = "dirty"
        /\ ledger[v] # "none" => \A w \in 1 .. v - 1 : ledger[w] = "clean"

\* The image that serves finds every migration it was built with, also while the deployment of
\* another image goes on, fails or is repaired (deploy: adopt, up, then the service).
ServedSchemaIsComplete ==
    \A v \in 1 .. serving : ledger[v] = "clean" /\ schema[v] = "present"
=============================================================================
