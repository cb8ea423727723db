--------------------------- MODULE ServiceProofs ---------------------------
(* Theorems about the components MCServices checks side by side, for every    *)
(* catalog of migrations and number of overlapping deployments, every policy, *)
(* weight and number of requests, every old content and size of a batch, any  *)
(* users, keys and avatars, any processes, days and views.                    *)
EXTENDS Governance, SchemaMigrations, LegacyMigration, Avatars, Analytics,
        FiniteSetTheorems, WellFoundedInduction, TLAPS

(***************************************************************************)
(* What the runs know.  The one with the lock knows the ledger: what it    *)
(* has not found there is still missing, and nothing is dirty but the      *)
(* migration in its hands.  Past adopt the baseline is registered, and a   *)
(* clean row stays.  dbsetup works alone, on the tables it has made.       *)
(***************************************************************************)
InHand(r) == First(run[r].missing)

Deploying(r) == run[r].pc \in {"up", "begin", "sql", "finish", "start"}

Locked ==
    \A r \in Runs : run[r].pc \in {"register", "begin", "sql", "finish"} => lock = r

Registering(r) ==
    run[r].pc = "register" =>
        /\ run[r].missing = Through(r) \ Applied
        /\ EnsureClean

BetweenMigrations(r) ==
    run[r].pc = "begin" =>
        /\ run[r].missing = Catalog(r) \ Applied
        /\ EnsureClean

Migrating(r) ==
    run[r].pc \in {"sql", "finish"} =>
        /\ run[r].missing \subseteq Catalog(r)
        /\ InHand(r) \in run[r].missing
        /\ run[r].missing \ {InHand(r)} = Catalog(r) \ Applied
        /\ ledger[InHand(r)] = "dirty"
        /\ \A v \in Versions \ {InHand(r)} : ledger[v] # "dirty"
        /\ run[r].pc = "finish" => schema[InHand(r)] = "present"

BaselineTogether ==
    /\ \A v \in 1 .. Baseline : schema[v] = schema[1] /\ ledger[v] # "dirty"
    /\ schema[1] # "partial"
    /\ \A d \in Deployments : run[d].pc # "idle" => schema[1] = "present"

BaselineKnown(r) ==
    /\ Deploying(r) => \A v \in 1 .. Baseline : ledger[v] = "clean"
    /\ run[r].pc = "start" => \A v \in Catalog(r) : ledger[v] = "clean"

SetupAlone ==
    /\ run[Setup].pc \in {"idle", "adopt", "register", "over"}
    /\ run[Setup].pc \in {"adopt", "register"} =>
         /\ \A d \in Deployments : run[d].pc = "idle"
         /\ \A v \in Catalog(Setup) : schema[v] = "present"
         /\ EnsureClean

Served == \A v \in 1 .. serving : ledger[v] = "clean"

MigrationInv ==
    /\ MigrationTypeOK
    /\ LedgerTellsTheSchema
    /\ Locked
    /\ \A r \in Runs : Registering(r) /\ BetweenMigrations(r) /\ Migrating(r) /\ BaselineKnown(r)
    /\ BaselineTogether
    /\ SetupAlone
    /\ Served

-----------------------------------------------------------------------------
LEMMA CatalogVersions ==
    ASSUME NEW r \in Runs
    PROVE  /\ CatalogOf[r] \in Nat /\ Baseline \in Nat /\ LastVersion \in Nat
           /\ 1 <= Baseline /\ Baseline <= CatalogOf[r] /\ CatalogOf[r] <= LastVersion
           /\ 1 \in Versions /\ 1 .. Baseline \subseteq Versions
           /\ Catalog(r) \subseteq Versions /\ Through(r) \subseteq Catalog(r)
           /\ 1 .. Baseline \subseteq Through(r)
  <1>1. CatalogOf[r] \in Baseline .. LastVersion
    BY MigrationsAssumption
  <1>2. LastVersion \in Nat /\ Baseline \in 1 .. LastVersion
    BY MigrationsAssumption
  <1> QED
    BY <1>1, <1>2 DEF Catalog, Through, Versions

LEMMA FirstIsLeast ==
    ASSUME NEW S \in SUBSET Versions, S # {}
    PROVE  First(S) \in S /\ \A w \in S : First(S) <= w
  <1> DEFINE R == OpToRel(<, Nat)
  <1>1. S \subseteq Nat
    BY DEF Versions
  <1>2. IsWellFoundedOn(R, Nat)
    BY NatLessThanWellFounded DEF R
  <1> HIDE DEF R
  <1>3. PICK v \in S : \A w \in S : ~(<<w, v>> \in R)
    BY <1>1, <1>2, WFMin
  <1>4. \A w \in S : v <= w
    <2> SUFFICES ASSUME NEW w \in S PROVE v <= w
      OBVIOUS
    <2>1. v \in Nat /\ w \in Nat /\ ~(<<w, v>> \in R)
      BY <1>1, <1>3
    <2> QED
      BY <2>1 DEF R, OpToRel
  <1> QED
    BY <1>3, <1>4 DEF First

LEMMA MigrationInitInv == MigrationInit => MigrationInv
  <1> SUFFICES ASSUME MigrationInit PROVE MigrationInv
    OBVIOUS
  <1>1. MigrationTypeOK
    BY MigrationsAssumption DEF MigrationInit, MigrationTypeOK, Waiting, Steps
  <1>2. \A v \in Versions : ledger[v] = "none" /\ schema[v] \in {"absent", "present"}
    BY DEF MigrationInit
  <1>3. LedgerTellsTheSchema
    BY <1>2 DEF LedgerTellsTheSchema
  <1>4. \A r \in Runs : run[r].pc = "idle"
    BY DEF MigrationInit, Waiting
  <1>5. Locked /\ \A r \in Runs : Registering(r) /\ BetweenMigrations(r) /\ Migrating(r) /\ BaselineKnown(r)
    BY <1>4 DEF Locked, Registering, BetweenMigrations, Migrating, BaselineKnown, Deploying
  <1>6. Setup \in Runs /\ Deployments \subseteq Runs
    BY DEF Runs
  <1>7. BaselineTogether
    <2>1. \A v \in 1 .. Baseline : v \in Versions /\ 1 \in Versions
      BY <1>6, CatalogVersions
    <2>2. Baseline \in Nat /\ 1 <= Baseline
      BY <1>6, CatalogVersions
    <2>3. (\A v \in Versions : schema[v] = "absent")
          \/ (\A v \in Versions : schema[v] = IF v <= Baseline THEN "present" ELSE "absent")
      BY DEF MigrationInit
    <2> QED
      BY <1>2, <1>4, <1>6, <2>1, <2>2, <2>3 DEF BaselineTogether
  <1>8. SetupAlone
    BY <1>4, <1>6 DEF SetupAlone
  <1>9. Served
    BY DEF MigrationInit, Served
  <1> QED
    BY <1>1, <1>3, <1>5, <1>7, <1>8, <1>9 DEF MigrationInv

-----------------------------------------------------------------------------
(* The steps that leave the tables and the ledger alone.                      *)

\* They keep what is said of the ledger alone, and what a run that does not move knows of it.
LEMMA TablesKept ==
    ASSUME MigrationInv, UNCHANGED <<schema, ledger>>
    PROVE  /\ LedgerTellsTheSchema'
           /\ Applied' = Applied /\ (EnsureClean' <=> EnsureClean)
           /\ \A r \in Runs : run'[r] = run[r] =>
                  Registering(r)' /\ BetweenMigrations(r)' /\ Migrating(r)' /\ BaselineKnown(r)'
  BY SMTT(60) DEF MigrationInv, LedgerTellsTheSchema, Applied, EnsureClean, Registering, BetweenMigrations,
         Migrating, BaselineKnown, Deploying, InHand, First, Through, Catalog, Versions

\* A run that ends, or has not begun, knows nothing.
LEMMA NothingKnown ==
    ASSUME NEW r \in Runs, run'[r].pc \in {"idle", "adopt", "over"}
    PROVE  Registering(r)' /\ BetweenMigrations(r)' /\ Migrating(r)' /\ BaselineKnown(r)'
  BY DEF Registering, BetweenMigrations, Migrating, BaselineKnown, Deploying

LEMMA DeployStep ==
    ASSUME MigrationInv, NEW d \in Deployments, Deploy(d)
    PROVE  MigrationInv'
  <1> USE DEF Deploy, Continue
  <1>0. d \in Runs /\ Setup \in Runs /\ d # Setup /\ Deployments \subseteq Runs
    BY MigrationsAssumption DEF Runs
  <1>1. run' = [run EXCEPT ![d].pc = "adopt"] /\ run \in [Runs -> [pc: Steps, missing: SUBSET Versions]]
    BY DEF MigrationInv, MigrationTypeOK
  <1>2. MigrationTypeOK'
    BY <1>0, <1>1 DEF MigrationInv, MigrationTypeOK, Steps
  <1>3. \A r \in Runs : r # d => run'[r] = run[r]
    BY <1>0, <1>1
  <1>4. run'[d].pc = "adopt"
    BY <1>0, <1>1
  <1>5. Locked'
    BY <1>3, <1>4 DEF MigrationInv, Locked
  <1>6. \A r \in Runs : Registering(r)' /\ BetweenMigrations(r)' /\ Migrating(r)' /\ BaselineKnown(r)'
    BY <1>3, <1>4, TablesKept, NothingKnown
  <1>7. BaselineTogether'
    BY <1>0, <1>3, <1>4 DEF MigrationInv, BaselineTogether
  <1>8. SetupAlone'
    BY <1>0, <1>3, <1>4 DEF MigrationInv, SetupAlone
  <1>9. Served'
    BY DEF MigrationInv, Served
  <1> QED
    BY <1>2, <1>5, <1>6, <1>7, <1>8, <1>9, TablesKept DEF MigrationInv
\* One run moves, and the others are where they were.
LEMMA OthersStay ==
    ASSUME MigrationInv, NEW r \in Runs, NEW k, run' = [run EXCEPT ![r] = k]
    PROVE  run'[r] = k /\ \A s \in Runs : s # r => run'[s] = run[s]
  BY DEF MigrationInv, MigrationTypeOK

LEMMA BeginAdoptStep ==
    ASSUME MigrationInv, NEW r \in Runs, BeginAdopt(r)
    PROVE  MigrationInv'
  <1> USE DEF BeginAdopt, End, Over
  <1>0. /\ run \in [Runs -> [pc: Steps, missing: SUBSET Versions]] /\ lock \in Runs \cup {Nobody}
        /\ Nobody \notin Runs /\ Through(r) \subseteq Versions /\ Setup \in Runs
    BY MigrationsAssumption, CatalogVersions DEF MigrationInv, MigrationTypeOK, Runs
  <1>1. \/ /\ lock' = r /\ EnsureClean
           /\ run' = [run EXCEPT ![r] = [pc |-> "register", missing |-> Through(r) \ Applied]]
        \/ lock' = lock /\ run' = [run EXCEPT ![r] = [pc |-> "over", missing |-> {}]]
    OBVIOUS
  <1>2. MigrationTypeOK'
    BY <1>0, <1>1 DEF MigrationInv, MigrationTypeOK, Steps
  <1>3. /\ \A s \in Runs : s # r => run'[s] = run[s]
        /\ \/ lock' = r /\ EnsureClean /\ run'[r] = [pc |-> "register", missing |-> Through(r) \ Applied]
           \/ lock' = lock /\ run'[r] = [pc |-> "over", missing |-> {}]
    BY <1>1, OthersStay
  <1>4. Locked'
    BY <1>0, <1>3 DEF MigrationInv, Locked
  <1>5. Registering(r)' /\ BetweenMigrations(r)' /\ Migrating(r)' /\ BaselineKnown(r)'
    <2>1. CASE run'[r].pc = "over"
      BY <2>1, NothingKnown
    <2>2. CASE EnsureClean /\ run'[r] = [pc |-> "register", missing |-> Through(r) \ Applied]
      <3>1. EnsureClean' /\ Applied' = Applied /\ Through(r)' = Through(r)
        BY <2>2, TablesKept DEF Through
      <3> QED
        BY <2>2, <3>1 DEF Registering, BetweenMigrations, Migrating, BaselineKnown, Deploying
    <2> QED
      BY <1>3, <2>1, <2>2
  <1>6. \A s \in Runs : Registering(s)' /\ BetweenMigrations(s)' /\ Migrating(s)' /\ BaselineKnown(s)'
    BY <1>3, <1>5, TablesKept
  <1>7. BaselineTogether'
    BY <1>3 DEF MigrationInv, BaselineTogether, Runs
  <1>8. SetupAlone'
    <2>1. \A d \in Deployments : run'[d].pc = "idle" <=> run[d].pc = "idle"
      BY <1>3 DEF Runs
    <2>2. EnsureClean' <=> EnsureClean
      BY TablesKept
    <2>3. /\ run'[Setup].pc \in {"idle", "adopt", "register", "over"}
          /\ run'[Setup].pc \in {"adopt", "register"} => run[Setup].pc \in {"adopt", "register"}
      BY <1>0, <1>3 DEF MigrationInv, SetupAlone
    <2> QED
      BY <2>1, <2>2, <2>3 DEF MigrationInv, SetupAlone, Catalog
  <1>9. Served'
    BY DEF MigrationInv, Served
  <1> QED
    BY <1>2, <1>4, <1>6, <1>7, <1>8, <1>9, TablesKept DEF MigrationInv

LEMMA EndAdoptStep ==
    ASSUME MigrationInv, NEW r \in Runs, EndAdopt(r)
    PROVE  MigrationInv'
  <1> USE DEF EndAdopt, End, Over, Continue
  <1>0. /\ run \in [Runs -> [pc: Steps, missing: SUBSET Versions]] /\ Nobody \notin Runs /\ lock = r
        /\ Setup \in Runs /\ Deployments \subseteq Runs /\ Runs \ Deployments = {Setup}
    BY MigrationsAssumption DEF MigrationInv, MigrationTypeOK, Locked, Runs
  <1>1. PICK pc \in {"up", "over"} :
            /\ run' = [run EXCEPT ![r] = [pc |-> pc, missing |-> {}]]
            /\ pc = "up" => r # Setup
    BY <1>0
  <1>2. MigrationTypeOK'
    BY <1>1 DEF MigrationInv, MigrationTypeOK, Steps
  <1>3. /\ \A s \in Runs : s # r => run'[s] = run[s]
        /\ run'[r].pc \in {"up", "over"} /\ (run'[r].pc = "up" => r # Setup)
    <2>1. run'[r] = [pc |-> pc, missing |-> {}] /\ \A s \in Runs : s # r => run'[s] = run[s]
      BY <1>1, OthersStay
    <2> QED
      BY <1>1, <2>1
  <1>4. Locked'
    BY <1>0, <1>3 DEF MigrationInv, Locked
  <1>5. Registering(r)' /\ BetweenMigrations(r)' /\ Migrating(r)' /\ BaselineKnown(r)'
    <2>1. CASE run'[r].pc = "over"
      BY <2>1, NothingKnown
    <2>2. CASE run'[r].pc = "up"
      <3>1. Through(r) \ Applied = {} /\ EnsureClean
        BY DEF MigrationInv, Registering
      <3>2. \A v \in 1 .. Baseline : v \in Versions /\ ledger[v] # "none"
        BY <3>1, CatalogVersions DEF Applied
      <3>3. \A v \in 1 .. Baseline : ledger[v] = "clean"
        BY <3>1, <3>2 DEF MigrationInv, MigrationTypeOK, EnsureClean
      <3> QED
        BY <2>2, <3>3 DEF Registering, BetweenMigrations, Migrating, BaselineKnown, Deploying
    <2> QED
      BY <1>3, <2>1, <2>2
  <1>6. \A s \in Runs : Registering(s)' /\ BetweenMigrations(s)' /\ Migrating(s)' /\ BaselineKnown(s)'
    BY <1>3, <1>5, TablesKept
  <1>7. BaselineTogether'
    BY <1>0, <1>3 DEF MigrationInv, BaselineTogether
  <1>8. SetupAlone'
    <2>1. EnsureClean' <=> EnsureClean
      BY TablesKept
    <2>2. \A d \in Deployments : run[d].pc = "idle" => run'[d].pc = "idle"
      BY <1>0, <1>3
    <2> QED
      BY <1>0, <1>3, <2>1, <2>2 DEF MigrationInv, SetupAlone, Catalog
  <1>9. Served'
    BY DEF MigrationInv, Served
  <1> QED
    BY <1>2, <1>4, <1>6, <1>7, <1>8, <1>9, TablesKept DEF MigrationInv

LEMMA BeginUpStep ==
    ASSUME MigrationInv, NEW r \in Runs, BeginUp(r)
    PROVE  MigrationInv'
  <1> USE DEF BeginUp, End, Over
  <1>0. /\ run \in [Runs -> [pc: Steps, missing: SUBSET Versions]] /\ lock \in Runs \cup {Nobody}
        /\ Nobody \notin Runs /\ Catalog(r) \subseteq Versions /\ Setup \in Runs
        /\ r # Setup /\ run[r].pc = "up"
    BY MigrationsAssumption, CatalogVersions DEF MigrationInv, MigrationTypeOK, Runs, SetupAlone
  <1>1. \/ /\ lock' = r /\ EnsureClean
           /\ run' = [run EXCEPT ![r] = [pc |-> "begin", missing |-> Catalog(r) \ Applied]]
        \/ lock' = lock /\ run' = [run EXCEPT ![r] = [pc |-> "over", missing |-> {}]]
    OBVIOUS
  <1>2. MigrationTypeOK'
    BY <1>0, <1>1 DEF MigrationInv, MigrationTypeOK, Steps
  <1>3. /\ \A s \in Runs : s # r => run'[s] = run[s]
        /\ \/ lock' = r /\ EnsureClean /\ run'[r] = [pc |-> "begin", missing |-> Catalog(r) \ Applied]
           \/ lock' = lock /\ run'[r] = [pc |-> "over", missing |-> {}]
    BY <1>1, OthersStay
  <1>4. Locked'
    BY <1>0, <1>3 DEF MigrationInv, Locked
  <1>5. Registering(r)' /\ BetweenMigrations(r)' /\ Migrating(r)' /\ BaselineKnown(r)'
    <2>1. CASE run'[r].pc = "over"
      BY <2>1, NothingKnown
    <2>2. CASE EnsureClean /\ run'[r] = [pc |-> "begin", missing |-> Catalog(r) \ Applied]
      <3>1. EnsureClean' /\ Applied' = Applied /\ Catalog(r)' = Catalog(r)
        BY <2>2, TablesKept DEF Catalog
      <3>2. \A v \in 1 .. Baseline : ledger[v] = "clean"
        BY <1>0 DEF MigrationInv, BaselineKnown, Deploying
      <3> QED
        BY <2>2, <3>1, <3>2 DEF Registering, BetweenMigrations, Migrating, BaselineKnown, Deploying
    <2> QED
      BY <1>3, <2>1, <2>2
  <1>6. \A s \in Runs : Registering(s)' /\ BetweenMigrations(s)' /\ Migrating(s)' /\ BaselineKnown(s)'
    BY <1>3, <1>5, TablesKept
  <1>7. BaselineTogether'
    BY <1>0, <1>3 DEF MigrationInv, BaselineTogether, Runs
  <1>8. SetupAlone'
    <2>1. EnsureClean' <=> EnsureClean
      BY TablesKept
    <2>2. \A d \in Deployments : run[d].pc = "idle" => run'[d].pc = "idle"
      BY <1>0, <1>3 DEF Runs
    <2> QED
      BY <1>0, <1>3, <2>1, <2>2 DEF MigrationInv, SetupAlone, Catalog
  <1>9. Served'
    BY DEF MigrationInv, Served
  <1> QED
    BY <1>2, <1>4, <1>6, <1>7, <1>8, <1>9, TablesKept DEF MigrationInv

LEMMA EndUpStep ==
    ASSUME MigrationInv, NEW r \in Runs, EndUp(r)
    PROVE  MigrationInv'
  <1> USE DEF EndUp, Continue
  <1>0. /\ run \in [Runs -> [pc: Steps, missing: SUBSET Versions]] /\ Nobody \notin Runs /\ lock = r
        /\ Setup \in Runs /\ r # Setup /\ run[r].pc = "begin" /\ run[r].missing = {}
    BY MigrationsAssumption DEF MigrationInv, MigrationTypeOK, Locked, Runs, SetupAlone
  <1>1. PICK k \in [pc: Steps, missing: SUBSET Versions] :
            k.pc = "start" /\ run' = [run EXCEPT ![r] = k]
    <2>1. [run[r] EXCEPT !.pc = "start"] \in [pc: Steps, missing: SUBSET Versions]
      BY <1>0 DEF Steps
    <2>2. [run[r] EXCEPT !.pc = "start"].pc = "start"
      BY <1>0
    <2> QED
      BY <2>1, <2>2
  <1>2. MigrationTypeOK'
    BY <1>0, <1>1 DEF MigrationInv, MigrationTypeOK, Steps
  <1>3. run'[r].pc = "start" /\ \A s \in Runs : s # r => run'[s] = run[s]
    BY <1>1, OthersStay
  <1>4. Locked'
    BY <1>0, <1>3 DEF MigrationInv, Locked
  <1>5. Registering(r)' /\ BetweenMigrations(r)' /\ Migrating(r)' /\ BaselineKnown(r)'
    <2>1. Catalog(r) \ Applied = {} /\ EnsureClean
      BY <1>0 DEF MigrationInv, BetweenMigrations
    <2>2. \A v \in Catalog(r) : v \in Versions /\ ledger[v] # "none"
      BY <2>1, CatalogVersions DEF Applied
    <2>3. \A v \in Catalog(r) : ledger[v] = "clean"
      BY <2>1, <2>2 DEF MigrationInv, MigrationTypeOK, EnsureClean
    <2>4. \A v \in 1 .. Baseline : ledger[v] = "clean"
      BY <1>0 DEF MigrationInv, BaselineKnown, Deploying
    <2> QED
      BY <1>3, <2>3, <2>4 DEF Registering, BetweenMigrations, Migrating, BaselineKnown, Deploying, Catalog
  <1>6. \A s \in Runs : Registering(s)' /\ BetweenMigrations(s)' /\ Migrating(s)' /\ BaselineKnown(s)'
    BY <1>3, <1>5, TablesKept
  <1>7. BaselineTogether'
    BY <1>0, <1>3 DEF MigrationInv, BaselineTogether, Runs
  <1>8. SetupAlone'
    <2>1. EnsureClean' <=> EnsureClean
      BY TablesKept
    <2>2. \A d \in Deployments : run[d].pc = "idle" => run'[d].pc = "idle"
      BY <1>0, <1>3 DEF Runs
    <2> QED
      BY <1>0, <1>3, <2>1, <2>2 DEF MigrationInv, SetupAlone, Catalog
  <1>9. Served'
    BY DEF MigrationInv, Served
  <1> QED
    BY <1>2, <1>4, <1>6, <1>7, <1>8, <1>9, TablesKept DEF MigrationInv

\* A run that ends keeps nothing, and whoever else has the lock keeps it: StartService, RunStops.
LEMMA EndStep ==
    ASSUME MigrationInv, NEW r \in Runs, run[r].pc \notin {"idle"}, End(r),
           lock' \in {lock, IF lock = r THEN Nobody ELSE lock}, UNCHANGED <<schema, ledger>>,
           serving' \in {serving, CatalogOf[r]},
           serving' = serving \/ run[r].pc = "start"
    PROVE  MigrationInv'
  <1> USE DEF End, Over
  <1>0. /\ run \in [Runs -> [pc: Steps, missing: SUBSET Versions]] /\ lock \in Runs \cup {Nobody}
        /\ Nobody \notin Runs /\ Setup \in Runs /\ Deployments \subseteq Runs
        /\ CatalogOf[r] \in Versions
    BY MigrationsAssumption, CatalogVersions DEF MigrationInv, MigrationTypeOK, Runs, Versions
  <1>1. run' = [run EXCEPT ![r] = [pc |-> "over", missing |-> {}]]
    OBVIOUS
  <1>2. MigrationTypeOK'
    BY <1>0, <1>1 DEF MigrationInv, MigrationTypeOK, Steps
  <1>3. run'[r] = [pc |-> "over", missing |-> {}] /\ \A s \in Runs : s # r => run'[s] = run[s]
    BY <1>1, OthersStay
  <1>4. Locked'
    BY <1>0, <1>3 DEF MigrationInv, Locked
  <1>5. Registering(r)' /\ BetweenMigrations(r)' /\ Migrating(r)' /\ BaselineKnown(r)'
    BY <1>3, NothingKnown
  <1>6. \A s \in Runs : Registering(s)' /\ BetweenMigrations(s)' /\ Migrating(s)' /\ BaselineKnown(s)'
    BY <1>3, <1>5, TablesKept
  <1>7. BaselineTogether'
    BY <1>0, <1>3 DEF MigrationInv, BaselineTogether
  <1>8. SetupAlone'
    <2>1. EnsureClean' <=> EnsureClean
      BY TablesKept
    <2>2. \A d \in Deployments : run[d].pc = "idle" => run'[d].pc = "idle"
      BY <1>0, <1>3
    <2>3. run'[Setup] = run[Setup] \/ run'[Setup].pc = "over"
      BY <1>0, <1>3
    <2> QED
      BY <2>1, <2>2, <2>3 DEF MigrationInv, SetupAlone, Catalog
  <1>9. Served'
    BY DEF MigrationInv, Served, BaselineKnown, Catalog
  <1> QED
    BY <1>2, <1>4, <1>6, <1>7, <1>8, <1>9, TablesKept DEF MigrationInv

LEMMA StartServiceStep ==
    ASSUME MigrationInv, NEW r \in Runs, StartService(r)
    PROVE  MigrationInv'
  BY EndStep DEF StartService

LEMMA RunStopsStep ==
    ASSUME MigrationInv, NEW r \in Runs, RunStops(r)
    PROVE  MigrationInv'
  BY EndStep DEF RunStops

-----------------------------------------------------------------------------
(* The steps that write to the ledger or to the tables.                       *)

LEMMA Continues ==
    ASSUME MigrationInv, NEW r \in Runs, NEW pc \in Steps, Continue(r, pc)
    PROVE  /\ run' \in [Runs -> [pc: Steps, missing: SUBSET Versions]]
           /\ run'[r].pc = pc /\ run'[r].missing = run[r].missing
           /\ \A s \in Runs : s # r => run'[s] = run[s]
  BY DEF MigrationInv, MigrationTypeOK, Continue

\* The others wait for the lock, and what is clean for them stays clean.
LEMMA HolderAlone ==
    ASSUME MigrationInv, NEW r \in Runs, run[r].pc \in {"register", "begin", "sql", "finish"},
           \A s \in Runs : s # r => run'[s] = run[s],
           \A v \in Versions : ledger[v] = "clean" => ledger'[v] = "clean",
           lock' = lock \/ run'[r].pc = "over", UNCHANGED serving
    PROVE  /\ Locked'
           /\ \A s \in Runs : s # r =>
                Registering(s)' /\ BetweenMigrations(s)' /\ Migrating(s)' /\ BaselineKnown(s)'
           /\ run[Setup].pc \in {"adopt", "register"} => r = Setup
           /\ Served'
  <1>0. Setup \in Runs /\ Deployments \subseteq Runs /\ Runs = Deployments \cup {Setup}
    BY DEF Runs
  <1>1. lock = r /\ \A s \in Runs : s # r => run'[s].pc \notin {"register", "begin", "sql", "finish"}
    BY DEF MigrationInv, Locked
  <1>2. Locked'
    BY <1>1 DEF Locked
  <1>3. ASSUME NEW s \in Runs, s # r
        PROVE  Registering(s)' /\ BetweenMigrations(s)' /\ Migrating(s)' /\ BaselineKnown(s)'
    <2>1. Registering(s)' /\ BetweenMigrations(s)' /\ Migrating(s)'
      BY <1>1, <1>3 DEF Registering, BetweenMigrations, Migrating
    <2>2. run'[s] = run[s] /\ Catalog(s)' = Catalog(s) /\ Catalog(s) \subseteq Versions /\ 1 .. Baseline \subseteq Versions
      BY <1>3, CatalogVersions DEF Catalog
    <2>3. BaselineKnown(s)
      BY DEF MigrationInv
    <2>4. BaselineKnown(s)'
      BY <2>2, <2>3 DEF BaselineKnown, Deploying
    <2> QED
      BY <2>1, <2>4
  <1>4. run[Setup].pc \in {"adopt", "register"} => r = Setup
    BY <1>0 DEF MigrationInv, SetupAlone
  <1>5. Served'
    <2>1. 1 .. serving \subseteq Versions
      BY MigrationsAssumption DEF MigrationInv, MigrationTypeOK, Versions
    <2> QED
      BY <2>1 DEF MigrationInv, Served
  <1> QED
    BY <1>2, <1>3, <1>4, <1>5

LEMMA RegisterStep ==
    ASSUME MigrationInv, NEW r \in Runs, Register(r)
    PROVE  MigrationInv'
  <1> DEFINE v == First(run[r].missing)
  <1>0. /\ run[r].pc = "register" /\ run[r].missing # {} /\ lock' = lock
        /\ ledger' = [ledger EXCEPT ![v] = "clean"] /\ UNCHANGED <<schema, serving>>
        /\ run' = [run EXCEPT ![r].missing = @ \ {v}]
    BY DEF Register
  <1>1. /\ run \in [Runs -> [pc: Steps, missing: SUBSET Versions]]
        /\ ledger \in [Versions -> {"none", "dirty", "clean"}]
        /\ Setup \in Runs /\ Deployments \subseteq Runs /\ Runs = Deployments \cup {Setup}
    BY DEF MigrationInv, MigrationTypeOK, Runs
  <1>2. run[r].missing = Through(r) \ Applied /\ EnsureClean
    BY <1>0 DEF MigrationInv, Registering
  <1>3. v \in run[r].missing /\ \A w \in run[r].missing : v <= w
    <2>1. run[r].missing \in SUBSET Versions
      BY <1>1
    <2> QED
      BY <1>0, <2>1, FirstIsLeast
  <1> HIDE DEF v
  <1>4. v \in Through(r) /\ v \in Catalog(r) /\ v \in Versions /\ ledger[v] = "none"
    BY <1>1, <1>2, <1>3, CatalogVersions DEF Applied
  <1>5. \A w \in 1 .. v - 1 : w \in Versions /\ ledger[w] = "clean"
    <2> SUFFICES ASSUME NEW w \in 1 .. v - 1 PROVE w \in Versions /\ ledger[w] = "clean"
      OBVIOUS
    <2>1. w \in Versions /\ w \in Through(r) /\ ~(v <= w)
      BY <1>4, CatalogVersions DEF Through, Versions
    <2>2. w \in Applied
      BY <1>2, <1>3, <2>1
    <2> QED
      BY <1>1, <1>2, <2>1, <2>2 DEF Applied, EnsureClean
  <1>6. schema[v] = "present"
    <2>1. CASE r = Setup
      BY <1>0, <1>4, <2>1 DEF MigrationInv, SetupAlone
    <2>2. CASE r # Setup
      <3>1. v \in 1 .. Baseline /\ schema[1] = "present"
        BY <1>0, <1>1, <1>4, <2>2 DEF MigrationInv, BaselineTogether, Through
      <3> QED
        BY <3>1 DEF MigrationInv, BaselineTogether
    <2> QED
      BY <2>1, <2>2
  <1>7. /\ ledger'[v] = "clean"
        /\ \A w \in Versions : w # v => ledger'[w] = ledger[w]
        /\ \A w \in Versions : ledger[w] = "clean" => ledger'[w] = "clean"
        /\ ledger' \in [Versions -> {"none", "dirty", "clean"}]
    BY <1>0, <1>1, <1>4
  <1>8. /\ run' \in [Runs -> [pc: Steps, missing: SUBSET Versions]]
        /\ run'[r].pc = "register" /\ run'[r].missing = run[r].missing \ {v}
        /\ \A s \in Runs : s # r => run'[s] = run[s]
    BY <1>0, <1>1
  <1>9. MigrationTypeOK'
    BY <1>0, <1>7, <1>8 DEF MigrationInv, MigrationTypeOK
  <1>10. LedgerTellsTheSchema'
    <2> SUFFICES ASSUME NEW u \in Versions
                 PROVE  /\ ledger'[u] = "clean" => schema[u] = "present"
                        /\ schema[u] = "partial" => ledger'[u] = "dirty"
                        /\ ledger'[u] # "none" => \A w \in 1 .. u - 1 : ledger'[w] = "clean"
      BY <1>0 DEF LedgerTellsTheSchema, Versions
    <2>1. \A w \in 1 .. u - 1 : w \in Versions
      BY MigrationsAssumption DEF Versions
    <2>2. CASE u = v
      BY <1>5, <1>6, <1>7, <2>2
    <2>3. CASE u # v
      BY <1>7, <2>1, <2>3 DEF MigrationInv, LedgerTellsTheSchema
    <2> QED
      BY <2>2, <2>3
  <1>11. EnsureClean'
    BY <1>2, <1>7 DEF EnsureClean
  <1>12. Applied' = Applied \cup {v}
    BY <1>4, <1>7 DEF Applied
  <1>13. Registering(r)' /\ BetweenMigrations(r)' /\ Migrating(r)' /\ BaselineKnown(r)'
    <2>1. run'[r].missing = Through(r)' \ Applied'
      BY <1>2, <1>8, <1>12 DEF Through
    <2> QED
      BY <1>8, <1>11, <2>1 DEF Registering, BetweenMigrations, Migrating, BaselineKnown, Deploying
  <1>14. /\ Locked' /\ Served' /\ (run[Setup].pc \in {"adopt", "register"} => r = Setup)
         /\ \A s \in Runs : s # r =>
                Registering(s)' /\ BetweenMigrations(s)' /\ Migrating(s)' /\ BaselineKnown(s)'
    BY <1>0, <1>7, <1>8, HolderAlone
  <1>15. BaselineTogether'
    <2>1. 1 .. Baseline \subseteq Versions
      BY CatalogVersions
    <2> QED
      BY <1>0, <1>1, <1>7, <1>8, <2>1 DEF MigrationInv, BaselineTogether
  <1>16. SetupAlone'
    BY <1>0, <1>1, <1>8, <1>11 DEF MigrationInv, SetupAlone, Catalog
  <1> QED
    BY <1>9, <1>10, <1>13, <1>14, <1>15, <1>16 DEF MigrationInv

LEMMA MarkDirtyStep ==
    ASSUME MigrationInv, NEW r \in Runs, MarkDirty(r)
    PROVE  MigrationInv'
  <1> DEFINE v == First(run[r].missing)
  <1>0. /\ run[r].pc = "begin" /\ run[r].missing # {} /\ lock' = lock
        /\ ledger' = [ledger EXCEPT ![v] = "dirty"] /\ UNCHANGED <<schema, serving>>
        /\ Continue(r, "sql")
    BY DEF MarkDirty
  <1>1. /\ ledger \in [Versions -> {"none", "dirty", "clean"}]
        /\ run[r].missing \in SUBSET Versions
        /\ Setup \in Runs /\ Deployments \subseteq Runs /\ Runs = Deployments \cup {Setup}
        /\ r # Setup
    BY <1>0 DEF MigrationInv, MigrationTypeOK, Runs, SetupAlone
  <1>2. run[r].missing = Catalog(r) \ Applied /\ EnsureClean
    BY <1>0 DEF MigrationInv, BetweenMigrations
  <1>3. v \in run[r].missing /\ \A w \in run[r].missing : v <= w
    BY <1>0, <1>1, FirstIsLeast
  <1>30. First(run[r].missing) = v
    OBVIOUS
  <1> HIDE DEF v
  <1>4. v \in Catalog(r) /\ v \in Versions /\ ledger[v] = "none"
    BY <1>1, <1>2, <1>3, CatalogVersions DEF Applied
  <1>5. \A w \in 1 .. v - 1 : w \in Versions /\ ledger[w] = "clean"
    <2> SUFFICES ASSUME NEW w \in 1 .. v - 1 PROVE w \in Versions /\ ledger[w] = "clean"
      OBVIOUS
    <2>1. w \in Versions /\ w \in Catalog(r) /\ ~(v <= w)
      BY <1>4, CatalogVersions DEF Catalog, Versions
    <2>2. w \in Applied
      BY <1>2, <1>3, <2>1
    <2> QED
      BY <1>1, <1>2, <2>1, <2>2 DEF Applied, EnsureClean
  <1>6. \A w \in 1 .. Baseline : w \in Versions /\ ledger[w] = "clean"
    BY <1>0, CatalogVersions DEF MigrationInv, BaselineKnown, Deploying
  <1>7. /\ ledger'[v] = "dirty"
        /\ \A w \in Versions : w # v => ledger'[w] = ledger[w]
        /\ \A w \in Versions : ledger[w] = "clean" => ledger'[w] = "clean"
        /\ ledger' \in [Versions -> {"none", "dirty", "clean"}]
    BY <1>0, <1>1, <1>4
  <1>8. /\ run' \in [Runs -> [pc: Steps, missing: SUBSET Versions]]
        /\ run'[r].pc = "sql" /\ run'[r].missing = run[r].missing
        /\ \A s \in Runs : s # r => run'[s] = run[s]
    <2>1. "sql" \in Steps
      BY DEF Steps
    <2> QED
      BY <1>0, <2>1, Continues
  <1>9. MigrationTypeOK'
    BY <1>0, <1>7, <1>8 DEF MigrationInv, MigrationTypeOK
  <1>10. LedgerTellsTheSchema'
    <2> SUFFICES ASSUME NEW u \in Versions
                 PROVE  /\ ledger'[u] = "clean" => schema[u] = "present"
                        /\ schema[u] = "partial" => ledger'[u] = "dirty"
                        /\ ledger'[u] # "none" => \A w \in 1 .. u - 1 : ledger'[w] = "clean"
      BY <1>0 DEF LedgerTellsTheSchema, Versions
    <2>1. \A w \in 1 .. u - 1 : w \in Versions
      BY MigrationsAssumption DEF Versions
    <2>2. CASE u = v
      BY <1>5, <1>7, <2>2
    <2>3. CASE u # v
      BY <1>7, <2>1, <2>3 DEF MigrationInv, LedgerTellsTheSchema
    <2> QED
      BY <2>2, <2>3
  <1>11. Applied' = Applied \cup {v}
    BY <1>4, <1>7 DEF Applied
  <1>12. Registering(r)' /\ BetweenMigrations(r)' /\ Migrating(r)' /\ BaselineKnown(r)'
    <2>1. InHand(r)' = v
      BY <1>8, <1>30 DEF InHand, First
    <2>2. run'[r].missing \ {v} = Catalog(r) \ Applied'
      BY <1>2, <1>8, <1>11
    <2>3. \A w \in Versions \ {v} : ledger'[w] # "dirty"
      BY <1>2, <1>7 DEF EnsureClean
    <2>4. Migrating(r)'
      BY <1>2, <1>3, <1>7, <1>8, <2>1, <2>2, <2>3 DEF Migrating, Catalog
    <2>5. \A w \in 1 .. Baseline : ledger'[w] = "clean"
      BY <1>6, <1>7
    <2> QED
      BY <1>8, <2>4, <2>5 DEF Registering, BetweenMigrations, BaselineKnown, Deploying
  <1>13. /\ Locked' /\ Served' /\ (run[Setup].pc \in {"adopt", "register"} => r = Setup)
         /\ \A s \in Runs : s # r =>
                Registering(s)' /\ BetweenMigrations(s)' /\ Migrating(s)' /\ BaselineKnown(s)'
    BY <1>0, <1>7, <1>8, HolderAlone
  <1>14. BaselineTogether'
    BY <1>0, <1>1, <1>6, <1>7, <1>8 DEF MigrationInv, BaselineTogether
  <1>15. SetupAlone'
    BY <1>1, <1>8, <1>13 DEF MigrationInv, SetupAlone
  <1> QED
    BY <1>9, <1>10, <1>12, <1>13, <1>14, <1>15 DEF MigrationInv

\* A run with a migration in its hands is a deployment, and the migration is past the baseline.
LEMMA InHandPastBaseline ==
    ASSUME MigrationInv, NEW r \in Runs, run[r].pc \in {"sql", "finish"}
    PROVE  /\ InHand(r) \in Versions /\ InHand(r) \notin 1 .. Baseline
           /\ ledger[InHand(r)] = "dirty" /\ r # Setup
           /\ \A w \in 1 .. InHand(r) - 1 : w \in Versions /\ ledger[w] = "clean"
  <1>1. InHand(r) \in Versions /\ ledger[InHand(r)] = "dirty"
    BY CatalogVersions DEF MigrationInv, Migrating
  <1>2. InHand(r) \notin 1 .. Baseline
    BY <1>1 DEF MigrationInv, BaselineTogether
  <1>3. r # Setup
    BY DEF MigrationInv, SetupAlone
  <1>4. \A w \in 1 .. InHand(r) - 1 : w \in Versions /\ ledger[w] = "clean"
    BY <1>1, MigrationsAssumption DEF MigrationInv, LedgerTellsTheSchema, Versions
  <1> QED
    BY <1>1, <1>2, <1>3, <1>4

LEMMA FinishMigrationStep ==
    ASSUME MigrationInv, NEW r \in Runs, FinishMigration(r)
    PROVE  MigrationInv'
  <1> DEFINE v == InHand(r)
  <1>0. /\ run[r].pc = "finish" /\ lock' = lock
        /\ ledger' = [ledger EXCEPT ![v] = "clean"] /\ UNCHANGED <<schema, serving>>
        /\ run' = [run EXCEPT ![r] = [pc |-> "begin", missing |-> run[r].missing \ {v}]]
    <2>1. run \in [Runs -> [pc: Steps, missing: SUBSET Versions]]
      BY DEF MigrationInv, MigrationTypeOK
    <2> QED
      BY <2>1 DEF FinishMigration, InHand
  <1>1. /\ ledger \in [Versions -> {"none", "dirty", "clean"}]
        /\ run \in [Runs -> [pc: Steps, missing: SUBSET Versions]]
        /\ Setup \in Runs /\ Deployments \subseteq Runs /\ Runs = Deployments \cup {Setup}
    BY <1>0 DEF MigrationInv, MigrationTypeOK, Runs
  <1>2. /\ v \in Versions /\ v \notin 1 .. Baseline /\ ledger[v] = "dirty" /\ r # Setup
        /\ \A w \in 1 .. v - 1 : w \in Versions /\ ledger[w] = "clean"
    BY <1>0, InHandPastBaseline
  <1>3. /\ run[r].missing \ {v} = Catalog(r) \ Applied
        /\ \A w \in Versions \ {v} : ledger[w] # "dirty"
        /\ schema[v] = "present"
    BY <1>0 DEF MigrationInv, Migrating
  <1>4. \A w \in 1 .. Baseline : w \in Versions /\ ledger[w] = "clean"
    BY <1>0, CatalogVersions DEF MigrationInv, BaselineKnown, Deploying
  <1> HIDE DEF v
  <1>5. /\ ledger'[v] = "clean"
        /\ \A w \in Versions : w # v => ledger'[w] = ledger[w]
        /\ \A w \in Versions : ledger[w] = "clean" => ledger'[w] = "clean"
        /\ ledger' \in [Versions -> {"none", "dirty", "clean"}]
    BY <1>0, <1>1, <1>2
  <1>6. /\ run' \in [Runs -> [pc: Steps, missing: SUBSET Versions]]
        /\ run'[r].pc = "begin" /\ run'[r].missing = run[r].missing \ {v}
        /\ \A s \in Runs : s # r => run'[s] = run[s]
    <2>1. [pc |-> "begin", missing |-> run[r].missing \ {v}] \in [pc: Steps, missing: SUBSET Versions]
      BY <1>1 DEF Steps
    <2> QED
      BY <1>0, <1>1, <2>1
  <1>7. MigrationTypeOK'
    BY <1>0, <1>5, <1>6 DEF MigrationInv, MigrationTypeOK
  <1>8. LedgerTellsTheSchema'
    <2> SUFFICES ASSUME NEW u \in Versions
                 PROVE  /\ ledger'[u] = "clean" => schema[u] = "present"
                        /\ schema[u] = "partial" => ledger'[u] = "dirty"
                        /\ ledger'[u] # "none" => \A w \in 1 .. u - 1 : ledger'[w] = "clean"
      BY <1>0 DEF LedgerTellsTheSchema, Versions
    <2>1. \A w \in 1 .. u - 1 : w \in Versions
      BY MigrationsAssumption DEF Versions
    <2>2. CASE u = v
      BY <1>2, <1>3, <1>5, <2>2
    <2>3. CASE u # v
      BY <1>5, <2>1, <2>3 DEF MigrationInv, LedgerTellsTheSchema
    <2> QED
      BY <2>2, <2>3
  <1>9. Applied' = Applied /\ EnsureClean'
    BY <1>2, <1>3, <1>5 DEF Applied, EnsureClean
  <1>10. Registering(r)' /\ BetweenMigrations(r)' /\ Migrating(r)' /\ BaselineKnown(r)'
    <2>1. run'[r].missing = Catalog(r)' \ Applied'
      BY <1>3, <1>6, <1>9 DEF Catalog
    <2>2. \A w \in 1 .. Baseline : ledger'[w] = "clean"
      BY <1>4, <1>5
    <2> QED
      BY <1>6, <1>9, <2>1, <2>2 DEF Registering, BetweenMigrations, Migrating, BaselineKnown, Deploying
  <1>11. /\ Locked' /\ Served' /\ (run[Setup].pc \in {"adopt", "register"} => r = Setup)
         /\ \A s \in Runs : s # r =>
                Registering(s)' /\ BetweenMigrations(s)' /\ Migrating(s)' /\ BaselineKnown(s)'
    BY <1>0, <1>5, <1>6, HolderAlone
  <1>12. BaselineTogether'
    BY <1>0, <1>1, <1>4, <1>5, <1>6 DEF MigrationInv, BaselineTogether
  <1>13. SetupAlone'
    BY <1>1, <1>2, <1>6, <1>11 DEF MigrationInv, SetupAlone
  <1> QED
    BY <1>7, <1>8, <1>10, <1>11, <1>12, <1>13 DEF MigrationInv

LEMMA ExecuteSQLStep ==
    ASSUME MigrationInv, NEW r \in Runs, ExecuteSQL(r)
    PROVE  MigrationInv'
  <1> DEFINE v == InHand(r)
  <1>0. /\ run[r].pc = "sql" /\ UNCHANGED <<ledger, lock, serving>>
        /\ schema' = [schema EXCEPT ![v] = "present"] /\ Continue(r, "finish")
    BY DEF ExecuteSQL, InHand
  <1>1. /\ schema \in [Versions -> {"absent", "partial", "present"}]
        /\ Setup \in Runs /\ Deployments \subseteq Runs /\ Runs = Deployments \cup {Setup}
    BY <1>0 DEF MigrationInv, MigrationTypeOK, Runs
  <1>2. v \in Versions /\ v \notin 1 .. Baseline /\ ledger[v] = "dirty" /\ r # Setup
    BY <1>0, InHandPastBaseline
  <1>20. v = First(run[r].missing)
    BY DEF InHand
  <1> HIDE DEF v
  <1>3. /\ schema'[v] = "present"
        /\ \A w \in Versions : w # v => schema'[w] = schema[w]
        /\ schema' \in [Versions -> {"absent", "partial", "present"}]
    BY <1>0, <1>1, <1>2
  <1>4. /\ run' \in [Runs -> [pc: Steps, missing: SUBSET Versions]]
        /\ run'[r].pc = "finish" /\ run'[r].missing = run[r].missing
        /\ \A s \in Runs : s # r => run'[s] = run[s]
    <2>1. "finish" \in Steps
      BY DEF Steps
    <2> QED
      BY <1>0, <2>1, Continues
  <1>5. MigrationTypeOK'
    BY <1>0, <1>3, <1>4 DEF MigrationInv, MigrationTypeOK
  <1>6. LedgerTellsTheSchema'
    BY <1>0, <1>2, <1>3 DEF MigrationInv, LedgerTellsTheSchema, Versions
  <1>7. Registering(r)' /\ BetweenMigrations(r)' /\ Migrating(r)' /\ BaselineKnown(r)'
    <2>1. InHand(r)' = v
      BY <1>4, <1>20 DEF InHand, First
    <2>2. Applied' = Applied /\ Catalog(r)' = Catalog(r)
      BY <1>0 DEF Applied, Catalog
    <2>3. Migrating(r)'
      BY <1>0, <1>2, <1>3, <1>4, <1>20, <2>1, <2>2 DEF MigrationInv, Migrating, InHand
    <2>4. BaselineKnown(r)'
      BY <1>0, <1>4 DEF MigrationInv, BaselineKnown, Deploying
    <2> QED
      BY <1>4, <2>3, <2>4 DEF Registering, BetweenMigrations
  <1>8. /\ Locked' /\ Served' /\ (run[Setup].pc \in {"adopt", "register"} => r = Setup)
        /\ \A s \in Runs : s # r =>
               Registering(s)' /\ BetweenMigrations(s)' /\ Migrating(s)' /\ BaselineKnown(s)'
    BY <1>0, <1>4, HolderAlone
  <1>9. BaselineTogether'
    <2>1. 1 \in 1 .. Baseline /\ 1 .. Baseline \subseteq Versions
      BY <1>1, CatalogVersions
    <2>2. \A w \in 1 .. Baseline : schema'[w] = schema[w]
      BY <1>2, <1>3, <2>1
    <2> QED
      BY <1>0, <1>1, <1>4, <2>1, <2>2 DEF MigrationInv, BaselineTogether
  <1>10. SetupAlone'
    BY <1>1, <1>2, <1>4, <1>8 DEF MigrationInv, SetupAlone
  <1> QED
    BY <1>5, <1>6, <1>7, <1>8, <1>9, <1>10 DEF MigrationInv

LEMMA ExecuteSQLFailsStep ==
    ASSUME MigrationInv, NEW r \in Runs, ExecuteSQLFails(r)
    PROVE  MigrationInv'
  <1> DEFINE v == InHand(r)
             k == IF schema[v] = "absent" THEN "partial" ELSE schema[v]
  <1>0. /\ run[r].pc = "sql" /\ UNCHANGED <<ledger, serving>> /\ lock' = Nobody
        /\ run' = [run EXCEPT ![r] = [pc |-> "over", missing |-> {}]]
    BY DEF ExecuteSQLFails, End, Over
  <1>1. /\ schema \in [Versions -> {"absent", "partial", "present"}]
        /\ run \in [Runs -> [pc: Steps, missing: SUBSET Versions]]
        /\ Setup \in Runs /\ Deployments \subseteq Runs /\ Runs = Deployments \cup {Setup}
    BY <1>0 DEF MigrationInv, MigrationTypeOK, Runs
  <1>2. v \in Versions /\ v \notin 1 .. Baseline /\ ledger[v] = "dirty" /\ r # Setup
    BY <1>0, InHandPastBaseline
  <1>20. schema' = [schema EXCEPT ![v] = k]
    BY <1>1, <1>2 DEF ExecuteSQLFails, InHand
  <1>21. k \in {"absent", "partial", "present"}
    BY <1>1, <1>2
  <1> HIDE DEF v, k
  <1>3. /\ \A w \in Versions : w # v => schema'[w] = schema[w]
        /\ schema' \in [Versions -> {"absent", "partial", "present"}]
    BY <1>1, <1>2, <1>20, <1>21
  <1>4. run'[r] = [pc |-> "over", missing |-> {}] /\ \A s \in Runs : s # r => run'[s] = run[s]
    BY <1>0, OthersStay
  <1>5. MigrationTypeOK'
    BY <1>0, <1>1, <1>3 DEF MigrationInv, MigrationTypeOK, Steps
  <1>6. LedgerTellsTheSchema'
    BY <1>0, <1>2, <1>3 DEF MigrationInv, LedgerTellsTheSchema, Versions
  <1>7. Registering(r)' /\ BetweenMigrations(r)' /\ Migrating(r)' /\ BaselineKnown(r)'
    BY <1>4, NothingKnown
  <1>8. /\ Locked' /\ Served' /\ (run[Setup].pc \in {"adopt", "register"} => r = Setup)
        /\ \A s \in Runs : s # r =>
               Registering(s)' /\ BetweenMigrations(s)' /\ Migrating(s)' /\ BaselineKnown(s)'
    BY <1>0, <1>4, HolderAlone
  <1>9. BaselineTogether'
    <2>1. 1 \in 1 .. Baseline /\ 1 .. Baseline \subseteq Versions
      BY <1>1, CatalogVersions
    <2>2. \A w \in 1 .. Baseline : schema'[w] = schema[w]
      BY <1>2, <1>3, <2>1
    <2> QED
      BY <1>0, <1>1, <1>4, <2>1, <2>2 DEF MigrationInv, BaselineTogether
  <1>10. SetupAlone'
    BY <1>1, <1>2, <1>4, <1>8 DEF MigrationInv, SetupAlone
  <1> QED
    BY <1>5, <1>6, <1>7, <1>8, <1>9, <1>10 DEF MigrationInv

LEMMA RestoreDirtyStep ==
    ASSUME MigrationInv, NEW v \in Versions, RestoreDirty(v)
    PROVE  MigrationInv'
  <1>0. /\ ledger[v] = "dirty" /\ lock = Nobody /\ UNCHANGED <<lock, run, serving>>
        /\ ledger' = [ledger EXCEPT ![v] = "none"]
    BY DEF RestoreDirty
  <1>1. /\ schema \in [Versions -> {"absent", "partial", "present"}]
        /\ ledger \in [Versions -> {"none", "dirty", "clean"}]
        /\ Setup \in Runs /\ Deployments \subseteq Runs /\ Nobody \notin Runs
    BY MigrationsAssumption DEF MigrationInv, MigrationTypeOK, Runs
  <1>2. PICK s \in {"absent", schema[v]} \ {"partial"} : schema' = [schema EXCEPT ![v] = s]
    BY DEF RestoreDirty
  <1>3. s \in {"absent", "present"}
    BY <1>1, <1>2
  <1>4. /\ schema'[v] # "partial" /\ schema' \in [Versions -> {"absent", "partial", "present"}]
        /\ \A w \in Versions : w # v => schema'[w] = schema[w]
    BY <1>1, <1>2, <1>3
  <1>5. /\ ledger'[v] = "none" /\ ledger' \in [Versions -> {"none", "dirty", "clean"}]
        /\ \A w \in Versions : w # v => ledger'[w] = ledger[w]
        /\ \A w \in Versions : ledger[w] = "clean" => ledger'[w] = "clean"
    BY <1>0, <1>1
  <1>6. \A r \in Runs : run[r].pc \notin {"register", "begin", "sql", "finish"}
    BY <1>0, <1>1 DEF MigrationInv, Locked
  <1>7. v \notin 1 .. Baseline /\ run[Setup].pc \notin {"adopt", "register"}
    BY <1>0, <1>1 DEF MigrationInv, BaselineTogether, SetupAlone, EnsureClean
  <1>8. MigrationTypeOK'
    BY <1>0, <1>4, <1>5 DEF MigrationInv, MigrationTypeOK
  <1>9. LedgerTellsTheSchema'
    <2> SUFFICES ASSUME NEW u \in Versions
                 PROVE  /\ ledger'[u] = "clean" => schema'[u] = "present"
                        /\ schema'[u] = "partial" => ledger'[u] = "dirty"
                        /\ ledger'[u] # "none" => \A w \in 1 .. u - 1 : ledger'[w] = "clean"
      BY <1>0 DEF LedgerTellsTheSchema, Versions
    <2>1. \A w \in 1 .. u - 1 : w \in Versions
      BY MigrationsAssumption DEF Versions
    <2>2. CASE u = v
      BY <1>4, <1>5, <2>2
    <2>3. CASE u # v
      BY <1>4, <1>5, <2>1, <2>3 DEF MigrationInv, LedgerTellsTheSchema
    <2> QED
      BY <2>2, <2>3
  <1>10. Locked'
    BY <1>0 DEF MigrationInv, Locked
  <1>11. ASSUME NEW r \in Runs
         PROVE  Registering(r)' /\ BetweenMigrations(r)' /\ Migrating(r)' /\ BaselineKnown(r)'
    <2>1. Registering(r)' /\ BetweenMigrations(r)' /\ Migrating(r)'
      BY <1>0, <1>6 DEF Registering, BetweenMigrations, Migrating
    <2>2. Catalog(r)' = Catalog(r) /\ Catalog(r) \subseteq Versions /\ 1 .. Baseline \subseteq Versions
      BY CatalogVersions DEF Catalog
    <2>3. BaselineKnown(r)
      BY DEF MigrationInv
    <2>4. BaselineKnown(r)'
      BY <1>0, <1>5, <2>2, <2>3 DEF BaselineKnown, Deploying
    <2> QED
      BY <2>1, <2>4
  <1>12. BaselineTogether'
    <2>1. 1 \in 1 .. Baseline /\ 1 .. Baseline \subseteq Versions
      BY <1>1, CatalogVersions
    <2>2. \A w \in 1 .. Baseline : schema'[w] = schema[w] /\ ledger'[w] = ledger[w]
      BY <1>4, <1>5, <1>7, <2>1
    <2> QED
      BY <1>0, <2>1, <2>2 DEF MigrationInv, BaselineTogether
  <1>13. SetupAlone'
    BY <1>0, <1>7 DEF MigrationInv, SetupAlone
  <1>14. Served'
    <2>1. 1 .. serving \subseteq Versions
      BY MigrationsAssumption DEF MigrationInv, MigrationTypeOK, Versions
    <2> QED
      BY <1>0, <1>5, <2>1 DEF MigrationInv, Served
  <1> QED
    BY <1>8, <1>9, <1>10, <1>11, <1>12, <1>13, <1>14 DEF MigrationInv

LEMMA AutoMigrateStep ==
    ASSUME MigrationInv, AutoMigrate
    PROVE  MigrationInv'
  <1>0. /\ run[Setup].pc = "idle" /\ UNCHANGED <<ledger, lock, serving>>
        /\ schema' = [v \in Versions |-> IF v \in Catalog(Setup) THEN "present" ELSE "absent"]
        /\ \A v \in Versions : schema[v] = "absent"
        /\ Continue(Setup, "adopt")
    BY DEF AutoMigrate
  <1>1. /\ ledger \in [Versions -> {"none", "dirty", "clean"}]
        /\ Setup \in Runs /\ Runs = Deployments \cup {Setup} /\ 1 \in Versions
        /\ 1 \in 1 .. Baseline /\ Setup \notin Deployments
        /\ 1 .. Baseline \subseteq Catalog(Setup) /\ Catalog(Setup) \subseteq Versions
    BY MigrationsAssumption, CatalogVersions DEF MigrationInv, MigrationTypeOK, Runs
  <1>2. \A d \in Deployments : run[d].pc = "idle"
    BY <1>0, <1>1 DEF MigrationInv, BaselineTogether
  <1>3. \A v \in Versions : ledger[v] = "none"
    <2>1. ledger[1] = "none"
      BY <1>0, <1>1 DEF MigrationInv, BaselineTogether, LedgerTellsTheSchema
    <2> SUFFICES ASSUME NEW v \in Versions, ledger[v] # "none" PROVE FALSE
      OBVIOUS
    <2>2. v # 1 => 1 \in 1 .. v - 1
      BY DEF Versions
    <2> QED
      BY <2>1, <2>2 DEF MigrationInv, LedgerTellsTheSchema
  <1>4. /\ run' \in [Runs -> [pc: Steps, missing: SUBSET Versions]]
        /\ run'[Setup].pc = "adopt" /\ \A r \in Runs : r # Setup => run'[r] = run[r]
    <2>1. "adopt" \in Steps
      BY DEF Steps
    <2> QED
      BY <1>0, <1>1, <2>1, Continues
  <1>5. /\ schema' \in [Versions -> {"absent", "partial", "present"}]
        /\ \A v \in Versions : schema'[v] \in {"absent", "present"}
        /\ \A v \in Catalog(Setup) : schema'[v] = "present"
    BY <1>0, <1>1
  <1>6. \A r \in Runs : run'[r].pc \in {"idle", "adopt"}
    BY <1>1, <1>2, <1>4
  <1>7. MigrationTypeOK'
    BY <1>0, <1>4, <1>5 DEF MigrationInv, MigrationTypeOK
  <1>8. LedgerTellsTheSchema'
    BY <1>0, <1>3, <1>5 DEF LedgerTellsTheSchema, Versions
  <1>9. Locked' /\ \A r \in Runs : Registering(r)' /\ BetweenMigrations(r)' /\ Migrating(r)' /\ BaselineKnown(r)'
    BY <1>6, NothingKnown DEF Locked
  <1>10. BaselineTogether'
    BY <1>0, <1>1, <1>3, <1>5 DEF BaselineTogether
  <1>11. SetupAlone'
    BY <1>0, <1>1, <1>2, <1>3, <1>4, <1>5 DEF SetupAlone, EnsureClean, Catalog
  <1>12. Served'
    BY <1>0 DEF MigrationInv, Served
  <1> QED
    BY <1>7, <1>8, <1>9, <1>10, <1>11, <1>12 DEF MigrationInv

-----------------------------------------------------------------------------
LEMMA MigrationStep == MigrationInv /\ [MigrationNext]_migrationVars => MigrationInv'
  <1> SUFFICES ASSUME MigrationInv, [MigrationNext]_migrationVars PROVE MigrationInv'
    OBVIOUS
  <1>1. CASE AutoMigrate
    BY <1>1, AutoMigrateStep
  <1>2. CASE \E d \in Deployments : Deploy(d)
    BY <1>2, DeployStep
  <1>3. ASSUME NEW r \in Runs,
               \/ BeginAdopt(r) \/ Register(r) \/ EndAdopt(r)
               \/ BeginUp(r) \/ MarkDirty(r) \/ ExecuteSQL(r) \/ ExecuteSQLFails(r)
               \/ FinishMigration(r) \/ EndUp(r)
               \/ StartService(r) \/ RunStops(r)
        PROVE  MigrationInv'
    BY <1>3, BeginAdoptStep, RegisterStep, EndAdoptStep, BeginUpStep, MarkDirtyStep,
       ExecuteSQLStep, ExecuteSQLFailsStep, FinishMigrationStep, EndUpStep, StartServiceStep,
       RunStopsStep
  <1>4. CASE \E v \in Versions : RestoreDirty(v)
    BY <1>4, RestoreDirtyStep
  <1>5. CASE UNCHANGED migrationVars
    BY <1>5 DEF migrationVars, MigrationInv, MigrationTypeOK, LedgerTellsTheSchema, Locked, Registering,
                BetweenMigrations, Migrating, BaselineKnown, Deploying, BaselineTogether, SetupAlone,
                Served, EnsureClean, Applied, InHand, First, Through, Catalog
  <1> QED
    BY <1>1, <1>2, <1>3, <1>4, <1>5 DEF MigrationNext

LEMMA MigrationInvariant == MigrationSpec => []MigrationInv
  BY MigrationInitInv, MigrationStep, PTL DEF MigrationSpec

\* Whatever the catalogs of the images, however many deployments overlap and wherever their
\* runners stop (migration.Runner under its advisory lock): a clean row of schema_migrations
\* vouches for its tables, the ledger has no gap, and what is half done is there as dirty.
THEOREM LedgerFaithful == MigrationSpec => []LedgerTellsTheSchema
  <1>1. MigrationInv => LedgerTellsTheSchema
    BY DEF MigrationInv
  <1> QED
    BY <1>1, MigrationInvariant, PTL

\* And the image that serves has all the migrations it was built with (deploy: adopt, up, then
\* the service), although others adopt, migrate, fail and are repaired behind its back.
THEOREM ServiceComplete == MigrationSpec => []ServedSchemaIsComplete
  <1>1. MigrationInv => ServedSchemaIsComplete
    <2> SUFFICES ASSUME MigrationInv, NEW v \in 1 .. serving
                 PROVE  ledger[v] = "clean" /\ schema[v] = "present"
      BY DEF ServedSchemaIsComplete
    <2>1. v \in Versions
      BY MigrationsAssumption DEF MigrationInv, MigrationTypeOK, Versions
    <2> QED
      BY <2>1 DEF MigrationInv, Served, LedgerTellsTheSchema
  <1> QED
    BY <1>1, MigrationInvariant, PTL

-----------------------------------------------------------------------------
(***************************************************************************)
(* Old content.  The batch in hand knows its rows and their pictures, what *)
(* the verification has passed is there, and what is recorded fits, unless *)
(* it strayed.                                                             *)
(***************************************************************************)
LegacyEntries == LegacyRows \cup LegacyUsers

RowStates == {"none", "visible", "hidden", "deleted", "gone"}

LegacyRecords ==
    [life : {"active", "deleted"}, public : {"visible", "hidden", "placeholder"},
     approved : {"none", "legacy", "review"}, materialized : {"none", "legacy", "review"},
     pending : BOOLEAN, fingerprint : BOOLEAN]

LegacyTypeOK ==
    /\ legacyRow \in [LegacyRows -> RowStates]
    /\ legacyPicture \in [LegacyRows -> {"none", "stored", "lost"}]
    /\ legacyItem \in [LegacyRows -> {NoRecord} \cup LegacyRecords]
    /\ legacyProfile \in [LegacyUsers -> {"absent", "none", "trusted", "new", "restricted"}]
    /\ legacyControl \in {"none", "default", "set"}
    /\ enabled \in BOOLEAN /\ verified \in BOOLEAN
    /\ strayed \subseteq LegacyEntries
    /\ command \in [pc : {"off", "list", "prepare", "persist", "verify"}, phase : 0 .. DonePhase,
                    id : {command.id}, batch : SUBSET LegacyEntries,
                    seen : {command.seen}, found : SUBSET LegacyEntries]
    /\ command.pc \in {"off", "list", "verify"} => command.batch = {}

\* What is recorded fits, whether moderation is on or not.
RecordedFit == \A r \in LegacyRows \ strayed : Recorded(r) => Fits(r)

\* The batch knows the rows it is going to record, and the pictures of its moments.
BatchKnows ==
    \A r \in (LegacyRows \cap command.batch) \ strayed :
        /\ ~Recorded(r) => Here(r) /\ command.seen[r] = legacyRow[r]
        /\ command.pc = "persist" /\ Phase(r) = Moment /\ legacyPicture[r] # "none" =>
                r \in command.found

\* What the verification has passed is there.
Passed(e) == (command.pc = "verify" /\ command.phase > Phase(e)) \/ verified \/ enabled

PassedRecorded ==
    /\ \A r \in LegacyRows \ strayed : Passed(r) /\ Here(r) => Recorded(r)
    /\ \A u \in LegacyUsers \ strayed : Passed(u) => legacyProfile[u] # "none"
    /\ verified \/ enabled => legacyControl # "none"

LegacyInv == LegacyTypeOK /\ RecordedFit /\ BatchKnows /\ PassedRecorded

-----------------------------------------------------------------------------
LEMMA PhaseOfEntry ==
    /\ \A r \in LegacyRows : Phase(r) \in {1, 2}
    /\ \A u \in LegacyUsers : Phase(u) = 3
    /\ LegacyRows \cap LegacyUsers = {}
  BY LegacyAssumption DEF Phase

LEMMA NoRunFields ==
    NoRun \in [pc : {"off"}, phase : {0}, id : {0}, batch : {{}}, seen : {NoRun.seen}, found : {{}}]
  BY DEF NoRun

LEMMA LegacyInitInv == LegacyInit => LegacyInv
  <1> SUFFICES ASSUME LegacyInit PROVE LegacyInv
    OBVIOUS
  <1>1. LegacyTypeOK
    <2>1. command = NoRun /\ 0 \in 0 .. DonePhase
      BY DEF LegacyInit, DonePhase
    <2>2. /\ legacyRow \in [LegacyRows -> RowStates]
          /\ legacyPicture \in [LegacyRows -> {"none", "stored", "lost"}]
          /\ legacyItem \in [LegacyRows -> {NoRecord} \cup LegacyRecords]
      BY DEF LegacyInit, RowStates
    <2>3. legacyProfile \in [LegacyUsers -> {"absent", "none", "trusted", "new", "restricted"}]
      BY DEF LegacyInit
    <2>4. legacyControl = "none" /\ enabled = FALSE /\ verified = FALSE /\ strayed = {}
      BY DEF LegacyInit
    <2> QED
      BY <2>1, <2>2, <2>3, <2>4, NoRunFields DEF LegacyTypeOK
  <1>2. \A r \in LegacyRows : ~Recorded(r)
    BY DEF LegacyInit, Recorded
  <1> QED
    BY <1>1, <1>2, NoRunFields
    DEF LegacyInit, LegacyInv, RecordedFit, BatchKnows, PassedRecorded, Passed

(***************************************************************************)
(* The command moves on, without writing anything.                         *)
(***************************************************************************)
NothingWritten ==
    UNCHANGED <<legacyRow, legacyPicture, moderationVars, enabled, verified, strayed>>

LEMMA RunEndsInv ==
    ASSUME LegacyInv, NothingWritten,
           command'.pc \in {"off", "list"}, command'.batch = {},
           command' \in [pc : {"off", "list"}, phase : 0 .. DonePhase, id : {command'.id},
                        batch : {{}}, seen : {command'.seen}, found : {{}}]
    PROVE  LegacyInv'
  <1>1. LegacyTypeOK'
    BY DEF LegacyInv, LegacyTypeOK, NothingWritten, moderationVars
  <1>2. RecordedFit' /\ BatchKnows' /\ PassedRecorded'
    BY DEF LegacyInv, NothingWritten, moderationVars, RecordedFit, BatchKnows, PassedRecorded, Passed,
        Recorded, Fits, Here
  <1> QED
    BY <1>1, <1>2 DEF LegacyInv

LEMMA StartRunInv ==
    ASSUME LegacyInv, NEW phase \in 1 .. ControlPhase, NEW id, StartRun(phase, id), UNCHANGED strayed
    PROVE  LegacyInv'
  <1>1. NothingWritten
    BY DEF StartRun, NothingWritten
  <1>2. command' \in [pc : {"list"}, phase : {phase}, id : {id}, batch : {{}},
                      seen : {NoRun.seen}, found : {{}}]
    BY NoRunFields DEF StartRun
  <1>3. phase \in 0 .. DonePhase
    BY DEF ControlPhase, DonePhase
  <1> QED
    BY <1>1, <1>2, <1>3, RunEndsInv

LEMMA StopCommandInv ==
    ASSUME LegacyInv, StopCommand, UNCHANGED strayed
    PROVE  LegacyInv'
  <1>1. NothingWritten /\ command' = NoRun
    BY DEF StopCommand, NothingWritten
  <1>2. 0 \in 0 .. DonePhase
    BY DEF DonePhase
  <1> QED
    BY <1>1, <1>2, NoRunFields, RunEndsInv

LEMMA ListBatchInv ==
    ASSUME LegacyInv, ListBatch, UNCHANGED strayed
    PROVE  LegacyInv'
  <1> DEFINE batch == FirstOf(Behind)
  <1>1. NothingWritten /\ command.pc = "list" /\ command.phase \in 1 .. UserPhase
    BY DEF ListBatch, NothingWritten
  <1>2. CASE batch = {}
    <2>1. command' = [command EXCEPT !.phase = @ + 1, !.id = 0]
      BY <1>2 DEF ListBatch
    <2>2. command.phase + 1 \in 0 .. DonePhase
      BY <1>1 DEF UserPhase, DonePhase
    <2>3. /\ LegacyTypeOK /\ command.batch = {}
          /\ command' = [command EXCEPT !.phase = command.phase + 1, !.id = 0]
      BY <1>1, <2>1 DEF LegacyInv, LegacyTypeOK
    <2>4. LegacyTypeOK'
      BY <1>1, <2>2, <2>3 DEF LegacyTypeOK, NothingWritten, moderationVars
    <2>5. command'.pc = "list" /\ command'.batch = {}
      BY <1>1, <2>3 DEF LegacyTypeOK
    <2> QED
      BY <1>1, <2>4, <2>5 DEF LegacyInv, NothingWritten, moderationVars, RecordedFit, BatchKnows,
          PassedRecorded, Passed, Recorded, Fits, Here
  <1>3. CASE batch # {}
    <2> DEFINE pc == IF command.phase = UserPhase THEN "persist" ELSE "prepare"
               rowsSeen == [r \in batch \cap LegacyRows |-> legacyRow[r]]
    <2>1. command' = [command EXCEPT !.pc = pc, !.batch = batch, !.seen = rowsSeen]
      BY <1>3 DEF ListBatch
    <2>2. batch \subseteq {e \in LegacyEntries : Phase(e) = command.phase /\ Present(e)}
      BY DEF FirstOf, Behind, LegacyEntries
    <2> HIDE DEF batch, rowsSeen, pc
    <2>3. pc \in {"prepare", "persist"}
      BY DEF pc
    <2>4. /\ command'.pc = pc /\ command'.batch = batch /\ command'.seen = rowsSeen
          /\ LegacyTypeOK'
      BY <1>1, <2>1, <2>2, <2>3 DEF LegacyInv, LegacyTypeOK, NothingWritten, moderationVars
    <2>5. \A r \in LegacyRows \cap batch :
            /\ Here(r) /\ rowsSeen[r] = legacyRow[r]
            /\ pc # "persist"
      BY <2>2, PhaseOfEntry DEF Present, UserPhase, pc, rowsSeen
    <2>6. BatchKnows'
      BY <1>1, <2>4, <2>5 DEF BatchKnows, NothingWritten, moderationVars, Here
    <2> QED
      BY <1>1, <2>3, <2>4, <2>6 DEF LegacyInv, NothingWritten, moderationVars, RecordedFit,
          PassedRecorded, Passed, Recorded, Fits, Here
  <1> QED
    BY <1>2, <1>3

LEMMA PrepareRecordsInv ==
    ASSUME LegacyInv, PrepareRecords, UNCHANGED strayed
    PROVE  LegacyInv'
  <1> DEFINE found == {r \in command.batch : legacyPicture[r] = "stored"}
  <1>1. /\ NothingWritten /\ command.pc = "prepare"
        /\ \A r \in command.batch : Phase(r) = Moment => legacyPicture[r] # "lost"
        /\ command' = [command EXCEPT !.pc = "persist", !.found = found]
    BY DEF PrepareRecords, NothingWritten
  <1> HIDE DEF found
  <1>2. found \subseteq command.batch
    BY DEF found
  <1>3. /\ command'.pc = "persist" /\ command'.batch = command.batch
        /\ command'.seen = command.seen /\ command'.found = found
        /\ LegacyTypeOK'
    BY <1>1, <1>2 DEF LegacyInv, LegacyTypeOK, NothingWritten, moderationVars
  <1>4. \A r \in LegacyRows \cap command.batch :
            Phase(r) = Moment /\ legacyPicture[r] # "none" => r \in found
    BY <1>1 DEF LegacyInv, LegacyTypeOK, found
  <1>5. BatchKnows'
    BY <1>1, <1>3, <1>4 DEF LegacyInv, BatchKnows, NothingWritten, moderationVars, Here, Recorded
  <1> QED
    BY <1>1, <1>3, <1>5 DEF LegacyInv, NothingWritten, moderationVars, RecordedFit,
        PassedRecorded, Passed, Recorded, Fits, Here

LEMMA PersistBatchInv ==
    ASSUME LegacyInv, PersistBatch, UNCHANGED strayed
    PROVE  LegacyInv'
  <1>1. /\ UNCHANGED <<legacyRow, legacyPicture, legacyControl, enabled, verified, strayed>>
        /\ command.pc = "persist"
        /\ legacyItem' = [r \in LegacyRows |-> PersistLegacyRecord(r)]
    BY DEF PersistBatch
  <1>2. legacyProfile' = [u \in LegacyUsers |->
            IF u \in command.batch /\ legacyProfile[u] = "none" THEN "trusted" ELSE legacyProfile[u]]
    BY DEF PersistBatch
  <1>3. command' \in [pc : {"list"}, phase : {command.phase}, id : {command'.id}, batch : {{}},
                      seen : {command'.seen}, found : {{}}]
    BY NoRunFields DEF PersistBatch
  <1>4. command.phase \in 0 .. DonePhase
    BY DEF LegacyInv, LegacyTypeOK
  <1>5. \A r \in LegacyRows : LegacyRecord(r) \in LegacyRecords /\ LegacyRecord(r) # NoRecord
    BY DEF LegacyRecord, LegacyRecords, NoRecord
  <1>6. LegacyTypeOK'
    BY <1>1, <1>2, <1>3, <1>4, <1>5 DEF LegacyInv, LegacyTypeOK, PersistLegacyRecord
  <1>7. ASSUME NEW r \in LegacyRows \ strayed, Recorded(r)'
        PROVE  Fits(r)'
    <2>1. CASE Recorded(r)
      BY <1>1, <1>7, <2>1 DEF LegacyInv, RecordedFit, Fits, Recorded, PersistLegacyRecord
    <2>2. CASE ~Recorded(r)
      <3>1. r \in command.batch /\ legacyItem'[r] = LegacyRecord(r)
        BY <1>1, <1>7, <2>2 DEF PersistLegacyRecord, Recorded
      <3>2. /\ Here(r) /\ command.seen[r] = legacyRow[r]
            /\ Phase(r) = Moment /\ legacyPicture[r] # "none" => r \in command.found
        BY <1>1, <2>2, <3>1 DEF LegacyInv, BatchKnows
      <3>3. /\ LegacyRecord(r).life = IF legacyRow[r] = "deleted" THEN "deleted" ELSE "active"
            /\ legacyRow[r] = "visible" => LegacyRecord(r).public = "visible"
            /\ LegacyRecord(r).materialized = IF legacyRow[r] = "deleted" THEN "none" ELSE "legacy"
        BY <3>2 DEF LegacyRecord
      <3>4. LegacyRecord(r).fingerprint = (r \in command.found)
        BY DEF LegacyRecord
      <3> QED
        BY <1>1, <1>7, <3>1, <3>2, <3>3, <3>4 DEF Fits
    <2> QED
      BY <2>1, <2>2
  <1>8. \A r \in LegacyRows : Recorded(r) => Recorded(r)'
    BY <1>1, <1>5 DEF PersistLegacyRecord, Recorded
  <1>9. \A u \in LegacyUsers : legacyProfile[u] # "none" => legacyProfile'[u] # "none"
    BY <1>2
  <1>10. BatchKnows'
    BY <1>3 DEF BatchKnows
  <1>11. PassedRecorded'
    BY <1>1, <1>3, <1>8, <1>9 DEF LegacyInv, PassedRecorded, Passed, Here
  <1> QED
    BY <1>1, <1>6, <1>7, <1>10, <1>11 DEF LegacyInv, RecordedFit

LEMMA EnsureLegacyControlInv ==
    ASSUME LegacyInv, EnsureLegacyControl, UNCHANGED strayed
    PROVE  LegacyInv'
  <1>1. /\ UNCHANGED <<legacyRow, legacyPicture, legacyItem, legacyProfile, enabled, verified, strayed>>
        /\ command.pc = "list" /\ command' = [command EXCEPT !.phase = DonePhase]
        /\ legacyControl' = IF legacyControl = "none" THEN "default" ELSE legacyControl
    BY DEF EnsureLegacyControl
  <1>2. DonePhase \in 0 .. DonePhase
    BY DEF DonePhase
  <1>3. LegacyTypeOK' /\ command'.pc = "list" /\ command'.batch = {}
    BY <1>1, <1>2 DEF LegacyInv, LegacyTypeOK
  <1> QED
    BY <1>1, <1>3 DEF LegacyInv, RecordedFit, BatchKnows, PassedRecorded, Passed, Recorded, Fits, Here

(***************************************************************************)
(* The verification, and the operator who relies on it.                    *)
(***************************************************************************)
LEMMA VerifyBeginInv ==
    ASSUME LegacyInv, VerifyBegin, UNCHANGED strayed
    PROVE  LegacyInv'
  <1>1. /\ UNCHANGED <<legacyRow, legacyPicture, moderationVars, enabled, strayed>>
        /\ verified' = FALSE
        /\ command' \in [pc : {"verify"}, phase : {1}, id : {0}, batch : {{}},
                          seen : {NoRun.seen}, found : {{}}]
    BY NoRunFields DEF VerifyBegin
  <1>2. 1 \in 0 .. DonePhase
    BY DEF DonePhase
  <1>3. LegacyTypeOK'
    BY <1>1, <1>2 DEF LegacyInv, LegacyTypeOK, moderationVars
  <1>4. \A e \in LegacyEntries : ~(1 > Phase(e))
    BY PhaseOfEntry DEF LegacyEntries
  <1>5. \A e \in LegacyEntries : Passed(e)' => enabled
    BY <1>1, <1>4 DEF Passed
  <1> QED
    BY <1>1, <1>3, <1>5 DEF LegacyInv, LegacyEntries, moderationVars, RecordedFit, BatchKnows,
        PassedRecorded, Passed, Recorded, Fits, Here

LEMMA VerifyNextInv ==
    ASSUME LegacyInv, VerifyNext, UNCHANGED strayed
    PROVE  LegacyInv'
  <1>1. /\ UNCHANGED <<legacyRow, legacyPicture, moderationVars, enabled, strayed>>
        /\ command.pc = "verify" /\ NothingMissing
    BY DEF VerifyNext
  <1>2. /\ \A r \in LegacyRows : Phase(r) = command.phase /\ Here(r) => Recorded(r)
        /\ \A u \in LegacyUsers : Phase(u) = command.phase => legacyProfile[u] # "none"
        /\ command.phase = ControlPhase => legacyControl # "none"
    <2>1. CASE command.phase \in {1, 2}
      BY <1>1, <2>1, PhaseOfEntry DEF NothingMissing, MissingItem, ControlPhase, UserPhase
    <2>2. CASE command.phase = UserPhase
      BY <1>1, <2>2, PhaseOfEntry DEF NothingMissing, UserPhase, ControlPhase
    <2>3. CASE command.phase \notin {1, 2, UserPhase}
      BY <1>1, <2>3, PhaseOfEntry DEF NothingMissing, UserPhase, ControlPhase
    <2> QED
      BY <2>1, <2>2, <2>3
  <1>3. CASE command.phase < ControlPhase
    <2>1. command' = [command EXCEPT !.phase = command.phase + 1] /\ UNCHANGED verified
      BY <1>3 DEF VerifyNext
    <2>2. command.phase \in Nat /\ command.phase + 1 \in 0 .. DonePhase
      BY <1>3 DEF LegacyInv, LegacyTypeOK, ControlPhase, DonePhase
    <2>3. /\ LegacyTypeOK' /\ command'.pc = "verify" /\ command'.phase = command.phase + 1
          /\ command'.batch = {}
      BY <1>1, <2>1, <2>2 DEF LegacyInv, LegacyTypeOK, moderationVars
    <2>4. \A e \in LegacyEntries : Passed(e)' => Passed(e) \/ Phase(e) = command.phase
      BY <1>1, <2>1, <2>2, <2>3, PhaseOfEntry DEF Passed, LegacyEntries
    <2> QED
      BY <1>1, <1>2, <2>1, <2>3, <2>4 DEF LegacyInv, LegacyEntries, moderationVars, RecordedFit,
          BatchKnows, PassedRecorded, Recorded, Fits, Here
  <1>4. CASE ~(command.phase < ControlPhase)
    <2>1. command' = NoRun /\ verified' = TRUE
      BY <1>4 DEF VerifyNext
    <2>2. command.phase \in Nat /\ 0 \in 0 .. DonePhase
      BY DEF LegacyInv, LegacyTypeOK, DonePhase
    <2>3. LegacyTypeOK' /\ command'.pc = "off" /\ command'.batch = {}
      BY <1>1, <2>1, <2>2, NoRunFields DEF LegacyInv, LegacyTypeOK, moderationVars
    <2>4. \A e \in LegacyEntries : Passed(e)
      BY <1>1, <1>4, <2>2, PhaseOfEntry DEF Passed, LegacyEntries, ControlPhase
    <2>5. legacyControl # "none"
      BY <1>1, <1>4, <2>2, PhaseOfEntry DEF NothingMissing, UserPhase, ControlPhase
    <2> QED
      BY <1>1, <2>3, <2>4, <2>5 DEF LegacyInv, LegacyEntries, moderationVars, RecordedFit,
          BatchKnows, PassedRecorded, Recorded, Fits, Here
  <1> QED
    BY <1>3, <1>4

LEMMA SwitchInv ==
    ASSUME LegacyInv, Enable \/ Disable, UNCHANGED strayed
    PROVE  LegacyInv'
  <1>1. /\ UNCHANGED <<legacyRow, legacyPicture, moderationVars, command, strayed>>
        /\ enabled' \in BOOLEAN /\ verified' \in BOOLEAN
        /\ verified' \/ enabled' => verified \/ enabled
    BY DEF Enable, Disable, LegacyInv, LegacyTypeOK
  <1> QED
    BY <1>1 DEF LegacyInv, LegacyTypeOK, moderationVars, RecordedFit, BatchKnows, PassedRecorded,
        Passed, Recorded, Fits, Here

(***************************************************************************)
(* What users do.  With moderation a row and its item are written together *)
(* and say the same; without it what had been dealt with strays.           *)
(***************************************************************************)
Saying(r, status, changed) ==
    /\ changed \in LegacyRecords /\ status \in {"visible", "hidden", "deleted"}
    /\ r \notin strayed =>
          /\ status = "deleted" <=> changed.life = "deleted"
          /\ status = "visible" => changed.public = "visible" /\ changed.materialized # "none"
          /\ Phase(r) = Moment /\ legacyPicture[r] # "none" => changed.fingerprint

LEMMA WriteInv ==
    ASSUME LegacyInv, NEW r \in LegacyRows, UNCHANGED strayed,
           \E status, changed : Saying(r, status, changed) /\ Write(r, status, changed)
    PROVE  LegacyInv'
  <1>1. PICK status, changed : Saying(r, status, changed) /\ Write(r, status, changed)
    OBVIOUS
  <1>2. /\ legacyRow' = [legacyRow EXCEPT ![r] = status]
        /\ legacyItem' = [legacyItem EXCEPT ![r] = changed]
        /\ UNCHANGED <<legacyPicture, legacyProfile, legacyControl, enabled, command, verified, strayed>>
    BY <1>1 DEF Write
  <1>3. changed \in LegacyRecords /\ changed # NoRecord /\ status \in RowStates
    BY <1>1 DEF Saying, LegacyRecords, NoRecord, RowStates
  <1>4. LegacyTypeOK'
    BY <1>2, <1>3 DEF LegacyInv, LegacyTypeOK
  <1>5. /\ legacyRow'[r] = status /\ legacyItem'[r] = changed /\ Recorded(r)'
        /\ \A s \in LegacyRows \ {r} : legacyRow'[s] = legacyRow[s] /\ legacyItem'[s] = legacyItem[s]
    BY <1>2, <1>3 DEF LegacyInv, LegacyTypeOK, Recorded
  <1>6. r \notin strayed => Fits(r)'
    BY <1>1, <1>2, <1>5 DEF Saying, Fits
  <1>7. RecordedFit'
    BY <1>2, <1>5, <1>6 DEF LegacyInv, RecordedFit, Recorded, Fits
  <1>8. BatchKnows' /\ PassedRecorded'
    BY <1>2, <1>5 DEF LegacyInv, BatchKnows, PassedRecorded, Passed, Recorded, Here
  <1> QED
    BY <1>4, <1>7, <1>8 DEF LegacyInv

LEMMA DisplayedSays ==
    ASSUME NEW r \in LegacyRows, NEW shown \in Displays(r), NEW approved \in {"none", "legacy", "review"},
           NEW waits \in BOOLEAN
    PROVE  Saying(r, shown, Displayed(approved, waits))
  BY DEF Displays, Saying, Displayed, LegacyRecords

LEMMA ModeratedWriteInv ==
    ASSUME LegacyInv, NEW r \in LegacyRows, UNCHANGED strayed,
           \/ SubmitModerated(r) \/ EditModerated(r) \/ ApproveModerated(r)
           \/ RejectModerated(r) \/ DeleteModerated(r)
    PROVE  LegacyInv'
  <1>1. SUFFICES \E status, changed : Saying(r, status, changed) /\ Write(r, status, changed)
    BY WriteInv
  <1> DEFINE hidden == [Withheld EXCEPT !.pending = FALSE, !.public = "hidden"]
  <1>2. Saying(r, "hidden", Withheld) /\ Saying(r, "hidden", hidden)
    <2>1. Displayed("none", TRUE) \in [life : {"active"}, public : {"visible"}, approved : {"none"},
                                      materialized : {"review"}, pending : {TRUE}, fingerprint : {TRUE}]
      BY DEF Displayed
    <2>2. Withheld \in [life : {"active"}, public : {"placeholder"}, approved : {"none"},
                        materialized : {"none"}, pending : {TRUE}, fingerprint : {TRUE}]
      BY <2>1 DEF Withheld
    <2>3. hidden \in [life : {"active"}, public : {"hidden"}, approved : {"none"},
                      materialized : {"none"}, pending : {FALSE}, fingerprint : {TRUE}]
      BY <2>2
    <2> HIDE DEF hidden
    <2> QED
      BY <2>2, <2>3 DEF Saying, LegacyRecords
  <1>3. Active(r) => /\ legacyItem[r] \in LegacyRecords /\ legacyItem[r].life = "active"
                     /\ legacyRow[r] \in {"visible", "hidden"}
                     /\ r \notin strayed => Fits(r)
    BY DEF Active, Recorded, LegacyInv, LegacyTypeOK, RecordedFit
  <1>4. CASE SubmitModerated(r)
    BY <1>2, <1>4, DisplayedSays DEF SubmitModerated
  <1>5. CASE EditModerated(r)
    <2>1. Active(r)
      BY <1>5 DEF EditModerated
    <2>2. legacyItem[r].approved \in {"none", "legacy", "review"}
      BY <1>3, <2>1 DEF LegacyRecords
    <2>3. Saying(r, legacyRow[r], [legacyItem[r] EXCEPT !.pending = TRUE])
      BY <1>3, <2>1 DEF Saying, LegacyRecords, Fits
    <2> QED
      BY <1>5, <2>2, <2>3, DisplayedSays DEF EditModerated
  <1>6. CASE ApproveModerated(r)
    BY <1>6, DisplayedSays DEF ApproveModerated
  <1>7. CASE RejectModerated(r)
    <2>1. Active(r)
      BY <1>7 DEF RejectModerated
    <2>2. CASE legacyItem[r].approved = "none"
      BY <1>2, <1>7, <2>2 DEF RejectModerated
    <2>3. CASE legacyItem[r].approved # "none"
      <3>1. Saying(r, legacyRow[r], [legacyItem[r] EXCEPT !.pending = FALSE,
                                                   !.materialized = legacyItem[r].approved])
        BY <1>3, <2>1, <2>3 DEF Saying, LegacyRecords, Fits
      <3> QED
        BY <1>7, <2>3, <3>1 DEF RejectModerated
    <2> QED
      BY <2>2, <2>3
  <1>8. CASE DeleteModerated(r)
    <2>1. Active(r)
      BY <1>8 DEF DeleteModerated
    <2>2. Saying(r, "deleted", [legacyItem[r] EXCEPT !.life = "deleted", !.public = "hidden",
                                                    !.materialized = "none", !.pending = FALSE])
      BY <1>3, <2>1 DEF Saying, LegacyRecords, Fits
    <2> QED
      BY <1>8, <2>2 DEF DeleteModerated
  <1> QED
    BY <1>4, <1>5, <1>6, <1>7, <1>8

LEMMA GovernInv ==
    ASSUME LegacyInv, UNCHANGED strayed, (\E u \in LegacyUsers : Govern(u)) \/ SetControl
    PROVE  LegacyInv'
  <1>1. UNCHANGED <<legacyRow, legacyPicture, legacyItem, enabled, command, verified, strayed>>
    BY DEF Govern, SetControl
  <1>2. /\ legacyProfile' \in [LegacyUsers -> {"absent", "none", "trusted", "new", "restricted"}]
        /\ \A u \in LegacyUsers : legacyProfile[u] # "none" => legacyProfile'[u] # "none"
    BY DEF Govern, SetControl, LegacyInv, LegacyTypeOK
  <1>3. legacyControl' \in {"none", "default", "set"} /\ (legacyControl # "none" => legacyControl' # "none")
    BY DEF Govern, SetControl, LegacyInv, LegacyTypeOK
  <1> QED
    BY <1>1, <1>2, <1>3 DEF LegacyInv, LegacyTypeOK, RecordedFit, BatchKnows, PassedRecorded, Passed,
        Recorded, Fits, Here

LEMMA RepairPictureInv ==
    ASSUME LegacyInv, NEW p \in LegacyRows, RepairPicture(p), UNCHANGED strayed
    PROVE  LegacyInv'
  <1>1. /\ UNCHANGED <<legacyRow, moderationVars, enabled, command, verified, strayed>>
        /\ legacyPicture[p] = "lost" /\ legacyPicture' = [legacyPicture EXCEPT ![p] = "stored"]
    BY DEF RepairPicture, moderationVars
  <1>2. /\ legacyPicture' \in [LegacyRows -> {"none", "stored", "lost"}]
        /\ \A r \in LegacyRows : legacyPicture'[r] # "none" <=> legacyPicture[r] # "none"
    BY <1>1 DEF LegacyInv, LegacyTypeOK
  <1> QED
    BY <1>1, <1>2 DEF LegacyInv, LegacyTypeOK, moderationVars, RecordedFit, BatchKnows, PassedRecorded,
        Passed, Recorded, Fits, Here

LEMMA UnmoderatedInv ==
    ASSUME LegacyInv, NEW e \in LegacyEntries, UnmoderatedStep(e),
           strayed' = IF DealtWith(e) THEN strayed \cup {e} ELSE strayed
    PROVE  LegacyInv'
  <1>1. UNCHANGED <<legacyItem, legacyControl, enabled, command, verified>>
    BY DEF UnmoderatedStep, PlainCreate, PlainChange, RegisterUser, moderationVars
  <1>2. /\ strayed \subseteq strayed' /\ strayed' \subseteq LegacyEntries
        /\ e \notin strayed' => ~DealtWith(e)
    BY DEF LegacyInv, LegacyTypeOK
  <1>3. CASE e \in LegacyRows /\ (PlainCreate(e) \/ PlainChange(e))
    <2>1. /\ legacyRow' \in [LegacyRows -> RowStates]
          /\ \A r \in LegacyRows \ {e} : legacyRow'[r] = legacyRow[r]
      BY <1>3 DEF PlainCreate, PlainChange, Displays, LegacyInv, LegacyTypeOK, RowStates
    <2>2. /\ legacyPicture' \in [LegacyRows -> {"none", "stored", "lost"}]
          /\ \A r \in LegacyRows \ {e} : legacyPicture'[r] = legacyPicture[r]
      BY <1>3 DEF PlainCreate, PlainChange, LegacyInv, LegacyTypeOK
    <2>3. UNCHANGED legacyProfile /\ e \notin LegacyUsers
      BY <1>3, PhaseOfEntry DEF PlainCreate, PlainChange, moderationVars
    <2>4. LegacyTypeOK'
      BY <1>1, <1>2, <2>1, <2>2, <2>3 DEF LegacyInv, LegacyTypeOK
    <2>5. e \notin strayed' => ~Recorded(e) /\ e \notin command.batch /\ ~Passed(e)
      BY <1>2, <1>3 DEF DealtWith, Passed
    <2>6. RecordedFit'
      BY <1>1, <1>2, <2>1, <2>2, <2>5 DEF LegacyInv, RecordedFit, Recorded, Fits
    <2>7. BatchKnows'
      BY <1>1, <1>2, <2>1, <2>2, <2>5 DEF LegacyInv, BatchKnows, Recorded, Here
    <2>8. PassedRecorded'
      BY <1>1, <1>2, <2>1, <2>3, <2>5 DEF LegacyInv, PassedRecorded, Passed, Recorded, Here
    <2> QED
      BY <2>4, <2>6, <2>7, <2>8 DEF LegacyInv
  <1>4. CASE e \in LegacyUsers /\ RegisterUser(e)
    <2>1. UNCHANGED <<legacyRow, legacyPicture>> /\ e \notin LegacyRows
      BY <1>4, PhaseOfEntry DEF RegisterUser
    <2>2. /\ legacyProfile' \in [LegacyUsers -> {"absent", "none", "trusted", "new", "restricted"}]
          /\ \A u \in LegacyUsers \ {e} : legacyProfile'[u] = legacyProfile[u]
      BY <1>4 DEF RegisterUser, LegacyInv, LegacyTypeOK
    <2>3. e \notin strayed' => ~Passed(e)
      BY <1>2 DEF DealtWith, Passed
    <2>4. LegacyTypeOK'
      BY <1>1, <1>2, <2>1, <2>2 DEF LegacyInv, LegacyTypeOK
    <2> QED
      BY <1>1, <1>2, <2>1, <2>2, <2>3, <2>4 DEF LegacyInv, RecordedFit, BatchKnows, PassedRecorded,
          Passed, Recorded, Fits, Here
  <1> QED
    BY <1>3, <1>4 DEF UnmoderatedStep

LEMMA LegacyStepInv == LegacyInv /\ [LegacyNext]_legacyVars => LegacyInv'
  <1> SUFFICES ASSUME LegacyInv, [LegacyNext]_legacyVars PROVE LegacyInv'
    OBVIOUS
  <1>1. ASSUME NEW phase \in 1 .. ControlPhase, NEW id, StartRun(phase, id), UNCHANGED strayed
        PROVE  LegacyInv'
    BY <1>1, StartRunInv
  <1>2. ASSUME CommandStep, UNCHANGED strayed
        PROVE  LegacyInv'
    BY <1>1, <1>2, StopCommandInv, ListBatchInv, PrepareRecordsInv, PersistBatchInv,
       EnsureLegacyControlInv, VerifyBeginInv, VerifyNextInv DEF CommandStep
  <1>3. ASSUME ModeratedStep, UNCHANGED strayed
        PROVE  LegacyInv'
    BY <1>3, ModeratedWriteInv, GovernInv DEF ModeratedStep
  <1>4. CASE UNCHANGED legacyVars
    BY <1>4 DEF legacyVars, moderationVars, LegacyInv, LegacyTypeOK, RecordedFit, BatchKnows,
        PassedRecorded, Passed, Recorded, Fits, Here
  <1> QED
    BY <1>2, <1>3, <1>4, SwitchInv, RepairPictureInv, UnmoderatedInv DEF LegacyNext, LegacyEntries

\* While moderation is on, every row of before has an item that agrees with it, every user a
\* profile and the site its control, whatever stopped or repeated the migration (RunMigration,
\* PersistContentBatch, VerifyMigration and the operator who follows the runbook).
THEOREM OldContentIsModerated == LegacySpec => []LegacyComplete
  <1>1. LegacyInv => LegacyComplete
    BY DEF LegacyInv, PassedRecorded, RecordedFit, Passed, LegacyComplete
  <1> QED
    BY <1>1, LegacyInitInv, LegacyStepInv, PTL DEF LegacySpec

\* No run of the command changes what moderation holds, from whichever cursor it is started
\* (PersistContentBatch, PersistUserBatch, EnsureControl).
THEOREM MigrationKeepsDecisions == LegacySpec => [][LegacyKept]_legacyVars
  <1>1. ASSUME CommandStep PROVE LegacyKept
    <2>1. CASE PersistBatch
      BY <2>1 DEF PersistBatch, LegacyKept, PersistLegacyRecord
    <2>2. CASE EnsureLegacyControl
      BY <2>2 DEF EnsureLegacyControl, LegacyKept
    <2>3. CASE ~PersistBatch /\ ~EnsureLegacyControl
      <3>1. UNCHANGED moderationVars
        BY <1>1, <2>3 DEF CommandStep, StartRun, StopCommand, ListBatch, PrepareRecords, VerifyBegin,
            VerifyNext
      <3> QED
        BY <3>1 DEF LegacyKept, moderationVars
    <2> QED
      BY <2>1, <2>2, <2>3
  <1>2. [LegacyNext]_legacyVars => [LegacyKept]_legacyVars
    BY <1>1 DEF LegacyKept
  <1> QED
    BY <1>2, PTL DEF LegacySpec

-----------------------------------------------------------------------------
(***************************************************************************)
(* Governance. Every request carries the restriction that the score calls  *)
(* for from the evaluation to the decision, unless somebody else changes   *)
(* the row; whoever saves could publish since.                             *)
(***************************************************************************)
SoundProfile(p) ==
    /\ p \in Profile
    /\ p.sanction = "active" => p.sanctionUntil = Never
    /\ p.level # "restricted" => p.until = Never
    /\ p.lastViolation \in {Unset} \cup 0 .. MaxTime

\* A level that waits to be stored has a deadline only if it is restricted.
WaitingLevels ==
    \A c \in Callers :
        caller[c].pc = "store" /\ caller[c].level # "restricted" => caller[c].until = Never

\* A request nobody has interfered with carries the restriction that the score calls for from
\* the evaluation to the decision.
CarriesRestriction(c) ==
    /\ caller[c].pc = "store" => caller[c].level = "restricted"
    /\ caller[c].pc = "policy" => profile.level = "restricted"
    /\ caller[c].pc = "save" => caller[c].action = "pre_review"

UndisturbedCarry ==
    \A c \in Callers \ disturbed :
        ~profile.locked /\ profile.score >= ScoreThreshold => CarriesRestriction(c)

GovernanceInv ==
    /\ GovernanceTypeOK
    /\ profile.lastViolation \in {Unset} \cup 0 .. MaxTime
    /\ WaitingLevels
    /\ SavedOnlyWhenAllowed
    /\ UndisturbedCarry

-----------------------------------------------------------------------------
LEMMA GovernanceConstants ==
    /\ ScoreThreshold \in Nat /\ ScoreThreshold > 0
    /\ Duration \in Nat /\ Duration > 0
    /\ Decay \in Nat /\ MaxTime \in Nat /\ MaxActs \in Nat
    /\ Weight \in [Violations -> Nat]
    /\ Never \in Nat /\ Never \in Deadlines /\ Never > MaxTime + Duration
  BY ScoreAssumption, GovernanceBounds DEF Never, Deadlines

LEMMA ReleasedIsSound ==
    ASSUME NEW p, SoundProfile(p), NEW now \in 0 .. MaxTime
    PROVE  /\ SoundProfile(Released(p, now))
           /\ Released(p, now).locked = p.locked
           /\ p.locked => Released(p, now).level = p.level
           /\ \/ Released(p, now).level = p.level /\ Released(p, now).score = p.score
              \/ Released(p, now).score = 0
           /\ p.sanction = "active" => Released(p, now).sanction = "active"
  <1> DEFINE unsanctioned ==
            IF p.sanction # "active" /\ Reached(p.sanctionUntil, now)
            THEN [p EXCEPT !.sanction = "active", !.sanctionUntil = Never]
            ELSE p
  <1>1. /\ SoundProfile(unsanctioned)
        /\ unsanctioned.locked = p.locked /\ unsanctioned.level = p.level
        /\ unsanctioned.score = p.score /\ unsanctioned.until = p.until
        /\ p.sanction = "active" => unsanctioned.sanction = "active"
    <2> DEFINE active == [p EXCEPT !.sanction = "active", !.sanctionUntil = Never]
    <2>1. /\ active \in Profile /\ active.sanction = "active" /\ active.sanctionUntil = Never
          /\ active.locked = p.locked /\ active.level = p.level /\ active.score = p.score
          /\ active.until = p.until /\ active.lastViolation = p.lastViolation
      BY GovernanceConstants DEF SoundProfile, Profile
    <2> HIDE DEF active
    <2>2. SoundProfile(active)
      BY <2>1 DEF SoundProfile
    <2>3. unsanctioned = IF p.sanction # "active" /\ Reached(p.sanctionUntil, now) THEN active ELSE p
      BY DEF active
    <2> QED
      BY <2>1, <2>2, <2>3
  <1>2. Released(p, now) =
            IF /\ unsanctioned.level = "restricted"
               /\ ~unsanctioned.locked
               /\ Reached(unsanctioned.until, now)
            THEN [unsanctioned EXCEPT !.level = "normal", !.until = Never, !.score = 0]
            ELSE unsanctioned
    BY DEF Released
  <1> DEFINE free == [unsanctioned EXCEPT !.level = "normal", !.until = Never, !.score = 0]
  <1> HIDE DEF unsanctioned
  <1>3. /\ free \in Profile /\ free.level = "normal" /\ free.until = Never /\ free.score = 0
        /\ free.sanction = unsanctioned.sanction /\ free.sanctionUntil = unsanctioned.sanctionUntil
        /\ free.locked = unsanctioned.locked /\ free.lastViolation = unsanctioned.lastViolation
    BY <1>1, GovernanceConstants DEF SoundProfile, Profile, Levels
  <1> HIDE DEF free
  <1>4. SoundProfile(free)
    BY <1>1, <1>3 DEF SoundProfile
  <1>5. (Released(p, now) = free /\ ~unsanctioned.locked) \/ Released(p, now) = unsanctioned
    BY <1>2 DEF free
  <1> QED
    BY <1>1, <1>3, <1>4, <1>5

LEMMA EvaluatedIsSound ==
    ASSUME NEW p, SoundProfile(p), NEW now \in 0 .. MaxTime
    PROVE  /\ SoundProfile(EvaluateTrust(p, now))
           /\ ~p.locked /\ p.score >= ScoreThreshold => EvaluateTrust(p, now).level = "restricted"
  <1> DEFINE until == (IF p.lastViolation = Unset THEN now ELSE p.lastViolation) + Duration
             restricted == [p EXCEPT !.level = "restricted",
                                     !.until = IF @ = Never \/ @ < until THEN until ELSE @]
             promoted == [p EXCEPT !.level = IF @ = "new" THEN "normal" ELSE "trusted"]
  <1>1. until \in Deadlines
    BY GovernanceConstants DEF SoundProfile, Profile, Never, Deadlines
  <1> HIDE DEF until
  <1>2. SoundProfile(restricted) /\ restricted.level = "restricted"
    BY <1>1 DEF SoundProfile, Profile, Levels
  <1>3. Promotes(p, now) => SoundProfile(promoted)
    <2>1. Promotes(p, now) => p.level \in {"new", "normal"}
      BY PolicyAssumption DEF Promotes
    <2> QED
      BY <2>1 DEF SoundProfile, Profile, Levels
  <1>4. EvaluateTrust(p, now) =
            CASE p.locked -> p
              [] ~p.locked /\ AtThreshold(p) -> restricted
              [] OTHER -> IF p.score = 0 /\ Promotes(p, now) THEN promoted ELSE p
    BY DEF EvaluateTrust, until
  <1> HIDE DEF restricted, promoted
  <1>5. p.locked \in BOOLEAN
    BY DEF SoundProfile, Profile
  <1>6. CASE p.locked
    BY <1>4, <1>6
  <1>7. CASE ~p.locked /\ AtThreshold(p)
    BY <1>2, <1>4, <1>7
  <1>8. CASE ~p.locked /\ ~AtThreshold(p)
    BY <1>3, <1>4, <1>8 DEF AtThreshold
  <1> QED
    BY <1>5, <1>6, <1>7, <1>8

LEMMA ScoredIsSound ==
    ASSUME NEW p, SoundProfile(p), NEW now \in 0 .. MaxTime, NEW event \in {"approve"} \cup Violations
    PROVE  /\ SoundProfile(Scored(p, event, now))
           /\ Scored(p, event, now).locked = p.locked
           /\ Scored(p, event, now).level = p.level
  <1>1. CASE event = "approve"
    <2> DEFINE q == [p EXCEPT !.streak = @ + 1, !.score = IF @ > Decay THEN @ - Decay ELSE 0]
    <2>1. Scored(p, event, now) = q
      BY <1>1 DEF Scored
    <2>2. /\ q \in Profile /\ q.locked = p.locked /\ q.level = p.level /\ q.until = p.until
          /\ q.sanction = p.sanction /\ q.sanctionUntil = p.sanctionUntil
          /\ q.lastViolation = p.lastViolation
      <3>1. Decay \in Nat /\ p.streak \in Nat /\ p.score \in Nat
        BY GovernanceConstants DEF SoundProfile, Profile
      <3>2. p.streak + 1 \in Nat /\ (IF p.score > Decay THEN p.score - Decay ELSE 0) \in Nat
        BY <3>1
      <3> QED
        BY <3>2 DEF SoundProfile, Profile
    <2> QED
      BY <2>1, <2>2 DEF SoundProfile
  <1>2. CASE event # "approve"
    <2>1. Weight[event] \in Nat
      BY <1>2, GovernanceConstants
    <2> DEFINE q == [p EXCEPT !.streak = 0, !.score = @ + Weight[event], !.lastViolation = now]
    <2>2. Scored(p, event, now) = q
      BY <1>2 DEF Scored
    <2>3. /\ q \in Profile /\ q.locked = p.locked /\ q.level = p.level /\ q.until = p.until
          /\ q.sanction = p.sanction /\ q.sanctionUntil = p.sanctionUntil
          /\ q.lastViolation = now
      <3>1. p.score + Weight[event] \in Nat /\ now \in Int
        BY <2>1 DEF SoundProfile, Profile
      <3> QED
        BY <3>1 DEF SoundProfile, Profile
    <2> QED
      BY <2>2, <2>3 DEF SoundProfile
  <1> QED
    BY <1>1, <1>2

\* Among the actions of any signals one is the most restrictive; a limit by trust or by the
\* site leaves a review or a refusal.
LEMMA LimitedMeansReview ==
    ASSUME NEW level \in Levels, NEW signals \in SUBSET Signals, signals # {}
    PROVE  /\ ActionForSignals(level, signals) \in PolicyActions
           /\ RequirePreReview(ActionForSignals(level, signals)) \in {"pre_review", "block"}
  <1> DEFINE as == {TrustPolicy[level][s] : s \in signals}
  <1>1. as \subseteq PolicyActions /\ as # {}
    <2>1. \A s \in Signals : TrustPolicy[level][s] \in PolicyActions
      BY PolicyAssumption
    <2> QED
      BY <2>1
  <1> HIDE DEF as
  <1>2. /\ Rank["auto_approve"] = 0 /\ Rank["post_review"] = 1
        /\ Rank["pre_review"] = 2 /\ Rank["block"] = 3
    BY DEF Rank, PolicyActions
  <1>3. \E a \in as : \A b \in as : Rank[b] <= Rank[a]
    <2>1. CASE "block" \in as
      <3>1. \A b \in PolicyActions : Rank[b] <= Rank["block"]
        BY <1>2 DEF PolicyActions
      <3> QED
        BY <1>1, <2>1, <3>1
    <2>2. CASE "block" \notin as /\ "pre_review" \in as
      <3>1. \A b \in PolicyActions \ {"block"} : Rank[b] <= Rank["pre_review"]
        BY <1>2 DEF PolicyActions
      <3> QED
        BY <1>1, <2>2, <3>1
    <2>3. CASE "block" \notin as /\ "pre_review" \notin as /\ "post_review" \in as
      <3>1. \A b \in PolicyActions \ {"block", "pre_review"} : Rank[b] <= Rank["post_review"]
        BY <1>2 DEF PolicyActions
      <3> QED
        BY <1>1, <2>3, <3>1
    <2>4. CASE as = {"auto_approve"}
      BY <1>2, <2>4
    <2> QED
      BY <1>1, <2>1, <2>2, <2>3, <2>4 DEF PolicyActions
  <1>4. MostRestrictive(as) \in as
    BY <1>3 DEF MostRestrictive
  <1> QED
    BY <1>1, <1>4 DEF ActionForSignals, RequirePreReview, PolicyActions, as

-----------------------------------------------------------------------------
(* What a step leaves of those who did not take it, and of the one who did.   *)

LEMMA IdlePc == Idle.pc = "idle"
  BY DEF Idle

LEMMA OthersCarry ==
    ASSUME GovernanceInv, NEW actors, Watch(actors),
           NEW d \in Callers, d \notin actors, caller'[d] = caller[d]
    PROVE  /\ d \notin disturbed' /\ ~profile'.locked /\ profile'.score >= ScoreThreshold
                => CarriesRestriction(d)'
           /\ caller'[d].pc = "save" => d \notin barred'
  <1>1. CASE caller[d] = Idle
    BY <1>1, IdlePc DEF CarriesRestriction
  <1>2. CASE caller[d] # Idle
    BY <1>2 DEF GovernanceInv, UndisturbedCarry, SavedOnlyWhenAllowed, CarriesRestriction, Watch
  <1> QED
    BY <1>1, <1>2

LEMMA WithoutActors ==
    ASSUME GovernanceInv, Watch({}), UNCHANGED caller
    PROVE  /\ WaitingLevels' /\ SavedOnlyWhenAllowed' /\ UndisturbedCarry'
           /\ disturbed' \subseteq Callers /\ barred' \subseteq Callers
  <1>1. WaitingLevels'
    BY DEF GovernanceInv, WaitingLevels
  <1>2. disturbed' \subseteq Callers /\ barred' \subseteq Callers
    BY DEF Watch
  <1>3. ASSUME NEW d \in Callers
        PROVE  /\ d \notin disturbed' /\ ~profile'.locked /\ profile'.score >= ScoreThreshold
                    => CarriesRestriction(d)'
               /\ caller'[d].pc = "save" => d \notin barred'
    BY OthersCarry
  <1> QED
    BY <1>1, <1>2, <1>3 DEF SavedOnlyWhenAllowed, UndisturbedCarry

\* The request of c goes on as x.
GoesOn(c, x) ==
    /\ x \in Request /\ caller' = [caller EXCEPT ![c] = x]
    /\ SoundProfile(profile')
    /\ profile.locked => profile'.level = profile.level
    /\ x.pc = "store" /\ x.level # "restricted" => x.until = Never
    /\ x.pc = "save" => profile'.sanction = "active" /\ siteControl.publishing # "closed"
    /\ c \notin disturbed /\ ~profile'.locked /\ profile'.score >= ScoreThreshold =>
            /\ x.pc = "store" => x.level = "restricted"
            /\ x.pc = "policy" => profile'.level = "restricted"
            /\ x.pc = "save" => x.action = "pre_review"

LEMMA GoesOnInv ==
    ASSUME GovernanceInv, NEW c \in Callers, \E x : GoesOn(c, x), Watch({c}),
           acts' \in 0 .. MaxActs, UNCHANGED <<siteControl, page, clock>>
    PROVE  GovernanceInv'
  <1>1. PICK x : GoesOn(c, x)
    OBVIOUS
  <1>2. /\ caller' \in [Callers -> Request] /\ caller'[c] = x
        /\ \A d \in Callers \ {c} : caller'[d] = caller[d]
    BY <1>1 DEF GoesOn, GovernanceInv, GovernanceTypeOK
  <1>3. disturbed' \subseteq Callers /\ barred' \subseteq Callers
    BY DEF Watch
  <1>4. GovernanceTypeOK' /\ profile'.lastViolation \in {Unset} \cup 0 .. MaxTime
    BY <1>1, <1>2, <1>3 DEF GoesOn, SoundProfile, GovernanceInv, GovernanceTypeOK
  <1>5. WaitingLevels'
    BY <1>1, <1>2 DEF GoesOn, GovernanceInv, WaitingLevels
  <1>6. x.pc = "save" => c \notin barred'
    <2>1. profile'.sanction = "active" => Released(profile', clock').sanction = "active"
      <3>1. SoundProfile(profile') /\ clock' \in 0 .. MaxTime
        BY <1>1 DEF GoesOn, GovernanceInv, GovernanceTypeOK
      <3> QED
        BY <3>1, ReleasedIsSound
    <2>2. x.pc = "save" => MayPublish'
      BY <1>1, <2>1 DEF GoesOn, MayPublish
    <2> QED
      BY <2>2 DEF Watch
  <1>7. SavedOnlyWhenAllowed'
    BY <1>2, <1>6, OthersCarry DEF SavedOnlyWhenAllowed
  <1>8. c \notin disturbed' => c \notin disturbed \/ x = Idle
    BY <1>2 DEF Watch
  <1>9. c \notin disturbed' /\ ~profile'.locked /\ profile'.score >= ScoreThreshold
            => CarriesRestriction(c)'
    BY <1>1, <1>2, <1>8, IdlePc DEF GoesOn, CarriesRestriction
  <1>10. UndisturbedCarry'
    BY <1>2, <1>9, OthersCarry DEF UndisturbedCarry
  <1> QED
    BY <1>4, <1>5, <1>7, <1>10 DEF GovernanceInv

-----------------------------------------------------------------------------
LEMMA SoundRow ==
    ASSUME GovernanceInv
    PROVE  /\ SoundProfile(profile) /\ clock \in 0 .. MaxTime /\ acts \in 0 .. MaxActs
           /\ caller \in [Callers -> Request]
  BY DEF GovernanceInv, GovernanceTypeOK, SoundProfile

LEMMA GotoGoesOn ==
    ASSUME GovernanceInv, NEW c \in Callers, NEW next \in {"idle", "policy"}, Goto(c, next),
           SoundProfile(profile'), profile.locked => profile'.level = profile.level,
           next = "policy" /\ c \notin disturbed /\ ~profile'.locked /\ profile'.score >= ScoreThreshold
                => profile'.level = "restricted"
    PROVE  \E x : GoesOn(c, x)
  <1> DEFINE x == IF next = "idle" THEN Idle ELSE [pc |-> next]
  <1>1. caller' = [caller EXCEPT ![c] = x]
    BY DEF Goto
  <1>2. x \in Request /\ x.pc = next
    BY DEF Request, Idle
  <1> HIDE DEF x
  <1>3. GoesOn(c, x)
    BY <1>1, <1>2 DEF GoesOn
  <1> QED
    BY <1>3

LEMMA ReconcileGoesOn ==
    ASSUME GovernanceInv, NEW c \in Callers, NEW next \in {"idle", "policy"},
           NEW now \in 0 .. MaxTime, Reconcile(c, next, now)
    PROVE  \E x : GoesOn(c, x)
  <1> DEFINE loaded == Released(profile, now)
             evaluated == EvaluateTrust(loaded, now)
  <1>1. /\ SoundProfile(loaded)
        /\ profile.locked => loaded.level = profile.level
    BY SoundRow, ReleasedIsSound
  <1> HIDE DEF loaded
  <1>2. /\ SoundProfile(evaluated)
        /\ ~loaded.locked /\ loaded.score >= ScoreThreshold => evaluated.level = "restricted"
    BY <1>1, EvaluatedIsSound
  <1>3. /\ profile' = loaded
        /\ IF evaluated = loaded THEN Goto(c, next)
           ELSE caller' = [caller EXCEPT ![c] = [pc |-> "store", next |-> next,
                                                 level |-> evaluated.level, until |-> evaluated.until]]
    BY DEF Reconcile, loaded
  <1> HIDE DEF evaluated
  <1>4. CASE evaluated = loaded
    BY <1>1, <1>2, <1>3, <1>4, GotoGoesOn
  <1>5. CASE evaluated # loaded
    <2> DEFINE x == [pc |-> "store", next |-> next, level |-> evaluated.level, until |-> evaluated.until]
    <2>1. /\ x \in Request /\ x.pc = "store" /\ x.level = evaluated.level
          /\ x.until = evaluated.until
      BY <1>2 DEF Request, SoundProfile, Profile
    <2>2. caller' = [caller EXCEPT ![c] = x]
      BY <1>3, <1>5
    <2> HIDE DEF x
    <2>3. GoesOn(c, x)
      BY <1>1, <1>2, <1>3, <2>1, <2>2 DEF GoesOn, SoundProfile
    <2> QED
      BY <2>3
  <1> QED
    BY <1>4, <1>5

LEMMA StoreTrustGoesOn ==
    ASSUME GovernanceInv, NEW c \in Callers, StoreTrust(c)
    PROVE  \E x : GoesOn(c, x)
  <1>1. caller[c].pc = "store" /\ caller[c] \in Request /\ Goto(c, caller[c].next)
    BY SoundRow DEF StoreTrust
  <1>2. /\ caller[c].next \in {"idle", "policy"} /\ caller[c].level \in Levels
        /\ caller[c].until \in Deadlines
        /\ caller[c].level # "restricted" => caller[c].until = Never
    BY <1>1 DEF Request, Idle, GovernanceInv, WaitingLevels
  <1>3. CASE profile.locked
    <2>1. profile' = profile
      BY <1>3 DEF StoreTrust
    <2> QED
      BY <1>1, <1>2, <1>3, <2>1, SoundRow, GotoGoesOn
  <1>4. CASE ~profile.locked
    <2> DEFINE q == [profile EXCEPT !.level = caller[c].level, !.until = caller[c].until]
    <2>1. profile' = q
      BY <1>4 DEF StoreTrust
    <2>2. /\ q \in Profile /\ q.level = caller[c].level /\ q.until = caller[c].until
          /\ q.sanction = profile.sanction /\ q.sanctionUntil = profile.sanctionUntil
          /\ q.lastViolation = profile.lastViolation /\ q.score = profile.score
          /\ q.locked = profile.locked
      BY <1>2, SoundRow DEF SoundProfile, Profile
    <2> HIDE DEF q
    <2>3. SoundProfile(q)
      BY <1>2, <2>2, SoundRow DEF SoundProfile
    <2>4. c \notin disturbed /\ q.score >= ScoreThreshold => q.level = "restricted"
      BY <1>1, <1>4, <2>2 DEF GovernanceInv, UndisturbedCarry, CarriesRestriction
    <2> QED
      BY <1>1, <1>2, <1>4, <2>1, <2>2, <2>3, <2>4, GotoGoesOn
  <1> QED
    BY <1>3, <1>4

LEMMA DecidedAction ==
    ASSUME NEW sanction, NEW mode, NEW level \in Levels, NEW risk \in Risks, NEW signals \in SignalSets
    PROVE  /\ Decide(sanction, mode, level, risk, signals) \in PolicyActions
           /\ level = "restricted" => Decide(sanction, mode, level, risk, signals) \in {"pre_review", "block"}
  <1> DEFINE shown == IF risk = "medium" THEN {"medium"} ELSE signals
  <1>1. shown \in SUBSET Signals /\ shown # {}
    BY DEF SignalSets, Signals
  <1> HIDE DEF shown
  <1>2. Decide(sanction, mode, level, risk, signals) =
            IF PublishingBlocked(sanction, mode) \/ risk = "high" THEN "block"
            ELSE IF LimitedToPreReview(level, mode) THEN RequirePreReview(ActionForSignals(level, shown))
                 ELSE ActionForSignals(level, shown)
    BY DEF Decide, shown
  <1>3. level = "restricted" => LimitedToPreReview(level, mode)
    BY DEF LimitedToPreReview
  <1>4. /\ ActionForSignals(level, shown) \in PolicyActions
        /\ RequirePreReview(ActionForSignals(level, shown)) \in {"pre_review", "block"}
    BY <1>1, LimitedMeansReview
  <1> QED
    BY <1>2, <1>3, <1>4 DEF PolicyActions

LEMMA ReadPolicyGoesOn ==
    ASSUME GovernanceInv, NEW c \in Callers, ReadPolicy(c)
    PROVE  \E x : GoesOn(c, x)
  <1>1. caller[c].pc = "policy" /\ profile' = Released(profile, clock)
    BY DEF ReadPolicy
  <1>2. /\ SoundProfile(profile')
        /\ profile'.locked = profile.locked
        /\ profile.locked => profile'.level = profile.level
        /\ \/ profile'.level = profile.level /\ profile'.score = profile.score
           \/ profile'.score = 0
    BY <1>1, SoundRow, ReleasedIsSound
  <1>3. c \notin disturbed /\ ~profile'.locked /\ profile'.score >= ScoreThreshold
            => profile'.level = "restricted"
    BY <1>1, <1>2, GovernanceConstants DEF GovernanceInv, UndisturbedCarry, CarriesRestriction
  <1>4. CASE PublishingBlocked(profile'.sanction, siteControl.publishing)
    BY <1>2, <1>4, GotoGoesOn DEF ReadPolicy
  <1>5. CASE ~PublishingBlocked(profile'.sanction, siteControl.publishing)
    <2>1. PICK risk \in Risks, signals \in SignalSets :
            LET action == Decide(profile'.sanction, siteControl.publishing, profile'.level, risk, signals)
            IN  caller' = [caller EXCEPT ![c] = IF action = "block" THEN [pc |-> "block"]
                                                ELSE [pc |-> "save", action |-> action]]
      BY <1>5 DEF ReadPolicy
    <2> DEFINE action == Decide(profile'.sanction, siteControl.publishing, profile'.level, risk, signals)
               x == IF action = "block" THEN [pc |-> "block"] ELSE [pc |-> "save", action |-> action]
    <2>2. profile'.level \in Levels
      BY <1>2 DEF SoundProfile, Profile
    <2>3. /\ action \in PolicyActions
          /\ profile'.level = "restricted" => action \in {"pre_review", "block"}
      BY <2>2, DecidedAction
    <2> HIDE DEF action
    <2>4. /\ x \in Request /\ x.pc \in {"block", "save"}
          /\ x.pc = "save" => x.action = action /\ action # "block"
      BY <2>3 DEF Request
    <2>5. caller' = [caller EXCEPT ![c] = x]
      BY <2>1 DEF action
    <2> HIDE DEF x
    <2>6. GoesOn(c, x)
      BY <1>2, <1>3, <1>5, <2>3, <2>4, <2>5 DEF GoesOn, PublishingBlocked
    <2> QED
      BY <2>6
  <1> QED
    BY <1>4, <1>5

LEMMA AwaitRefreshGoesOn ==
    ASSUME GovernanceInv, NEW c \in Callers, AwaitRefresh(c), NEW event \in {"approve"} \cup Violations,
           profile' = Scored(profile, event, clock)
    PROVE  \E x : GoesOn(c, x)
  <1> DEFINE x == [pc |-> "refresh", now |-> clock]
  <1>1. x \in Request /\ x.pc = "refresh" /\ caller' = [caller EXCEPT ![c] = x]
    BY SoundRow DEF AwaitRefresh, Request
  <1> HIDE DEF x
  <1>2. SoundProfile(profile') /\ profile'.level = profile.level
    BY SoundRow, ScoredIsSound
  <1>3. GoesOn(c, x)
    BY <1>1, <1>2 DEF GoesOn
  <1> QED
    BY <1>3

LEMMA RequestStepInv ==
    ASSUME GovernanceInv, NEW c \in Callers, RequestStep(c)
    PROVE  GovernanceInv' /\ (profile.locked => profile'.level = profile.level)
  <1>1. Watch({c}) /\ UNCHANGED <<siteControl, page, clock>>
    BY DEF RequestStep
  <1>2. (\E x : GoesOn(c, x)) /\ acts' \in 0 .. MaxActs
    <2>1. CASE BeginWrite(c) /\ UNCHANGED acts
      BY <2>1, SoundRow, ReconcileGoesOn DEF BeginWrite
    <2>2. CASE ReadProfile(c) /\ UNCHANGED acts
      BY <2>2, SoundRow, ReconcileGoesOn DEF ReadProfile
    <2>3. CASE StoreTrust(c) /\ UNCHANGED acts
      BY <2>3, SoundRow, StoreTrustGoesOn
    <2>4. CASE ReadPolicy(c) /\ UNCHANGED acts
      BY <2>4, SoundRow, ReadPolicyGoesOn
    <2>5. CASE (SaveContent(c) \/ RefreshFails(c)) /\ UNCHANGED acts
      BY <2>5, SoundRow, GotoGoesOn DEF SaveContent, RefreshFails
    <2>6. CASE Refresh(c) /\ UNCHANGED acts
      <3>1. caller[c].now \in 0 .. MaxTime
        BY <2>6, SoundRow DEF Refresh, Request, Idle
      <3> QED
        BY <2>6, <3>1, SoundRow, ReconcileGoesOn DEF Refresh
    <2>7. CASE CheckUpload(c) /\ UNCHANGED acts
      <3>1. caller[c] = Idle /\ UNCHANGED caller /\ Idle \in Request
        BY <2>7 DEF CheckUpload, Request
      <3>2. /\ SoundProfile(profile')
            /\ profile.locked => profile'.level = profile.level
        BY <2>7, SoundRow, ReleasedIsSound DEF CheckUpload
      <3>3. GoesOn(c, Idle)
        BY <3>1, <3>2, IdlePc, SoundRow DEF GoesOn
      <3> QED
        BY <2>7, <3>3, SoundRow
    <2>8. CASE RecordBlocked(c)
      <3>1. CASE Goto(c, "idle") /\ UNCHANGED <<profile, acts>>
        BY <3>1, SoundRow, GotoGoesOn
      <3>2. CASE /\ acts < MaxActs /\ acts' = acts + 1
                 /\ profile' = Scored(profile, "high_risk_blocked", clock) /\ AwaitRefresh(c)
        <4>1. acts' \in 0 .. MaxActs
          BY <3>2, SoundRow, GovernanceConstants
        <4> QED
          BY <3>2, <4>1, AwaitRefreshGoesOn DEF Violations
      <3> QED
        BY <2>8, <3>1, <3>2 DEF RecordBlocked
    <2>9. CASE CommitReviewOf(c)
      <3>1. acts' \in 0 .. MaxActs
        BY <2>9, SoundRow, GovernanceConstants DEF CommitReviewOf
      <3>2. PICK event \in {"approve", "correct_and_approve", "reject"} :
                profile' = Scored(profile, event, clock)
        BY <2>9 DEF CommitReviewOf
      <3> QED
        BY <2>9, <3>1, <3>2, AwaitRefreshGoesOn DEF CommitReviewOf, Violations
    <2> QED
      BY <2>1, <2>2, <2>3, <2>4, <2>5, <2>6, <2>7, <2>8, <2>9 DEF RequestStep
  <1> QED
    BY <1>1, <1>2, GoesOnInv DEF GoesOn

LEMMA CorrectInv ==
    ASSUME GovernanceInv, Correct
    PROVE  GovernanceInv'
  <1>1. /\ acts' \in 0 .. MaxActs /\ UNCHANGED <<siteControl, caller, page, clock>> /\ Watch({})
        /\ SetTrust \/ SetSanction \/ ReleaseSanction
    BY SoundRow, GovernanceConstants DEF Correct
  <1>2. \A until \in FutureDeadlines : until \in Deadlines
    BY SoundRow, GovernanceConstants DEF FutureDeadlines, Deadlines, Never
  <1>3. SoundProfile(profile')
    <2>1. CASE SetTrust
      <3>1. PICK level \in Levels, locked \in BOOLEAN, until \in FutureDeadlines :
                profile' = [profile EXCEPT !.level = level, !.locked = locked,
                                           !.until = IF level = "restricted" THEN until ELSE Never]
        BY <2>1 DEF SetTrust
      <3> QED
        BY <1>2, <3>1, SoundRow, GovernanceConstants DEF SoundProfile, Profile
    <2>2. CASE SetSanction
      <3>1. PICK sanction \in {"muted", "banned"}, until \in FutureDeadlines :
                profile' = [profile EXCEPT !.sanction = sanction, !.sanctionUntil = until]
        BY <2>2 DEF SetSanction
      <3> QED
        BY <1>2, <3>1, SoundRow DEF SoundProfile, Profile
    <2>3. CASE ReleaseSanction
      BY <2>3, SoundRow, GovernanceConstants DEF ReleaseSanction, SoundProfile, Profile
    <2> QED
      BY <1>1, <2>1, <2>2, <2>3
  <1> QED
    BY <1>1, <1>3, WithoutActors DEF GovernanceInv, GovernanceTypeOK, SoundProfile

LEMMA ControlInv ==
    ASSUME GovernanceInv, (\E o \in Operators : OpenPage(o) \/ UpdateControl(o)) \/ GovernanceTick
    PROVE  GovernanceInv'
  <1>1. UNCHANGED <<profile, caller>> /\ Watch({})
    BY DEF OpenPage, UpdateControl, GovernanceTick
  <1>2. clock' \in 0 .. MaxTime /\ acts' \in 0 .. MaxActs
    BY SoundRow, GovernanceConstants DEF OpenPage, UpdateControl, GovernanceTick
  <1>3. /\ siteControl' \in Control /\ page' \in [Operators -> Control]
        /\ \A o \in Operators : page'[o].version <= siteControl'.version
    BY DEF OpenPage, UpdateControl, GovernanceTick, GovernanceInv, GovernanceTypeOK, Control
  <1> QED
    BY <1>1, <1>2, <1>3, WithoutActors DEF GovernanceInv, GovernanceTypeOK

LEMMA GovernanceInitInv == GovernanceInit => GovernanceInv
  <1> SUFFICES ASSUME GovernanceInit PROVE GovernanceInv
    OBVIOUS
  <1>1. NewProfile \in Profile /\ NewProfile.sanctionUntil = Never /\ NewProfile.until = Never
        /\ NewProfile.lastViolation = Unset
    BY GovernanceConstants DEF NewProfile, Profile, Levels, Unset
  <1>2. \A c \in Callers : caller[c] = Idle
    BY DEF GovernanceInit
  <1>3. siteControl \in Control /\ page \in [Operators -> Control]
        /\ \A o \in Operators : page[o].version <= siteControl.version
    BY DEF GovernanceInit, Control, Modes
  <1>4. Idle \in Request /\ caller \in [Callers -> Request]
    BY DEF GovernanceInit, Request
  <1>5. GovernanceTypeOK
    BY <1>1, <1>3, <1>4, GovernanceConstants DEF GovernanceInit, GovernanceTypeOK
  <1> QED
    BY <1>1, <1>2, <1>5, IdlePc DEF GovernanceInit, GovernanceInv, WaitingLevels, SavedOnlyWhenAllowed,
        UndisturbedCarry, CarriesRestriction

LEMMA GovernanceStepInv == GovernanceInv /\ [GovernanceNext]_governanceVars => GovernanceInv'
  <1> SUFFICES ASSUME GovernanceInv, [GovernanceNext]_governanceVars PROVE GovernanceInv'
    OBVIOUS
  <1>1. CASE UNCHANGED governanceVars
    BY <1>1 DEF governanceVars, GovernanceInv, GovernanceTypeOK, WaitingLevels, SavedOnlyWhenAllowed,
        UndisturbedCarry, CarriesRestriction
  <1> QED
    BY <1>1, RequestStepInv, CorrectInv, ControlInv DEF GovernanceNext

\* Every column keeps a legal value, deadlines and versions included.
THEOREM GovernanceTypesHold == GovernanceSpec => []GovernanceTypeOK
  <1>1. GovernanceInv => GovernanceTypeOK
    BY DEF GovernanceInv
  <1> QED
    BY <1>1, GovernanceInitInv, GovernanceStepInv, PTL DEF GovernanceSpec

\* A sanction or closure that covers a whole request stops it, and a score at the threshold sends
\* the content of an undisturbed write to review, whatever the policy of the configuration and
\* however many requests, reviews and administrators (EvaluateTrust, applyScoreLimits, Decide).
THEOREM GovernanceIsSound == GovernanceSpec => []GovernanceSound
  <1>1. GovernanceInv => GovernanceSound
    BY DEF GovernanceInv, GovernanceSound, ScoreLimitsUndisturbedWrite, UndisturbedCarry,
        CarriesRestriction
  <1> QED
    BY <1>1, GovernanceInitInv, GovernanceStepInv, PTL DEF GovernanceSpec

\* A level an administrator locked is changed by administrators alone (SetAutomaticTrust).
THEOREM LockedTrustIsKept == GovernanceSpec => LockedTrustKept
  <1> DEFINE Kept == profile.locked /\ profile'.locked /\ profile'.level # profile.level => Correct
  <1>1. GovernanceInv /\ [GovernanceNext]_governanceVars => [Kept]_governanceVars
    BY RequestStepInv DEF GovernanceNext, OpenPage, UpdateControl, GovernanceTick
  <1> QED
    BY <1>1, GovernanceInitInv, GovernanceStepInv, PTL DEF GovernanceSpec, LockedTrustKept

-----------------------------------------------------------------------------
(***************************************************************************)
(* The avatars: what a user shows is there. Requests and the normalisation *)
(* delete only what they have found nobody to show; whoever else deals     *)
(* with such a key makes it contested.                                     *)
(***************************************************************************)
KeysOrNone == Keys \cup {NoKey}

Requests == [pc : {"idle", "save", "put", "update", "undo", "count", "delete", "done"},
             user : Users \cup {NoUser}, key : KeysOrNone, old : KeysOrNone,
             created : {"no", "yes", "unsure"}]

\* What a request holds when it gets to where it needs it.
RequestOK(c) ==
    /\ c \in Requests
    /\ c.pc # "idle" => c.user \in Users
    /\ c.pc = "put" \/ c.created # "no" => c.key \in Keys
    /\ c.pc \in {"count", "delete"} => c.old \in Keys
    /\ c.pc = "undo" => c.created # "no"
    /\ c.pc \in {"idle", "save"} => c.created = "no"

AvatarTasks == (Users \cup {NoUser}) \X Keys

Normalisations ==
    [pc : {"idle", "users", "storage", "list", "purge"}, all : BOOLEAN, clear : BOOLEAN,
     tasks : SUBSET AvatarTasks, task : AvatarTasks \cup {NoTask},
     step : {"none", "inspect", "put", "persist", "undo", "clear", "check", "delete"},
     processed : SUBSET Keys, keys : SUBSET Keys]

\* An avatar is in hand only while there are avatars to do.
NormalisationOK(t) ==
    /\ t \in Normalisations
    /\ t.step # "none" => t.task \in AvatarTasks
    /\ t.pc \notin {"users", "storage"} => t.step = "none" /\ t.tasks = {}

AvatarTypeOK ==
    /\ avatar \in [Users -> KeysOrNone] /\ choice \in [Users -> KeysOrNone]
    /\ object \in [Keys -> Objects]
    /\ change \in [Changers -> Requests]
    /\ \A r \in Changers : RequestOK(change[r])
    /\ NormalisationOK(tidy)
    /\ overtaken \subseteq Users

\* What a request is about to show is there; what it is about to delete nobody shows.
ChangeSafe(r) ==
    /\ change[r].pc = "update" /\ change[r].key \in Keys \ contested => object[change[r].key] # "none"
    /\ change[r].pc \in {"put", "update", "undo"} /\ change[r].created = "yes" =>
            change[r].key \in contested \/ change[r].key \notin Referenced
    /\ change[r].pc = "delete" => change[r].old \in contested \/ change[r].old \notin Referenced

\* So it is with the normalisation.
TidySafe ==
    /\ tidy.step = "persist" /\ NewKey[Key] \notin contested => object[NewKey[Key]] # "none"
    /\ tidy.step = "delete" => Key \in contested \/ Key \notin Referenced
    /\ tidy.pc = "list" => Referenced \subseteq tidy.keys \cup contested
    /\ tidy.pc = "purge" => Referenced \cap tidy.keys \subseteq contested

AvatarsThere == \A u \in Users : avatar[u] \in Keys \ contested => object[avatar[u]] # "none"

\* The avatar of a user, and what the normalisation has listed for the user.
OfChoice(u, k) == choice[u] # NoKey /\ k \in {choice[u], NewKey[choice[u]]}

ChoicesKept ==
    /\ \A u \in Users \ overtaken : avatar[u] = NoKey \/ OfChoice(u, avatar[u])
    /\ \A x \in tidy.tasks \cup {tidy.task} :
            x[1] \in Users \ overtaken => OfChoice(x[1], x[2])

AvatarInv ==
    /\ AvatarTypeOK
    /\ Contest \subseteq contested
    /\ AvatarsThere
    /\ \A r \in Changers : ChangeSafe(r)
    /\ TidySafe
    /\ ChoicesKept
-----------------------------------------------------------------------------
\* A step that takes at most the object of k away and lets users show k at most.
DisturbsOnly(k) ==
    /\ \A x \in Keys \ {k} : object[x] # "none" => object'[x] # "none"
    /\ Referenced' \subseteq Referenced \cup {k}
    /\ k \in Referenced' \ contested => object'[k] # "none"

Contesting == contested' = contested \cup Contest'

\* What two actors deal with is contested.
LEMMA RequestsTouch ==
    ASSUME AvatarInv, NEW r \in Changers
    PROVE  /\ TouchedBy(r) \subseteq Keys
           /\ TouchedBy(r) \cap TouchedByTidy \subseteq contested
           /\ \A s \in Changers : s # r => TouchedBy(r) \cap TouchedBy(s) \subseteq contested
  <1>1. TouchedBy(r) \subseteq Keys
    BY DEF AvatarInv, AvatarTypeOK, Requests, KeysOrNone, TouchedBy
  <1>2. TouchedBy(r) \cap TouchedByTidy \subseteq Contest
    BY DEF Contest
  <1>3. \A s \in Changers : s # r => TouchedBy(r) \cap TouchedBy(s) \subseteq Contest
    BY <1>1 DEF Contest
  <1> QED  BY <1>1, <1>2, <1>3 DEF AvatarInv

\* The normalisation touches the avatar in hand, the key that will have, and what it
\* has found no user of.
LEMMA TidyTouches ==
    ASSUME AvatarTypeOK
    PROVE  /\ tidy.step # "none" =>
                /\ Key \in Keys /\ NewKey[Key] \in Keys
                /\ Key \in TouchedByTidy /\ NewKey[Key] \in TouchedByTidy
           /\ tidy.pc = "list" => Keys \ tidy.keys \subseteq TouchedByTidy
           /\ tidy.pc = "purge" => tidy.keys \subseteq TouchedByTidy /\ tidy.keys \subseteq Keys
  <1>1. ASSUME tidy.step # "none"
        PROVE  /\ Key \in Keys /\ NewKey[Key] \in Keys
               /\ Key \in TouchedByTidy /\ NewKey[Key] \in TouchedByTidy
    <2>1. tidy.task \in AvatarTasks
      BY <1>1 DEF AvatarTypeOK, NormalisationOK
    <2>2. tidy.task[2] \in Keys /\ tidy.task[2] # NoKey
      BY <2>1, AvatarsAssumption DEF AvatarTasks
    <2>3. tidy.task # NoTask
      BY <2>2 DEF NoTask
    <2> QED  BY <2>2, <2>3, AvatarsAssumption DEF TouchedByTidy, Key
  <1> QED  BY <1>1 DEF TouchedByTidy, AvatarTypeOK, NormalisationOK, Normalisations

\* Whoever did not touch k is not harmed by it.
LEMMA OthersUnharmed ==
    ASSUME AvatarInv, Contesting, NEW k, DisturbsOnly(k), avatar' \in [Users -> KeysOrNone]
    PROVE  /\ AvatarsThere'
           /\ \A s \in Changers :
                change'[s] = change[s] /\ (k \in TouchedBy(s) => k \in contested) => ChangeSafe(s)'
           /\ tidy' = tidy /\ (k \in TouchedByTidy => k \in contested) => TidySafe'
  <1> DEFINE None == "none"
  <1>1. contested \subseteq contested'
    BY DEF Contesting
  <1>2. \A x \in Keys \ {k} : object[x] # "none" => object'[x] # "none"
    BY DEF DisturbsOnly
  <1>3. Referenced' \subseteq Referenced \cup {k} /\ (k \in Referenced' \ contested => object'[k] # "none")
    BY DEF DisturbsOnly
  <1>4. AvatarsThere'
    <2> SUFFICES ASSUME NEW u \in Users, avatar'[u] \in Keys \ contested'
                 PROVE  object'[avatar'[u]] # "none"
      BY DEF AvatarsThere
    <2>1. avatar'[u] \in Referenced'
      BY AvatarsAssumption DEF Referenced
    <2>2. CASE avatar'[u] = k
      BY <2>1, <2>2, <1>1, <1>3
    <2>3. CASE avatar'[u] # k
      <3>1. avatar'[u] \in Referenced
        BY <2>1, <2>3, <1>3
      <3>2. PICK w \in Users : avatar[w] = avatar'[u]
        BY <3>1 DEF Referenced
      <3>3. object[avatar[w]] # "none"
        BY <3>2, <1>1 DEF AvatarInv, AvatarsThere
      <3> QED  BY <3>2, <3>3, <2>3, <1>2
    <2> QED  BY <2>2, <2>3
  <1>5. ASSUME NEW s \in Changers, change'[s] = change[s], k \in TouchedBy(s) => k \in contested
        PROVE  ChangeSafe(s)'
    <2>1. ChangeSafe(s)
      BY DEF AvatarInv
    <2>2. change[s].pc # "idle" => TouchedBy(s) = {change[s].key, change[s].old} \ {NoKey}
      BY DEF TouchedBy
    <2>3. change[s].pc = "update" /\ change[s].key \in Keys \ contested' => object'[change[s].key] # "none"
      BY <2>1, <2>2, <1>5, <1>1, <1>2, AvatarsAssumption DEF ChangeSafe
    <2>4. change[s].pc \in {"put", "update", "undo"} /\ change[s].created = "yes" =>
              change[s].key \in contested' \/ change[s].key \notin Referenced'
      <3>1. change[s].created # "no" => change[s].key \in Keys
        BY DEF AvatarInv, AvatarTypeOK, RequestOK
      <3> QED  BY <3>1, <2>1, <2>2, <1>5, <1>1, <1>3, AvatarsAssumption DEF ChangeSafe
    <2>5. change[s].pc = "delete" => change[s].old \in contested' \/ change[s].old \notin Referenced'
      <3>1. change[s].pc = "delete" => change[s].old \in Keys
        BY DEF AvatarInv, AvatarTypeOK, RequestOK
      <3> QED  BY <3>1, <2>1, <2>2, <1>5, <1>1, <1>3, AvatarsAssumption DEF ChangeSafe
    <2> QED  BY <2>3, <2>4, <2>5, <1>5 DEF ChangeSafe
  <1>6. ASSUME tidy' = tidy, k \in TouchedByTidy => k \in contested
        PROVE  TidySafe'
    <2>1. TidySafe /\ AvatarTypeOK
      BY DEF AvatarInv
    <2>2. Key' = Key
      BY <1>6 DEF Key
    <2>3. tidy.step = "persist" /\ NewKey[Key] \notin contested' => object'[NewKey[Key]] # "none"
      BY <2>1, <1>1, <1>2, <1>6, TidyTouches DEF TidySafe
    <2>4. tidy.step = "delete" => Key \in contested' \/ Key \notin Referenced'
      BY <2>1, <1>1, <1>3, <1>6, TidyTouches DEF TidySafe
    <2>5. Referenced' \subseteq Keys
      BY DEF Referenced, KeysOrNone
    <2>6. tidy.pc = "list" => Referenced' \subseteq tidy.keys \cup contested'
      BY <2>1, <2>5, <1>1, <1>3, <1>6, TidyTouches DEF TidySafe
    <2>7. tidy.pc = "purge" => Referenced' \cap tidy.keys \subseteq contested'
      BY <2>1, <1>1, <1>3, <1>6, TidyTouches DEF TidySafe
    <2> QED  BY <2>2, <2>3, <2>4, <2>6, <2>7, <1>6 DEF TidySafe
  <1> QED  BY <1>4, <1>5, <1>6

\* A request's step that deals with one of its keys at most.
LEMMA RequestStepSafe ==
    ASSUME AvatarInv, Contesting, NEW r \in Changers, NEW k,
           k = NoKey \/ k \in TouchedBy(r), DisturbsOnly(k),
           AvatarTypeOK', tidy' = tidy, \A s \in Changers : s # r => change'[s] = change[s],
           ChangeSafe(r)', ChoicesKept'
    PROVE  AvatarInv'
  <1>1. AvatarsThere' /\ TidySafe' /\ \A s \in Changers : s # r => ChangeSafe(s)'
    <2>1. \A s \in Changers : NoKey \notin TouchedBy(s)
      BY DEF TouchedBy
    <2>2. k \in TouchedByTidy => k \in contested
      <3>1. TouchedByTidy \subseteq Keys
        <4>1. \A x \in (tidy.tasks \cup {tidy.task}) \ {NoTask} : x \in AvatarTasks
          BY DEF AvatarInv, AvatarTypeOK, NormalisationOK, Normalisations
        <4>2. \A x \in (tidy.tasks \cup {tidy.task}) \ {NoTask} : x[2] \in Keys /\ NewKey[x[2]] \in Keys
          BY <4>1, AvatarsAssumption DEF AvatarTasks
        <4>3. tidy.keys \subseteq Keys
          BY DEF AvatarInv, AvatarTypeOK, NormalisationOK, Normalisations
        <4> QED  BY <4>2, <4>3 DEF TouchedByTidy
      <3> QED  BY <3>1, RequestsTouch, AvatarsAssumption
    <2> QED  BY <2>1, <2>2, RequestsTouch, OthersUnharmed DEF AvatarTypeOK
  <1> QED  BY <1>1 DEF AvatarInv, Contesting

\* A step of the normalisation.
LEMMA TidyStepSafe ==
    ASSUME AvatarInv, Contesting, NEW k,
           k = NoKey \/ k \in TouchedByTidy, DisturbsOnly(k),
           AvatarTypeOK', change' = change, TidySafe', ChoicesKept'
    PROVE  AvatarInv'
  <1>1. \A s \in Changers : k \in TouchedBy(s) => k \in contested
    BY RequestsTouch DEF TouchedBy
  <1>2. AvatarsThere' /\ \A s \in Changers : ChangeSafe(s)'
    BY <1>1, OthersUnharmed DEF AvatarTypeOK
  <1> QED  BY <1>2 DEF AvatarInv, Contesting
-----------------------------------------------------------------------------
\* The row of a request after its step, and the others.
LEMMA RequestGoesTo ==
    ASSUME AvatarTypeOK, NEW r \in Changers, NEW c, RequestOK(c), ChangeTo(r, c)
    PROVE  /\ change' \in [Changers -> Requests] /\ \A s \in Changers : RequestOK(change'[s])
           /\ change'[r] = c /\ \A s \in Changers : s # r => change'[s] = change[s]
  BY DEF AvatarTypeOK, ChangeTo, RequestOK

\* A step that leaves rows and objects alone.
LEMMA NothingDisturbed ==
    ASSUME UNCHANGED <<avatar, object>>
    PROVE  DisturbsOnly(NoKey)
  <1>1. NoKey \notin Referenced'
    BY DEF Referenced
  <1> QED  BY <1>1 DEF DisturbsOnly, Referenced

LEMMA ChoicesStay ==
    ASSUME AvatarInv, UNCHANGED <<avatar, choice, overtaken, tidy>>
    PROVE  ChoicesKept'
  BY DEF AvatarInv, ChoicesKept, OfChoice

\* A request's step that changes only where the request is.
LEMMA RequestMoves ==
    ASSUME AvatarInv, Contesting, NEW r \in Changers, NEW c, RequestOK(c), ChangeTo(r, c),
           UNCHANGED <<avatar, object, tidy, choice, overtaken>>, ChangeSafe(r)'
    PROVE  AvatarInv'
  <1>1. AvatarTypeOK'
    BY RequestGoesTo DEF AvatarInv, AvatarTypeOK, NormalisationOK
  <1> QED  BY <1>1, RequestGoesTo, NothingDisturbed, ChoicesStay, RequestStepSafe DEF AvatarInv

LEMMA NoChangeOK == RequestOK(NoChange)
  BY DEF RequestOK, NoChange, Requests, KeysOrNone

LEMMA EndChangeSafe ==
    ASSUME AvatarInv, NEW r \in Changers, EndChange(r)
    PROVE  ChangeSafe(r)'
  <1>1. change'[r] = NoChange
    BY NoChangeOK, RequestGoesTo DEF AvatarInv, EndChange
  <1>2. NoChange.pc = "idle"
    BY DEF NoChange
  <1> QED  BY <1>1, <1>2 DEF ChangeSafe

LEMMA ChangeAvatarInv ==
    ASSUME AvatarInv, Contesting, NEW r \in Changers, NEW u \in Users, ChangeAvatar(r, u)
    PROVE  AvatarInv'
  <1> DEFINE c == [NoChange EXCEPT !.pc = "save", !.user = u, !.old = avatar[u]]
  <1>1. avatar[u] \in KeysOrNone
    BY DEF AvatarInv, AvatarTypeOK
  <1>2. RequestOK(c) /\ c.pc = "save"
    BY <1>1 DEF RequestOK, NoChange, Requests, KeysOrNone
  <1>3. ChangeTo(r, c) /\ UNCHANGED <<avatar, object, tidy, choice, overtaken>>
    BY DEF ChangeAvatar
  <1> HIDE DEF c
  <1>4. ChangeSafe(r)'
    BY <1>2, <1>3, RequestGoesTo DEF AvatarInv, ChangeSafe
  <1> QED  BY <1>2, <1>3, <1>4, RequestMoves

LEMMA ClearUserAvatarInv ==
    ASSUME AvatarInv, Contesting, NEW r \in Changers, NEW u \in Users, ClearUserAvatar(r, u)
    PROVE  AvatarInv'
  <1> DEFINE c == [NoChange EXCEPT !.pc = "update", !.user = u, !.old = avatar[u]]
  <1>1. avatar[u] \in KeysOrNone
    BY DEF AvatarInv, AvatarTypeOK
  <1>2. RequestOK(c) /\ c.pc = "update" /\ c.key = NoKey /\ c.created = "no"
    BY <1>1 DEF RequestOK, NoChange, Requests, KeysOrNone
  <1>3. ChangeTo(r, c) /\ UNCHANGED <<avatar, object, tidy, choice, overtaken>>
    BY DEF ClearUserAvatar
  <1> HIDE DEF c
  <1>4. ChangeSafe(r)'
    BY <1>2, <1>3, RequestGoesTo, AvatarsAssumption DEF AvatarInv, ChangeSafe
  <1> QED  BY <1>2, <1>3, <1>4, RequestMoves

\* An object that is not there nobody shows, and one that is there may be shown.
LEMMA SaveAvatarInv ==
    ASSUME AvatarInv, Contesting, NEW r \in Changers, NEW k \in Chosen, SaveAvatar(r, k)
    PROVE  AvatarInv'
  <1>1. /\ k \in Keys /\ change[r].pc = "save" /\ change[r] \in Requests
        /\ change[r].user \in Users /\ change[r].created = "no"
        /\ UNCHANGED <<avatar, object, tidy, choice, overtaken>>
    BY AvatarsAssumption DEF SaveAvatar, AvatarInv, AvatarTypeOK, RequestOK
  <1>2. ASSUME object[k] # "none", ChangeTo(r, [change[r] EXCEPT !.pc = "update", !.key = k])
        PROVE  AvatarInv'
    <2> DEFINE c == [change[r] EXCEPT !.pc = "update", !.key = k]
    <2>1. RequestOK(c) /\ c.pc = "update" /\ c.key = k /\ c.created = "no"
      BY <1>1 DEF RequestOK, Requests, KeysOrNone
    <2>2. ChangeTo(r, c)
      BY <1>2
    <2> HIDE DEF c
    <2>3. ChangeSafe(r)'
      BY <1>1, <1>2, <2>1, <2>2, RequestGoesTo DEF AvatarInv, ChangeSafe
    <2> QED  BY <1>1, <2>1, <2>2, <2>3, RequestMoves
  <1>3. ASSUME NEW known \in {"yes", "unsure"}, known = "yes" => object[k] = "none",
               ChangeTo(r, [change[r] EXCEPT !.pc = "put", !.key = k, !.created = known])
        PROVE  AvatarInv'
    <2> DEFINE c == [change[r] EXCEPT !.pc = "put", !.key = k, !.created = known]
    <2>1. RequestOK(c) /\ c.pc = "put" /\ c.key = k /\ c.created = known
      BY <1>1, <1>3 DEF RequestOK, Requests, KeysOrNone
    <2>2. ChangeTo(r, c)
      BY <1>3
    <2> HIDE DEF c
    <2>3. known = "yes" => k \in contested \/ k \notin Referenced
      BY <1>1, <1>3 DEF AvatarInv, AvatarsThere, Referenced
    <2>4. Referenced' = Referenced /\ contested \subseteq contested'
      BY <1>1 DEF Referenced, Contesting
    <2>5. ChangeSafe(r)'
      BY <2>1, <2>2, <2>3, <2>4, RequestGoesTo DEF AvatarInv, ChangeSafe
    <2> QED  BY <1>1, <2>1, <2>2, <2>5, RequestMoves
  <1> QED  BY <1>2, <1>3 DEF SaveAvatar

LEMMA PutAvatarInv ==
    ASSUME AvatarInv, Contesting, NEW r \in Changers, PutAvatar(r)
    PROVE  AvatarInv'
  <1> DEFINE c == [change[r] EXCEPT !.pc = "update"]
             k == change[r].key
  <1>1. /\ k \in Keys /\ change[r].pc = "put" /\ change[r] \in Requests /\ change[r].user \in Users
        /\ object' = [object EXCEPT ![k] = "good"] /\ ChangeTo(r, c)
        /\ UNCHANGED <<avatar, tidy, choice, overtaken>>
    BY DEF PutAvatar, AvatarInv, AvatarTypeOK, RequestOK
  <1>2. RequestOK(c) /\ c.pc = "update" /\ c.key = k /\ c.created = change[r].created
    BY <1>1 DEF RequestOK, Requests
  <1>3. k \in TouchedBy(r)
    BY <1>1, AvatarsAssumption DEF TouchedBy
  <1> HIDE DEF c, k
  <1>4. object \in [Keys -> Objects]
    BY DEF AvatarInv, AvatarTypeOK
  <1>5. object' \in [Keys -> Objects] /\ \A x \in Keys : object'[x] = IF x = k THEN "good" ELSE object[x]
    BY <1>1, <1>4 DEF Objects
  <1>6. Referenced' = Referenced
    BY <1>1 DEF Referenced
  <1>7. DisturbsOnly(k)
    BY <1>1, <1>5, <1>6 DEF DisturbsOnly
  <1>8. change'[r] = c
    BY <1>1, <1>2, RequestGoesTo DEF AvatarInv
  <1>9. ChangeSafe(r)'
    BY <1>1, <1>2, <1>5, <1>6, <1>8 DEF AvatarInv, ChangeSafe, Contesting, k
  <1>10. AvatarTypeOK'
    BY <1>1, <1>2, <1>5, RequestGoesTo DEF AvatarInv, AvatarTypeOK, NormalisationOK
  <1> QED
    BY <1>1, <1>2, <1>3, <1>7, <1>9, <1>10, RequestGoesTo, ChoicesStay, RequestStepSafe DEF AvatarInv

\* The user shows what is there, or what others dealt with too.
LEMMA UpdateAvatarInv ==
    ASSUME AvatarInv, Contesting, NEW r \in Changers, UpdateAvatar(r)
    PROVE  AvatarInv'
  <1> DEFINE c == [change[r] EXCEPT !.pc = IF change[r].old = NoKey THEN "done" ELSE "count"]
             k == change[r].key
             u == change[r].user
  <1>1. /\ k \in KeysOrNone /\ u \in Users /\ change[r].pc = "update" /\ change[r] \in Requests
        /\ change[r].created # "no" => k \in Keys
        /\ avatar' = [avatar EXCEPT ![u] = k] /\ choice' = [choice EXCEPT ![u] = k] /\ ChangeTo(r, c)
        /\ overtaken' = overtaken \cup {v \in {u} : Listed(v)}
        /\ UNCHANGED <<object, tidy>>
    BY DEF UpdateAvatar, AvatarInv, AvatarTypeOK, RequestOK, Requests
  <1>2. RequestOK(c) /\ c.pc \in {"done", "count"}
    BY <1>1 DEF RequestOK, Requests, KeysOrNone
  <1>3. k = NoKey \/ k \in TouchedBy(r)
    BY <1>1 DEF TouchedBy
  <1>4. k \in Keys \ contested => object[k] # "none"
    BY <1>1 DEF AvatarInv, ChangeSafe
  <1> HIDE DEF c, k, u
  <1>5. avatar \in [Users -> KeysOrNone] /\ choice \in [Users -> KeysOrNone]
    BY DEF AvatarInv, AvatarTypeOK
  <1>6. /\ avatar' \in [Users -> KeysOrNone] /\ choice' \in [Users -> KeysOrNone]
        /\ \A v \in Users : avatar'[v] = IF v = u THEN k ELSE avatar[v]
        /\ \A v \in Users : choice'[v] = IF v = u THEN k ELSE choice[v]
    BY <1>1, <1>5
  <1>7. DisturbsOnly(k)
    <2>1. Referenced' \subseteq Referenced \cup {k}
      BY <1>6 DEF Referenced
    <2>2. Referenced' \subseteq Keys
      BY <1>6 DEF Referenced, KeysOrNone
    <2> QED  BY <1>1, <1>4, <2>1, <2>2 DEF DisturbsOnly
  <1>8. change'[r] = c
    BY <1>1, <1>2, RequestGoesTo DEF AvatarInv
  <1>9. ChangeSafe(r)'
    BY <1>2, <1>8 DEF ChangeSafe
  <1>10. AvatarTypeOK'
    BY <1>1, <1>2, <1>6, RequestGoesTo DEF AvatarInv, AvatarTypeOK, NormalisationOK
  <1>11. ChoicesKept'
    <2>1. (\A v \in Users \ overtaken : avatar[v] = NoKey \/ OfChoice(v, avatar[v]))'
      BY <1>1, <1>6 DEF AvatarInv, ChoicesKept, OfChoice
    <2>2. \A x \in tidy.tasks \cup {tidy.task} :
              x[1] \in Users \ overtaken' => x[1] # u /\ x[1] \in Users \ overtaken
      BY <1>1 DEF Listed
    <2>3. \A x \in tidy.tasks \cup {tidy.task} :
              x[1] \in Users \ overtaken' => OfChoice(x[1], x[2])'
      BY <1>6, <2>2 DEF AvatarInv, ChoicesKept, OfChoice
    <2> QED  BY <1>1, <2>1, <2>3 DEF ChoicesKept, OfChoice
  <1> QED
    BY <1>1, <1>2, <1>3, <1>7, <1>9, <1>10, <1>11, RequestGoesTo, RequestStepSafe DEF AvatarInv

LEMMA UpdateFailsInv ==
    ASSUME AvatarInv, Contesting, NEW r \in Changers, UpdateFails(r)
    PROVE  AvatarInv'
  <1>1. /\ change[r].pc = "update" /\ change[r] \in Requests /\ change[r].user \in Users
        /\ change[r].created # "no" => change[r].key \in Keys
        /\ UNCHANGED <<avatar, object, tidy, choice, overtaken>>
    BY DEF UpdateFails, AvatarInv, AvatarTypeOK, RequestOK
  <1>2. CASE change[r].created = "no"
    BY <1>1, <1>2, NoChangeOK, EndChangeSafe, RequestMoves DEF UpdateFails, EndChange
  <1>3. CASE change[r].created # "no"
    <2> DEFINE c == [change[r] EXCEPT !.pc = "undo"]
    <2>1. RequestOK(c) /\ c.pc = "undo" /\ c.key = change[r].key /\ c.created = change[r].created
      BY <1>1, <1>3 DEF RequestOK, Requests
    <2>2. ChangeTo(r, c)
      BY <1>3 DEF UpdateFails
    <2> HIDE DEF c
    <2>3. Referenced' = Referenced
      BY <1>1 DEF Referenced
    <2>4. ChangeSafe(r)'
      BY <1>1, <2>1, <2>2, <2>3, RequestGoesTo DEF AvatarInv, ChangeSafe, Contesting
    <2> QED  BY <1>1, <2>1, <2>2, <2>4, RequestMoves
  <1> QED  BY <1>2, <1>3

\* A request that deletes what nobody shows, or what others dealt with too.
LEMMA RequestDeletes ==
    ASSUME AvatarInv, Contesting, NEW r \in Changers, NEW k \in TouchedBy(r),
           k \in contested \/ k \notin Referenced, object' = [object EXCEPT ![k] = "none"],
           EndChange(r), UNCHANGED <<avatar, tidy, choice, overtaken>>
    PROVE  AvatarInv'
  <1>1. k \in Keys
    BY RequestsTouch
  <1>2. object \in [Keys -> Objects]
    BY DEF AvatarInv, AvatarTypeOK
  <1>3. object' \in [Keys -> Objects] /\ \A x \in Keys : object'[x] = IF x = k THEN "none" ELSE object[x]
    BY <1>1, <1>2 DEF Objects
  <1>4. Referenced' = Referenced
    BY DEF Referenced
  <1>5. DisturbsOnly(k)
    BY <1>3, <1>4 DEF DisturbsOnly
  <1>6. AvatarTypeOK'
    BY <1>3, NoChangeOK, RequestGoesTo DEF AvatarInv, AvatarTypeOK, NormalisationOK, EndChange
  <1> QED
    BY <1>5, <1>6, NoChangeOK, RequestGoesTo, EndChangeSafe, ChoicesStay, RequestStepSafe
    DEF AvatarInv, EndChange

\* What a request put it takes back, unless somebody came to use it: nobody may have.
LEMMA DeleteCreatedInv ==
    ASSUME AvatarInv, Contesting, NEW r \in Changers, DeleteCreated(r)
    PROVE  AvatarInv'
  <1>1. /\ change[r].pc = "undo" /\ change[r].key \in Keys /\ change[r].created \in {"yes", "unsure"}
    BY DEF DeleteCreated, AvatarInv, AvatarTypeOK, RequestOK, Requests
  <1>2. change[r].key \in TouchedBy(r)
    BY <1>1, AvatarsAssumption DEF TouchedBy
  <1>3. change[r].created = "unsure" => change[r].key \in contested
    BY DEF AvatarInv, Contest, AtRisk
  <1>4. change[r].key \in contested \/ change[r].key \notin Referenced
    BY <1>1, <1>3 DEF AvatarInv, ChangeSafe
  <1> QED  BY <1>2, <1>4, RequestDeletes DEF DeleteCreated

LEMMA CountByAvatarURLInv ==
    ASSUME AvatarInv, Contesting, NEW r \in Changers, CountByAvatarURL(r)
    PROVE  AvatarInv'
  <1> DEFINE c == [change[r] EXCEPT !.pc = "delete"]
  <1>1. /\ change[r].pc = "count" /\ change[r] \in Requests /\ change[r].user \in Users
        /\ change[r].created # "no" => change[r].key \in Keys
        /\ change[r].old \in Keys \ Referenced /\ ChangeTo(r, c)
        /\ UNCHANGED <<avatar, object, tidy, choice, overtaken>>
    BY DEF CountByAvatarURL, AvatarInv, AvatarTypeOK, RequestOK
  <1>2. RequestOK(c) /\ c.pc = "delete" /\ c.old = change[r].old
    BY <1>1 DEF RequestOK, Requests
  <1> HIDE DEF c
  <1>3. Referenced' = Referenced
    BY <1>1 DEF Referenced
  <1>4. ChangeSafe(r)'
    BY <1>1, <1>2, <1>3, RequestGoesTo DEF AvatarInv, ChangeSafe
  <1> QED  BY <1>1, <1>2, <1>4, RequestMoves

LEMMA DeleteUnusedInv ==
    ASSUME AvatarInv, Contesting, NEW r \in Changers, DeleteUnused(r)
    PROVE  AvatarInv'
  <1>1. change[r].pc = "delete" /\ change[r].old \in Keys
    BY DEF DeleteUnused, AvatarInv, AvatarTypeOK, RequestOK
  <1>2. change[r].old \in TouchedBy(r)
    BY <1>1, AvatarsAssumption DEF TouchedBy
  <1>3. change[r].old \in contested \/ change[r].old \notin Referenced
    BY <1>1 DEF AvatarInv, ChangeSafe
  <1> QED  BY <1>2, <1>3, RequestDeletes DEF DeleteUnused

LEMMA ChangerStepInv ==
    ASSUME AvatarInv, Contesting, NEW r \in Changers, ChangerStep(r)
    PROVE  AvatarInv'
  <1>1. ASSUME NEW u \in Users, ChangeAvatar(r, u) \/ ClearUserAvatar(r, u)
        PROVE  AvatarInv'
    BY <1>1, ChangeAvatarInv, ClearUserAvatarInv
  <1>2. ASSUME NEW k \in Chosen, SaveAvatar(r, k)
        PROVE  AvatarInv'
    BY <1>2, SaveAvatarInv
  <1>3. CASE PutAvatar(r)  BY <1>3, PutAvatarInv
  <1>4. CASE UpdateAvatar(r)  BY <1>4, UpdateAvatarInv
  <1>5. CASE UpdateFails(r)  BY <1>5, UpdateFailsInv
  <1>6. CASE DeleteCreated(r)  BY <1>6, DeleteCreatedInv
  <1>7. CASE CountByAvatarURL(r)  BY <1>7, CountByAvatarURLInv
  <1>8. CASE DeleteUnused(r)  BY <1>8, DeleteUnusedInv
  <1>9. CASE StopChange(r)
    BY <1>9, NoChangeOK, EndChangeSafe, RequestMoves DEF StopChange, EndChange
  <1> QED  BY <1>1, <1>2, <1>3, <1>4, <1>5, <1>6, <1>7, <1>8, <1>9 DEF ChangerStep
-----------------------------------------------------------------------------
\* The avatar in hand stays there, or is done with.
InWork(t) ==
    /\ NormalisationOK(t) /\ t.pc \in {"users", "storage"}
    /\ t.task = tidy.task /\ t.tasks = tidy.tasks
Left(t) ==
    /\ NormalisationOK(t) /\ t.pc \in {"users", "storage"} /\ t.step = "none"
    /\ t.task = NoTask /\ t.tasks = tidy.tasks

LEMMA ObjectMayGo ==
    ASSUME AvatarInv, NEW k \in Keys, k \in contested \/ k \notin Referenced, avatar' = avatar,
           object' \in {object, [object EXCEPT ![k] = "none"]}
    PROVE  DisturbsOnly(k) /\ object' \in [Keys -> Objects]
  <1>1. object \in [Keys -> Objects]
    BY DEF AvatarInv, AvatarTypeOK
  <1>2. object' \in [Keys -> Objects] /\ \A x \in Keys : object'[x] = object[x] \/ x = k
    BY <1>1 DEF Objects
  <1>3. Referenced' = Referenced
    BY DEF Referenced
  <1>4. \A x \in Keys \ {k} : object[x] # "none" => object'[x] # "none"
    BY <1>2
  <1>5. k \in Referenced' \ contested => object'[k] # "none"
    BY <1>3
  <1> QED  BY <1>2, <1>3, <1>4, <1>5 DEF DisturbsOnly

LEMMA TidyHasTask ==
    ASSUME AvatarInv, tidy.step # "none"
    PROVE  /\ tidy \in Normalisations /\ NormalisationOK(tidy)
           /\ tidy.pc \in {"users", "storage"} /\ tidy.task \in AvatarTasks
           /\ Key \in Keys /\ NewKey[Key] \in Keys /\ Key # NoKey
           /\ Key \in TouchedByTidy /\ NewKey[Key] \in TouchedByTidy
  BY TidyTouches, AvatarsAssumption DEF AvatarInv, AvatarTypeOK, NormalisationOK

LEMMA TaskLeaves ==
    ASSUME AvatarInv, Contesting, Left(tidy'), UNCHANGED <<avatar, change, choice, overtaken>>,
           NEW k, k = NoKey \/ k \in TouchedByTidy, DisturbsOnly(k), object' \in [Keys -> Objects]
    PROVE  AvatarInv'
  <1>1. AvatarTypeOK'
    BY DEF AvatarInv, AvatarTypeOK, Left, RequestOK
  <1>2. TidySafe'
    BY DEF Left, TidySafe
  <1>3. ChoicesKept'
    BY AvatarsAssumption DEF AvatarInv, ChoicesKept, OfChoice, Left, NoTask
  <1> QED  BY <1>1, <1>2, <1>3, TidyStepSafe

LEMMA TaskWorks ==
    ASSUME AvatarInv, Contesting, InWork(tidy'), UNCHANGED <<change, choice, overtaken>>,
           NEW k, k = NoKey \/ k \in TouchedByTidy, DisturbsOnly(k), object' \in [Keys -> Objects],
           avatar' \in [Users -> KeysOrNone], TidySafe',
           \A u \in Users \ overtaken :
                avatar'[u] = avatar[u] \/ avatar'[u] = NoKey \/ OfChoice(u, avatar'[u])
    PROVE  AvatarInv'
  <1>1. AvatarTypeOK'
    BY DEF AvatarInv, AvatarTypeOK, InWork, RequestOK
  <1>2. ChoicesKept'
    BY DEF AvatarInv, ChoicesKept, OfChoice, InWork
  <1> QED  BY <1>1, <1>2, TidyStepSafe

\* A step of the normalisation that changes only where it is; what it lists users have.
LEMMA TidyMoves ==
    ASSUME AvatarInv, Contesting, NormalisationOK(tidy'),
           UNCHANGED <<avatar, object, change, choice, overtaken>>, TidySafe',
           \A x \in tidy'.tasks \cup {tidy'.task} :
                \/ x \in tidy.tasks \cup {tidy.task}
                \/ x[1] \notin Users
                \/ x[1] \in Users /\ x[2] = avatar[x[1]] /\ x[2] # NoKey
    PROVE  AvatarInv'
  <1>1. AvatarTypeOK'
    BY DEF AvatarInv, AvatarTypeOK, RequestOK
  <1>2. ChoicesKept'
    BY DEF AvatarInv, ChoicesKept, OfChoice
  <1> QED  BY <1>1, <1>2, NothingDisturbed, TidyStepSafe

LEMMA NoTidyOK ==
    /\ NormalisationOK(NoTidy) /\ NoTidy \in Normalisations
    /\ NoTidy.pc = "idle" /\ NoTidy.step = "none" /\ NoTidy.tasks = {} /\ NoTidy.task = NoTask
  BY DEF NormalisationOK, NoTidy, Normalisations

LEMMA StopTidyInv ==
    ASSUME AvatarInv, Contesting, StopTidy
    PROVE  AvatarInv'
  <1>1. tidy' = NoTidy /\ UNCHANGED <<avatar, object, change, choice, overtaken>>
    BY DEF StopTidy, TidyTo
  <1>2. TidySafe'
    BY <1>1, NoTidyOK DEF TidySafe
  <1>3. NoTask[1] \notin Users
    BY AvatarsAssumption DEF NoTask
  <1> QED  BY <1>1, <1>2, <1>3, NoTidyOK, TidyMoves

LEMMA NormalizeAvatarsInv ==
    ASSUME AvatarInv, Contesting, NormalizeAvatars
    PROVE  AvatarInv'
  <1>1. PICK users \in {Users} \cup {{u} : u \in Users}, clear \in BOOLEAN :
            tidy' = [NoTidy EXCEPT !.pc = "users", !.all = (users = Users), !.clear = clear,
                       !.tasks = {<<u, avatar[u]>> : u \in {v \in users : avatar[v] # NoKey}}]
    BY DEF NormalizeAvatars, TidyTo
  <1> DEFINE tasks == {<<u, avatar[u]>> : u \in {v \in users : avatar[v] # NoKey}}
             t == [NoTidy EXCEPT !.pc = "users", !.all = (users = Users), !.clear = clear, !.tasks = tasks]
  <1>2. users \subseteq Users /\ avatar \in [Users -> KeysOrNone]
    BY DEF AvatarInv, AvatarTypeOK
  <1>3. \A x \in tasks : x \in AvatarTasks /\ x[1] \in Users /\ x[2] = avatar[x[1]] /\ x[2] # NoKey
    BY <1>2 DEF AvatarTasks, KeysOrNone
  <1>4. tidy' = t
    BY <1>1
  <1> HIDE DEF tasks
  <1>5. NormalisationOK(t) /\ t.pc = "users" /\ t.step = "none" /\ t.tasks = tasks /\ t.task = NoTask
    BY <1>3, NoTidyOK DEF NormalisationOK, Normalisations
  <1> HIDE DEF t
  <1>6. TidySafe'
    BY <1>4, <1>5 DEF TidySafe
  <1>7. NoTask[1] \notin Users
    BY AvatarsAssumption DEF NoTask
  <1> QED  BY <1>3, <1>4, <1>5, <1>6, <1>7, TidyMoves DEF NormalizeAvatars

LEMMA NextTaskInv ==
    ASSUME AvatarInv, Contesting, NEW x \in tidy.tasks, NextTask(x)
    PROVE  AvatarInv'
  <1> DEFINE t == [tidy EXCEPT !.task = x, !.tasks = @ \ {x}, !.step = "inspect"]
  <1>1. /\ tidy \in Normalisations /\ x \in AvatarTasks /\ tidy.pc \in {"users", "storage"}
        /\ tidy' = t /\ UNCHANGED <<avatar, object, change, choice, overtaken>>
    BY DEF AvatarInv, AvatarTypeOK, NormalisationOK, Normalisations, NextTask, TidyTo
  <1>2. /\ NormalisationOK(t) /\ t.pc \in {"users", "storage"} /\ t.step = "inspect"
        /\ t.task = x /\ t.tasks \subseteq tidy.tasks
    BY <1>1 DEF NormalisationOK, Normalisations
  <1> HIDE DEF t
  <1>3. TidySafe'
    BY <1>1, <1>2 DEF TidySafe
  <1> QED  BY <1>1, <1>2, <1>3, TidyMoves

LEMMA TaskDoneLeft ==
    ASSUME AvatarInv, tidy.step # "none", NEW keys \in SUBSET Keys
    PROVE  Left(TaskDone) /\ Left([TaskDone EXCEPT !.processed = keys])
  <1>1. TaskDone \in Normalisations
    BY TidyHasTask DEF TaskDone, Normalisations
  <1>2. /\ TaskDone.pc = tidy.pc /\ TaskDone.step = "none" /\ TaskDone.task = NoTask
        /\ TaskDone.tasks = tidy.tasks
    BY TidyHasTask DEF TaskDone, Normalisations
  <1>3. Left(TaskDone)
    BY <1>1, <1>2, TidyHasTask DEF Left, NormalisationOK
  <1>4. [TaskDone EXCEPT !.processed = keys] \in Normalisations
    BY <1>1 DEF Normalisations
  <1> QED  BY <1>1, <1>2, <1>3, <1>4, TidyHasTask DEF Left, NormalisationOK, Normalisations

LEMMA UnusableLeads ==
    ASSUME AvatarInv, tidy.step # "none", Unusable
    PROVE  Left(tidy') \/ (InWork(tidy') /\ tidy'.step = "clear")
  <1>1. TaskDone.processed = tidy.processed /\ tidy.processed \cup {Key} \in SUBSET Keys
    BY TidyHasTask DEF TaskDone, Normalisations
  <1>2. CASE ~tidy.clear
    BY <1>1, <1>2, TaskDoneLeft DEF Unusable, TidyTo
  <1>3. CASE tidy.clear
    <2> DEFINE t == [[tidy EXCEPT !.step = "clear"] EXCEPT !.processed = @ \cup {Key}]
    <2>1. tidy' = t
      BY <1>3 DEF Unusable, TidyTo
    <2>2. /\ NormalisationOK(t) /\ t.pc = tidy.pc /\ t.step = "clear"
          /\ t.task = tidy.task /\ t.tasks = tidy.tasks
      BY <1>1, TidyHasTask DEF NormalisationOK, Normalisations
    <2> HIDE DEF t
    <2> QED  BY <2>1, <2>2, TidyHasTask DEF InWork
  <1> QED  BY <1>2, <1>3

\* A step within the avatar in hand that leaves rows and objects alone.
LEMMA TaskMoves ==
    ASSUME AvatarInv, Contesting, UNCHANGED <<avatar, object, change, choice, overtaken>>,
           Left(tidy') \/ (InWork(tidy') /\ TidySafe')
    PROVE  AvatarInv'
  <1>1. DisturbsOnly(NoKey)
    BY NothingDisturbed
  <1>2. object' \in [Keys -> Objects] /\ avatar' \in [Users -> KeysOrNone]
    BY DEF AvatarInv, AvatarTypeOK
  <1>3. CASE Left(tidy')
    BY <1>1, <1>2, <1>3, TaskLeaves
  <1>4. CASE InWork(tidy') /\ TidySafe'
    BY <1>1, <1>2, <1>4, TaskWorks
  <1> QED  BY <1>3, <1>4

LEMMA InspectStoredAvatarInv ==
    ASSUME AvatarInv, Contesting, InspectStoredAvatar
    PROVE  AvatarInv'
  <1>1. tidy.step # "none" /\ UNCHANGED <<avatar, object, change, choice, overtaken>>
    BY DEF InspectStoredAvatar
  <1>2. CASE object[Key] = "good" /\ TidyTo([TaskDone EXCEPT !.processed = @ \cup {Key}])
    <2>1. TaskDone.processed \cup {Key} \in SUBSET Keys
      BY <1>1, TidyHasTask DEF TaskDone, Normalisations
    <2> QED  BY <1>1, <1>2, <2>1, TaskDoneLeft, TaskMoves DEF TidyTo
  <1>3. CASE object[Key] = "raw" /\ TidyTo([tidy EXCEPT !.step = "put"])
    <2> DEFINE t == [tidy EXCEPT !.step = "put"]
    <2>1. tidy' = t
      BY <1>3 DEF TidyTo
    <2>2. /\ NormalisationOK(t) /\ t.pc = tidy.pc /\ t.step = "put"
          /\ t.task = tidy.task /\ t.tasks = tidy.tasks
      BY <1>1, TidyHasTask DEF NormalisationOK, Normalisations
    <2> HIDE DEF t
    <2>3. InWork(tidy') /\ TidySafe'
      BY <1>1, <2>1, <2>2, TidyHasTask DEF InWork, TidySafe
    <2> QED  BY <1>1, <2>3, TaskMoves
  <1>4. CASE Unusable
    <2>1. InWork(tidy') /\ tidy'.step = "clear" => TidySafe'
      BY DEF InWork, TidySafe
    <2> QED  BY <1>1, <1>4, <2>1, UnusableLeads, TaskMoves
  <1> QED  BY <1>2, <1>3, <1>4 DEF InspectStoredAvatar

LEMMA ReprocessStoredAvatarInv ==
    ASSUME AvatarInv, Contesting, ReprocessStoredAvatar
    PROVE  AvatarInv'
  <1>1. tidy.step # "none" /\ UNCHANGED <<avatar, change, choice, overtaken>>
    BY DEF ReprocessStoredAvatar
  <1>2. ASSUME object' = [object EXCEPT ![NewKey[Key]] = "good"], TidyTo([tidy EXCEPT !.step = "persist"])
        PROVE  AvatarInv'
    <2> DEFINE t == [tidy EXCEPT !.step = "persist"]
               k == NewKey[Key]
    <2>1. tidy' = t
      BY <1>2 DEF TidyTo
    <2>2. /\ NormalisationOK(t) /\ t.pc = tidy.pc /\ t.step = "persist"
          /\ t.task = tidy.task /\ t.tasks = tidy.tasks
      BY <1>1, TidyHasTask DEF NormalisationOK, Normalisations
    <2> HIDE DEF t
    <2>3. k \in Keys /\ k \in TouchedByTidy
      BY <1>1, TidyHasTask
    <2>4. Key' = Key
      BY <2>1, <2>2 DEF Key
    <2>5. object \in [Keys -> Objects] /\ avatar \in [Users -> KeysOrNone]
      BY DEF AvatarInv, AvatarTypeOK
    <2>6. object' = [object EXCEPT ![k] = "good"]
      BY <1>2
    <2> HIDE DEF k
    <2>7. object' \in [Keys -> Objects] /\ \A x \in Keys : object'[x] = IF x = k THEN "good" ELSE object[x]
      BY <2>3, <2>5, <2>6 DEF Objects
    <2>8. Referenced' = Referenced
      BY <1>1 DEF Referenced
    <2>9. DisturbsOnly(k)
      BY <2>3, <2>7, <2>8 DEF DisturbsOnly
    <2>10. object'[NewKey[Key]] # "none"
      BY <2>3, <2>7 DEF k
    <2>11. InWork(tidy') /\ TidySafe'
      BY <1>1, <2>1, <2>2, <2>4, <2>10, TidyHasTask DEF InWork, TidySafe
    <2> QED  BY <1>1, <2>3, <2>5, <2>7, <2>9, <2>11, TaskWorks
  <1>3. CASE Unusable /\ UNCHANGED object
    <2>1. InWork(tidy') /\ tidy'.step = "clear" => TidySafe'
      BY DEF InWork, TidySafe
    <2> QED  BY <1>1, <1>3, <2>1, UnusableLeads, TaskMoves
  <1> QED  BY <1>2, <1>3 DEF ReprocessStoredAvatar

\* The rows of users are given a key that is there, or that others dealt with too; who
\* had the old one has the recompressed one now.
LEMMA PersistKeyInv ==
    ASSUME AvatarInv, Contesting, PersistKey
    PROVE  AvatarInv'
  <1>1. tidy.step = "persist" /\ UNCHANGED <<object, change, choice, overtaken>>
    BY DEF PersistKey
  <1>2. /\ avatar \in [Users -> KeysOrNone] /\ choice \in [Users -> KeysOrNone]
        /\ object \in [Keys -> Objects]
    BY DEF AvatarInv, AvatarTypeOK
  <1>3. CASE /\ NewKey[Key] = Key
             /\ TidyTo([TaskDone EXCEPT !.processed = @ \cup {Key}])
             /\ UNCHANGED avatar
    <2>1. TaskDone.processed \cup {Key} \in SUBSET Keys
      BY <1>1, TidyHasTask DEF TaskDone, Normalisations
    <2> QED  BY <1>1, <1>3, <2>1, TaskDoneLeft, TaskMoves DEF TidyTo
  <1>4. ASSUME avatar' = IF User # NoUser THEN [avatar EXCEPT ![User] = NewKey[Key]]
                         ELSE [u \in Users |-> IF avatar[u] = Key THEN NewKey[Key] ELSE avatar[u]],
               TidyTo([tidy EXCEPT !.step = "check", !.processed = @ \cup {NewKey[Key]}])
        PROVE  AvatarInv'
    <2> DEFINE t == [tidy EXCEPT !.step = "check", !.processed = @ \cup {NewKey[Key]}]
               k == NewKey[Key]
    <2>1. tidy' = t
      BY <1>4 DEF TidyTo
    <2>2. /\ NormalisationOK(t) /\ t.pc = tidy.pc /\ t.step = "check"
          /\ t.task = tidy.task /\ t.tasks = tidy.tasks
      BY <1>1, TidyHasTask DEF NormalisationOK, Normalisations
    <2> HIDE DEF t
    <2>3. InWork(tidy') /\ TidySafe'
      BY <1>1, <2>1, <2>2, TidyHasTask DEF InWork, TidySafe
    <2>4. k \in Keys /\ k \in TouchedByTidy /\ (k \notin contested => object[k] # "none")
      BY <1>1, TidyHasTask DEF AvatarInv, TidySafe
    <2>5. \A u \in Users \ overtaken :
              avatar'[u] = avatar[u] \/ (avatar'[u] = k /\ (u = User \/ avatar[u] = Key))
      BY <1>2, <1>4
    <2>6. /\ avatar' \in [Users -> KeysOrNone]
          /\ \A u \in Users : avatar'[u] \in {avatar[u], k}
      BY <1>2, <1>4, <2>4 DEF KeysOrNone
    <2>7. \A u \in Users \ overtaken : u = User \/ avatar[u] = Key => OfChoice(u, Key)
      <3>1. \A u \in Users \ overtaken : avatar[u] = Key => OfChoice(u, Key)
        BY <1>1, TidyHasTask DEF AvatarInv, ChoicesKept
      <3>2. User \in Users \ overtaken => OfChoice(User, Key)
        BY DEF AvatarInv, ChoicesKept, User, Key
      <3> QED  BY <3>1, <3>2
    <2>8. \A u \in Users \ overtaken : OfChoice(u, Key) => OfChoice(u, k)
      BY <1>2, AvatarsAssumption DEF OfChoice, KeysOrNone
    <2> HIDE DEF k
    <2>9. DisturbsOnly(k)
      BY <1>1, <2>4, <2>6 DEF DisturbsOnly, Referenced
    <2> QED  BY <1>1, <1>2, <2>3, <2>4, <2>5, <2>6, <2>7, <2>8, <2>9, TaskWorks
  <1>5. ASSUME TidyTo([tidy EXCEPT !.step = "undo", !.processed = @ \cup {Key}]), UNCHANGED avatar
        PROVE  AvatarInv'
    <2> DEFINE t == [tidy EXCEPT !.step = "undo", !.processed = @ \cup {Key}]
    <2>1. tidy' = t
      BY <1>5 DEF TidyTo
    <2>2. /\ NormalisationOK(t) /\ t.pc = tidy.pc /\ t.step = "undo"
          /\ t.task = tidy.task /\ t.tasks = tidy.tasks
      BY <1>1, TidyHasTask DEF NormalisationOK, Normalisations
    <2> HIDE DEF t
    <2>3. InWork(tidy') /\ TidySafe'
      BY <1>1, <2>1, <2>2, TidyHasTask DEF InWork, TidySafe
    <2> QED  BY <1>1, <1>5, <2>3, TaskMoves
  <1> QED  BY <1>3, <1>4, <1>5 DEF PersistKey

LEMMA DeleteReprocessedInv ==
    ASSUME AvatarInv, Contesting, DeleteReprocessed
    PROVE  AvatarInv'
  <1>1. /\ tidy.step = "undo" /\ tidy' = TaskDone /\ UNCHANGED <<avatar, change, choice, overtaken>>
        /\ object' \in {object, [object EXCEPT ![NewKey[Key]] = "none"]}
    BY DEF DeleteReprocessed, TidyTo
  <1>2. NewKey[Key] \in contested
    BY <1>1 DEF AvatarInv, Contest, AtRisk
  <1>3. NewKey[Key] \in Keys /\ NewKey[Key] \in TouchedByTidy
    BY <1>1, TidyHasTask
  <1>4. Left(tidy')
    BY <1>1, TaskDoneLeft
  <1> QED  BY <1>1, <1>2, <1>3, <1>4, ObjectMayGo, TaskLeaves

LEMMA ClearAvatarInv ==
    ASSUME AvatarInv, Contesting, ClearAvatar
    PROVE  AvatarInv'
  <1>1. tidy.step = "clear" /\ UNCHANGED <<object, change, choice, overtaken>>
    BY DEF ClearAvatar
  <1>2. ASSUME avatar' = IF User # NoUser THEN [avatar EXCEPT ![User] = NoKey] ELSE avatar,
               TidyTo([tidy EXCEPT !.step = "check"])
        PROVE  AvatarInv'
    <2> DEFINE t == [tidy EXCEPT !.step = "check"]
    <2>1. tidy' = t
      BY <1>2 DEF TidyTo
    <2>2. /\ NormalisationOK(t) /\ t.pc = tidy.pc /\ t.step = "check"
          /\ t.task = tidy.task /\ t.tasks = tidy.tasks
      BY <1>1, TidyHasTask DEF NormalisationOK, Normalisations
    <2> HIDE DEF t
    <2>3. InWork(tidy') /\ TidySafe'
      BY <1>1, <2>1, <2>2, TidyHasTask DEF InWork, TidySafe
    <2>4. avatar \in [Users -> KeysOrNone] /\ object \in [Keys -> Objects]
      BY DEF AvatarInv, AvatarTypeOK
    <2>5. avatar' \in [Users -> KeysOrNone] /\ \A u \in Users : avatar'[u] \in {avatar[u], NoKey}
      BY <1>2, <2>4 DEF KeysOrNone
    <2>6. DisturbsOnly(NoKey)
      BY <1>1, <2>5 DEF DisturbsOnly, Referenced
    <2> QED  BY <1>1, <2>3, <2>4, <2>5, <2>6, TaskWorks
  <1>3. CASE TidyTo(TaskDone) /\ UNCHANGED avatar
    BY <1>1, <1>3, TaskDoneLeft, TaskMoves DEF TidyTo
  <1> QED  BY <1>2, <1>3 DEF ClearAvatar

LEMMA CheckReferencedInv ==
    ASSUME AvatarInv, Contesting, CheckReferenced
    PROVE  AvatarInv'
  <1>1. tidy.step = "check" /\ UNCHANGED <<avatar, object, change, choice, overtaken>>
    BY DEF CheckReferenced
  <1>2. CASE Key \in Referenced
    BY <1>1, <1>2, TaskDoneLeft, TaskMoves DEF CheckReferenced, TidyTo
  <1>3. CASE Key \notin Referenced
    <2> DEFINE t == [tidy EXCEPT !.step = "delete"]
    <2>1. tidy' = t
      BY <1>3 DEF CheckReferenced, TidyTo
    <2>2. /\ NormalisationOK(t) /\ t.pc = tidy.pc /\ t.step = "delete"
          /\ t.task = tidy.task /\ t.tasks = tidy.tasks
      BY <1>1, TidyHasTask DEF NormalisationOK, Normalisations
    <2> HIDE DEF t
    <2>3. Key' = Key /\ Referenced' = Referenced
      BY <1>1, <2>1, <2>2 DEF Key, Referenced
    <2>4. InWork(tidy') /\ TidySafe'
      BY <1>1, <1>3, <2>1, <2>2, <2>3, TidyHasTask DEF InWork, TidySafe
    <2> QED  BY <1>1, <2>4, TaskMoves
  <1> QED  BY <1>2, <1>3

LEMMA DeleteUnreferencedInv ==
    ASSUME AvatarInv, Contesting, DeleteUnreferenced
    PROVE  AvatarInv'
  <1>1. /\ tidy.step = "delete" /\ tidy' = TaskDone /\ UNCHANGED <<avatar, change, choice, overtaken>>
        /\ object' \in {object, [object EXCEPT ![Key] = "none"]}
    BY DEF DeleteUnreferenced, TidyTo
  <1>2. Key \in contested \/ Key \notin Referenced
    BY <1>1 DEF AvatarInv, TidySafe
  <1>3. Key \in Keys /\ Key \in TouchedByTidy
    BY <1>1, TidyHasTask
  <1>4. Left(tidy')
    BY <1>1, TaskDoneLeft
  <1> QED  BY <1>1, <1>2, <1>3, <1>4, ObjectMayGo, TaskLeaves

LEMMA SweepStorageInv ==
    ASSUME AvatarInv, Contesting, SweepStorage
    PROVE  AvatarInv'
  <1> DEFINE tasks == {NoUser} \X {k \in Referenced \ tidy.processed : object[k] # "none"}
             t == [tidy EXCEPT !.pc = "storage", !.tasks = tasks]
  <1>1. /\ tidy.step = "none" /\ tidy \in Normalisations /\ tidy' = t
        /\ UNCHANGED <<avatar, object, change, choice, overtaken>>
    BY DEF SweepStorage, TasksDone, AvatarInv, AvatarTypeOK, NormalisationOK, TidyTo
  <1>2. Referenced \subseteq Keys
    BY DEF AvatarInv, AvatarTypeOK, Referenced, KeysOrNone
  <1>3. \A x \in tasks : x \in AvatarTasks /\ x[1] \notin Users
    BY <1>2, AvatarsAssumption DEF AvatarTasks
  <1> HIDE DEF tasks
  <1>4. /\ NormalisationOK(t) /\ t.pc = "storage" /\ t.step = "none"
        /\ t.tasks = tasks /\ t.task = tidy.task
    BY <1>1, <1>3 DEF NormalisationOK, Normalisations
  <1> HIDE DEF t
  <1>5. TidySafe'
    BY <1>1, <1>4 DEF TidySafe
  <1> QED  BY <1>1, <1>3, <1>4, <1>5, TidyMoves

LEMMA PurgeReferencesInv ==
    ASSUME AvatarInv, Contesting, PurgeReferences
    PROVE  AvatarInv'
  <1> DEFINE t == [NoTidy EXCEPT !.pc = "list", !.keys = Referenced]
  <1>1. tidy' = t /\ UNCHANGED <<avatar, object, change, choice, overtaken>>
    BY DEF PurgeReferences, TidyTo
  <1>2. Referenced \subseteq Keys
    BY DEF AvatarInv, AvatarTypeOK, Referenced, KeysOrNone
  <1>3. /\ NormalisationOK(t) /\ t.pc = "list" /\ t.step = "none"
        /\ t.tasks = {} /\ t.task = NoTask /\ t.keys = Referenced
    BY <1>2, NoTidyOK DEF NormalisationOK, Normalisations
  <1> HIDE DEF t
  <1>4. Referenced' = Referenced
    BY <1>1 DEF Referenced
  <1>5. TidySafe'
    BY <1>1, <1>3, <1>4 DEF TidySafe
  <1>6. NoTask[1] \notin Users
    BY AvatarsAssumption DEF NoTask
  <1> QED  BY <1>1, <1>3, <1>5, <1>6, TidyMoves

LEMMA PurgeListInv ==
    ASSUME AvatarInv, Contesting, PurgeList
    PROVE  AvatarInv'
  <1> DEFINE rest == {k \in Keys \ tidy.keys : object[k] # "none"}
             t == [tidy EXCEPT !.pc = "purge", !.keys = rest]
  <1>1. /\ tidy.pc = "list" /\ NormalisationOK(tidy) /\ tidy' = t
        /\ UNCHANGED <<avatar, object, change, choice, overtaken>>
    BY DEF PurgeList, TidyTo, AvatarInv, AvatarTypeOK, NormalisationOK, Normalisations
  <1>2. rest \subseteq Keys /\ rest \cap tidy.keys = {}
    OBVIOUS
  <1> HIDE DEF rest
  <1>3. /\ NormalisationOK(t) /\ t.pc = "purge" /\ t.step = "none"
        /\ t.tasks = tidy.tasks /\ t.task = tidy.task /\ t.keys = rest
    BY <1>1, <1>2 DEF NormalisationOK, Normalisations
  <1> HIDE DEF t
  <1>4. Referenced' = Referenced /\ Referenced \subseteq tidy.keys \cup contested
    BY <1>1 DEF Referenced, AvatarInv, TidySafe
  <1>5. TidySafe'
    BY <1>1, <1>2, <1>3, <1>4 DEF TidySafe, Contesting
  <1> QED  BY <1>1, <1>3, <1>5, TidyMoves

LEMMA PurgeUnreferencedInv ==
    ASSUME AvatarInv, Contesting, NEW k \in Keys, PurgeUnreferenced(k)
    PROVE  AvatarInv'
  <1> DEFINE t == [tidy EXCEPT !.keys = @ \ {k}]
  <1>1. /\ tidy.pc = "purge" /\ k \in tidy.keys /\ NormalisationOK(tidy) /\ tidy' = t
        /\ object' \in {object, [object EXCEPT ![k] = "none"]}
        /\ UNCHANGED <<avatar, change, choice, overtaken>>
    BY DEF PurgeUnreferenced, TidyTo, AvatarInv, AvatarTypeOK
  <1>2. /\ NormalisationOK(t) /\ t.pc = "purge" /\ t.step = "none"
        /\ t.tasks = tidy.tasks /\ t.task = tidy.task /\ t.keys = tidy.keys \ {k}
    BY <1>1 DEF NormalisationOK, Normalisations
  <1> HIDE DEF t
  <1>3. Referenced' = Referenced /\ Referenced \cap tidy.keys \subseteq contested
    BY <1>1 DEF Referenced, AvatarInv, TidySafe
  <1>4. TidySafe'
    BY <1>1, <1>2, <1>3 DEF TidySafe, Contesting
  <1>5. DisturbsOnly(k) /\ object' \in [Keys -> Objects]
    BY <1>1, <1>3, ObjectMayGo
  <1>6. k \in TouchedByTidy
    BY <1>1, TidyTouches DEF AvatarInv
  <1>7. AvatarTypeOK'
    BY <1>1, <1>2, <1>5 DEF AvatarInv, AvatarTypeOK, RequestOK
  <1>8. ChoicesKept'
    BY <1>1, <1>2 DEF AvatarInv, ChoicesKept, OfChoice
  <1> QED  BY <1>1, <1>4, <1>5, <1>6, <1>7, <1>8, TidyStepSafe

LEMMA TidyStepInv ==
    ASSUME AvatarInv, Contesting, TidyStep
    PROVE  AvatarInv'
  <1>1. CASE NormalizeAvatars  BY <1>1, NormalizeAvatarsInv
  <1>2. CASE InspectStoredAvatar  BY <1>2, InspectStoredAvatarInv
  <1>3. CASE ReprocessStoredAvatar  BY <1>3, ReprocessStoredAvatarInv
  <1>4. CASE PersistKey  BY <1>4, PersistKeyInv
  <1>5. CASE DeleteReprocessed  BY <1>5, DeleteReprocessedInv
  <1>6. CASE ClearAvatar  BY <1>6, ClearAvatarInv
  <1>7. CASE CheckReferenced  BY <1>7, CheckReferencedInv
  <1>8. CASE DeleteUnreferenced  BY <1>8, DeleteUnreferencedInv
  <1>9. CASE SweepStorage  BY <1>9, SweepStorageInv
  <1>10. CASE PurgeReferences  BY <1>10, PurgeReferencesInv
  <1>11. CASE PurgeList  BY <1>11, PurgeListInv
  <1>12. CASE StopTidy  BY <1>12, StopTidyInv
  <1>13. ASSUME NEW k \in Keys, PurgeUnreferenced(k)
         PROVE  AvatarInv'
    BY <1>13, PurgeUnreferencedInv
  <1>14. ASSUME NEW x \in tidy.tasks, NextTask(x)
         PROVE  AvatarInv'
    BY <1>14, NextTaskInv
  <1> QED
    BY <1>1, <1>2, <1>3, <1>4, <1>5, <1>6, <1>7, <1>8, <1>9, <1>10, <1>11, <1>12, <1>13, <1>14 DEF TidyStep

LEMMA AvatarInitInv ==
    ASSUME AvatarInit
    PROVE  AvatarInv
  <1>1. \A r \in Changers : change[r] = NoChange
    BY DEF AvatarInit
  <1>2. NoChange.pc = "idle" /\ NoChange.created = "no" /\ NoChange \in Requests
    BY NoChangeOK DEF NoChange, RequestOK
  <1>3. AvatarTypeOK
    <2>1. change \in [Changers -> Requests]
      BY <1>2 DEF AvatarInit
    <2> QED  BY <1>1, <2>1, NoChangeOK, NoTidyOK, AvatarsAssumption DEF AvatarInit, AvatarTypeOK, KeysOrNone
  <1>4. Contest = {}
    <2>1. \A r \in Changers : TouchedBy(r) = {}
      BY <1>1, <1>2 DEF TouchedBy
    <2>2. AtRisk = {}
      BY <1>1, <1>2, NoTidyOK DEF AtRisk, AvatarInit
    <2> QED  BY <2>1, <2>2 DEF Contest
  <1>5. AvatarsThere
    BY AvatarsAssumption DEF AvatarInit, AvatarsThere
  <1>6. \A r \in Changers : ChangeSafe(r)
    BY <1>1, <1>2 DEF ChangeSafe
  <1>7. TidySafe
    BY NoTidyOK DEF AvatarInit, TidySafe
  <1>8. ChoicesKept
    <2>1. tidy.tasks \cup {tidy.task} = {NoTask} /\ NoTask[1] \notin Users
      BY NoTidyOK, AvatarsAssumption DEF AvatarInit, NoTask
    <2> QED  BY <2>1 DEF AvatarInit, ChoicesKept, OfChoice
  <1> QED  BY <1>3, <1>4, <1>5, <1>6, <1>7, <1>8 DEF AvatarInv

LEMMA AvatarStepInv ==
    ASSUME AvatarInv, [AvatarNext]_avatarVars
    PROVE  AvatarInv'
  <1>1. CASE AvatarNext
    BY <1>1, TidyStepInv, ChangerStepInv DEF AvatarNext, Contesting
  <1>2. CASE UNCHANGED avatarVars
    <2>1. /\ AvatarTypeOK' /\ AvatarsThere' /\ TidySafe' /\ ChoicesKept'
          /\ \A r \in Changers : ChangeSafe(r)'
      BY <1>2 DEF AvatarInv, AvatarTypeOK, RequestOK, AvatarsThere, TidySafe, ChoicesKept, OfChoice,
                  ChangeSafe, Referenced, Key, avatarVars
    <2>2. Contest' = Contest
      BY <1>2 DEF Contest, AtRisk, TouchedBy, TouchedByTidy, Key, avatarVars
    <2> QED  BY <1>2, <2>1, <2>2 DEF AvatarInv, avatarVars
  <1> QED  BY <1>1, <1>2

\* Objects that users' rows name are there, whatever the number of users who share them, of
\* requests and of normalisations, however calls fail, unless two actors dealt with a key at
\* the same time or a failure put it at risk; and users have the avatars they chose.
THEOREM AvatarsAreSound == AvatarSpec => []AvatarsSound
  <1>1. AvatarInv => AvatarsSound
    BY DEF AvatarInv, AvatarsThere, ChoicesKept, OfChoice, AvatarsSound
  <1> QED  BY <1>1, AvatarInitInv, AvatarStepInv, PTL DEF AvatarSpec

-----------------------------------------------------------------------------
(***************************************************************************)
(* The analytics: views are accounted for, and settled days are counted    *)
(* once and for all. What is read of a day once none of its views waits is *)
(* what its permanent rows must count.                                     *)
(***************************************************************************)
Processes == [stage : {"down", "up", "stopping", "draining"}, channel : SUBSET Views,
              buffer : SUBSET Views, lastRolled : 0 .. LastDay]
Rollups == [day : 0 .. LastDay, next : 0 .. LastTable + 1, read : SUBSET Views]

ProcessOK(x) ==
    /\ x \in Processes
    /\ IsFiniteSet(x.channel) /\ Cardinality(x.channel) <= ChannelBuffer
    /\ IsFiniteSet(x.buffer) /\ Cardinality(x.buffer) < BatchSize
    /\ x.stage = "down" => x.channel = {} /\ x.buffer = {}

RollupOK(r) ==
    Rolling(r) => /\ roll[r].day \in Days /\ roll[r].day <= time.day
                  /\ roll[r].next \in 1 .. LastTable + 1
                  /\ r = Admin => roll[r].next \in Tables

AnalyticsTyped ==
    /\ time \in [day : Days, late : BOOLEAN]
    /\ seen \in [Views -> 0 .. LastDay]
    /\ server \in [Servers -> Processes] /\ \A s \in Servers : ProcessOK(server[s])
    /\ events \in SUBSET Views
    /\ table \in [Tables -> [Days -> SUBSET Views]]
    /\ lease \in Servers \cup {NoServer}
    /\ roll \in [Rollers -> Rollups] /\ \A r \in Rollers : RollupOK(r)
    /\ upsets \in 0 .. MaxUpsets
    /\ Lost \in SUBSET Views /\ spoilt \in SUBSET Days

\* A view waits in one process, or is stored, or is lost.
PendingOf(s) == server[s].channel \cup server[s].buffer

ViewsApart ==
    /\ \A s \in Servers : /\ server[s].channel \cap server[s].buffer = {}
                          /\ PendingOf(s) \cap (events \cup Lost) = {}
    /\ \A s, q \in Servers : s # q => PendingOf(s) \cap PendingOf(q) = {}
    /\ events \cap Lost = {}
    /\ \A v \in events \cup Lost : seen[v] # 0
    /\ \A s \in Servers : \A v \in PendingOf(s) : seen[v] # 0

\* From 00:30 on no view of an earlier day waits.
Settled(d) == d < Yesterday \/ (time.late /\ d = Yesterday)

PendingRecent ==
    /\ \A v \in Views : seen[v] <= time.day
    /\ \A s \in Servers : \A v \in PendingOf(s) : ~Settled(seen[v])

Accounted(v) ==
    \/ \E s \in Servers : v \in PendingOf(s)
    \/ v \in events \/ v \in Lost
    \/ seen[v] <= time.day - Retention

AllAccounted == \A v \in Views : seen[v] # 0 => Accounted(v)

\* What the permanent rows of a day must count.
Counted(d) == (OfDay(d) \cap Trusted) \ Lost

\* The scheduler rolls up yesterday only, after 00:30 and with the lease; what was read of
\* a settled day is what counts.
RollupsRight ==
    /\ \A s \in Servers : Rolling(s) => time.late /\ roll[s].day = Yesterday /\ lease = s
    /\ \A r \in Rollers : Rolling(r) /\ Settled(roll[r].day) /\ roll[r].day \notin spoilt =>
            roll[r].read = Counted(roll[r].day)

\* Once the lease was taken or a process believes yesterday done, each of the tables has
\* it, or a process is about to write it.
TableRolled(t) ==
    \/ table[t][Yesterday] = Counted(Yesterday)
    \/ \E s \in Servers : Rolling(s) /\ roll[s].next <= t

YesterdayTaken ==
    /\ time.late /\ Yesterday \in Days \ spoilt
    /\ lease # NoServer \/ \E s \in Servers : server[s].lastRolled = Yesterday

YesterdayRolled == YesterdayTaken => \A t \in Tables : TableRolled(t)

\* Nobody believes yesterday done before it is due.
NothingEarly ==
    /\ \A s \in Servers : server[s].lastRolled <= Yesterday
    /\ ~time.late => /\ lease = NoServer
                     /\ \A s \in Servers : server[s].lastRolled < Yesterday \/ Yesterday = 0

ViewsSafe == ViewsApart /\ PendingRecent /\ AllAccounted
RollupsSafe == RollupsRight /\ YesterdayRolled /\ NothingEarly /\ HistoryIsComplete

AnalyticsInv == AnalyticsTyped /\ ViewsSafe /\ RollupsSafe
-----------------------------------------------------------------------------
LEMMA TimeFacts ==
    ASSUME AnalyticsTyped
    PROVE  /\ time.day \in Days /\ time.day \in Nat /\ time.day >= 1 /\ time.day <= LastDay
           /\ time.late \in BOOLEAN
           /\ Yesterday \in Nat /\ Yesterday = time.day - 1 /\ LastDay \in Nat /\ Retention \in Nat
           /\ Retention >= 2 /\ LastTable \in Nat /\ LastTable >= 1
  <1>1. time.day \in Days /\ time.late \in BOOLEAN
    BY DEF AnalyticsTyped
  <1> QED  BY <1>1, AnalyticsAssumption DEF Days, Yesterday

LEMMA Rollings ==
    ASSUME AnalyticsTyped, NEW r \in Rollers
    PROVE  /\ roll[r] \in Rollups /\ (Rolling(r) <=> roll[r].next # 0)
           /\ ~Rolling(r) => roll[r] = NotRolling
  <1>1. NotRolling.next = 0 /\ LastTable \in Nat
    BY AnalyticsAssumption DEF NotRolling
  <1>2. Rolling(r) => roll[r].next \in 1 .. LastTable + 1
    BY DEF AnalyticsTyped, RollupOK
  <1> QED  BY <1>1, <1>2 DEF AnalyticsTyped, Rolling

LEMMA ServersRoll == Servers \subseteq Rollers /\ Admin \in Rollers /\ Admin \notin Servers
  BY AnalyticsAssumption DEF Rollers

\* The process after its step, and the others.
LEMMA ProcessGoesTo ==
    ASSUME AnalyticsTyped, NEW s \in Servers, NEW x, ProcessOK(x), server' = [server EXCEPT ![s] = x]
    PROVE  /\ server' \in [Servers -> Processes] /\ \A q \in Servers : ProcessOK(server'[q])
           /\ server'[s] = x /\ \A q \in Servers : q # s => server'[q] = server[q]
  BY DEF AnalyticsTyped, ProcessOK

\* What settled days count stays.
LEMMA CountsStay ==
    ASSUME AnalyticsInv, time' = time, seen' \in [Views -> 0 .. LastDay],
           \A v \in Views : seen'[v] = seen[v] \/ seen'[v] = time.day,
           \A v \in Views : seen'[v] # seen[v] => seen[v] = 0,
           Lost \subseteq Lost',
           \A v \in Lost' : v \in Lost \/ seen[v] = 0 \/ ~Settled(seen[v])
    PROVE  \A d \in Days : Settled(d) => Counted(d)' = Counted(d)
  <1> SUFFICES ASSUME NEW d \in Days, Settled(d)
               PROVE  Counted(d)' = Counted(d)
    OBVIOUS
  <1>1. d # 0 /\ d # time.day
    BY TimeFacts DEF Days, Settled, AnalyticsInv
  <1>2. \A v \in Views : seen'[v] = d <=> seen[v] = d
    BY <1>1
  <1>3. \A v \in Views : seen[v] = d => (v \in Lost' <=> v \in Lost)
    BY <1>1
  <1> QED  BY <1>2, <1>3 DEF Counted, OfDay

\* A step that has to do with views only.
LEMMA RollupsStay ==
    ASSUME AnalyticsInv, UNCHANGED <<time, table, lease, roll, spoilt>>,
           \A d \in Days : Settled(d) => Counted(d)' = Counted(d),
           \A s \in Servers : server'[s].lastRolled \in {server[s].lastRolled, 0}
    PROVE  RollupsSafe'
  <1>1. /\ Yesterday' = Yesterday /\ \A d : Settled(d)' <=> Settled(d)
        /\ \A r : Rolling(r)' <=> Rolling(r)
    BY DEF Yesterday, Settled, Rolling
  <1>2. Yesterday \in Nat
    BY TimeFacts DEF AnalyticsInv
  <1>3. RollupsRight'
    <2>1. \A r \in Rollers : Rolling(r) => roll[r].day \in Days
      BY DEF AnalyticsInv, AnalyticsTyped, RollupOK
    <2> QED  BY <1>1, <2>1 DEF AnalyticsInv, RollupsSafe, RollupsRight
  <1>4. YesterdayRolled'
    <2>1. YesterdayTaken' => YesterdayTaken
      BY <1>1, <1>2 DEF YesterdayTaken, Days
    <2>2. YesterdayTaken => Counted(Yesterday)' = Counted(Yesterday)
      BY <1>1 DEF YesterdayTaken, Settled
    <2>3. \A t : YesterdayTaken /\ TableRolled(t) => TableRolled(t)'
      BY <1>1, <2>2 DEF TableRolled
    <2> QED  BY <2>1, <2>3 DEF AnalyticsInv, RollupsSafe, YesterdayRolled
  <1>5. NothingEarly'
    BY <1>1, <1>2 DEF AnalyticsInv, RollupsSafe, NothingEarly
  <1>6. HistoryIsComplete'
    <2>1. \A d \in Days \ spoilt : d < Yesterday => \A t \in Tables : table[t][d] = Counted(d)
      BY DEF AnalyticsInv, RollupsSafe, HistoryIsComplete, Counted
    <2>2. \A d \in Days \ spoilt : d < Yesterday => \A t \in Tables : table[t][d] = Counted(d)'
      BY <2>1 DEF Settled
    <2> QED  BY <2>2, <1>1 DEF HistoryIsComplete, Counted
  <1> QED  BY <1>3, <1>4, <1>5, <1>6 DEF RollupsSafe

\* A step that has to do with roll-ups only.
LEMMA ViewsStay ==
    ASSUME AnalyticsInv, UNCHANGED <<time, seen, events, Lost>>,
           \A s \in Servers : /\ server'[s].channel = server[s].channel
                              /\ server'[s].buffer = server[s].buffer
    PROVE  ViewsSafe' /\ \A d : Counted(d)' = Counted(d)
  <1>1. \A s \in Servers : PendingOf(s)' = PendingOf(s)
    BY DEF PendingOf
  <1>2. \A d : (Settled(d)' <=> Settled(d)) /\ Counted(d)' = Counted(d)
    BY DEF Settled, Yesterday, Counted, OfDay
  <1>3. ViewsApart'
    BY <1>1 DEF AnalyticsInv, ViewsSafe, ViewsApart
  <1>4. PendingRecent'
    BY <1>1, <1>2 DEF AnalyticsInv, ViewsSafe, PendingRecent
  <1>5. AllAccounted'
    BY <1>1 DEF AnalyticsInv, ViewsSafe, AllAccounted, Accounted
  <1> QED  BY <1>2, <1>3, <1>4, <1>5 DEF ViewsSafe
-----------------------------------------------------------------------------
(* Views.                                                                  *)

\* A view arrives: it is queued or dropped.
LEMMA ViewQueued ==
    ASSUME AnalyticsInv, NEW s \in Servers, NEW v \in Views, seen[v] = 0,
           seen' = [seen EXCEPT ![v] = time.day],
           server[s].stage # "down", Cardinality(server[s].channel) < ChannelBuffer,
           server' = [server EXCEPT ![s].channel = @ \cup {v}],
           UNCHANGED <<time, events, table, lease, roll, upsets, Lost, spoilt>>
    PROVE  AnalyticsInv'
  <1> DEFINE x == [server[s] EXCEPT !.channel = @ \cup {v}]
  <1>1. ProcessOK(server[s]) /\ server[s] \in Processes /\ server \in [Servers -> Processes]
    BY DEF AnalyticsInv, AnalyticsTyped, ProcessOK
  <1>2. /\ x \in Processes /\ x.channel = server[s].channel \cup {v}
        /\ x.buffer = server[s].buffer /\ x.lastRolled = server[s].lastRolled
        /\ x.stage = server[s].stage
    BY <1>1 DEF Processes
  <1>3. server' = [server EXCEPT ![s] = x]
    BY <1>1
  <1> HIDE DEF x
  <1>4. v \notin PendingOf(s)
    BY DEF AnalyticsInv, ViewsSafe, ViewsApart
  <1>5. IsFiniteSet(x.channel) /\ Cardinality(x.channel) <= ChannelBuffer
    <2>1. IsFiniteSet(server[s].channel) /\ v \notin server[s].channel
      BY <1>1, <1>4 DEF ProcessOK, PendingOf
    <2>2. IsFiniteSet(x.channel) /\ Cardinality(x.channel) = Cardinality(server[s].channel) + 1
      BY <1>2, <2>1, FS_AddElement
    <2>3. Cardinality(server[s].channel) \in Nat
      BY <2>1, FS_CardinalityType
    <2> QED  BY <2>2, <2>3, AnalyticsAssumption
  <1>6. ProcessOK(x)
    BY <1>1, <1>2, <1>5 DEF ProcessOK
  <1>7. /\ server'[s] = x /\ \A q \in Servers : q # s => server'[q] = server[q]
        /\ server' \in [Servers -> Processes] /\ \A q \in Servers : ProcessOK(server'[q])
    BY <1>3, <1>6, ProcessGoesTo DEF AnalyticsInv
  <1>8. seen \in [Views -> 0 .. LastDay] /\ time.day \in 0 .. LastDay /\ time.day \in Nat
    BY TimeFacts DEF AnalyticsInv, AnalyticsTyped, Days
  <1>9. seen' \in [Views -> 0 .. LastDay] /\ \A w \in Views : seen'[w] = IF w = v THEN time.day ELSE seen[w]
    BY <1>8
  <1>10. AnalyticsTyped'
    BY <1>7, <1>9 DEF AnalyticsInv, AnalyticsTyped, RollupOK, Rolling
  <1>11. \A q \in Servers : PendingOf(q)' = IF q = s THEN PendingOf(q) \cup {v} ELSE PendingOf(q)
    BY <1>2, <1>7 DEF PendingOf
  <1>12. ~Settled(time.day) /\ \A d : Settled(d)' <=> Settled(d)
    BY TimeFacts DEF AnalyticsInv, Settled, Yesterday
  <1>13. ViewsApart'
    <2>1. v \notin events \cup Lost /\ \A q \in Servers : v \notin PendingOf(q)
      BY DEF AnalyticsInv, ViewsSafe, ViewsApart
    <2>2. \A q \in Servers : server'[q].channel \cap server'[q].buffer = {}
      BY <1>2, <1>7, <2>1 DEF AnalyticsInv, ViewsSafe, ViewsApart, PendingOf
    <2>3. \A q \in Servers : PendingOf(q)' \cap (events \cup Lost) = {}
      BY <1>11, <2>1 DEF AnalyticsInv, ViewsSafe, ViewsApart
    <2>4. \A q, p \in Servers : q # p => PendingOf(q)' \cap PendingOf(p)' = {}
      BY <1>11, <2>1 DEF AnalyticsInv, ViewsSafe, ViewsApart
    <2>5. /\ \A w \in events \cup Lost : seen'[w] # 0
          /\ \A q \in Servers : \A w \in PendingOf(q)' : seen'[w] # 0
      <3>1. \A w \in Views : seen[w] # 0 => seen'[w] # 0
        BY <1>9, TimeFacts DEF AnalyticsInv
      <3>2. seen'[v] # 0
        BY <1>9, TimeFacts DEF AnalyticsInv
      <3>3. events \cup Lost \subseteq Views /\ \A q \in Servers : PendingOf(q) \subseteq Views
        BY DEF AnalyticsInv, AnalyticsTyped, Processes, PendingOf
      <3> QED  BY <1>11, <3>1, <3>2, <3>3 DEF AnalyticsInv, ViewsSafe, ViewsApart
    <2> QED  BY <2>2, <2>3, <2>4, <2>5 DEF ViewsApart, AnalyticsInv, ViewsSafe
  <1>14. PendingRecent'
    <2>1. \A q \in Servers : PendingOf(q) \subseteq Views
      BY DEF AnalyticsInv, AnalyticsTyped, Processes, PendingOf
    <2> QED  BY <2>1, <1>8, <1>9, <1>11, <1>12 DEF AnalyticsInv, ViewsSafe, PendingRecent
  <1>15. AllAccounted'
    BY <1>9, <1>11 DEF AnalyticsInv, ViewsSafe, AllAccounted, Accounted
  <1>16. \A d \in Days : Settled(d) => Counted(d)' = Counted(d)
    BY <1>9, CountsStay
  <1>17. \A q \in Servers : server'[q].lastRolled = server[q].lastRolled
    BY <1>2, <1>7
  <1> QED  BY <1>10, <1>13, <1>14, <1>15, <1>16, <1>17, RollupsStay DEF AnalyticsInv, ViewsSafe

LEMMA ViewDropped ==
    ASSUME AnalyticsInv, NEW v \in Views, seen[v] = 0,
           seen' = [seen EXCEPT ![v] = time.day], Lost' = Lost \cup {v},
           UNCHANGED <<time, server, events, table, lease, roll, upsets, spoilt>>
    PROVE  AnalyticsInv'
  <1>1. seen \in [Views -> 0 .. LastDay] /\ time.day \in 0 .. LastDay /\ time.day \in Nat
    BY TimeFacts DEF AnalyticsInv, AnalyticsTyped, Days
  <1>2. seen' \in [Views -> 0 .. LastDay] /\ \A w \in Views : seen'[w] = IF w = v THEN time.day ELSE seen[w]
    BY <1>1
  <1>3. AnalyticsTyped'
    BY <1>2 DEF AnalyticsInv, AnalyticsTyped, RollupOK, Rolling
  <1>4. \A q \in Servers : PendingOf(q)' = PendingOf(q)
    BY DEF PendingOf
  <1>5. \A d : Settled(d)' <=> Settled(d)
    BY DEF Settled, Yesterday
  <1>6. ViewsApart'
    <2>1. v \notin events /\ \A q \in Servers : v \notin PendingOf(q)
      BY DEF AnalyticsInv, ViewsSafe, ViewsApart
    <2>2. seen'[v] # 0 /\ \A w \in Views : seen[w] # 0 => seen'[w] # 0
      BY <1>2, TimeFacts DEF AnalyticsInv
    <2>3. events \cup Lost \subseteq Views /\ \A q \in Servers : PendingOf(q) \subseteq Views
      BY DEF AnalyticsInv, AnalyticsTyped, Processes, PendingOf
    <2> QED  BY <1>4, <2>1, <2>2, <2>3 DEF AnalyticsInv, ViewsSafe, ViewsApart
  <1>7. PendingRecent'
    <2>1. \A q \in Servers : PendingOf(q) \subseteq Views \ {v}
      BY DEF AnalyticsInv, AnalyticsTyped, Processes, PendingOf, ViewsSafe, ViewsApart
    <2> QED  BY <2>1, <1>1, <1>2, <1>4, <1>5 DEF AnalyticsInv, ViewsSafe, PendingRecent
  <1>8. AllAccounted'
    BY <1>2, <1>4 DEF AnalyticsInv, ViewsSafe, AllAccounted, Accounted
  <1>9. \A d \in Days : Settled(d) => Counted(d)' = Counted(d)
    BY <1>2, CountsStay
  <1> QED  BY <1>3, <1>6, <1>7, <1>8, <1>9, RollupsStay DEF AnalyticsInv, ViewsSafe

LEMMA CollectInv ==
    ASSUME AnalyticsInv, NEW s \in Servers, NEW v \in Views, Collect(s, v) \/ CollectLate(s, v)
    PROVE  AnalyticsInv'
  <1>1. /\ seen[v] = 0 /\ seen' = [seen EXCEPT ![v] = time.day] /\ server[s].stage # "down"
        /\ UNCHANGED <<time, events, table, lease, roll, upsets, spoilt>>
    BY DEF Collect, CollectLate, Submit
  <1>2. \/ /\ Cardinality(server[s].channel) < ChannelBuffer
           /\ server' = [server EXCEPT ![s].channel = @ \cup {v}] /\ UNCHANGED Lost
        \/ Lost' = Lost \cup {v} /\ UNCHANGED server
    BY DEF Collect, CollectLate, Submit, Lost
  <1> QED  BY <1>1, <1>2, ViewQueued, ViewDropped

\* A process hands over views it has: each is kept, is stored or is lost.
LEMMA ViewsMove ==
    ASSUME AnalyticsInv, NEW s \in Servers, NEW moved \in SUBSET PendingOf(s),
           UNCHANGED <<time, seen>>, upsets' \in 0 .. MaxUpsets,
           server' \in [Servers -> Processes], \A q \in Servers : ProcessOK(server'[q]),
           \A q \in Servers : q # s => server'[q] = server[q],
           server'[s].channel \cap server'[s].buffer = {}, PendingOf(s)' = PendingOf(s) \ moved,
           \/ events' = events \cup moved /\ Lost' = Lost
           \/ Lost' = Lost \cup moved /\ events' = events
    PROVE  /\ ViewsSafe' /\ \A d \in Days : Settled(d) => Counted(d)' = Counted(d)
           /\ events' \in SUBSET Views /\ Lost' \in SUBSET Views
  <1>1. \A q \in Servers : PendingOf(q)' = IF q = s THEN PendingOf(q) \ moved ELSE PendingOf(q)
    BY DEF PendingOf
  <1>2. \A d : Settled(d)' <=> Settled(d)
    BY DEF Settled, Yesterday
  <1>3. events \cup Lost \subseteq Views /\ \A q \in Servers : PendingOf(q) \subseteq Views
    BY DEF AnalyticsInv, AnalyticsTyped, Processes, PendingOf
  <1>4. ViewsApart
    BY DEF AnalyticsInv, ViewsSafe
  <1>5. moved \cap (events \cup Lost) = {} /\ \A v \in moved : v \in PendingOf(s) /\ seen[v] # 0
    BY <1>4 DEF ViewsApart
  <1>6. \A q \in Servers : q # s => moved \cap PendingOf(q) = {}
    BY <1>4 DEF ViewsApart
  <1>7. ViewsApart'
    <2>1. \A q \in Servers : server'[q].channel \cap server'[q].buffer = {}
      BY <1>4 DEF ViewsApart
    <2>2. \A q \in Servers : PendingOf(q)' \cap (events' \cup Lost') = {}
      BY <1>1, <1>4, <1>6 DEF ViewsApart
    <2>3. \A q, p \in Servers : q # p => PendingOf(q)' \cap PendingOf(p)' = {}
      BY <1>1, <1>4 DEF ViewsApart
    <2>4. events' \cap Lost' = {}
      BY <1>4, <1>5 DEF ViewsApart
    <2>5. /\ \A v \in events' \cup Lost' : seen'[v] # 0
          /\ \A q \in Servers : \A v \in PendingOf(q)' : seen'[v] # 0
      BY <1>1, <1>4, <1>5 DEF ViewsApart
    <2> QED  BY <2>1, <2>2, <2>3, <2>4, <2>5 DEF ViewsApart
  <1>8. PendingRecent'
    BY <1>1, <1>2 DEF AnalyticsInv, ViewsSafe, PendingRecent
  <1>9. AllAccounted'
    <2>1. \A v \in Views : Accounted(v) => Accounted(v)'
      BY <1>1 DEF Accounted
    <2> QED  BY <2>1 DEF AnalyticsInv, ViewsSafe, AllAccounted
  <1>10. \A v \in Lost' : v \in Lost \/ ~Settled(seen[v])
    BY <1>5 DEF AnalyticsInv, ViewsSafe, PendingRecent
  <1>11. \A d \in Days : Settled(d) => Counted(d)' = Counted(d)
    <2>1. seen' \in [Views -> 0 .. LastDay] /\ Lost \subseteq Lost'
      BY DEF AnalyticsInv, AnalyticsTyped
    <2> QED  BY <1>10, <2>1, CountsStay
  <1> QED  BY <1>3, <1>5, <1>7, <1>8, <1>9, <1>11 DEF ViewsSafe

\* The same without a roll-up.
LEMMA ViewsMoveInv ==
    ASSUME AnalyticsInv, NEW s \in Servers, NEW moved \in SUBSET PendingOf(s), NEW x, ProcessOK(x),
           server' = [server EXCEPT ![s] = x],
           x.channel \cap x.buffer = {}, x.channel \cup x.buffer = PendingOf(s) \ moved,
           x.lastRolled \in {server[s].lastRolled, 0}, upsets' \in 0 .. MaxUpsets,
           \/ events' = events \cup moved /\ Lost' = Lost
           \/ Lost' = Lost \cup moved /\ events' = events,
           UNCHANGED <<time, seen, table, lease, roll, spoilt>>
    PROVE  AnalyticsInv'
  <1>1. /\ server'[s] = x /\ \A q \in Servers : q # s => server'[q] = server[q]
        /\ server' \in [Servers -> Processes] /\ \A q \in Servers : ProcessOK(server'[q])
    BY ProcessGoesTo DEF AnalyticsInv
  <1>2. PendingOf(s)' = PendingOf(s) \ moved
    BY <1>1 DEF PendingOf
  <1>3. /\ ViewsSafe' /\ \A d \in Days : Settled(d) => Counted(d)' = Counted(d)
        /\ events' \in SUBSET Views /\ Lost' \in SUBSET Views
    BY <1>1, <1>2, ViewsMove
  <1>4. AnalyticsTyped'
    BY <1>1, <1>3 DEF AnalyticsInv, AnalyticsTyped, RollupOK, Rolling
  <1>5. \A q \in Servers : server'[q].lastRolled \in {server[q].lastRolled, 0}
    BY <1>1
  <1> QED  BY <1>3, <1>4, <1>5, RollupsStay DEF AnalyticsInv

LEMMA EmptyIsFinite ==
    IsFiniteSet({}) /\ Cardinality({}) <= ChannelBuffer /\ Cardinality({}) < BatchSize
  <1>1. IsFiniteSet({}) /\ Cardinality({}) = 0
    BY FS_EmptySet
  <1> QED  BY <1>1, AnalyticsAssumption

LEMMA ReceiveInv ==
    ASSUME AnalyticsInv, NEW s \in Servers, NEW v \in Views, Receive(s, v)
    PROVE  AnalyticsInv'
  <1> DEFINE batch == server[s].buffer \cup {v}
             full == [server[s] EXCEPT !.channel = @ \ {v}, !.buffer = {}]
             more == [server[s] EXCEPT !.channel = @ \ {v}, !.buffer = batch]
  <1>1. /\ ProcessOK(server[s]) /\ server[s] \in Processes /\ server \in [Servers -> Processes]
        /\ server[s].stage # "down" /\ v \in server[s].channel /\ upsets \in 0 .. MaxUpsets /\ MaxUpsets \in Nat
        /\ server[s].channel \cap server[s].buffer = {}
        /\ UNCHANGED <<time, seen, table, lease, roll, spoilt>>
    BY AnalyticsAssumption DEF AnalyticsInv, AnalyticsTyped, ProcessOK, Receive, ViewsSafe, ViewsApart
  <1>2. /\ IsFiniteSet(server[s].channel \ {v}) /\ Cardinality(server[s].channel \ {v}) <= ChannelBuffer
        /\ IsFiniteSet(batch) /\ Cardinality(batch) \in Nat
    <2>1. IsFiniteSet(server[s].channel) /\ IsFiniteSet(server[s].buffer)
      BY <1>1 DEF ProcessOK
    <2>2. /\ IsFiniteSet(server[s].channel \ {v})
          /\ Cardinality(server[s].channel \ {v}) = Cardinality(server[s].channel) - 1
      BY <1>1, <2>1, FS_RemoveElement
    <2>3. IsFiniteSet(batch)
      BY <2>1, FS_AddElement
    <2>4. Cardinality(server[s].channel) \in Nat /\ Cardinality(batch) \in Nat
      BY <2>1, <2>3, FS_CardinalityType
    <2> QED  BY <1>1, <2>2, <2>3, <2>4, AnalyticsAssumption DEF ProcessOK
  <1>3. CASE Cardinality(batch) >= BatchSize
    <2>1. /\ full \in Processes /\ full.channel = server[s].channel \ {v} /\ full.buffer = {}
          /\ full.lastRolled = server[s].lastRolled /\ full.stage = server[s].stage
      BY <1>1 DEF Processes
    <2>2. ProcessOK(full)
      BY <1>1, <1>2, <2>1, EmptyIsFinite DEF ProcessOK
    <2>3. batch \in SUBSET PendingOf(s) /\ full.channel \cup full.buffer = PendingOf(s) \ batch
      BY <1>1, <2>1 DEF PendingOf
    <2>4. server' = [server EXCEPT ![s] = full]
      BY <1>1, <1>3 DEF Receive
    <2>5. /\ upsets' \in 0 .. MaxUpsets
          /\ \/ events' = events \cup batch /\ Lost' = Lost
             \/ Lost' = Lost \cup batch /\ events' = events
      BY <1>1, <1>3 DEF Receive, InsertEvents, Upset, Lost
    <2> HIDE DEF full, batch
    <2> QED  BY <1>1, <2>1, <2>2, <2>3, <2>4, <2>5, ViewsMoveInv
  <1>4. CASE ~(Cardinality(batch) >= BatchSize)
    <2>1. /\ more \in Processes /\ more.channel = server[s].channel \ {v} /\ more.buffer = batch
          /\ more.lastRolled = server[s].lastRolled /\ more.stage = server[s].stage
      BY <1>1 DEF Processes
    <2>2. ProcessOK(more)
      BY <1>1, <1>2, <1>4, <2>1, AnalyticsAssumption DEF ProcessOK
    <2>3. /\ more.channel \cup more.buffer = PendingOf(s) \ {} /\ more.channel \cap more.buffer = {}
          /\ {} \in SUBSET PendingOf(s)
      BY <1>1, <2>1 DEF PendingOf
    <2>4. server' = [server EXCEPT ![s] = more]
      BY <1>1, <1>4 DEF Receive, Lost
    <2>5. upsets' \in 0 .. MaxUpsets /\ events' = events \cup {} /\ Lost' = Lost
      BY <1>1, <1>4 DEF Receive, Lost
    <2> HIDE DEF more, batch
    <2> QED  BY <1>1, <2>1, <2>2, <2>3, <2>4, <2>5, ViewsMoveInv
  <1> QED  BY <1>3, <1>4

LEMMA FlushByTimerInv ==
    ASSUME AnalyticsInv, NEW s \in Servers, FlushByTimer(s)
    PROVE  AnalyticsInv'
  <1> DEFINE x == [server[s] EXCEPT !.buffer = {}]
             moved == server[s].buffer
  <1>1. /\ ProcessOK(server[s]) /\ server[s] \in Processes /\ server \in [Servers -> Processes]
        /\ server[s].channel \cap server[s].buffer = {}
        /\ upsets \in 0 .. MaxUpsets /\ MaxUpsets \in Nat
        /\ UNCHANGED <<time, seen, table, lease, roll, spoilt>>
    BY AnalyticsAssumption DEF AnalyticsInv, AnalyticsTyped, ProcessOK, FlushByTimer, ViewsSafe, ViewsApart
  <1>2. /\ x \in Processes /\ x.channel = server[s].channel /\ x.buffer = {}
        /\ x.lastRolled = server[s].lastRolled /\ x.stage = server[s].stage
        /\ x.stage # "down"
    BY <1>1 DEF Processes, FlushByTimer
  <1>3. ProcessOK(x)
    BY <1>1, <1>2, EmptyIsFinite DEF ProcessOK
  <1>4. moved \in SUBSET PendingOf(s) /\ x.channel \cup x.buffer = PendingOf(s) \ moved
    BY <1>1, <1>2 DEF PendingOf
  <1>5. server' = [server EXCEPT ![s] = x]
    BY <1>1 DEF FlushByTimer
  <1>6. /\ upsets' \in 0 .. MaxUpsets
        /\ \/ events' = events \cup moved /\ Lost' = Lost
           \/ Lost' = Lost \cup moved /\ events' = events
    BY <1>1 DEF FlushByTimer, InsertEvents, Upset, Lost
  <1> HIDE DEF x, moved
  <1> QED  BY <1>1, <1>2, <1>3, <1>4, <1>5, <1>6, ViewsMoveInv

LEMMA DownOK ==
    /\ ProcessOK(Down) /\ Down.channel = {} /\ Down.buffer = {} /\ Down.lastRolled = 0
    /\ ProcessOK(Started) /\ Started.channel = {} /\ Started.buffer = {} /\ Started.lastRolled = 0
  <1>1. LastDay \in Nat
    BY AnalyticsAssumption
  <1>2. Down \in Processes /\ Down.channel = {} /\ Down.buffer = {} /\ Down.lastRolled = 0
    BY <1>1 DEF Down, Processes
  <1>3. Started \in Processes /\ Started.channel = {} /\ Started.buffer = {} /\ Started.lastRolled = 0
    BY <1>2 DEF Started, Processes
  <1> QED  BY <1>2, <1>3, EmptyIsFinite DEF ProcessOK

LEMMA ExitInv ==
    ASSUME AnalyticsInv, NEW s \in Servers, Exit(s)
    PROVE  AnalyticsInv'
  <1> DEFINE moved == server[s].buffer
  <1>1. /\ server[s].channel = {} /\ server' = [server EXCEPT ![s] = Down]
        /\ upsets \in 0 .. MaxUpsets /\ MaxUpsets \in Nat
        /\ UNCHANGED <<time, seen, table, lease, roll, spoilt>>
    BY AnalyticsAssumption DEF AnalyticsInv, AnalyticsTyped, Exit, Drained
  <1>2. moved \in SUBSET PendingOf(s) /\ Down.channel \cup Down.buffer = PendingOf(s) \ moved
    BY <1>1, DownOK DEF PendingOf
  <1>3. /\ upsets' \in 0 .. MaxUpsets
        /\ \/ events' = events \cup moved /\ Lost' = Lost
           \/ Lost' = Lost \cup moved /\ events' = events
    BY <1>1 DEF Exit, InsertEvents, Upset, Lost
  <1> HIDE DEF moved
  <1> QED  BY <1>1, <1>2, <1>3, DownOK, ViewsMoveInv

LEMMA StartInv ==
    ASSUME AnalyticsInv, NEW s \in Servers, Start(s)
    PROVE  AnalyticsInv'
  <1>1. /\ server' = [server EXCEPT ![s] = Started] /\ upsets' \in 0 .. MaxUpsets
        /\ events' = events \cup {} /\ Lost' = Lost
        /\ UNCHANGED <<time, seen, table, lease, roll, spoilt>>
    BY DEF AnalyticsInv, AnalyticsTyped, Start, Lost
  <1>2. {} \in SUBSET PendingOf(s) /\ Started.channel \cup Started.buffer = PendingOf(s) \ {}
    BY DownOK DEF PendingOf, Start, AnalyticsInv, AnalyticsTyped, ProcessOK
  <1> QED  BY <1>1, <1>2, DownOK, ViewsMoveInv
-----------------------------------------------------------------------------
(* Roll-ups.                                                               *)

LEMMA RollupGoesTo ==
    ASSUME AnalyticsTyped, NEW r \in Rollers, NEW x \in Rollups, roll' = [roll EXCEPT ![r] = x]
    PROVE  /\ roll' \in [Rollers -> Rollups] /\ roll'[r] = x
           /\ \A q \in Rollers : q # r => roll'[q] = roll[q]
  BY DEF AnalyticsTyped

LEMMA NotRollingTyped == NotRolling \in Rollups /\ NotRolling.next = 0
  <1>1. LastDay \in Nat /\ LastTable \in Nat
    BY AnalyticsAssumption
  <1> QED  BY <1>1 DEF NotRolling, Rollups

\* What is read of a settled day that the retention has not reached is what counts.
LEMMA ReadIsCounted ==
    ASSUME AnalyticsInv, NEW d \in Days, Settled(d), d > time.day - Retention
    PROVE  AggregateDay(d) = Counted(d)
  <1>1. \A v \in Views : seen[v] = d => v \in events \/ v \in Lost
    <2> SUFFICES ASSUME NEW v \in Views, seen[v] = d
                 PROVE  v \in events \/ v \in Lost
      OBVIOUS
    <2>1. Accounted(v)
      BY DEF AnalyticsInv, ViewsSafe, AllAccounted, Days
    <2>2. \A s \in Servers : v \notin PendingOf(s)
      BY DEF AnalyticsInv, ViewsSafe, PendingRecent
    <2>3. ~(seen[v] <= time.day - Retention)
      BY TimeFacts DEF AnalyticsInv, Days
    <2> QED  BY <2>1, <2>2, <2>3 DEF Accounted
  <1>2. events \cap Lost = {}
    BY DEF AnalyticsInv, ViewsSafe, ViewsApart
  <1> QED  BY <1>1, <1>2, AnalyticsAssumption DEF AggregateDay, Counted, OfDay

\* A roll-up ends, or nothing was in progress; one that did not get to the end spoils its day.
LEMMA RollupEnds ==
    ASSUME AnalyticsInv, NEW r \in Rollers, EndRollup(r), UNCHANGED <<time, table, lease>>,
           spoilt \subseteq spoilt', roll[r].next \in Tables => roll[r].day \in spoilt',
           \A d \in Days : Settled(d) => Counted(d)' = Counted(d),
           \A s \in Servers :
                \/ server'[s].lastRolled \in {server[s].lastRolled, 0}
                \/ s = r /\ Rolling(s) /\ server'[s].lastRolled = roll[s].day
    PROVE  RollupsSafe' /\ roll' \in [Rollers -> Rollups] /\ \A q \in Rollers : RollupOK(q)'
  <1>1. /\ roll' \in [Rollers -> Rollups] /\ roll'[r] = NotRolling
        /\ \A q \in Rollers : q # r => roll'[q] = roll[q]
    BY NotRollingTyped, RollupGoesTo DEF AnalyticsInv, EndRollup
  <1>2. \A q \in Rollers : Rolling(q)' => q # r /\ Rolling(q) /\ roll'[q] = roll[q]
    BY <1>1 DEF Rolling
  <1>3. Yesterday' = Yesterday /\ Yesterday \in Nat /\ \A d : Settled(d)' <=> Settled(d)
    BY TimeFacts DEF Yesterday, Settled, AnalyticsInv
  <1>4. \A q \in Rollers : RollupOK(q)'
    BY <1>2 DEF RollupOK, AnalyticsInv, AnalyticsTyped
  <1>5. RollupsRight'
    <2>1. \A q \in Rollers : Rolling(q) => roll[q].day \in Days
      BY DEF AnalyticsInv, AnalyticsTyped, RollupOK
    <2>2. \A s \in Servers : Rolling(s)' => time.late' /\ roll'[s].day = Yesterday' /\ lease' = s
      BY <1>2, <1>3, ServersRoll DEF AnalyticsInv, RollupsSafe, RollupsRight
    <2>3. \A q \in Rollers : Rolling(q)' /\ Settled(roll[q].day) /\ roll[q].day \notin spoilt' =>
              roll'[q].read = Counted(roll[q].day)'
      BY <1>2, <2>1 DEF AnalyticsInv, RollupsSafe, RollupsRight
    <2> QED  BY <1>2, <1>3, <2>2, <2>3 DEF RollupsRight
  <1>6. YesterdayRolled'
    <2>1. YesterdayTaken' => YesterdayTaken
      <3>1. \A s \in Servers : Rolling(s) => lease # NoServer
        BY AnalyticsAssumption DEF AnalyticsInv, RollupsSafe, RollupsRight
      <3> QED  BY <3>1, <1>3 DEF YesterdayTaken, Days
    <2>2. YesterdayTaken => Counted(Yesterday)' = Counted(Yesterday)
      BY <1>3 DEF YesterdayTaken, Settled
    <2>3. ASSUME NEW t \in Tables, YesterdayTaken', TableRolled(t)
          PROVE  TableRolled(t)'
      <3>1. CASE table[t][Yesterday] = Counted(Yesterday)
        BY <2>1, <2>2, <2>3, <3>1, <1>3 DEF TableRolled
      <3>2. ASSUME NEW s \in Servers, Rolling(s), roll[s].next <= t
            PROVE  TableRolled(t)'
        <4>1. s # r
          <5>1. ASSUME s = r  PROVE FALSE
            <6>1. roll[r].next \in Tables
              BY <3>2, <5>1, <2>3, ServersRoll, TimeFacts DEF AnalyticsInv, AnalyticsTyped, RollupOK, Tables
            <6>2. roll[r].day = Yesterday
              BY <3>2, <5>1 DEF AnalyticsInv, RollupsSafe, RollupsRight
            <6> QED  BY <6>1, <6>2, <2>3, <1>3 DEF YesterdayTaken
          <5> QED  BY <5>1
        <4>2. Rolling(s)' /\ roll'[s].next <= t
          BY <3>2, <4>1, <1>1, ServersRoll DEF Rolling
        <4> QED  BY <4>2 DEF TableRolled
      <3> QED  BY <2>3, <3>1, <3>2 DEF TableRolled
    <2> QED  BY <2>1, <2>3 DEF AnalyticsInv, RollupsSafe, YesterdayRolled
  <1>7. NothingEarly'
    <2>1. \A s \in Servers : Rolling(s) => roll[s].day = Yesterday /\ time.late
      BY DEF AnalyticsInv, RollupsSafe, RollupsRight
    <2> QED  BY <1>3, <2>1 DEF AnalyticsInv, RollupsSafe, NothingEarly
  <1>8. HistoryIsComplete'
    <2>1. \A d \in Days \ spoilt : d < Yesterday => \A t \in Tables : table[t][d] = Counted(d)
      BY DEF AnalyticsInv, RollupsSafe, HistoryIsComplete, Counted
    <2>2. \A d \in Days \ spoilt' : d < Yesterday => \A t \in Tables : table[t][d] = Counted(d)'
      BY <2>1 DEF Settled
    <2> QED  BY <2>2, <1>3 DEF HistoryIsComplete, Counted
  <1> QED  BY <1>1, <1>4, <1>5, <1>6, <1>7, <1>8 DEF RollupsSafe

LEMMA TickInv ==
    ASSUME AnalyticsInv, NEW s \in Servers, Tick(s)
    PROVE  AnalyticsInv'
  <1>1. /\ ~Rolling(s) /\ time.late /\ server[s].lastRolled # Yesterday
        /\ UNCHANGED <<time, seen, events, table, upsets, Lost, spoilt>>
    BY DEF Tick, Due, Lost
  <1>2. Yesterday \in Days /\ Yesterday < time.day /\ Settled(Yesterday)
    <2>1. server[s].lastRolled \in 0 .. LastDay /\ server[s].lastRolled <= Yesterday
      BY DEF AnalyticsInv, AnalyticsTyped, Processes, RollupsSafe, NothingEarly
    <2> QED  BY <1>1, <2>1, TimeFacts DEF AnalyticsInv, Days, Settled
  <1>3. Yesterday' = Yesterday /\ \A d : Settled(d)' <=> Settled(d)
    BY <1>1 DEF Yesterday, Settled
  <1>4. CASE lease = NoServer
    <2> DEFINE x == [day |-> Yesterday, next |-> 1, read |-> AggregateDay(Yesterday)]
    <2>1. /\ lease' = s /\ roll' = [roll EXCEPT ![s] = x] /\ server' = server
      BY <1>4 DEF Tick, StartRollup
    <2>2. /\ x \in Rollups /\ x.day = Yesterday /\ x.next = 1 /\ x.read = AggregateDay(Yesterday)
      BY <1>2, TimeFacts DEF Rollups, Days, AggregateDay, AnalyticsInv, AnalyticsTyped, OfDay
    <2> HIDE DEF x
    <2>3. ViewsSafe' /\ \A d : Counted(d)' = Counted(d)
      BY <1>1, <2>1, ViewsStay
    <2>4. x.read = Counted(Yesterday)
      BY <1>2, <2>2, ReadIsCounted, TimeFacts DEF AnalyticsInv
    <2>5. /\ roll' \in [Rollers -> Rollups] /\ roll'[s] = x
          /\ \A q \in Rollers : q # s => roll'[q] = roll[q]
      BY <2>1, <2>2, RollupGoesTo, ServersRoll DEF AnalyticsInv
    <2>6. Rolling(s)' /\ \A q \in Rollers : q # s => (Rolling(q)' <=> Rolling(q))
      BY <2>2, <2>5, NotRollingTyped DEF Rolling
    <2>7. \A q \in Servers : q # s => ~Rolling(q)'
      BY <2>6, <1>4, ServersRoll, AnalyticsAssumption DEF AnalyticsInv, RollupsSafe, RollupsRight
    <2>8. AnalyticsTyped'
      <3>1. \A q \in Rollers : RollupOK(q)'
        BY <1>1, <1>2, <2>2, <2>5, <2>6, ServersRoll, TimeFacts
        DEF AnalyticsInv, AnalyticsTyped, RollupOK
      <3> QED  BY <1>1, <2>1, <2>5, <3>1 DEF AnalyticsInv, AnalyticsTyped
    <2>9. RollupsRight'
      <3>1. \A q \in Servers : Rolling(q)' => time.late' /\ roll'[q].day = Yesterday' /\ lease' = q
        BY <1>1, <1>3, <2>1, <2>2, <2>5, <2>7
      <3>2. \A q \in Rollers : Rolling(q)' /\ Settled(roll'[q].day) /\ roll'[q].day \notin spoilt =>
                roll'[q].read = Counted(roll'[q].day)
        BY <2>2, <2>4, <2>5, <2>6 DEF AnalyticsInv, RollupsSafe, RollupsRight
      <3> QED  BY <1>1, <1>3, <2>3, <3>1, <3>2 DEF RollupsRight
    <2>10. YesterdayRolled'
      <3>1. \A t \in Tables : TableRolled(t)'
        BY <2>2, <2>5, <2>6 DEF TableRolled, Tables
      <3> QED  BY <3>1 DEF YesterdayRolled
    <2>11. NothingEarly' /\ HistoryIsComplete'
      <3>1. NothingEarly'
        BY <1>1, <1>3, <2>1 DEF AnalyticsInv, RollupsSafe, NothingEarly
      <3>2. HistoryIsComplete'
        BY <1>1, <1>3 DEF AnalyticsInv, RollupsSafe, HistoryIsComplete, OfDay
      <3> QED  BY <3>1, <3>2
    <2> QED  BY <2>3, <2>8, <2>9, <2>10, <2>11 DEF AnalyticsInv, RollupsSafe
  <1>5. CASE lease # NoServer
    <2> DEFINE x == [server[s] EXCEPT !.lastRolled = Yesterday]
    <2>1. /\ ProcessOK(server[s]) /\ server[s] \in Processes /\ server \in [Servers -> Processes]
          /\ server' = [server EXCEPT ![s] = x] /\ UNCHANGED <<lease, roll>>
      BY <1>5 DEF Tick, AnalyticsInv, AnalyticsTyped, ProcessOK
    <2>2. /\ x \in Processes /\ x.channel = server[s].channel /\ x.buffer = server[s].buffer
          /\ x.lastRolled = Yesterday /\ x.stage = server[s].stage
      BY <2>1, <1>2 DEF Processes, Days
    <2>3. ProcessOK(x)
      BY <2>1, <2>2 DEF ProcessOK
    <2> HIDE DEF x
    <2>4. /\ server'[s] = x /\ \A q \in Servers : q # s => server'[q] = server[q]
          /\ server' \in [Servers -> Processes] /\ \A q \in Servers : ProcessOK(server'[q])
      BY <2>1, <2>3, ProcessGoesTo DEF AnalyticsInv
    <2>5. ViewsSafe' /\ \A d : Counted(d)' = Counted(d)
      BY <1>1, <2>2, <2>4, ViewsStay
    <2>6. AnalyticsTyped'
      BY <1>1, <2>1, <2>4 DEF AnalyticsInv, AnalyticsTyped, RollupOK, Rolling
    <2>7. \A q : Rolling(q)' <=> Rolling(q)
      BY <2>1 DEF Rolling
    <2>8. RollupsRight'
      BY <1>1, <1>3, <2>1, <2>5, <2>7 DEF AnalyticsInv, RollupsSafe, RollupsRight
    <2>9. YesterdayRolled'
      <3>1. YesterdayTaken' => YesterdayTaken
        BY <1>1, <1>3, <1>5, <2>4 DEF YesterdayTaken
      <3>2. \A t : TableRolled(t) => TableRolled(t)'
        BY <1>1, <1>3, <2>1, <2>5, <2>7 DEF TableRolled
      <3> QED  BY <3>1, <3>2 DEF AnalyticsInv, RollupsSafe, YesterdayRolled
    <2>10. NothingEarly'
      BY <1>1, <1>2, <1>3, <2>1, <2>2, <2>4, TimeFacts DEF AnalyticsInv, RollupsSafe, NothingEarly
    <2>11. HistoryIsComplete'
      BY <1>1, <1>3 DEF AnalyticsInv, RollupsSafe, HistoryIsComplete, OfDay
    <2> QED  BY <2>5, <2>6, <2>8, <2>9, <2>10, <2>11 DEF AnalyticsInv, RollupsSafe
  <1> QED  BY <1>4, <1>5

LEMMA WriteTableInv ==
    ASSUME AnalyticsInv, NEW r \in Rollers, WriteTable(r)
    PROVE  AnalyticsInv'
  <1> DEFINE n == roll[r].next
             day == roll[r].day
  <1>1. /\ n \in Tables /\ table' = [table EXCEPT ![n][day] = roll[r].read]
        /\ UNCHANGED <<time, seen, server, events, lease, upsets, Lost, spoilt>>
    BY DEF WriteTable, Lost
  <1>2. /\ Rolling(r) /\ roll[r] \in Rollups /\ roll \in [Rollers -> Rollups]
        /\ day \in Days /\ day <= time.day /\ n \in Nat /\ roll[r].read \in SUBSET Views
    <2>1. Rolling(r) /\ roll[r] \in Rollups
      BY <1>1, Rollings DEF AnalyticsInv, Tables
    <2> QED  BY <1>1, <2>1 DEF AnalyticsInv, AnalyticsTyped, RollupOK, Rollups, Tables
  <1>3. table \in [Tables -> [Days -> SUBSET Views]]
    BY DEF AnalyticsInv, AnalyticsTyped
  <1>4. /\ table' \in [Tables -> [Days -> SUBSET Views]]
        /\ \A t \in Tables, d \in Days :
                table'[t][d] = IF t = n /\ d = day THEN roll[r].read ELSE table[t][d]
    BY <1>1, <1>2, <1>3
  <1>5. /\ roll' \in [Rollers -> Rollups] /\ \A q \in Rollers : q # r => roll'[q] = roll[q]
        /\ \/ ~Rolling(r)' /\ r = Admin
           \/ /\ Rolling(r)' /\ roll'[r].day = day /\ roll'[r].read = roll[r].read
              /\ roll'[r].next = n + 1 /\ (r = Admin => n # LastTable)
    <2>1. CASE r = Admin /\ n = LastTable
      <3>1. roll' = [roll EXCEPT ![r] = NotRolling]
        BY <2>1 DEF WriteTable, EndRollup
      <3>2. /\ roll' \in [Rollers -> Rollups] /\ roll'[r] = NotRolling
            /\ \A q \in Rollers : q # r => roll'[q] = roll[q]
        BY <3>1, NotRollingTyped, RollupGoesTo DEF AnalyticsInv
      <3> QED  BY <3>2, <2>1, ServersRoll DEF Rolling
    <2>2. CASE ~(r = Admin /\ n = LastTable)
      <3> DEFINE x == [roll[r] EXCEPT !.next = @ + 1]
      <3>1. roll' = [roll EXCEPT ![r] = x]
        BY <2>2, <1>2 DEF WriteTable
      <3>2. x \in Rollups /\ x.day = day /\ x.read = roll[r].read /\ x.next = n + 1
        BY <1>1, <1>2, TimeFacts DEF Rollups, Tables, AnalyticsInv
      <3> HIDE DEF x
      <3>3. /\ roll' \in [Rollers -> Rollups] /\ roll'[r] = x
            /\ \A q \in Rollers : q # r => roll'[q] = roll[q]
        BY <3>1, <3>2, RollupGoesTo DEF AnalyticsInv
      <3>4. Rolling(r)'
        BY <3>2, <3>3, <1>2, NotRollingTyped DEF Rolling
      <3> QED  BY <2>2, <3>2, <3>3, <3>4
    <2> QED  BY <2>1, <2>2
  <1> HIDE DEF n, day
  <1>6. Settled(day) /\ day \notin spoilt => roll[r].read = Counted(day)
    BY <1>2 DEF AnalyticsInv, RollupsSafe, RollupsRight, day
  <1>7. Yesterday' = Yesterday /\ Yesterday \in Nat /\ \A d : Settled(d)' <=> Settled(d)
    BY <1>1, TimeFacts DEF Yesterday, Settled, AnalyticsInv
  <1>8. \A q \in Rollers : q # r => (Rolling(q)' <=> Rolling(q))
    BY <1>5 DEF Rolling
  <1>9. ViewsSafe' /\ \A d : Counted(d)' = Counted(d)
    BY <1>1, ViewsStay
  <1>10. AnalyticsTyped'
    <2>1. \A q \in Rollers : q # r => RollupOK(q)'
      BY <1>1, <1>5, <1>8 DEF AnalyticsInv, AnalyticsTyped, RollupOK
    <2>2. RollupOK(r)'
      <3>1. n \in 1 .. LastTable /\ LastTable \in Nat /\ time'.day = time.day
        BY <1>1, TimeFacts DEF Tables, AnalyticsInv
      <3>2. n + 1 \in 1 .. LastTable + 1 /\ (n # LastTable => n + 1 \in 1 .. LastTable)
        BY <3>1
      <3> QED  BY <1>2, <1>5, <3>1, <3>2 DEF RollupOK, Tables
    <2> QED  BY <1>1, <1>4, <1>5, <2>1, <2>2 DEF AnalyticsInv, AnalyticsTyped
  <1>11. RollupsRight'
    <2>0. \A q \in Rollers : Rolling(q)' =>
              Rolling(q) /\ roll'[q].day = roll[q].day /\ roll'[q].read = roll[q].read
      BY <1>2, <1>5, <1>8 DEF day
    <2>1. \A s \in Servers : Rolling(s)' => time.late' /\ roll'[s].day = Yesterday' /\ lease' = s
      BY <1>1, <1>7, <2>0, ServersRoll DEF AnalyticsInv, RollupsSafe, RollupsRight
    <2>2. \A q \in Rollers : Rolling(q)' /\ Settled(roll'[q].day) /\ roll'[q].day \notin spoilt =>
              roll'[q].read = Counted(roll'[q].day)
      BY <2>0 DEF AnalyticsInv, RollupsSafe, RollupsRight
    <2> QED  BY <1>1, <1>7, <1>9, <2>1, <2>2 DEF RollupsRight
  <1>12. YesterdayRolled'
    <2>1. YesterdayTaken' => YesterdayTaken
      BY <1>1, <1>7 DEF YesterdayTaken
    <2>2. ASSUME NEW t \in Tables, YesterdayTaken, TableRolled(t)
          PROVE  TableRolled(t)'
      <3>1. Yesterday \in Days \ spoilt /\ Settled(Yesterday)
        BY <2>2 DEF YesterdayTaken, Settled
      <3>2. t = n /\ day = Yesterday => table'[t][Yesterday] = Counted(Yesterday)
        BY <1>4, <1>6, <3>1
      <3>3. CASE table[t][Yesterday] = Counted(Yesterday)
        <4>1. table'[t][Yesterday] = Counted(Yesterday)
          BY <1>4, <1>6, <3>1, <3>3
        <4> QED  BY <4>1, <1>7, <1>9 DEF TableRolled
      <3>4. ASSUME NEW s \in Servers, Rolling(s), roll[s].next <= t
            PROVE  TableRolled(t)'
        <4>1. CASE s # r
          <5>1. Rolling(s)' /\ roll'[s].next <= t
            BY <3>4, <4>1, <1>5, <1>8, ServersRoll
          <5> QED  BY <5>1 DEF TableRolled
        <4>2. CASE s = r /\ t # n
          <5>1. Rolling(s)' /\ roll'[s].next <= t
            BY <3>4, <4>2, <1>2, <1>5, ServersRoll DEF n, Tables
          <5> QED  BY <5>1 DEF TableRolled
        <4>3. CASE s = r /\ t = n
          <5>1. day = Yesterday
            BY <3>4, <4>3 DEF AnalyticsInv, RollupsSafe, RollupsRight, day
          <5> QED  BY <5>1, <4>3, <3>2, <1>7, <1>9 DEF TableRolled
        <4> QED  BY <4>1, <4>2, <4>3
      <3> QED  BY <2>2, <3>3, <3>4 DEF TableRolled
    <2> QED  BY <2>1, <2>2 DEF AnalyticsInv, RollupsSafe, YesterdayRolled
  <1>13. NothingEarly'
    BY <1>1, <1>7 DEF AnalyticsInv, RollupsSafe, NothingEarly
  <1>14. HistoryIsComplete'
    <2>1. \A d \in Days \ spoilt : d < Yesterday => \A t \in Tables : table[t][d] = Counted(d)
      BY DEF AnalyticsInv, RollupsSafe, HistoryIsComplete, Counted
    <2>2. \A d \in Days \ spoilt : d < Yesterday => \A t \in Tables : table'[t][d] = Counted(d)
      BY <2>1, <1>4, <1>6 DEF Settled
    <2> QED  BY <2>2, <1>1, <1>7, <1>9 DEF HistoryIsComplete, Counted
  <1> QED  BY <1>9, <1>10, <1>11, <1>12, <1>13, <1>14 DEF AnalyticsInv, RollupsSafe

LEMMA RollupFailsInv ==
    ASSUME AnalyticsInv, NEW r \in Rollers, RollupFails(r)
    PROVE  AnalyticsInv'
  <1>1. /\ roll[r].next \in Tables /\ spoilt' = spoilt \cup {roll[r].day} /\ EndRollup(r)
        /\ UNCHANGED <<time, seen, server, events, table, lease, Lost>> /\ upsets' \in 0 .. MaxUpsets
    BY AnalyticsAssumption DEF RollupFails, Upset, Lost, AnalyticsInv, AnalyticsTyped
  <1>2. ViewsSafe' /\ \A d : Counted(d)' = Counted(d)
    BY <1>1, ViewsStay
  <1>3. RollupsSafe' /\ roll' \in [Rollers -> Rollups] /\ \A q \in Rollers : RollupOK(q)'
    BY <1>1, <1>2, RollupEnds
  <1>4. spoilt' \in SUBSET Days
    BY <1>1, Rollings DEF AnalyticsInv, AnalyticsTyped, RollupOK, Tables
  <1>5. AnalyticsTyped'
    BY <1>1, <1>3, <1>4 DEF AnalyticsInv, AnalyticsTyped
  <1> QED  BY <1>2, <1>3, <1>5 DEF AnalyticsInv

\* The process that has rolled up takes the day for done.
LEMMA DoneWith ==
    ASSUME AnalyticsInv, NEW s \in Servers, roll[s].next = LastTable + 1,
           server' = [server EXCEPT ![s].lastRolled = roll[s].day], EndRollup(s),
           UNCHANGED <<time, table, lease, spoilt>>,
           \A d \in Days : Settled(d) => Counted(d)' = Counted(d)
    PROVE  /\ RollupsSafe' /\ roll' \in [Rollers -> Rollups] /\ \A q \in Rollers : RollupOK(q)'
           /\ server' \in [Servers -> Processes] /\ \A q \in Servers : ProcessOK(server'[q])
           /\ \A q \in Servers : /\ server'[q].channel = server[q].channel
                                  /\ server'[q].buffer = server[q].buffer
  <1> DEFINE x == [server[s] EXCEPT !.lastRolled = roll[s].day]
  <1>1. Rolling(s) /\ roll[s].day \in Days /\ roll[s].next \notin Tables /\ s \in Rollers
    BY Rollings, TimeFacts, ServersRoll DEF AnalyticsInv, AnalyticsTyped, RollupOK, Tables
  <1>2. /\ ProcessOK(server[s]) /\ server[s] \in Processes /\ server \in [Servers -> Processes]
        /\ server' = [server EXCEPT ![s] = x]
    BY DEF AnalyticsInv, AnalyticsTyped, ProcessOK
  <1>3. /\ x \in Processes /\ x.channel = server[s].channel /\ x.buffer = server[s].buffer
        /\ x.lastRolled = roll[s].day /\ x.stage = server[s].stage
    BY <1>1, <1>2 DEF Processes, Days
  <1>4. ProcessOK(x)
    BY <1>2, <1>3 DEF ProcessOK
  <1> HIDE DEF x
  <1>5. /\ server'[s] = x /\ \A q \in Servers : q # s => server'[q] = server[q]
        /\ server' \in [Servers -> Processes] /\ \A q \in Servers : ProcessOK(server'[q])
    BY <1>2, <1>4, ProcessGoesTo DEF AnalyticsInv
  <1>6. RollupsSafe' /\ roll' \in [Rollers -> Rollups] /\ \A q \in Rollers : RollupOK(q)'
    BY <1>1, <1>3, <1>5, RollupEnds
  <1> QED  BY <1>3, <1>5, <1>6

LEMMA CleanupFailsInv ==
    ASSUME AnalyticsInv, NEW s \in Servers, CleanupFails(s)
    PROVE  AnalyticsInv'
  <1>1. /\ roll[s].next = LastTable + 1 /\ server' = [server EXCEPT ![s].lastRolled = roll[s].day]
        /\ EndRollup(s) /\ UNCHANGED <<time, seen, events, table, lease, Lost, spoilt>>
        /\ upsets' \in 0 .. MaxUpsets
    BY AnalyticsAssumption DEF CleanupFails, Upset, Lost, AnalyticsInv, AnalyticsTyped
  <1>2. \A d \in Days : Settled(d) => Counted(d)' = Counted(d)
    BY <1>1 DEF Counted, OfDay
  <1>3. /\ RollupsSafe' /\ roll' \in [Rollers -> Rollups] /\ \A q \in Rollers : RollupOK(q)'
        /\ server' \in [Servers -> Processes] /\ \A q \in Servers : ProcessOK(server'[q])
        /\ \A q \in Servers : /\ server'[q].channel = server[q].channel
                               /\ server'[q].buffer = server[q].buffer
    BY <1>1, <1>2, DoneWith
  <1>4. ViewsSafe'
    BY <1>1, <1>3, ViewsStay
  <1>5. AnalyticsTyped'
    BY <1>1, <1>3 DEF AnalyticsInv, AnalyticsTyped
  <1> QED  BY <1>3, <1>4, <1>5 DEF AnalyticsInv

\* Only events that are as old as the retention go.
LEMMA CleanupInv ==
    ASSUME AnalyticsInv, NEW s \in Servers, Cleanup(s)
    PROVE  AnalyticsInv'
  <1>1. /\ roll[s].next = LastTable + 1 /\ server' = [server EXCEPT ![s].lastRolled = roll[s].day]
        /\ EndRollup(s) /\ UNCHANGED <<time, seen, table, lease, upsets, Lost, spoilt>>
    BY DEF Cleanup, Lost
  <1>2. PICK old \in SUBSET OfDay(time.day - Retention) :
            events' = {v \in events \ old : seen[v] >= time.day - Retention}
    BY DEF Cleanup
  <1>3. \A d \in Days : Settled(d) => Counted(d)' = Counted(d)
    BY <1>1 DEF Counted, OfDay
  <1>4. /\ RollupsSafe' /\ roll' \in [Rollers -> Rollups] /\ \A q \in Rollers : RollupOK(q)'
        /\ server' \in [Servers -> Processes] /\ \A q \in Servers : ProcessOK(server'[q])
        /\ \A q \in Servers : /\ server'[q].channel = server[q].channel
                               /\ server'[q].buffer = server[q].buffer
    BY <1>1, <1>3, DoneWith
  <1>5. AnalyticsTyped'
    BY <1>1, <1>2, <1>4 DEF AnalyticsInv, AnalyticsTyped
  <1>6. \A q \in Servers : PendingOf(q)' = PendingOf(q)
    BY <1>4 DEF PendingOf
  <1>7. \A d : Settled(d)' <=> Settled(d)
    BY <1>1 DEF Settled, Yesterday
  <1>8. ViewsApart'
    BY <1>1, <1>2, <1>4, <1>6 DEF AnalyticsInv, ViewsSafe, ViewsApart
  <1>9. PendingRecent'
    BY <1>1, <1>6, <1>7 DEF AnalyticsInv, ViewsSafe, PendingRecent
  <1>10. AllAccounted'
    <2>1. \A v \in events : v \in events' \/ seen[v] <= time.day - Retention
      <3>1. \A v \in events : seen[v] \in Nat
        BY TimeFacts DEF AnalyticsInv, AnalyticsTyped
      <3> QED  BY <1>2, <3>1, TimeFacts DEF AnalyticsInv, OfDay
    <2>2. \A v \in Views : Accounted(v) => Accounted(v)'
      BY <1>1, <1>6, <2>1 DEF Accounted
    <2> QED  BY <1>1, <2>2 DEF AnalyticsInv, ViewsSafe, AllAccounted
  <1> QED  BY <1>4, <1>5, <1>8, <1>9, <1>10 DEF AnalyticsInv, ViewsSafe

LEMMA BackfillInv ==
    ASSUME AnalyticsInv, NEW d \in Days, Backfill(d)
    PROVE  AnalyticsInv'
  <1> DEFINE x == [day |-> d, next |-> 1, read |-> AggregateDay(d)]
  <1>1. /\ d <= time.day /\ roll' = [roll EXCEPT ![Admin] = x]
        /\ UNCHANGED <<time, seen, server, events, table, lease, upsets, Lost>>
        /\ spoilt' \in SUBSET Days /\ spoilt \subseteq spoilt'
        /\ d <= time.day - Retention => d \in spoilt'
    BY DEF Backfill, StartRollup, Lost, AnalyticsInv, AnalyticsTyped
  <1>2. x \in Rollups /\ x.day = d /\ x.next = 1 /\ x.read = AggregateDay(d)
    BY TimeFacts DEF Rollups, Days, AggregateDay, AnalyticsInv, AnalyticsTyped, OfDay
  <1> HIDE DEF x
  <1>3. Settled(d) /\ d \notin spoilt' => x.read = Counted(d)
    <2>1. d \notin spoilt' => d > time.day - Retention
      BY <1>1, TimeFacts DEF AnalyticsInv, Days
    <2> QED  BY <1>2, <2>1, ReadIsCounted
  <1>4. ViewsSafe' /\ \A e : Counted(e)' = Counted(e)
    BY <1>1, ViewsStay
  <1>5. /\ roll' \in [Rollers -> Rollups] /\ roll'[Admin] = x
        /\ \A q \in Rollers : q # Admin => roll'[q] = roll[q]
    BY <1>1, <1>2, RollupGoesTo, ServersRoll DEF AnalyticsInv
  <1>6. \A q \in Rollers : q # Admin => (Rolling(q)' <=> Rolling(q))
    BY <1>5 DEF Rolling
  <1>7. Yesterday' = Yesterday /\ \A e : Settled(e)' <=> Settled(e)
    BY <1>1 DEF Yesterday, Settled
  <1>8. AnalyticsTyped'
    <2>1. \A q \in Rollers : RollupOK(q)'
      BY <1>1, <1>2, <1>5, <1>6, TimeFacts DEF AnalyticsInv, AnalyticsTyped, RollupOK, Tables
    <2> QED  BY <1>1, <1>5, <2>1 DEF AnalyticsInv, AnalyticsTyped
  <1>9. RollupsRight'
    <2>1. \A s \in Servers : Rolling(s)' => time.late' /\ roll'[s].day = Yesterday' /\ lease' = s
      BY <1>1, <1>5, <1>6, <1>7, ServersRoll DEF AnalyticsInv, RollupsSafe, RollupsRight
    <2>2. \A q \in Rollers : Rolling(q)' /\ Settled(roll'[q].day) /\ roll'[q].day \notin spoilt' =>
              roll'[q].read = Counted(roll'[q].day)
      BY <1>1, <1>2, <1>3, <1>5, <1>6 DEF AnalyticsInv, RollupsSafe, RollupsRight
    <2> QED  BY <1>7, <1>4, <2>1, <2>2 DEF RollupsRight
  <1>10. YesterdayRolled'
    <2>1. YesterdayTaken' => YesterdayTaken
      BY <1>1, <1>7 DEF YesterdayTaken
    <2>2. \A t : TableRolled(t) => TableRolled(t)'
      <3>1. \A s \in Servers : Rolling(s) => Rolling(s)' /\ roll'[s].next = roll[s].next
        BY <1>5, <1>6, ServersRoll
      <3> QED  BY <1>1, <1>4, <1>7, <3>1 DEF TableRolled
    <2> QED  BY <2>1, <2>2 DEF AnalyticsInv, RollupsSafe, YesterdayRolled
  <1>11. NothingEarly'
    BY <1>1, <1>7 DEF AnalyticsInv, RollupsSafe, NothingEarly
  <1>12. HistoryIsComplete'
    BY <1>1, <1>7 DEF AnalyticsInv, RollupsSafe, HistoryIsComplete, OfDay
  <1> QED  BY <1>4, <1>8, <1>9, <1>10, <1>11, <1>12 DEF AnalyticsInv, RollupsSafe

\* A process stops in the middle of whatever it does.
LEMMA Abandoned ==
    ASSUME AnalyticsInv, NEW s \in Servers, Abandon(s), UNCHANGED <<time, table, lease>>,
           \A d \in Days : Settled(d) => Counted(d)' = Counted(d),
           \A q \in Servers : server'[q].lastRolled \in {server[q].lastRolled, 0}
    PROVE  /\ RollupsSafe' /\ roll' \in [Rollers -> Rollups] /\ \A q \in Rollers : RollupOK(q)'
           /\ spoilt' \in SUBSET Days
  <1>1. EndRollup(s) /\ s \in Rollers
    BY ServersRoll DEF Abandon, EndRollup
  <1>2. roll[s].next \in Tables => roll[s].day \in Days
    BY <1>1, Rollings DEF AnalyticsInv, AnalyticsTyped, RollupOK, Tables
  <1>3. /\ spoilt \subseteq spoilt' /\ spoilt' \in SUBSET Days
        /\ roll[s].next \in Tables => roll[s].day \in spoilt'
    BY <1>2 DEF Abandon, AnalyticsInv, AnalyticsTyped
  <1> QED  BY <1>1, <1>3, RollupEnds

LEMMA StopInv ==
    ASSUME AnalyticsInv, NEW s \in Servers, Stop(s)
    PROVE  AnalyticsInv'
  <1> DEFINE x == [server[s] EXCEPT !.stage = "stopping"]
  <1>1. /\ ProcessOK(server[s]) /\ server[s] \in Processes /\ server \in [Servers -> Processes]
        /\ server' = [server EXCEPT ![s] = x] /\ upsets' \in 0 .. MaxUpsets /\ Abandon(s)
        /\ UNCHANGED <<time, seen, events, table, lease, Lost>>
    BY AnalyticsAssumption DEF Stop, Upset, Lost, AnalyticsInv, AnalyticsTyped, ProcessOK
  <1>2. /\ x \in Processes /\ x.channel = server[s].channel /\ x.buffer = server[s].buffer
        /\ x.lastRolled = server[s].lastRolled /\ x.stage = "stopping"
    BY <1>1 DEF Processes
  <1>3. ProcessOK(x)
    BY <1>1, <1>2 DEF ProcessOK
  <1> HIDE DEF x
  <1>4. /\ server'[s] = x /\ \A q \in Servers : q # s => server'[q] = server[q]
        /\ server' \in [Servers -> Processes] /\ \A q \in Servers : ProcessOK(server'[q])
    BY <1>1, <1>3, ProcessGoesTo DEF AnalyticsInv
  <1>5. ViewsSafe' /\ \A d : Counted(d)' = Counted(d)
    BY <1>1, <1>2, <1>4, ViewsStay
  <1>6. /\ RollupsSafe' /\ roll' \in [Rollers -> Rollups] /\ \A q \in Rollers : RollupOK(q)'
        /\ spoilt' \in SUBSET Days
    BY <1>1, <1>2, <1>4, <1>5, Abandoned
  <1>7. AnalyticsTyped'
    BY <1>1, <1>4, <1>6 DEF AnalyticsInv, AnalyticsTyped
  <1> QED  BY <1>5, <1>6, <1>7 DEF AnalyticsInv

\* The views of a process that begins to drain stay where they are.
LEMMA DrainInv ==
    ASSUME AnalyticsInv, NEW s \in Servers, Drain(s)
    PROVE  AnalyticsInv'
  <1> DEFINE x == [server[s] EXCEPT !.stage = "draining"]
  <1>1. /\ ProcessOK(server[s]) /\ server[s] \in Processes
        /\ server[s].channel \cap server[s].buffer = {}
        /\ server' = [server EXCEPT ![s] = x] /\ upsets' \in 0 .. MaxUpsets
        /\ events' = events \cup {} /\ Lost' = Lost
        /\ UNCHANGED <<time, seen, table, lease, roll, spoilt>>
    BY DEF Drain, Lost, AnalyticsInv, AnalyticsTyped, ProcessOK, ViewsSafe, ViewsApart
  <1>2. /\ x \in Processes /\ x.channel = server[s].channel /\ x.buffer = server[s].buffer
        /\ x.lastRolled = server[s].lastRolled /\ x.stage = "draining"
    BY <1>1 DEF Processes
  <1>3. ProcessOK(x)
    BY <1>1, <1>2 DEF ProcessOK
  <1>4. {} \in SUBSET PendingOf(s) /\ x.channel \cup x.buffer = PendingOf(s) \ {}
    BY <1>2 DEF PendingOf
  <1> HIDE DEF x
  <1> QED  BY <1>1, <1>2, <1>3, <1>4, ViewsMoveInv

LEMMA CrashInv ==
    ASSUME AnalyticsInv, NEW s \in Servers, Crash(s)
    PROVE  AnalyticsInv'
  <1> DEFINE moved == PendingOf(s)
  <1>1. /\ server' = [server EXCEPT ![s] = Down] /\ upsets' \in 0 .. MaxUpsets /\ Abandon(s)
        /\ Lost' = Lost \cup moved /\ UNCHANGED <<time, seen, events, table, lease>>
    BY AnalyticsAssumption DEF Crash, Upset, Lost, AnalyticsInv, AnalyticsTyped, PendingOf
  <1>2. /\ server'[s] = Down /\ \A q \in Servers : q # s => server'[q] = server[q]
        /\ server' \in [Servers -> Processes] /\ \A q \in Servers : ProcessOK(server'[q])
    BY <1>1, DownOK, ProcessGoesTo DEF AnalyticsInv
  <1>3. PendingOf(s)' = PendingOf(s) \ moved /\ server'[s].channel \cap server'[s].buffer = {}
    BY <1>2, DownOK DEF PendingOf
  <1> HIDE DEF moved
  <1>4. moved \in SUBSET PendingOf(s)
    BY DEF moved
  <1>5. /\ ViewsSafe' /\ \A d \in Days : Settled(d) => Counted(d)' = Counted(d)
        /\ events' \in SUBSET Views /\ Lost' \in SUBSET Views
    BY <1>1, <1>2, <1>3, <1>4, ViewsMove
  <1>6. /\ RollupsSafe' /\ roll' \in [Rollers -> Rollups] /\ \A q \in Rollers : RollupOK(q)'
        /\ spoilt' \in SUBSET Days
    BY <1>1, <1>2, <1>5, DownOK, Abandoned
  <1>7. AnalyticsTyped'
    BY <1>1, <1>2, <1>5, <1>6 DEF AnalyticsInv, AnalyticsTyped
  <1> QED  BY <1>5, <1>6, <1>7 DEF AnalyticsInv
-----------------------------------------------------------------------------
(* Time.                                                                   *)

LEMMA LeaseEndsInv ==
    ASSUME AnalyticsInv, LeaseEnds
    PROVE  AnalyticsInv'
  <1>1. /\ lease # NoServer /\ ~Rolling(lease) /\ lease' = NoServer
        /\ UNCHANGED <<time, seen, server, events, table, roll, upsets, Lost, spoilt>>
    BY DEF LeaseEnds, Lost
  <1>2. /\ Yesterday' = Yesterday /\ \A d : Settled(d)' <=> Settled(d)
        /\ \A q : Rolling(q)' <=> Rolling(q)
    BY <1>1 DEF Yesterday, Settled, Rolling
  <1>3. ViewsSafe' /\ \A d : Counted(d)' = Counted(d)
    BY <1>1, ViewsStay
  <1>4. AnalyticsTyped'
    BY <1>1 DEF AnalyticsInv, AnalyticsTyped, RollupOK, Rolling
  <1>5. RollupsRight'
    BY <1>1, <1>2, <1>3 DEF AnalyticsInv, RollupsSafe, RollupsRight
  <1>6. YesterdayRolled'
    <2>1. YesterdayTaken' => YesterdayTaken
      BY <1>1, <1>2 DEF YesterdayTaken
    <2>2. \A t : TableRolled(t) => TableRolled(t)'
      BY <1>1, <1>2, <1>3 DEF TableRolled
    <2> QED  BY <2>1, <2>2 DEF AnalyticsInv, RollupsSafe, YesterdayRolled
  <1>7. NothingEarly' /\ HistoryIsComplete'
    BY <1>1, <1>2 DEF AnalyticsInv, RollupsSafe, NothingEarly, HistoryIsComplete, OfDay
  <1> QED  BY <1>3, <1>4, <1>5, <1>6, <1>7 DEF AnalyticsInv, RollupsSafe

LEMMA HalfPastInv ==
    ASSUME AnalyticsInv, HalfPast
    PROVE  AnalyticsInv'
  <1>1. /\ ~time.late /\ \A v \in Pending : seen[v] = time.day
        /\ ~Rolling(Admin) /\ time' = [time EXCEPT !.late = TRUE]
        /\ UNCHANGED <<seen, server, events, table, lease, roll, upsets, Lost, spoilt>>
    BY DEF HalfPast, Lost
  <1>2. time \in [day : Days, late : BOOLEAN]
    BY DEF AnalyticsInv, AnalyticsTyped
  <1>3. time' \in [day : Days, late : BOOLEAN] /\ time'.day = time.day /\ time'.late
    BY <1>1, <1>2
  <1>4. Yesterday' = Yesterday /\ \A d : Settled(d)' <=> d < Yesterday \/ d = Yesterday
    BY <1>3 DEF Yesterday, Settled
  <1>5. \A q \in Rollers : ~Rolling(q) /\ ~Rolling(q)'
    BY <1>1, ServersRoll DEF AnalyticsInv, RollupsSafe, RollupsRight, Rolling, Rollers
  <1>6. AnalyticsTyped'
    BY <1>1, <1>3, <1>5 DEF AnalyticsInv, AnalyticsTyped, RollupOK
  <1>7. \A s \in Servers : PendingOf(s)' = PendingOf(s) /\ PendingOf(s) \subseteq Pending
    BY <1>1 DEF PendingOf, Pending
  <1>8. ViewsApart'
    BY <1>1, <1>7 DEF AnalyticsInv, ViewsSafe, ViewsApart
  <1>9. PendingRecent'
    BY <1>1, <1>3, <1>4, <1>7, TimeFacts DEF AnalyticsInv, ViewsSafe, PendingRecent
  <1>10. AllAccounted'
    BY <1>1, <1>3, <1>7 DEF AnalyticsInv, ViewsSafe, AllAccounted, Accounted
  <1>11. RollupsRight'
    BY <1>5, ServersRoll DEF RollupsRight
  <1>12. YesterdayRolled'
    <2>1. ~YesterdayTaken'
      <3>1. \A s \in Servers : server[s].lastRolled < Yesterday \/ Yesterday = 0
        BY <1>1 DEF AnalyticsInv, RollupsSafe, NothingEarly
      <3>2. lease = NoServer
        BY <1>1 DEF AnalyticsInv, RollupsSafe, NothingEarly
      <3> QED  BY <1>1, <1>4, <3>1, <3>2, TimeFacts DEF AnalyticsInv, YesterdayTaken, Days
    <2> QED  BY <2>1 DEF YesterdayRolled
  <1>13. NothingEarly'
    BY <1>1, <1>3, <1>4 DEF AnalyticsInv, RollupsSafe, NothingEarly
  <1>14. HistoryIsComplete'
    BY <1>1, <1>4 DEF AnalyticsInv, RollupsSafe, HistoryIsComplete, OfDay
  <1> QED
    BY <1>6, <1>8, <1>9, <1>10, <1>11, <1>12, <1>13, <1>14 DEF AnalyticsInv, ViewsSafe, RollupsSafe

\* At midnight a process that was up knows yesterday to be rolled up, and it was.
LEMMA NextDayInv ==
    ASSUME AnalyticsInv, NextDay
    PROVE  AnalyticsInv'
  <1>1. /\ time.late /\ time.day < LastDay /\ \A r \in Rollers : ~Rolling(r)
        /\ \A s \in Servers : server[s].stage = "down" \/ server[s].lastRolled = Yesterday
        /\ time' = [day |-> time.day + 1, late |-> FALSE] /\ lease' = NoServer
        /\ UNCHANGED <<seen, server, events, table, roll, upsets, Lost>>
        /\ spoilt' = IF Yesterday \in Days /\ \A s \in Servers : server[s].stage = "down"
                     THEN spoilt \cup {Yesterday} ELSE spoilt
    BY DEF NextDay, Lost
  <1>2. /\ time' \in [day : Days, late : BOOLEAN] /\ time'.day = time.day + 1 /\ ~time'.late
    BY <1>1, TimeFacts DEF AnalyticsInv, Days
  <1>3. Yesterday' = time.day /\ \A d : Settled(d)' <=> d < time.day
    BY <1>2, TimeFacts DEF Yesterday, Settled, AnalyticsInv
  <1>4. \A q \in Rollers : ~Rolling(q)'
    BY <1>1 DEF Rolling
  <1>5. AnalyticsTyped'
    BY <1>1, <1>2, <1>4 DEF AnalyticsInv, AnalyticsTyped, RollupOK
  <1>6. \A s \in Servers : PendingOf(s)' = PendingOf(s) /\ PendingOf(s) \subseteq Views
    BY <1>1 DEF PendingOf, AnalyticsInv, AnalyticsTyped, Processes
  <1>7. ViewsApart'
    BY <1>1, <1>6 DEF AnalyticsInv, ViewsSafe, ViewsApart
  <1>8. \A v \in Views : seen[v] \in Nat /\ seen[v] <= time.day
    BY TimeFacts DEF AnalyticsInv, AnalyticsTyped, ViewsSafe, PendingRecent
  <1>9. PendingRecent'
    <2>1. \A s \in Servers : \A v \in PendingOf(s) : ~(seen[v] < time.day)
      BY <1>1, <1>6, <1>8, TimeFacts DEF AnalyticsInv, ViewsSafe, PendingRecent, Settled
    <2> QED  BY <1>1, <1>2, <1>3, <1>6, <1>8, <2>1, TimeFacts DEF AnalyticsInv, PendingRecent
  <1>10. AllAccounted'
    <2>1. \A v \in Views : Accounted(v) => Accounted(v)'
      BY <1>1, <1>2, <1>6, <1>8, TimeFacts DEF AnalyticsInv, Accounted
    <2> QED  BY <1>1, <2>1 DEF AnalyticsInv, ViewsSafe, AllAccounted
  <1>11. RollupsRight'
    BY <1>4, ServersRoll DEF RollupsRight
  <1>12. YesterdayRolled'
    BY <1>2 DEF YesterdayRolled, YesterdayTaken
  <1>13. NothingEarly'
    <2>1. \A s \in Servers : server[s].lastRolled \in Nat /\ server[s].lastRolled <= Yesterday
      BY TimeFacts DEF AnalyticsInv, AnalyticsTyped, Processes, RollupsSafe, NothingEarly
    <2> QED  BY <1>1, <1>3, <2>1, TimeFacts DEF AnalyticsInv, NothingEarly
  <1>14. HistoryIsComplete'
    <2> SUFFICES ASSUME NEW d \in Days, d \notin spoilt', d < time.day, NEW t \in Tables
                 PROVE  table[t][d] = Counted(d)
      BY <1>1, <1>3 DEF HistoryIsComplete, Counted, OfDay
    <2>1. d \notin spoilt
      BY <1>1
    <2>2. CASE d < Yesterday
      BY <2>1, <2>2 DEF AnalyticsInv, RollupsSafe, HistoryIsComplete, Counted
    <2>3. CASE ~(d < Yesterday)
      <3>1. d = Yesterday
        BY <2>3, TimeFacts DEF AnalyticsInv, Days
      <3>2. PICK s \in Servers : server[s].stage # "down"
        BY <1>1, <3>1
      <3>3. YesterdayTaken
        BY <1>1, <2>1, <3>1, <3>2 DEF YesterdayTaken
      <3>4. TableRolled(t)
        BY <3>3 DEF AnalyticsInv, RollupsSafe, YesterdayRolled
      <3> QED  BY <1>1, <3>1, <3>4, ServersRoll DEF TableRolled
    <2> QED  BY <2>2, <2>3
  <1> QED
    BY <1>5, <1>7, <1>9, <1>10, <1>11, <1>12, <1>13, <1>14 DEF AnalyticsInv, ViewsSafe, RollupsSafe

LEMMA AnalyticsInitInv ==
    ASSUME AnalyticsInit
    PROVE  AnalyticsInv
  <1>1. /\ time = [day |-> 1, late |-> FALSE] /\ \A v \in Views : seen[v] = 0
        /\ \A s \in Servers : server[s] = Started
        /\ events = {} /\ Lost = {} /\ spoilt = {} /\ lease = NoServer
        /\ \A r \in Rollers : roll[r] = NotRolling
    BY DEF AnalyticsInit, Lost
  <1>2. 1 \in Days /\ LastDay \in Nat /\ LastDay >= 1
    BY AnalyticsAssumption DEF Days
  <1>3. Yesterday = 0
    BY <1>1 DEF Yesterday
  <1>4. \A r \in Rollers : ~Rolling(r)
    BY <1>1 DEF Rolling
  <1>5. AnalyticsTyped
    <2>1. server \in [Servers -> Processes] /\ \A s \in Servers : ProcessOK(server[s])
      BY <1>1, DownOK DEF AnalyticsInit, ProcessOK
    <2>2. roll \in [Rollers -> Rollups] /\ \A r \in Rollers : RollupOK(r)
      BY <1>4, NotRollingTyped DEF AnalyticsInit, RollupOK
    <2> QED  BY <1>1, <1>2, <2>1, <2>2, AnalyticsAssumption DEF AnalyticsInit, AnalyticsTyped
  <1>6. \A s \in Servers : PendingOf(s) = {} /\ server[s].channel = {}
    BY <1>1, DownOK DEF PendingOf
  <1>7. ViewsSafe
    BY <1>1, <1>6 DEF ViewsSafe, ViewsApart, PendingRecent, AllAccounted
  <1>8. RollupsRight /\ YesterdayRolled /\ HistoryIsComplete
    BY <1>1, <1>3, <1>4, ServersRoll
    DEF RollupsRight, YesterdayRolled, YesterdayTaken, HistoryIsComplete, Days
  <1>9. NothingEarly
    BY <1>1, <1>3, DownOK DEF NothingEarly
  <1> QED  BY <1>5, <1>7, <1>8, <1>9 DEF AnalyticsInv, RollupsSafe

LEMMA AnalyticsStepInv ==
    ASSUME AnalyticsInv, [AnalyticsNext]_analyticsVars
    PROVE  AnalyticsInv'
  <1>1. ASSUME NEW s \in Servers, NEW v \in Views, Collect(s, v) \/ CollectLate(s, v) \/ Receive(s, v)
        PROVE  AnalyticsInv'
    BY <1>1, CollectInv, ReceiveInv
  <1>2. ASSUME NEW s \in Servers,
               FlushByTimer(s) \/ Tick(s) \/ Cleanup(s) \/ CleanupFails(s)
               \/ Stop(s) \/ Drain(s) \/ Exit(s) \/ Crash(s) \/ Start(s)
        PROVE  AnalyticsInv'
    BY <1>2, FlushByTimerInv, TickInv, CleanupInv, CleanupFailsInv, StopInv, DrainInv, ExitInv,
       CrashInv, StartInv
  <1>3. ASSUME NEW r \in Rollers, WriteTable(r) \/ RollupFails(r)
        PROVE  AnalyticsInv'
    BY <1>3, WriteTableInv, RollupFailsInv
  <1>4. ASSUME NEW d \in Days, Backfill(d)
        PROVE  AnalyticsInv'
    BY <1>4, BackfillInv
  <1>5. CASE LeaseEnds \/ HalfPast \/ NextDay
    BY <1>5, LeaseEndsInv, HalfPastInv, NextDayInv
  <1>6. CASE UNCHANGED analyticsVars
    <2>1. ViewsSafe' /\ \A d : Counted(d)' = Counted(d)
      BY <1>6, ViewsStay DEF analyticsVars, Lost
    <2>2. RollupsSafe'
      BY <1>6, <2>1, RollupsStay DEF analyticsVars
    <2>3. AnalyticsTyped'
      BY <1>6 DEF AnalyticsInv, AnalyticsTyped, RollupOK, Rolling, analyticsVars, Lost
    <2> QED  BY <2>1, <2>2, <2>3 DEF AnalyticsInv
  <1> QED  BY <1>1, <1>2, <1>3, <1>4, <1>5, <1>6 DEF AnalyticsNext

LEMMA AnalyticsInvariant == AnalyticsSpec => []AnalyticsInv
  BY AnalyticsInitInv, AnalyticsStepInv, PTL DEF AnalyticsSpec

\* The values are of their types: the channel and the buffer of a process stay within
\* their bounds whatever arrives.
THEOREM AnalyticsTypesHold == AnalyticsSpec => []AnalyticsTypeOK
  <1>1. AnalyticsInv => AnalyticsTypeOK
    BY DEF AnalyticsInv, AnalyticsTyped, AnalyticsTypeOK, ProcessOK, Processes, Rollups, Lost
  <1> QED  BY <1>1, AnalyticsInvariant, PTL

\* For any number of processes, days and tables and any retention of two days or more: no
\* view is forgotten on its way to the events but those of a flush between the cancellation of
\* the ingestor and its drain, and the permanent numbers of a day are those of its views that
\* were not lost, unless the roll-up of the day failed, was missed or was done too late.
THEOREM AnalyticsAreSound == AnalyticsSpec => []AnalyticsSound
  <1>1. AnalyticsInv => AnalyticsSound
    <2>1. \A v : (\E s \in Servers : v \in PendingOf(s)) => v \in Pending
      BY DEF Pending, PendingOf
    <2>2. AnalyticsInv => OnlyCutIsForgotten
      BY <2>1 DEF AnalyticsInv, ViewsSafe, AllAccounted, Accounted, OnlyCutIsForgotten
    <2> QED  BY <2>2 DEF AnalyticsInv, RollupsSafe, AnalyticsSound
  <1> QED  BY <1>1, AnalyticsInvariant, PTL
=============================================================================
