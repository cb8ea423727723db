------------------------------ MODULE RuleSets ------------------------------
(***************************************************************************)
(* Versions of the text rules: internal/service/moderationrule (candidate, *)
(* worker, import_worker) and internal/repository/moderationrule, with the *)
(* snapshot the classifier matches against (service/moderation/            *)
(* classifier.go).                                                         *)
(*                                                                         *)
(* A change of the rules creates a candidate ruleset on top of the         *)
(* published one.  The single worker of the process validates imports and  *)
(* builds the index of candidates; it publishes a candidate by itself      *)
(* unless an import refers to it, and then an administrator publishes.     *)
(* Publication commits in the database first and replaces the snapshot in  *)
(* memory afterwards.  A restart loses the worker's place and rebuilds the *)
(* snapshot from the rule rows.                                            *)
(*                                                                         *)
(* A rule is its dedupe hash, an index the set of the rule ids in it.      *)
(***************************************************************************)
EXTENDS Integers, Sequences, FiniteSetsExt

CONSTANTS
    Hashes,        \* dedupe hashes of patterns
    FirstHash,     \* the rule of the ruleset a fresh database holds
    MaxRulesets,   \* bound: rulesets ever created
    MaxImports,    \* bound: imports ever uploaded
    MaxRuleFaults  \* bound: restarts and failing calls

ASSUME RuleSetsAssumption ==
    /\ FirstHash \in Hashes
    /\ MaxRulesets \in Nat \ {0} /\ MaxImports \in Nat /\ MaxRuleFaults \in Nat

VARIABLES
    rulesets,   \* rows of moderation_ruleset with their removals and index object
    rules,      \* rows of moderation_rule
    imports,    \* rows of moderation_rule_import
    worker,     \* where the worker of this process is
    installing, \* the ruleset whose publisher holds publishMu, or 0
    snapshot,   \* what the classifier matches against
    ruleFaults  \* how many of MaxRuleFaults were used

ruleVars == <<rulesets, rules, imports, worker, installing, snapshot, ruleFaults>>

RulesetIds == DOMAIN rulesets
RuleIds == DOMAIN rules

\* CurrentRuleset: the highest published id.
PublishedIds == {v \in RulesetIds : rulesets[v].status = "published"}
Current == IF PublishedIds = {} THEN 0 ELSE Max(PublishedIds)

\* The condition of StreamRules: which rules belong to version v.
BelongsTo(r, v) ==
    /\ rulesets[rules[r].activated].status \in {"published", "superseded"}
    /\ rules[r].activated <= v
    /\ rules[r].deactivated = 0 \/ rules[r].deactivated > v
RulesOf(v) == {r \in RuleIds : BelongsTo(r, v)}

Own(v) == {r \in RuleIds : rules[r].activated = v}

\* StreamCandidateRules: the base without the removals, and the own rules.
CandidateRules(v) == (RulesOf(rulesets[v].base) \ rulesets[v].removals) \cup Own(v)

\* FindDuplicateHashes: it does not look at the status of the ruleset.
Duplicate(hs, v) ==
    \E r \in RuleIds :
        /\ rules[r].hash \in hs
        /\ rules[r].activated <= v
        /\ rules[r].deactivated = 0 \/ rules[r].deactivated > v
-----------------------------------------------------------------------------
Statuses == {"building", "ready", "published", "superseded", "failed"}
ImportStatuses == {"queued", "validating", "valid", "invalid", "canceled"}
AtRest == [pc |-> "imports"]

RuleInit ==
    /\ rulesets = <<[status |-> "published", base |-> 0, removals |-> {}, index |-> {}]>>
    /\ rules = <<[hash |-> FirstHash, activated |-> 1, deactivated |-> 0]>>
    /\ imports = <<>>
    /\ worker = AtRest
    /\ installing = 0
    /\ snapshot = [version |-> 1, rules |-> {1}]
    /\ ruleFaults = 0

\* CreateCandidate: one transaction inserts the ruleset, its rules, its removals.
InsertCandidate(base, additions, removals) ==
    /\ Len(rulesets) < MaxRulesets
    /\ rulesets' = Append(rulesets, [status |-> "building", base |-> base,
                                     removals |-> removals, index |-> {}])
    /\ rules' = rules \o [i \in 1 .. Len(additions) |->
            [hash |-> additions[i], activated |-> Len(rulesets) + 1, deactivated |-> 0]]

SetStatus(v, status) == rulesets' = [rulesets EXCEPT ![v].status = status]

Fault == ruleFaults < MaxRuleFaults /\ ruleFaults' = ruleFaults + 1
-----------------------------------------------------------------------------
(* Administrators: rules, candidates, imports.                             *)

\* CreateRule, ReplaceRule and BatchStatus: the published ruleset must be the one
\* of the page, and new content no duplicate; a rule enabled again is copied
\* without that check, and a rule is removed whether it is active or not.
ChangeRules ==
    /\ \/ \E h \in Hashes, removals \in {{}} \cup {{r} : r \in RuleIds} :
            /\ ~Duplicate({h}, Current)
            /\ InsertCandidate(Current, <<h>>, removals)
       \/ \E r \in RuleIds : InsertCandidate(Current, <<>>, {r})
       \/ \E r \in RuleIds : InsertCandidate(Current, <<rules[r].hash>>, {})
    /\ UNCHANGED <<imports, worker, installing, snapshot, ruleFaults>>

\* CancelCandidate.
CancelRuleset(v) ==
    /\ rulesets[v].status \in {"building", "ready"}
    /\ SetStatus(v, "failed")
    /\ UNCHANGED <<rules, imports, worker, installing, snapshot, ruleFaults>>

\* CreateImport: the upload of the file and the row, or neither.
CreateImport ==
    /\ Len(imports) < MaxImports
    /\ \E h \in Hashes :
            imports' = Append(imports, [status |-> "queued", hash |-> h, ruleset |-> 0])
    /\ UNCHANGED <<rulesets, rules, worker, installing, snapshot, ruleFaults>>

CancelImport(i) ==
    /\ imports[i].status \in {"queued", "validating", "valid"}
    /\ imports' = [imports EXCEPT ![i].status = "canceled"]
    /\ UNCHANGED <<rulesets, rules, worker, installing, snapshot, ruleFaults>>
-----------------------------------------------------------------------------
(* Publication: a database transaction, then the snapshot in memory.       *)

\* PublishCandidate of the repository without the look at the current ruleset.
PublishOnAnyBase(v, expected) ==
    /\ rulesets[v].status = "ready"
    /\ rulesets' = [w \in RulesetIds |->
            IF w = v THEN [rulesets[w] EXCEPT !.status = "published"]
            ELSE IF w = Current THEN [rulesets[w] EXCEPT !.status = "superseded"]
            ELSE rulesets[w]]
    /\ rules' = [r \in RuleIds |->
            IF r \in rulesets[v].removals
            THEN [rules[r] EXCEPT !.deactivated = v] ELSE rules[r]]

\* PublishCandidate of the repository: the candidate is ready, its base is the
\* expected one, and that is still the published ruleset.
PublishTx(v, expected) ==
    /\ rulesets[v].status = "ready"
    /\ rulesets[v].base = expected
    /\ Current = expected
    /\ rules' = [r \in RuleIds |->
            IF r \in rulesets[v].removals
            THEN [rules[r] EXCEPT !.deactivated = v] ELSE rules[r]]
    /\ rulesets' = [rulesets EXCEPT ![v].status = "published",
                                    ![expected].status = "superseded"]

\* An administrator publishes what the status page shows.
Confirm(v) ==
    /\ installing = 0
    /\ PublishTx(v, rulesets[v].base)
    /\ installing' = v
    /\ UNCHANGED <<imports, worker, snapshot, ruleFaults>>

\* The worker waits for a publication of its own.
AfterInstall == IF worker.pc = "installing" THEN AtRest ELSE worker

\* loadPublishedSnapshot and ReplaceSnapshot, which refuses a lower version;
\* publishMu is released.
Install ==
    /\ installing # 0
    /\ snapshot' = IF installing > snapshot.version
                   THEN [version |-> installing, rules |-> rulesets[installing].index]
                   ELSE snapshot
    /\ installing' = 0
    /\ worker' = AfterInstall
    /\ UNCHANGED <<rulesets, rules, imports, ruleFaults>>

\* The index object cannot be read: the old snapshot stays until the next
\* publication or restart.
InstallFails ==
    /\ installing # 0
    /\ Fault
    /\ installing' = 0
    /\ worker' = AfterInstall
    /\ UNCHANGED <<rulesets, rules, imports, snapshot>>
-----------------------------------------------------------------------------
(* The worker: ProcessOnce looks for an import, then for a ruleset.        *)

Queued == {i \in DOMAIN imports : imports[i].status = "queued"}
Building == {v \in RulesetIds : rulesets[v].status = "building"}

\* UpdateImportValidation writes whatever the status is meanwhile.
SetImport(i, status, v) ==
    imports' = [imports EXCEPT ![i].status = status, ![i].ruleset = v]

ClaimImport ==
    /\ worker.pc = "imports"
    /\ IF Queued = {}
       THEN worker' = [pc |-> "rulesets"] /\ UNCHANGED imports
       ELSE /\ SetImport(Min(Queued), "validating", 0)
            /\ worker' = [pc |-> "validate", import |-> Min(Queued)]
    /\ UNCHANGED <<rulesets, rules, installing>>

\* validateImport up to the candidate: the base is read, then malformed rows
\* and duplicates make the import invalid, as does an error, which ends the round.
ValidateImport ==
    /\ worker.pc = "validate"
    /\ \/ /\ ~Duplicate({imports[worker.import].hash}, Current)
          /\ worker' = [pc |-> "create", import |-> worker.import, base |-> Current]
          /\ UNCHANGED imports
       \/ /\ SetImport(worker.import, "invalid", 0)
          /\ worker' \in {[pc |-> "rulesets"], AtRest}
    /\ UNCHANGED <<rulesets, rules, installing>>

\* createCandidateFromImport, or its failure.
CreateImported ==
    /\ worker.pc = "create"
    /\ \/ /\ InsertCandidate(worker.base, <<imports[worker.import].hash>>, {})
          /\ worker' = [pc |-> "link", import |-> worker.import,
                        ruleset |-> Len(rulesets) + 1]
          /\ UNCHANGED imports
       \/ /\ SetImport(worker.import, "invalid", 0)
          /\ worker' = AtRest
          /\ UNCHANGED <<rulesets, rules>>
    /\ UNCHANGED installing

LinkImport ==
    /\ worker.pc = "link"
    /\ SetImport(worker.import, "valid", worker.ruleset)
    /\ worker' = [pc |-> "rulesets"]
    /\ UNCHANGED <<rulesets, rules, installing>>

\* ClaimNextRuleset marking the row as the comment above it says.
ClaimAsPublishing ==
    /\ worker.pc = "rulesets"
    /\ Building # {}
    /\ SetStatus(Min(Building), "publishing")
    /\ worker' = [pc |-> "build", ruleset |-> Min(Building)]
    /\ UNCHANGED <<rules, imports, installing>>

\* ClaimNextRuleset: the oldest one; its status stays building.
ClaimRuleset ==
    /\ worker.pc = "rulesets"
    /\ worker' = IF Building = {} THEN AtRest
                 ELSE [pc |-> "build", ruleset |-> Min(Building)]
    /\ UNCHANGED <<rulesets, rules, imports, installing>>

\* The index of the base rules alone.
BuildBaseOnly ==
    /\ worker.pc = "build"
    /\ worker' = [pc |-> "save", ruleset |-> worker.ruleset,
                  index |-> RulesOf(rulesets[worker.ruleset].base)]
    /\ UNCHANGED <<rulesets, rules, imports, installing>>

\* buildCandidateSnapshot and uploadSnapshot; an empty ruleset fails.
BuildIndex ==
    /\ worker.pc = "build"
    /\ LET v == worker.ruleset
       IN  IF CandidateRules(v) = {}
           THEN SetStatus(v, "failed") /\ worker' = AtRest
           ELSE /\ worker' = [pc |-> "save", ruleset |-> v, index |-> CandidateRules(v)]
                /\ UNCHANGED rulesets
    /\ UNCHANGED <<rules, imports, installing>>

\* SaveRulesetBuildResult: ready, whatever the status is meanwhile.
SaveBuild ==
    /\ worker.pc = "save"
    /\ rulesets' = [rulesets EXCEPT ![worker.ruleset].status = "ready",
                                    ![worker.ruleset].index = worker.index]
    /\ worker' = [pc |-> "check", ruleset |-> worker.ruleset]
    /\ UNCHANGED <<rules, imports, installing>>

\* HasImportForRuleset.
CheckLinked ==
    /\ worker.pc = "check"
    /\ worker' = IF \E i \in DOMAIN imports : imports[i].ruleset = worker.ruleset
                 THEN AtRest ELSE [pc |-> "publish", ruleset |-> worker.ruleset]
    /\ UNCHANGED <<rulesets, rules, imports, installing>>

\* The publication by the worker; when it is refused the candidate stays ready.
AutoPublish ==
    /\ worker.pc = "publish"
    /\ LET v == worker.ruleset
       IN  \/ /\ installing = 0
              /\ PublishTx(v, rulesets[v].base)
              /\ installing' = v
              /\ worker' = [pc |-> "installing"]
           \/ /\ \/ installing # 0 \/ rulesets[v].status # "ready"
                 \/ rulesets[v].base # Current
              /\ worker' = AtRest
              /\ UNCHANGED <<rulesets, rules, installing>>
    /\ UNCHANGED imports

WorkerStep ==
    /\ \/ ClaimImport \/ ValidateImport \/ CreateImported \/ LinkImport
       \/ ClaimRuleset \/ BuildIndex \/ SaveBuild \/ CheckLinked \/ AutoPublish
    /\ UNCHANGED <<snapshot, ruleFaults>>

\* UpdateImportValidation fails: the candidate exists, the import stays validating.
LinkFails ==
    /\ worker.pc = "link"
    /\ Fault
    /\ worker' = AtRest
    /\ UNCHANGED <<rulesets, rules, imports, installing, snapshot>>

\* The build or the upload fails; FailRuleset writes whatever the status is.
BuildFails ==
    /\ worker.pc \in {"build", "save"}
    /\ Fault
    /\ SetStatus(worker.ruleset, "failed")
    /\ worker' = AtRest
    /\ UNCHANGED <<rules, imports, installing, snapshot>>

\* The process stops and starts again: NewClassifierFromRepository builds the
\* snapshot from the rows.  Nothing calls ResetInterrupted.
Restart ==
    /\ Fault
    /\ worker' = AtRest
    /\ installing' = 0
    /\ snapshot' = [version |-> Current, rules |-> RulesOf(Current)]
    /\ UNCHANGED <<rulesets, rules, imports>>

RuleNext ==
    \/ ChangeRules \/ CreateImport
    \/ \E v \in RulesetIds : CancelRuleset(v) \/ Confirm(v)
    \/ \E i \in DOMAIN imports : CancelImport(i)
    \/ WorkerStep \/ Install
    \/ LinkFails \/ BuildFails \/ InstallFails \/ Restart

RuleSpec == RuleInit /\ [][RuleNext]_ruleVars
-----------------------------------------------------------------------------
(* Properties.                                                             *)

\* Columns and positions are legal and refer to rows that exist.
RuleTypeOK ==
    /\ \A v \in RulesetIds :
          /\ rulesets[v].status \in Statuses
          /\ rulesets[v].base < v
          /\ rulesets[v].removals \subseteq RuleIds /\ rulesets[v].index \subseteq RuleIds
    /\ \A r \in RuleIds :
          /\ rules[r].hash \in Hashes
          /\ rules[r].activated \in RulesetIds
          /\ rules[r].deactivated = 0 \/ rules[r].activated < rules[r].deactivated
    /\ \A i \in DOMAIN imports :
          /\ imports[i].status \in ImportStatuses /\ imports[i].hash \in Hashes
          /\ imports[i].ruleset \in RulesetIds \cup {0}
    /\ installing \in RulesetIds \cup {0}
    /\ ruleFaults \in 0 .. MaxRuleFaults

\* One set is published, and the snapshot the classifier uses holds exactly the
\* rules that belong to its version in the database, although its index was built
\* before the publication and other candidates were created, published and
\* cancelled in between.
SnapshotIsItsVersion ==
    /\ Cardinality(PublishedIds) = 1
    /\ snapshot.version = Current => snapshot.rules = RulesOf(Current)

\* A publication changes the rules in force by its own additions and removals
\* and by nothing else: no concurrent candidate is undone or dragged in.
PublicationIsItsChange ==
    [][Current' # Current =>
         /\ Current' > Current
         /\ (RulesOf(Current))' = (RulesOf(Current) \ rulesets[Current'].removals)
                                     \cup Own(Current')]_ruleVars

Outcomes == {"ready", "published", "superseded", "failed"}
Unsettled(v) == v \in RulesetIds /\ rulesets[v].status \notin Outcomes

\* Every candidate is built or given up, also across restarts of the worker: no state the
\* worker leaves it in, between the claim and the result, is one that nobody looks for.
CandidatesAreBuilt == \A v \in 2 .. MaxRulesets : Unsettled(v) ~> ~Unsettled(v)
=============================================================================
