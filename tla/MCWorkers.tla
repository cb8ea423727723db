------------------------------ MODULE MCWorkers ------------------------------
(***************************************************************************)
(* The worker of the rule sets and the two loops of the review digest,     *)
(* which share no state, checked side by side: each behaviour is one of    *)
(* either component.                                                       *)
(***************************************************************************)
EXTENDS RuleSets, ReviewDigest

CONSTANTS h1, h2, t1, t2, l1, l2

VARIABLE part

workersVars == <<part, ruleVars, digestVars>>

InRules == part = "rules" /\ UNCHANGED <<part, digestVars>>
InDigest == part = "digest" /\ UNCHANGED <<part, ruleVars>>

WorkersInit ==
    /\ part \in {"rules", "digest"}
    /\ RuleInit /\ DigestInit
    /\ part = "rules" => recipientValid     \* one of the digest's initial states will do

WorkersNext ==
    \/ InRules /\ RuleNext
    \/ InDigest /\ DigestNext

\* The processes run their tickers without end (a process that stops is started again), a
\* confirmation that published goes on to install, and waits end by the clock. That the
\* recipient is made valid again is what the administrator's page is for.
WorkersFairness ==
    /\ WF_workersVars(InRules /\ WorkerStep)
    /\ WF_workersVars(InRules /\ Install)
    /\ \A l \in Loops : /\ WF_workersVars(InDigest /\ LoopStep(l))
                        /\ WF_workersVars(InDigest /\ DeferralEnds(l))
    /\ \A t \in ReviewTasks : WF_workersVars(InDigest /\ TaskBecomesDue(t))
    /\ \A b \in Digests : WF_workersVars(InDigest /\ DigestTimer(b))
    /\ WF_workersVars(InDigest /\ CooldownEnds)
    /\ WF_workersVars(InDigest /\ RecipientRepaired)

WorkersSpec == WorkersInit /\ [][WorkersNext]_workersVars /\ WorkersFairness
=============================================================================
