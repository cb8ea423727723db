------------------------------ MODULE MCMailing ------------------------------
(***************************************************************************)
(* Mail for two users in behaviours of two kinds: in some, two planners    *)
(* compete for two notices of one user; in others, two senders for the     *)
(* batches of two users, and calls of SMTP fail.                           *)
(***************************************************************************)
EXTENDS MCEmailBatches

CONSTANTS p1, p2, s1, s2

MCAnnTwiceBenOnce == (t1 :> ann) @@ (t2 :> ann) @@ (t3 :> ben)

VARIABLE part

mailingVars == <<part, mailVars>>

MailingInit == part \in {"planning", "sending"} /\ Init

\* What the behaviours of either kind go without; what stops is one of those that compete.
Planning ==
    /\ part = "planning"
    /\ task'[t3] = task[t3] /\ sender'[s2] = sender[s2] /\ failures' = failures
    /\ aborts' # aborts => sender' = sender

Sending ==
    /\ part = "sending"
    /\ task'[t2] = task[t2] /\ planner'[p2] = planner[p2]
    /\ aborts' # aborts => planner' = planner
    /\ \A t \in Tasks : task'[t].status = "pending" => task'[t].leased \/ ~task[t].leased

MailingNext == Next /\ (Planning \/ Sending) /\ UNCHANGED part

\* The loops that run.
Plans(p) == part = "planning" \/ p = p1
Sends(s) == part = "sending" \/ s = s1

MailingFairness ==
    /\ WF_mailingVars(Tick /\ UNCHANGED part)
    /\ \A t \in Tasks : WF_mailingVars(part = "planning" /\ LeaseRunsOut(t) /\ UNCHANGED part)
    /\ \A p \in Planners : /\ WF_mailingVars(Plans(p) /\ LeaseEmailTasks(p) /\ UNCHANGED part)
                           /\ WF_mailingVars(Plan(p) /\ UNCHANGED part)
    /\ \A s \in Senders : /\ WF_mailingVars(Sends(s) /\ LeaseEmailBatches(s) /\ UNCHANGED part)
                          /\ WF_mailingVars(Send(s) /\ UNCHANGED part)

MailingSpec == MailingInit /\ [][MailingNext]_mailingVars /\ MailingFairness
=============================================================================
