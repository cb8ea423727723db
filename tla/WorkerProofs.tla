---------------------------- MODULE WorkerProofs ----------------------------
(* Theorems about the two background components MCWorkers checks side by side:*)
(*  - ReviewDigest, for every set of tasks, every number of processes and     *)
(*    every number of failed calls and restarts;                              *)
(*  - RuleSets, for every set of patterns and every number of candidates,     *)
(*    imports, restarts and failing calls.                                    *)
EXTENDS ReviewDigest, RuleSets, FiniteSetTheorems, SequenceTheorems,
        WellFoundedInduction, TLAPS

(***************************************************************************)
(* What a loop in the middle of sendBatch relies on although its lease may *)
(* be over and another loop may have the batch: the tasks of a batch are   *)
(* fixed when it is inserted, and their revisions can only stop waiting.   *)
(* So a list that was complete when it was loaded stays complete.          *)
(***************************************************************************)
Waiting(b) == {t \in ReviewTasks : /\ reviewTask[t].batch = b
                                   /\ reviewTask[t].status = "batched" /\ reviewTask[t].waiting}

Sender == {"persist", "load", "mail", "mark", "skip", "retry"}

LoopKnows(l) ==
    /\ loop[l].pc \in Sender => loop[l].batch \in Digests /\ digest[loop[l].batch].status # "none"
    /\ loop[l].pc = "mail" =>
         /\ Waiting(loop[l].batch) \subseteq loop[l].tasks
         /\ \A t \in loop[l].tasks : reviewTask[t].batch = loop[l].batch
    /\ loop[l].pc = "mark" =>
         \A t \in Waiting(loop[l].batch) : <<loop[l].batch, t>> \in digestMails
    /\ loop[l].pc = "skip" => Waiting(loop[l].batch) = {}

BatchesHold ==
    /\ \A t \in ReviewTasks :
         /\ reviewTask[t].status \in {"none", "pending"} => reviewTask[t].batch = 0
         /\ reviewTask[t].batch # 0 => digest[reviewTask[t].batch].status # "none"
    /\ \A m \in digestMails : reviewTask[m[2]].batch = m[1]

DigestInv ==
    /\ DigestTypeOK /\ OneOpenDigest /\ ReportedOnce
    /\ BatchesHold
    /\ \A l \in Loops : LoopKnows(l)

\* What the quiet steps, all but CreateBatch, SendHTML and the two that close a batch, may
\* do to a row.
BatchKept(b) ==
    \/ digest'[b].status = digest[b].status
    \/ digest[b].status \in {"pending", "sending"} /\ digest'[b].status \in {"pending", "sending"}

TaskKept(t) ==
    /\ reviewTask'[t].batch = reviewTask[t].batch
    /\ \/ reviewTask'[t].status = reviewTask[t].status
       \/ reviewTask[t].status = "none" /\ reviewTask'[t].status = "pending"
       \/ reviewTask[t].status = "pending" /\ reviewTask'[t].status = "skipped" /\ ~reviewTask'[t].waiting
    /\ reviewTask'[t].waiting => reviewTask[t].waiting \/ reviewTask[t].status = "none"

-----------------------------------------------------------------------------
LEMMA DigestsAreNumbers == Cardinality(ReviewTasks) \in Nat /\ Digests \subseteq Nat \ {0}
  BY DigestAssumption, FS_CardinalityType DEF Digests

LEMMA DigestInitInv == DigestInit => DigestInv
  <1> SUFFICES ASSUME DigestInit PROVE DigestInv
    OBVIOUS
  <1>1. /\ \A t \in ReviewTasks : reviewTask[t] = [status |-> "none", batch |-> 0, due |-> FALSE, waiting |-> FALSE]
        /\ \A b \in Digests : digest[b] = [status |-> "none", due |-> FALSE, leased |-> FALSE, named |-> FALSE]
        /\ \A l \in Loops : loop[l] = [pc |-> "plan", batch |-> 0, tasks |-> {}, deferred |-> FALSE]
        /\ digestMails = {}
    BY DEF DigestInit, NewLoop
  <1>2. DigestTypeOK
    <2>1. /\ reviewTask \in [ReviewTasks -> ReviewTaskRecords]
          /\ digest \in [Digests -> DigestRecords]
      BY DEF DigestInit, DigestRecords, ReviewTaskRecords
    <2>2. NewLoop \in LoopRecords
      BY DEF NewLoop, LoopRecords
    <2>3. loop \in [Loops -> LoopRecords]
      BY <2>2 DEF DigestInit
    <2>4. MaxDigestFaults \in Nat /\ digestFaults = 0
      BY DigestAssumption DEF DigestInit
    <2>5. digestFaults \in 0 .. MaxDigestFaults /\ digestMails \subseteq Digests \X ReviewTasks
      BY <1>1, <2>4
    <2>6. recipientValid \in BOOLEAN /\ cooling \in BOOLEAN
      BY Zenon DEF DigestInit
    <2> QED
      BY <2>1, <2>3, <2>5, <2>6, Zenon DEF DigestTypeOK
  <1>3. OneOpenDigest
    BY <1>1 DEF OneOpenDigest, OpenDigests
  <1>4. ReportedOnce
    BY <1>1 DEF ReportedOnce
  <1>5. BatchesHold
    BY <1>1 DEF BatchesHold
  <1>6. \A l \in Loops : LoopKnows(l)
    BY <1>1 DEF LoopKnows, Sender
  <1> QED
    BY <1>2, <1>3, <1>4, <1>5, <1>6 DEF DigestInv

LEMMA Quiet ==
    ASSUME DigestInv, DigestTypeOK', digestMails' = digestMails,
           \A b \in Digests : BatchKept(b), \A t \in ReviewTasks : TaskKept(t),
           \A l \in Loops : loop'[l] = loop[l] \/ LoopKnows(l)'
    PROVE  DigestInv'
  <1>1. /\ reviewTask \in [ReviewTasks -> ReviewTaskRecords] /\ digest \in [Digests -> DigestRecords]
        /\ loop \in [Loops -> LoopRecords] /\ digestMails \subseteq Digests \X ReviewTasks
    BY DEF DigestInv, DigestTypeOK
  <1>2. OpenDigests' = OpenDigests
    BY DEF OpenDigests, BatchKept
  <1>3. \A b \in Digests : digest[b].status # "none" => digest'[b].status # "none"
    BY DEF BatchKept
  <1>4. \A t \in ReviewTasks : reviewTask[t].batch \in {0} \cup Digests
    BY <1>1 DEF ReviewTaskRecords
  <1>5. OneOpenDigest'
    BY <1>2 DEF DigestInv, OneOpenDigest, TaskKept
  <1>6. ReportedOnce'
    BY DEF DigestInv, ReportedOnce, TaskKept
  <1>7. BatchesHold'
    <2>1. \A m \in digestMails : m[2] \in ReviewTasks
      BY <1>1
    <2> QED
      BY <1>3, <1>4, <2>1 DEF DigestInv, BatchesHold, TaskKept
  <1>8. \A b : Waiting(b)' \subseteq Waiting(b)
    BY DEF Waiting, TaskKept
  <1>9. ASSUME NEW l \in Loops, loop'[l] = loop[l] PROVE LoopKnows(l)'
    <2>1. LoopKnows(l)
      BY DEF DigestInv
    <2>2. loop[l].tasks \subseteq ReviewTasks
      BY <1>1 DEF LoopRecords
    <2>3. loop'[l].pc \in Sender => loop'[l].batch \in Digests /\ digest'[loop'[l].batch].status # "none"
      BY <1>3, <1>9, <2>1 DEF LoopKnows
    <2>4. loop'[l].pc = "mail" =>
             /\ Waiting(loop[l].batch)' \subseteq loop'[l].tasks
             /\ \A t \in loop'[l].tasks : reviewTask'[t].batch = loop'[l].batch
      BY <1>8, <1>9, <2>1, <2>2 DEF LoopKnows, TaskKept
    <2>5. loop'[l].pc = "mark" => \A t \in Waiting(loop[l].batch)' : <<loop'[l].batch, t>> \in digestMails'
      BY <1>8, <1>9, <2>1 DEF LoopKnows
    <2>6. loop'[l].pc = "skip" => Waiting(loop[l].batch)' = {}
      BY <1>8, <1>9, <2>1 DEF LoopKnows
    <2> QED
      BY <2>3, <2>4, <2>5, <2>6 DEF LoopKnows
  <1> QED
    BY <1>5, <1>6, <1>7, <1>9 DEF DigestInv

-----------------------------------------------------------------------------
(* What an assignment does.                                                   *)

Pcs == {"plan", "open", "due", "recipient", "create"} \cup {"lease"} \cup Sender

LEMMA Goes ==
    ASSUME DigestTypeOK, NEW l \in Loops, NEW pc \in Pcs, GoTo(l, pc)
    PROVE  /\ loop' \in [Loops -> LoopRecords] /\ loop'[l].pc = pc
           /\ loop'[l].batch = loop[l].batch /\ loop'[l].tasks = loop[l].tasks
           /\ \A k \in Loops : k # l => loop'[k] = loop[k]
  BY DEF DigestTypeOK, GoTo, LoopRecords, Pcs, Sender

LEMMA Rests ==
    ASSUME DigestTypeOK, NEW l \in Loops, Rested(l)
    PROVE  /\ loop' \in [Loops -> LoopRecords] /\ loop'[l].pc = "plan"
           /\ \A k \in Loops : k # l => loop'[k] = loop[k]
  <1>1. [NewLoop EXCEPT !.deferred = loop[l].deferred] \in LoopRecords
    BY DEF DigestTypeOK, NewLoop, LoopRecords
  <1>2. [NewLoop EXCEPT !.deferred = loop[l].deferred].pc = "plan"
    BY DEF NewLoop
  <1> QED
    BY <1>1, <1>2 DEF Rested, DigestTypeOK

LEMMA Knows ==
    ASSUME NEW l \in Loops, loop'[l].pc \notin Sender
    PROVE  LoopKnows(l)'
  BY DEF LoopKnows, Sender

\* A loop that gives the batch back knows no more than that there is one.
LEMMA KnowsBatch ==
    ASSUME DigestInv, NEW l \in Loops, loop[l].pc \in Sender,
           loop'[l].pc \in {"persist", "load", "retry"}, loop'[l].batch = loop[l].batch,
           \A b \in Digests : BatchKept(b)
    PROVE  LoopKnows(l)'
  BY DEF DigestInv, LoopKnows, Sender, BatchKept

LEMMA Faults ==
    ASSUME DigestTypeOK, DigestFault
    PROVE  digestFaults' \in 0 .. MaxDigestFaults
  BY DigestAssumption DEF DigestTypeOK, DigestFault

LEMMA Kept ==
    /\ UNCHANGED digest => \A b \in Digests : BatchKept(b)
    /\ UNCHANGED reviewTask => \A t \in ReviewTasks : TaskKept(t)
  BY DEF BatchKept, TaskKept

LEMMA LoopOnly ==
    ASSUME DigestInv, UNCHANGED <<reviewTask, digest, digestMails>>,
           recipientValid' \in BOOLEAN, cooling' \in BOOLEAN, digestFaults' \in 0 .. MaxDigestFaults,
           loop' \in [Loops -> LoopRecords],
           \A l \in Loops : loop'[l] = loop[l] \/ LoopKnows(l)'
    PROVE  DigestInv'
  <1>1. DigestTypeOK'
    BY DEF DigestInv, DigestTypeOK
  <1> QED
    BY <1>1, Quiet, Kept

LEMMA Typed ==
    DigestInv => /\ DigestTypeOK /\ recipientValid \in BOOLEAN /\ cooling \in BOOLEAN
                 /\ digestFaults \in 0 .. MaxDigestFaults /\ loop \in [Loops -> LoopRecords]
                 /\ digest \in [Digests -> DigestRecords]
                 /\ reviewTask \in [ReviewTasks -> ReviewTaskRecords]
                 /\ digestMails \subseteq Digests \X ReviewTasks
  BY DEF DigestInv, DigestTypeOK

-----------------------------------------------------------------------------
(* The steps that write no row of tasks or batches.                           *)

LEMMA ClockStep ==
    ASSUME DigestInv, RecipientRepaired \/ CooldownEnds
    PROVE  DigestInv'
  BY LoopOnly, Typed DEF RecipientRepaired, CooldownEnds

LEMMA DeferralEndsStep ==
    ASSUME DigestInv, NEW l \in Loops, DeferralEnds(l)
    PROVE  DigestInv'
  <1>1. /\ loop' \in [Loops -> LoopRecords] /\ \A k \in Loops : k # l => loop'[k] = loop[k]
        /\ loop'[l].pc = loop[l].pc /\ loop'[l].batch = loop[l].batch /\ loop'[l].tasks = loop[l].tasks
    BY Typed DEF DeferralEnds, LoopRecords
  <1>2. LoopKnows(l)'
    BY <1>1 DEF DeferralEnds, DigestInv, LoopKnows, Waiting
  <1> QED
    BY <1>1, <1>2, LoopOnly, Typed DEF DeferralEnds

LEMMA LoopRestartsStep ==
    ASSUME DigestInv, NEW l \in Loops, LoopRestarts(l)
    PROVE  DigestInv'
  <1>1. NewLoop \in LoopRecords /\ NewLoop.pc \notin Sender
    BY DEF NewLoop, LoopRecords, Sender
  <1>2. loop' \in [Loops -> LoopRecords] /\ loop'[l] = NewLoop /\ \A k \in Loops : k # l => loop'[k] = loop[k]
    BY <1>1, Typed DEF LoopRestarts
  <1>3. LoopKnows(l)'
    BY <1>1, <1>2, Knows
  <1>4. digestFaults' \in 0 .. MaxDigestFaults
    BY Typed, Faults DEF LoopRestarts
  <1> QED
    BY <1>2, <1>3, <1>4, LoopOnly, Typed DEF LoopRestarts

\* The planner goes on without a write: PlanFails, HasOpenBatch, CheckDue, an empty CreateBatch.
LEMMA PlannerGoes ==
    ASSUME DigestInv, NEW l \in Loops, NEW pc \in Pcs \ Sender, GoTo(l, pc),
           UNCHANGED <<reviewTask, digest, recipientValid, cooling, digestMails>>,
           DigestFault \/ UNCHANGED digestFaults
    PROVE  DigestInv'
  <1>1. /\ loop' \in [Loops -> LoopRecords] /\ loop'[l].pc = pc
        /\ \A k \in Loops : k # l => loop'[k] = loop[k]
    BY Goes, Typed
  <1>2. LoopKnows(l)'
    BY <1>1, Knows
  <1> QED
    BY <1>1, <1>2, LoopOnly, Typed, Faults

LEMMA PlannerStep ==
    ASSUME DigestInv, NEW l \in Loops, PlanFails(l) \/ HasOpenBatch(l) \/ CheckDue(l)
    PROVE  DigestInv'
  <1>1. "lease" \in Pcs \ Sender /\ "due" \in Pcs \ Sender /\ "recipient" \in Pcs \ Sender
    BY DEF Pcs, Sender
  <1> QED
    BY <1>1, PlannerGoes DEF PlanFails, HasOpenBatch, CheckDue

LEMMA LoadAdminRecipientStep ==
    ASSUME DigestInv, NEW l \in Loops, LoadAdminRecipient(l)
    PROVE  DigestInv'
  <1>1. /\ loop' \in [Loops -> LoopRecords] /\ \A k \in Loops : k # l => loop'[k] = loop[k]
        /\ loop'[l].pc \in {"create", "lease"}
    <2>1. CASE recipientValid = TRUE
      <3>1. loop' = [loop EXCEPT ![l].pc = "create", ![l].deferred = FALSE]
        BY <2>1, Zenon DEF LoadAdminRecipient
      <3> QED
        BY <3>1, Typed DEF LoopRecords
    <2>2. CASE recipientValid = FALSE
      <3>1. loop' = [loop EXCEPT ![l].pc = "lease", ![l].deferred = TRUE]
        BY <2>2, Zenon DEF LoadAdminRecipient
      <3> QED
        BY <3>1, Typed DEF LoopRecords
    <2> QED
      BY <2>1, <2>2, Typed
  <1>2. LoopKnows(l)'
    BY <1>1, Knows DEF Sender
  <1> QED
    BY <1>1, <1>2, LoopOnly, Typed DEF LoadAdminRecipient

LEMMA LoadBatchTasksStep ==
    ASSUME DigestInv, NEW l \in Loops, LoadBatchTasks(l)
    PROVE  DigestInv'
  <1> DEFINE T == Waiting(loop[l].batch)
  <1>0. /\ loop[l].pc = "load" /\ T \in SUBSET ReviewTasks
        /\ loop' = [loop EXCEPT ![l].pc = IF T = {} THEN "skip" ELSE "mail", ![l].tasks = T]
        /\ \A t \in T : reviewTask[t].batch = loop[l].batch
    BY DEF LoadBatchTasks, Waiting
  <1> HIDE DEF T
  <1>1. /\ loop' \in [Loops -> LoopRecords] /\ \A k \in Loops : k # l => loop'[k] = loop[k]
        /\ loop'[l].pc = (IF T = {} THEN "skip" ELSE "mail") /\ loop'[l].tasks = T
        /\ loop'[l].batch = loop[l].batch
    <2> DEFINE next == IF T = {} THEN "skip" ELSE "mail"
    <2>1. next \in {"skip", "mail"} /\ next = (IF T = {} THEN "skip" ELSE "mail")
      OBVIOUS
    <2>2. loop' = [loop EXCEPT ![l].pc = next, ![l].tasks = T]
      BY <1>0
    <2> HIDE DEF next
    <2>3. loop[l] \in LoopRecords /\ loop \in [Loops -> LoopRecords]
      BY Typed
    <2>4. [loop[l] EXCEPT !.pc = next, !.tasks = T] \in LoopRecords
      BY <1>0, <2>1, <2>3 DEF LoopRecords
    <2>5. loop' = [loop EXCEPT ![l] = [loop[l] EXCEPT !.pc = next, !.tasks = T]]
      BY <2>2, <2>3
    <2>6. loop' \in [Loops -> LoopRecords] /\ \A k \in Loops : k # l => loop'[k] = loop[k]
      BY <2>3, <2>4, <2>5
    <2>7. loop'[l] = [loop[l] EXCEPT !.pc = next, !.tasks = T]
      BY <2>3, <2>5
    <2>8. loop'[l].pc = next /\ loop'[l].tasks = T /\ loop'[l].batch = loop[l].batch
      BY <2>3, <2>7 DEF LoopRecords
    <2> QED
      BY <2>1, <2>6, <2>8
  <1>2. Waiting(loop[l].batch)' = T
    BY <1>1 DEF LoadBatchTasks, Waiting, T
  <1>3. LoopKnows(l)'
    BY <1>0, <1>1, <1>2 DEF LoadBatchTasks, DigestInv, LoopKnows, Sender
  <1> QED
    BY <1>1, <1>3, LoopOnly, Typed DEF LoadBatchTasks

LEMMA SendCallFailsStep ==
    ASSUME DigestInv, NEW l \in Loops, SendCallFails(l)
    PROVE  DigestInv'
  <1>1. /\ loop' \in [Loops -> LoopRecords] /\ \A k \in Loops : k # l => loop'[k] = loop[k]
        /\ loop'[l].pc = "retry" /\ loop'[l].batch = loop[l].batch
    BY Typed DEF SendCallFails, LoopRecords
  <1>2. LoopKnows(l)'
    BY <1>1, KnowsBatch, Kept DEF SendCallFails, Sender
  <1> QED
    BY <1>1, <1>2, LoopOnly, Typed, Faults DEF SendCallFails

LEMMA CloseFailsStep ==
    ASSUME DigestInv, NEW l \in Loops, CloseFails(l)
    PROVE  DigestInv'
  <1>1. /\ loop' \in [Loops -> LoopRecords] /\ \A k \in Loops : k # l => loop'[k] = loop[k]
        /\ loop'[l].pc = "plan"
    BY Typed, Rests DEF CloseFails
  <1>2. LoopKnows(l)'
    BY <1>1, Knows DEF Sender
  <1> QED
    BY <1>1, <1>2, LoopOnly, Typed, Faults DEF CloseFails

-----------------------------------------------------------------------------
(* The quiet steps that write to tasks.                                       *)

LEMMA TasksOnly ==
    ASSUME DigestInv, UNCHANGED <<digest, recipientValid, cooling, digestMails, digestFaults>>,
           reviewTask' \in [ReviewTasks -> ReviewTaskRecords],
           \A t \in ReviewTasks : TaskKept(t),
           loop' \in [Loops -> LoopRecords],
           \A l \in Loops : loop'[l] = loop[l] \/ LoopKnows(l)'
    PROVE  DigestInv'
  <1>1. DigestTypeOK'
    BY DEF DigestInv, DigestTypeOK
  <1> QED
    BY <1>1, Quiet, Kept

LEMMA SubmitForReviewStep ==
    ASSUME DigestInv, NEW t \in ReviewTasks, SubmitForReview(t)
    PROVE  DigestInv'
  <1>1. /\ reviewTask' \in [ReviewTasks -> ReviewTaskRecords]
        /\ reviewTask'[t].status = "pending" /\ reviewTask'[t].batch = reviewTask[t].batch
        /\ \A u \in ReviewTasks : u # t => reviewTask'[u] = reviewTask[u]
    BY Typed DEF SubmitForReview, ReviewTaskRecords
  <1>2. \A u \in ReviewTasks : TaskKept(u)
    BY <1>1 DEF SubmitForReview, TaskKept
  <1> QED
    BY <1>1, <1>2, TasksOnly, Typed DEF SubmitForReview

LEMMA DecideRevisionStep ==
    ASSUME DigestInv, NEW t \in ReviewTasks, DecideRevision(t)
    PROVE  DigestInv'
  <1>1. /\ reviewTask' \in [ReviewTasks -> ReviewTaskRecords]
        /\ reviewTask'[t].status = reviewTask[t].status /\ reviewTask'[t].batch = reviewTask[t].batch
        /\ ~reviewTask'[t].waiting
        /\ \A u \in ReviewTasks : u # t => reviewTask'[u] = reviewTask[u]
    BY Typed DEF DecideRevision, ReviewTaskRecords
  <1>2. \A u \in ReviewTasks : TaskKept(u)
    BY <1>1 DEF TaskKept
  <1> QED
    BY <1>1, <1>2, TasksOnly, Typed DEF DecideRevision

LEMMA TaskBecomesDueStep ==
    ASSUME DigestInv, NEW t \in ReviewTasks, TaskBecomesDue(t)
    PROVE  DigestInv'
  <1>1. /\ reviewTask' \in [ReviewTasks -> ReviewTaskRecords]
        /\ reviewTask'[t].status = reviewTask[t].status /\ reviewTask'[t].batch = reviewTask[t].batch
        /\ reviewTask'[t].waiting = reviewTask[t].waiting
        /\ \A u \in ReviewTasks : u # t => reviewTask'[u] = reviewTask[u]
    BY Typed DEF TaskBecomesDue, ReviewTaskRecords
  <1>2. \A u \in ReviewTasks : TaskKept(u)
    BY <1>1 DEF TaskKept
  <1> QED
    BY <1>1, <1>2, TasksOnly, Typed DEF TaskBecomesDue

LEMMA SkipStaleTasksStep ==
    ASSUME DigestInv, NEW l \in Loops, SkipStaleTasks(l)
    PROVE  DigestInv'
  <1>0. "lease" \in Pcs \ Sender /\ "open" \in Pcs \ Sender
    BY DEF Pcs, Sender
  <1>1. CASE loop[l].deferred
    BY <1>0, <1>1, PlannerGoes DEF SkipStaleTasks
  <1>2. CASE ~loop[l].deferred
    <2>1. /\ GoTo(l, "open")
          /\ reviewTask' = [t \in ReviewTasks |->
                 IF reviewTask[t].status = "pending" /\ ~reviewTask[t].waiting
                 THEN [reviewTask[t] EXCEPT !.status = "skipped"] ELSE reviewTask[t]]
      BY <1>2 DEF SkipStaleTasks
    <2>2. ASSUME NEW t \in ReviewTasks PROVE reviewTask'[t] \in ReviewTaskRecords /\ TaskKept(t)
      <3>1. CASE reviewTask[t].status = "pending" /\ ~reviewTask[t].waiting
        <4>1. reviewTask'[t] = [reviewTask[t] EXCEPT !.status = "skipped"]
          BY <2>1, <3>1
        <4> QED
          BY <3>1, <4>1, Typed DEF TaskKept, ReviewTaskRecords
      <3>2. CASE ~(reviewTask[t].status = "pending" /\ ~reviewTask[t].waiting)
        <4>1. reviewTask'[t] = reviewTask[t]
          BY <2>1, <3>2
        <4> QED
          BY <4>1, Typed DEF TaskKept
      <3> QED
        BY <3>1, <3>2
    <2>3. reviewTask' \in [ReviewTasks -> ReviewTaskRecords]
      BY <2>1, <2>2
    <2>4. /\ loop' \in [Loops -> LoopRecords] /\ loop'[l].pc = "open"
          /\ \A k \in Loops : k # l => loop'[k] = loop[k]
      BY <1>0, <2>1, Goes, Typed
    <2>5. LoopKnows(l)'
      BY <2>4, Knows DEF Sender
    <2> QED
      BY <2>2, <2>3, <2>4, <2>5, TasksOnly DEF SkipStaleTasks
  <1> QED
    BY <1>1, <1>2

-----------------------------------------------------------------------------
(* The quiet steps that write to a batch.                                     *)

LEMMA BatchesOnly ==
    ASSUME DigestInv, UNCHANGED <<reviewTask, recipientValid, cooling, digestMails>>,
           DigestFault \/ UNCHANGED digestFaults,
           digest' \in [Digests -> DigestRecords],
           \A b \in Digests : BatchKept(b),
           loop' \in [Loops -> LoopRecords],
           \A l \in Loops : loop'[l] = loop[l] \/ LoopKnows(l)'
    PROVE  DigestInv'
  <1>1. DigestTypeOK'
    <2>1. digestFaults' \in 0 .. MaxDigestFaults
      BY Faults, Typed
    <2> QED
      BY <2>1 DEF DigestInv, DigestTypeOK
  <1> QED
    BY <1>1, Quiet, Kept

\* A timer that goes off on a batch.
LEMMA BatchTimer ==
    ASSUME DigestInv, NEW b \in Digests, RetryDue(b) \/ LeaseOver(b)
    PROVE  digest' \in [Digests -> DigestRecords] /\ \A c \in Digests : BatchKept(c)
  <1>1. CASE RetryDue(b)
    <2>1. /\ digest' \in [Digests -> DigestRecords] /\ digest'[b].status = digest[b].status
          /\ \A c \in Digests : c # b => digest'[c] = digest[c]
      BY <1>1, Typed DEF RetryDue, DigestRecords
    <2> QED
      BY <2>1 DEF BatchKept
  <1>2. CASE LeaseOver(b)
    <2>1. /\ digest' \in [Digests -> DigestRecords] /\ digest'[b].status = digest[b].status
          /\ \A c \in Digests : c # b => digest'[c] = digest[c]
      BY <1>2, Typed DEF LeaseOver, DigestRecords
    <2> QED
      BY <2>1 DEF BatchKept
  <1> QED
    BY <1>1, <1>2

LEMMA TimerStep ==
    ASSUME DigestInv, NEW b \in Digests, DigestTimer(b) \/ SlowLoop(b)
    PROVE  DigestInv'
  BY BatchTimer, BatchesOnly, Typed DEF DigestTimer, SlowLoop

LEMMA Claims ==
    ASSUME DigestInv, NEW b \in Leasable, Claim(b)
    PROVE  digest' \in [Digests -> DigestRecords] /\ b \in Digests /\ digest'[b].status = "sending"
           /\ \A c \in Digests : BatchKept(c)
  <1>1. b \in Digests /\ digest[b].status \in {"pending", "sending"}
    BY DEF Leasable, OpenDigests
  <1>2. /\ digest' \in [Digests -> DigestRecords] /\ digest'[b].status = "sending"
        /\ \A c \in Digests : c # b => digest'[c] = digest[c]
    BY <1>1, Typed DEF Claim, DigestRecords
  <1> QED
    BY <1>1, <1>2 DEF BatchKept

LEMMA LeaseBatchesStep ==
    ASSUME DigestInv, NEW l \in Loops, LeaseBatches(l)
    PROVE  DigestInv'
  <1>1. CASE Leasable = {}
    <2>1. "plan" \in Pcs \ Sender
      BY DEF Pcs, Sender
    <2> QED
      BY <1>1, <2>1, PlannerGoes DEF LeaseBatches
  <1>2. CASE Leasable # {}
    <2>1. PICK b \in Leasable :
            /\ Claim(b)
            /\ loop' = [loop EXCEPT ![l].pc = IF digest[b].named THEN "load" ELSE "persist",
                                    ![l].batch = b]
      BY <1>2 DEF LeaseBatches
    <2>2. /\ digest' \in [Digests -> DigestRecords] /\ b \in Digests /\ digest'[b].status = "sending"
          /\ \A c \in Digests : BatchKept(c)
      BY <2>1, Claims
    <2>3. /\ loop' \in [Loops -> LoopRecords] /\ \A k \in Loops : k # l => loop'[k] = loop[k]
          /\ loop'[l].pc \in {"load", "persist"} /\ loop'[l].batch = b
      BY <2>1, <2>2, Typed DEF LoopRecords
    <2>4. LoopKnows(l)'
      BY <2>2, <2>3 DEF LoopKnows
    <2> QED
      BY <2>2, <2>3, <2>4, BatchesOnly DEF LeaseBatches
  <1> QED
    BY <1>1, <1>2

LEMMA LeaseBatchesFailsStep ==
    ASSUME DigestInv, NEW l \in Loops, LeaseBatchesFails(l)
    PROVE  DigestInv'
  <1>1. digest' \in [Digests -> DigestRecords] /\ \A c \in Digests : BatchKept(c)
    BY Claims, Kept, Typed DEF LeaseBatchesFails
  <1>2. "plan" \in Pcs
    BY DEF Pcs
  <1>3. /\ loop' \in [Loops -> LoopRecords] /\ loop'[l].pc = "plan"
        /\ \A k \in Loops : k # l => loop'[k] = loop[k]
    BY <1>2, Goes, Typed DEF LeaseBatchesFails
  <1>4. LoopKnows(l)'
    BY <1>3, Knows DEF Sender
  <1> QED
    BY <1>1, <1>3, <1>4, BatchesOnly DEF LeaseBatchesFails

LEMMA PersistBatchMessageIDStep ==
    ASSUME DigestInv, NEW l \in Loops, PersistBatchMessageID(l)
    PROVE  DigestInv'
  <1> DEFINE b == loop[l].batch
  <1>0. loop[l].pc = "persist" /\ b \in Digests
    BY DEF PersistBatchMessageID, DigestInv, LoopKnows, Sender
  <1>1. digest' \in [Digests -> DigestRecords] /\ \A c \in Digests : BatchKept(c)
    <2>1. CASE Sending(b)
      <3>1. digest' = [digest EXCEPT ![b].named = TRUE]
        BY <2>1 DEF PersistBatchMessageID
      <3>2. /\ digest' \in [Digests -> DigestRecords] /\ digest'[b].status = digest[b].status
            /\ \A c \in Digests : c # b => digest'[c] = digest[c]
        BY <1>0, <3>1, Typed DEF DigestRecords
      <3> QED
        BY <3>2 DEF BatchKept
    <2>2. CASE ~Sending(b)
      BY <2>2, Kept, Typed DEF PersistBatchMessageID
    <2> QED
      BY <2>1, <2>2
  <1>2. /\ loop' \in [Loops -> LoopRecords] /\ loop'[l].pc \in {"load", "retry"}
        /\ loop'[l].batch = loop[l].batch /\ \A k \in Loops : k # l => loop'[k] = loop[k]
    <2>1. "load" \in Pcs /\ "retry" \in Pcs
      BY DEF Pcs, Sender
    <2> QED
      BY <2>1, Goes, Typed DEF PersistBatchMessageID
  <1>3. LoopKnows(l)'
    BY <1>0, <1>1, <1>2, KnowsBatch DEF Sender
  <1> QED
    BY <1>1, <1>2, <1>3, BatchesOnly DEF PersistBatchMessageID

LEMMA MarkBatchRetryStep ==
    ASSUME DigestInv, NEW l \in Loops, MarkBatchRetry(l)
    PROVE  DigestInv'
  <1> DEFINE b == loop[l].batch
  <1>0. loop[l].pc = "retry" /\ b \in Digests
    BY DEF MarkBatchRetry, DigestInv, LoopKnows, Sender
  <1>1. digest' \in [Digests -> DigestRecords] /\ \A c \in Digests : BatchKept(c)
    <2>1. CASE Sending(b)
      <3>1. digest' = [digest EXCEPT ![b].status = "pending", ![b].due = FALSE, ![b].leased = FALSE]
        BY <2>1 DEF MarkBatchRetry
      <3>2. /\ digest' \in [Digests -> DigestRecords] /\ digest'[b].status = "pending"
            /\ \A c \in Digests : c # b => digest'[c] = digest[c]
        BY <1>0, <3>1, Typed DEF DigestRecords
      <3> QED
        BY <2>1, <3>2 DEF BatchKept, Sending
    <2>2. CASE ~Sending(b)
      BY <2>2, Kept, Typed DEF MarkBatchRetry
    <2> QED
      BY <2>1, <2>2
  <1>2. /\ loop' \in [Loops -> LoopRecords] /\ loop'[l].pc = "plan"
        /\ \A k \in Loops : k # l => loop'[k] = loop[k]
    BY Rests, Typed DEF MarkBatchRetry
  <1>3. LoopKnows(l)'
    BY <1>2, Knows DEF Sender
  <1> QED
    BY <1>1, <1>2, <1>3, BatchesOnly DEF MarkBatchRetry

-----------------------------------------------------------------------------
(* The steps that open a batch, send it and close it.                         *)

LEMMA InsertDigestStep ==
    ASSUME DigestInv, NEW l \in Loops, NEW b \in Digests, OpenDigests = {},
           InsertDigest(b, {t \in CurrentTasks : reviewTask[t].due}), GoTo(l, "lease"),
           UNCHANGED <<recipientValid, cooling, digestMails, digestFaults>>
    PROVE  DigestInv'
  <1> DEFINE T == {t \in CurrentTasks : reviewTask[t].due}
  <1>0. /\ digest[b].status = "none" /\ b # 0
        /\ digest' = [digest EXCEPT ![b] =
               [status |-> "pending", due |-> TRUE, leased |-> FALSE, named |-> FALSE]]
        /\ reviewTask' = [t \in ReviewTasks |->
               IF t \in T THEN [reviewTask[t] EXCEPT !.status = "batched", !.batch = b]
               ELSE reviewTask[t]]
    BY DigestsAreNumbers DEF InsertDigest
  <1>1. \A t \in T : t \in ReviewTasks /\ reviewTask[t].status = "pending"
    BY DEF CurrentTasks
  <1> HIDE DEF T
  <1>2. /\ digest' \in [Digests -> DigestRecords] /\ digest'[b].status = "pending"
        /\ \A c \in Digests : c # b => digest'[c] = digest[c]
    BY <1>0, Typed DEF DigestRecords
  <1>3. \A t \in T : reviewTask'[t] \in ReviewTaskRecords /\ reviewTask'[t].status = "batched" /\ reviewTask'[t].batch = b
    BY <1>0, <1>1, Typed DEF ReviewTaskRecords
  <1>4. \A t \in ReviewTasks : t \notin T => reviewTask'[t] = reviewTask[t]
    BY <1>0
  <1>5. reviewTask' \in [ReviewTasks -> ReviewTaskRecords]
    <2>1. \A t \in ReviewTasks : reviewTask'[t] \in ReviewTaskRecords
      BY <1>3, <1>4, Typed
    <2> QED
      BY <1>0, <2>1
  <1>6. /\ loop' \in [Loops -> LoopRecords] /\ loop'[l].pc = "lease"
        /\ \A k \in Loops : k # l => loop'[k] = loop[k]
    BY Goes, Typed DEF Pcs
  <1>7. DigestTypeOK'
    BY <1>2, <1>5, <1>6 DEF DigestInv, DigestTypeOK
  <1>8. OneOpenDigest'
    <2>1. OpenDigests' = {b}
      BY <1>2 DEF OpenDigests
    <2>2. \A t \in ReviewTasks : reviewTask[t].status # "batched"
      BY DEF DigestInv, OneOpenDigest
    <2> QED
      BY <1>3, <1>4, <2>1, <2>2 DEF OneOpenDigest
  <1>9. ReportedOnce'
    BY <1>3, <1>4 DEF DigestInv, ReportedOnce
  <1>10. \A t \in T : reviewTask[t].batch = 0
    BY <1>1 DEF DigestInv, BatchesHold
  <1>11. BatchesHold'
    <2>1. \A t \in ReviewTasks : reviewTask[t].batch \in {0} \cup Digests
      BY Typed DEF ReviewTaskRecords
    <2>2. \A m \in digestMails : m[1] \in Digests /\ m[2] \in ReviewTasks /\ m[1] # 0
      BY Typed, DigestsAreNumbers
    <2>3. \A m \in digestMails : m[2] \notin T
      BY <1>10, <2>2 DEF DigestInv, BatchesHold
    <2>4. \A m \in digestMails' : reviewTask'[m[2]].batch = m[1]
      BY <1>4, <2>2, <2>3 DEF DigestInv, BatchesHold
    <2>5. \A t \in ReviewTasks :
            /\ reviewTask'[t].status \in {"none", "pending"} => reviewTask'[t].batch = 0
            /\ reviewTask'[t].batch # 0 => digest'[reviewTask'[t].batch].status # "none"
      BY <1>0, <1>2, <1>3, <1>4, <2>1 DEF DigestInv, BatchesHold
    <2> QED
      BY <2>4, <2>5 DEF BatchesHold
  <1>12. ASSUME NEW k \in Loops PROVE LoopKnows(k)'
    <2>1. CASE k = l
      BY <1>6, <2>1, Knows DEF Sender
    <2>2. CASE k # l
      <3>1. loop'[k] = loop[k] /\ LoopKnows(k)
        BY <1>6, <2>2 DEF DigestInv
      <3>2. loop[k].pc \in Sender => loop[k].batch \in Digests /\ loop[k].batch # b /\ loop[k].batch # 0
        BY <1>0, <3>1, DigestsAreNumbers DEF LoopKnows
      <3>3. loop[k].pc \in Sender => Waiting(loop[k].batch)' = Waiting(loop[k].batch)
        BY <1>3, <1>4, <1>10, <3>1, <3>2 DEF Waiting
      <3>4. loop[k].pc \in Sender => digest'[loop[k].batch] = digest[loop[k].batch]
        BY <1>2, <3>2
      <3>5. loop[k].tasks \subseteq ReviewTasks
        BY Typed DEF LoopRecords
      <3>6. loop[k].pc = "mail" => \A t \in loop[k].tasks : reviewTask'[t].batch = loop[k].batch
        BY <1>4, <1>10, <3>1, <3>2, <3>5 DEF LoopKnows, Sender
      <3> QED
        BY <3>1, <3>2, <3>3, <3>4, <3>6 DEF LoopKnows, Sender
    <2> QED
      BY <2>1, <2>2
  <1> QED
    BY <1>7, <1>8, <1>9, <1>11, <1>12 DEF DigestInv

LEMMA CreateBatchStep ==
    ASSUME DigestInv, NEW l \in Loops, CreateBatch(l)
    PROVE  DigestInv'
  <1> DEFINE T == {t \in CurrentTasks : reviewTask[t].due}
  <1>1. CASE T = {} \/ OpenDigests # {}
    <2>1. "lease" \in Pcs \ Sender
      BY DEF Pcs, Sender
    <2> QED
      BY <1>1, <2>1, PlannerGoes DEF CreateBatch
  <1>2. CASE ~(T = {} \/ OpenDigests # {})
    <2>1. PICK b \in Digests : InsertDigest(b, T)
      BY <1>2 DEF CreateBatch
    <2> QED
      BY <1>2, <2>1, InsertDigestStep DEF CreateBatch
  <1> QED
    BY <1>1, <1>2

LEMMA SendHTMLStep ==
    ASSUME DigestInv, NEW l \in Loops, SendHTML(l)
    PROVE  DigestInv'
  <1> DEFINE b == loop[l].batch
             T == loop[l].tasks
  <1>0. /\ b \in Digests /\ T \subseteq ReviewTasks /\ Waiting(b) \subseteq T
        /\ \A t \in T : reviewTask[t].batch = b
        /\ digest[b].status # "none"
        /\ digestMails' = digestMails \cup ({b} \X T)
        /\ UNCHANGED <<reviewTask, digest, recipientValid, cooling, digestFaults>>
        /\ loop' = [loop EXCEPT ![l].pc = "mark", ![l].tasks = {}]
    BY Typed DEF SendHTML, DigestInv, LoopKnows, Sender, LoopRecords
  <1> HIDE DEF b, T
  <1>1. /\ loop' \in [Loops -> LoopRecords] /\ loop'[l].pc = "mark" /\ loop'[l].batch = b
        /\ \A k \in Loops : k # l => loop'[k] = loop[k]
    BY <1>0, Typed DEF LoopRecords, b
  <1>2. \A m \in digestMails' : m \in digestMails \/ (m[1] = b /\ m[2] \in T)
    BY <1>0
  <1>3. digestMails' \subseteq Digests \X ReviewTasks /\ digestMails \subseteq digestMails'
    BY <1>0, Typed
  <1>4. DigestTypeOK'
    BY <1>0, <1>1, <1>3 DEF DigestInv, DigestTypeOK
  <1>5. BatchesHold'
    BY <1>0, <1>2 DEF DigestInv, BatchesHold
  <1>6. ReportedOnce'
    <2>1. \A m, n \in digestMails' : m[2] = n[2] => m[1] = n[1]
      BY <1>5 DEF BatchesHold
    <2> QED
      BY <1>0, <1>3, <2>1 DEF DigestInv, ReportedOnce
  <1>7. OneOpenDigest'
    BY <1>0 DEF DigestInv, OneOpenDigest, OpenDigests
  <1>8. ASSUME NEW k \in Loops PROVE LoopKnows(k)'
    <2>1. CASE k = l
      <3>1. Waiting(loop[l].batch)' \subseteq T
        BY <1>0, <1>1 DEF Waiting
      <3>2. \A t \in T : <<b, t>> \in digestMails'
        BY <1>0
      <3> QED
        BY <1>0, <1>1, <2>1, <3>1, <3>2 DEF LoopKnows
    <2>2. CASE k # l
      <3>1. loop'[k] = loop[k] /\ LoopKnows(k)
        BY <1>1, <2>2 DEF DigestInv
      <3>2. Waiting(loop[k].batch)' = Waiting(loop[k].batch)
        BY <1>0, <3>1 DEF Waiting
      <3> QED
        BY <1>0, <1>3, <3>1, <3>2 DEF LoopKnows
    <2> QED
      BY <2>1, <2>2
  <1> QED
    BY <1>4, <1>5, <1>6, <1>7, <1>8 DEF DigestInv

\* A batch that is closed takes all that is in "batched" with it: it was the open one.
LEMMA Closes ==
    ASSUME DigestInv, NEW l \in Loops, NEW b \in Digests, Sending(b),
           NEW status \in {"sent", "failed"}, NEW taskStatus \in {"sent", "skipped"},
           Close(b, status, taskStatus), Rested(l), cooling' \in BOOLEAN,
           taskStatus = "sent" => \A t \in Waiting(b) : <<b, t>> \in digestMails,
           taskStatus = "skipped" => Waiting(b) = {},
           UNCHANGED <<recipientValid, digestMails, digestFaults>>
    PROVE  DigestInv'
  <1> DEFINE T == {t \in ReviewTasks : reviewTask[t].batch = b /\ reviewTask[t].status = "batched"}
  <1>0. /\ digest' = [digest EXCEPT ![b].status = status, ![b].leased = FALSE]
        /\ reviewTask' = [t \in ReviewTasks |->
               IF t \in T THEN [reviewTask[t] EXCEPT !.status = taskStatus] ELSE reviewTask[t]]
        /\ \A t \in T : t \in ReviewTasks /\ reviewTask[t].batch = b /\ reviewTask[t].status = "batched"
    BY DEF Close
  <1>1. \A t \in ReviewTasks : t \notin T => reviewTask[t].batch # b \/ reviewTask[t].status # "batched"
    OBVIOUS
  <1>2. Waiting(b) = {t \in T : reviewTask[t].waiting}
    BY DEF Waiting
  <1> HIDE DEF T
  <1>3. /\ digest' \in [Digests -> DigestRecords] /\ digest'[b].status = status
        /\ \A c \in Digests : c # b => digest'[c] = digest[c]
    BY <1>0, Typed DEF DigestRecords
  <1>4. \A t \in T : /\ reviewTask'[t] \in ReviewTaskRecords /\ reviewTask'[t].status = taskStatus
                     /\ reviewTask'[t].batch = b /\ reviewTask'[t].waiting = reviewTask[t].waiting
    BY <1>0, Typed DEF ReviewTaskRecords
  <1>5. \A t \in ReviewTasks : t \notin T => reviewTask'[t] = reviewTask[t]
    BY <1>0
  <1>6. reviewTask' \in [ReviewTasks -> ReviewTaskRecords]
    <2>1. \A t \in ReviewTasks : reviewTask'[t] \in ReviewTaskRecords
      BY <1>4, <1>5, Typed
    <2> QED
      BY <1>0, <2>1
  <1>7. /\ loop' \in [Loops -> LoopRecords] /\ loop'[l].pc = "plan"
        /\ \A k \in Loops : k # l => loop'[k] = loop[k]
    BY Rests, Typed
  <1>8. DigestTypeOK'
    BY <1>3, <1>6, <1>7 DEF DigestInv, DigestTypeOK
  <1>9. OneOpenDigest'
    <2>1. b \in OpenDigests /\ \A c \in OpenDigests : c = b
      BY DEF DigestInv, OneOpenDigest, OpenDigests, Sending
    <2>2. OpenDigests' = {}
      BY <1>3, <2>1 DEF OpenDigests
    <2>3. \A t \in ReviewTasks : reviewTask[t].status = "batched" => reviewTask[t].batch = b
      BY <2>1 DEF DigestInv, OneOpenDigest
    <2>4. \A t \in ReviewTasks : reviewTask'[t].status # "batched"
      BY <1>1, <1>4, <1>5, <2>3
    <2> QED
      BY <2>2, <2>4 DEF OneOpenDigest
  <1>10. ReportedOnce'
    <2>1. ASSUME NEW t \in ReviewTasks
          PROVE  /\ reviewTask'[t].status = "sent" /\ reviewTask'[t].waiting => <<reviewTask'[t].batch, t>> \in digestMails
                 /\ reviewTask'[t].status = "skipped" => ~reviewTask'[t].waiting
      <3>1. CASE t \notin T
        BY <1>5, <3>1 DEF DigestInv, ReportedOnce
      <3>2. CASE t \in T
        BY <1>2, <1>4, <3>2
      <3> QED
        BY <3>1, <3>2
    <2> QED
      BY <2>1 DEF DigestInv, ReportedOnce
  <1>11. \A c \in Digests : digest[c].status # "none" => digest'[c].status # "none"
    BY <1>3
  <1>12. BatchesHold'
    <2>1. \A t \in ReviewTasks : reviewTask[t].batch \in {0} \cup Digests
      BY Typed DEF ReviewTaskRecords
    <2>2. \A t \in ReviewTasks : reviewTask'[t].batch = reviewTask[t].batch
      BY <1>0, <1>4, <1>5
    <2>3. \A m \in digestMails' : reviewTask'[m[2]].batch = m[1]
      BY <2>2, Typed DEF DigestInv, BatchesHold
    <2>4. \A t \in ReviewTasks :
            /\ reviewTask'[t].status \in {"none", "pending"} => reviewTask'[t].batch = 0
            /\ reviewTask'[t].batch # 0 => digest'[reviewTask'[t].batch].status # "none"
      BY <1>4, <1>5, <1>11, <2>1, <2>2 DEF DigestInv, BatchesHold
    <2> QED
      BY <2>3, <2>4 DEF BatchesHold
  <1>13. ASSUME NEW k \in Loops PROVE LoopKnows(k)'
    <2>1. CASE k = l
      BY <1>7, <2>1, Knows DEF Sender
    <2>2. CASE k # l
      <3>1. loop'[k] = loop[k] /\ LoopKnows(k)
        BY <1>7, <2>2 DEF DigestInv
      <3>2. Waiting(loop[k].batch)' \subseteq Waiting(loop[k].batch)
        BY <1>4, <1>5, <3>1 DEF Waiting
      <3>3. loop[k].tasks \subseteq ReviewTasks
        BY Typed DEF LoopRecords
      <3>4. loop[k].pc = "mail" => \A t \in loop[k].tasks : reviewTask'[t].batch = loop[k].batch
        BY <1>0, <1>4, <1>5, <3>1, <3>3 DEF LoopKnows
      <3> QED
        BY <1>11, <3>1, <3>2, <3>4 DEF LoopKnows, Sender
    <2> QED
      BY <2>1, <2>2
  <1> QED
    BY <1>8, <1>9, <1>10, <1>12, <1>13 DEF DigestInv

LEMMA MarkBatchSentStep ==
    ASSUME DigestInv, NEW l \in Loops, MarkBatchSent(l)
    PROVE  DigestInv'
  <1> DEFINE b == loop[l].batch
  <1>0. /\ loop[l].pc = "mark" /\ b \in Digests
        /\ \A t \in Waiting(b) : <<b, t>> \in digestMails
    BY DEF MarkBatchSent, DigestInv, LoopKnows, Sender
  <1>1. CASE Sending(b)
    BY <1>0, <1>1, Closes DEF MarkBatchSent
  <1>2. CASE ~Sending(b)
    <2>1. /\ UNCHANGED <<digest, reviewTask, recipientValid, cooling, digestMails, digestFaults>>
          /\ GoTo(l, "retry")
      BY <1>2 DEF MarkBatchSent
    <2>2. /\ loop' \in [Loops -> LoopRecords] /\ loop'[l].pc = "retry" /\ loop'[l].batch = loop[l].batch
          /\ \A k \in Loops : k # l => loop'[k] = loop[k]
      BY <2>1, Goes, Typed DEF Pcs, Sender
    <2>3. LoopKnows(l)'
      BY <1>0, <2>1, <2>2, KnowsBatch, Kept DEF Sender
    <2> QED
      BY <2>1, <2>2, <2>3, LoopOnly, Typed
  <1> QED
    BY <1>1, <1>2

LEMMA MarkBatchSkippedStep ==
    ASSUME DigestInv, NEW l \in Loops, MarkBatchSkipped(l)
    PROVE  DigestInv'
  <1> DEFINE b == loop[l].batch
  <1>0. loop[l].pc = "skip" /\ b \in Digests /\ Waiting(b) = {}
    BY DEF MarkBatchSkipped, DigestInv, LoopKnows, Sender
  <1>1. CASE Sending(b)
    BY <1>0, <1>1, Closes, Typed DEF MarkBatchSkipped
  <1>2. CASE ~Sending(b)
    <2>1. UNCHANGED <<digest, reviewTask, recipientValid, cooling, digestMails, digestFaults>> /\ Rested(l)
      BY <1>2 DEF MarkBatchSkipped
    <2>2. /\ loop' \in [Loops -> LoopRecords] /\ loop'[l].pc = "plan"
          /\ \A k \in Loops : k # l => loop'[k] = loop[k]
      BY <2>1, Rests, Typed
    <2>3. LoopKnows(l)'
      BY <2>2, Knows DEF Sender
    <2> QED
      BY <2>1, <2>2, <2>3, LoopOnly, Typed
  <1> QED
    BY <1>1, <1>2

-----------------------------------------------------------------------------
LEMMA DigestStep == DigestInv /\ [DigestNext]_digestVars => DigestInv'
  <1> SUFFICES ASSUME DigestInv, [DigestNext]_digestVars PROVE DigestInv'
    OBVIOUS
  <1>1. ASSUME NEW t \in ReviewTasks, SubmitForReview(t) \/ DecideRevision(t) \/ TaskBecomesDue(t)
        PROVE  DigestInv'
    BY <1>1, SubmitForReviewStep, DecideRevisionStep, TaskBecomesDueStep
  <1>2. CASE RecipientRepaired \/ CooldownEnds
    BY <1>2, ClockStep
  <1>3. ASSUME NEW b \in Digests, DigestTimer(b) \/ SlowLoop(b) PROVE DigestInv'
    BY <1>3, TimerStep
  <1>4. ASSUME NEW l \in Loops,
               \/ DeferralEnds(l) \/ LoopStep(l)
               \/ LoopRestarts(l) \/ PlanFails(l) \/ LeaseBatchesFails(l) \/ SendCallFails(l) \/ CloseFails(l)
        PROVE  DigestInv'
    BY <1>4, DeferralEndsStep, LoopRestartsStep, PlannerStep, SkipStaleTasksStep,
       LoadAdminRecipientStep, CreateBatchStep, LeaseBatchesStep, LeaseBatchesFailsStep,
       PersistBatchMessageIDStep, LoadBatchTasksStep, SendHTMLStep, MarkBatchSentStep,
       MarkBatchSkippedStep, MarkBatchRetryStep, SendCallFailsStep, CloseFailsStep DEF LoopStep
  <1>5. CASE UNCHANGED digestVars
    BY <1>5, LoopOnly, Typed DEF digestVars
  <1> QED
    BY <1>1, <1>2, <1>3, <1>4, <1>5 DEF DigestNext, TimePasses

LEMMA DigestInvariant == DigestSpec => []DigestInv
  BY DigestInitInv, DigestStep, PTL DEF DigestSpec

\* However many processes plan and send, and whatever fails or restarts: one digest at most is
\* open, and no task is left in "batched" by one that is closed (CreateBatch under its locks,
\* MarkBatchSent and MarkBatchSkipped on the status alone); and a revision still waiting counts
\* as reported only when an accepted mail listed it, is given up only when it was decided, and
\* is in the mails of one batch only (sendBatch).
THEOREM DigestsAreSound == DigestSpec => []DigestSound
  <1>1. DigestInv => DigestSound
    BY DEF DigestInv, DigestSound
  <1> QED
    BY <1>1, DigestInvariant, PTL

-----------------------------------------------------------------------------
(***************************************************************************)
(* Rule sets.                                                              *)
(*                                                                         *)
(* The index of a candidate is built long before it is published, and what *)
(* is published must still be what a build would give: SnapshotIsItsVersion*)
(* is not inductive without what a ready index, a worker in the middle of  *)
(* a build and a publisher in front of the snapshot are worth meanwhile.   *)
(***************************************************************************)
\* The statuses of a version that is or was in force: StreamRules serves only rules of these.
InForce == {"published", "superseded"}

RulesetRow == [status : Statuses, base : Nat, removals : SUBSET Nat, index : SUBSET Nat]
RuleRow == [hash : Hashes, activated : Nat, deactivated : Nat]
ImportRow == [status : ImportStatuses, hash : Hashes, ruleset : Nat]

RowsTyped ==
    /\ rulesets \in Seq(RulesetRow)
    /\ rules \in Seq(RuleRow)
    /\ imports \in Seq(ImportRow)

\* How the versions hang together: one is published and it is the highest that was ever in
\* force, a candidate stands on a version that was, and it removes older rules only.
VersionsHold ==
    /\ PublishedIds = {Current}
    /\ \A v \in RulesetIds :
         /\ rulesets[v].status \in InForce => v <= Current
         /\ rulesets[v].base # 0 => rulesets[rulesets[v].base].status \in InForce
         /\ \A r \in rulesets[v].removals : rules[r].activated < v
    /\ \A r \in RuleIds : rules[r].deactivated <= Current

\* What an index is worth after it was built: a ready candidate on the published version
\* still has the index a build would give it now, and what is being installed is in force.
IndexesHold ==
    /\ \A v \in RulesetIds :
         rulesets[v].status = "ready" /\ rulesets[v].base = Current
            => rulesets[v].index = CandidateRules(v)
    /\ installing # 0 =>
         installing = Current /\ rulesets[Current].index = RulesOf(Current)
    /\ snapshot.version \in Nat /\ snapshot.version <= Current
    /\ snapshot.version = Current => snapshot.rules = RulesOf(Current)

\* What the worker remembers between two of its transactions.
WorkerKnows ==
    /\ worker.pc \in {"validate", "create", "link"} => worker.import \in DOMAIN imports
    /\ worker.pc = "create" =>
         worker.base \in RulesetIds /\ rulesets[worker.base].status \in InForce
    /\ worker.pc \in {"link", "build", "save", "check", "publish"} =>
         worker.ruleset \in RulesetIds
    /\ worker.pc \in {"build", "save"} =>
         rulesets[worker.ruleset].status \in {"building", "failed"}
    /\ worker.pc = "save" => worker.index \subseteq RuleIds
    /\ worker.pc = "save" /\ rulesets[worker.ruleset].base = Current
         => worker.index = CandidateRules(worker.ruleset)

RuleInv == RowsTyped /\ RuleTypeOK /\ VersionsHold /\ IndexesHold /\ WorkerKnows

\* What every step but a publication does to the rows.
RowsKept ==
    /\ RowsTyped' /\ RuleTypeOK'
    /\ RulesetIds \subseteq RulesetIds' /\ RuleIds \subseteq RuleIds'
    /\ \A v \in RulesetIds :
         /\ rulesets'[v].base = rulesets[v].base
         /\ rulesets'[v].removals = rulesets[v].removals
         /\ rulesets[v].status \in InForce \/ rulesets'[v].status \in InForce
              => rulesets'[v] = rulesets[v]
    /\ \A v \in RulesetIds' \ RulesetIds :
         /\ rulesets'[v].status = "building"
         /\ rulesets'[v].base \in RulesetIds /\ rulesets[rulesets'[v].base].status \in InForce
         /\ \A r \in rulesets'[v].removals : r \in RuleIds /\ rules[r].activated < v
    /\ \A r \in RuleIds : rules'[r] = rules[r]
    /\ \A r \in RuleIds' \ RuleIds : rules'[r].activated \notin RulesetIds /\ rules'[r].deactivated = 0

\* ... and every step but the end of a build to the results of builds.
BuildsKept ==
    /\ \A v \in RulesetIds : rulesets'[v].status = "ready" => rulesets'[v] = rulesets[v]
    /\ installing' \in {0, installing} /\ snapshot' = snapshot

-----------------------------------------------------------------------------
LEMMA RowIds ==
    RowsTyped =>
        /\ Len(rulesets) \in Nat /\ RulesetIds = 1 .. Len(rulesets)
        /\ Len(rules) \in Nat /\ RuleIds = 1 .. Len(rules)
        /\ Len(imports) \in Nat /\ DOMAIN imports = 1 .. Len(imports)
        /\ \A v \in RulesetIds : rulesets[v] \in RulesetRow
        /\ \A r \in RuleIds : rules[r] \in RuleRow
        /\ \A i \in DOMAIN imports : imports[i] \in ImportRow
  <1> SUFFICES ASSUME RowsTyped
               PROVE  /\ Len(rulesets) \in Nat /\ RulesetIds = 1 .. Len(rulesets)
                      /\ Len(rules) \in Nat /\ RuleIds = 1 .. Len(rules)
                      /\ Len(imports) \in Nat /\ DOMAIN imports = 1 .. Len(imports)
                      /\ \A v \in RulesetIds : rulesets[v] \in RulesetRow
                      /\ \A r \in RuleIds : rules[r] \in RuleRow
                      /\ \A i \in DOMAIN imports : imports[i] \in ImportRow
    OBVIOUS
  <1>1. rulesets \in Seq(RulesetRow) /\ rules \in Seq(RuleRow) /\ imports \in Seq(ImportRow)
    BY DEF RowsTyped
  <1>2. Len(rulesets) \in Nat /\ RulesetIds = 1 .. Len(rulesets)
    BY <1>1, LenProperties DEF RulesetIds
  <1>3. Len(rules) \in Nat /\ RuleIds = 1 .. Len(rules)
    BY <1>1, LenProperties DEF RuleIds
  <1>4. Len(imports) \in Nat /\ DOMAIN imports = 1 .. Len(imports)
    BY <1>1, LenProperties
  <1>5. \A v \in RulesetIds : rulesets[v] \in RulesetRow
    BY <1>1, <1>2, ElementOfSeq
  <1>6. \A r \in RuleIds : rules[r] \in RuleRow
    BY <1>1, <1>3, ElementOfSeq
  <1>7. \A i \in DOMAIN imports : imports[i] \in ImportRow
    BY <1>1, <1>4, ElementOfSeq
  <1> QED
    BY <1>2, <1>3, <1>4, <1>5, <1>6, <1>7

\* The published version and the rules of a version, in the terms the steps are stated in.
LEMMA CurrentIs ==
    RowsTyped => \A w \in RulesetIds : PublishedIds = {w} => Current = w
  <1> SUFFICES ASSUME RowsTyped, NEW c \in RulesetIds, PublishedIds = {c} PROVE Current = c
    OBVIOUS
  <1>1. c \in Nat
    BY RowIds
  <1>2. Max({c}) = c
    BY <1>1 DEF Max
  <1> QED
    BY <1>2 DEF Current

LEMMA CurrentIsNext ==
    RowsTyped' => (\A w \in RulesetIds : PublishedIds = {w} => Current = w)'
  BY CurrentIs, PTL

LEMMA CurrentIsThere ==
    ASSUME RowsTyped, VersionsHold
    PROVE  Current \in RulesetIds /\ Current \in Nat \ {0} /\ rulesets[Current].status = "published"
  <1>1. Current \in PublishedIds
    BY DEF VersionsHold
  <1> QED
    BY <1>1, RowIds DEF PublishedIds

\* Every step but a publication leaves the version in force, the rules of every version and
\* what every candidate would be built from.
LEMMA Keeps ==
    ASSUME RuleInv, RowsKept
    PROVE  /\ Current' = Current /\ VersionsHold'
           /\ \A v \in Nat : RulesOf(v)' = RulesOf(v)
           /\ \A v \in RulesetIds : CandidateRules(v)' = CandidateRules(v)
  <1>1. /\ Current \in RulesetIds /\ Current \in Nat \ {0} /\ PublishedIds = {Current}
        /\ rulesets[Current].status = "published"
    BY CurrentIsThere DEF RuleInv, VersionsHold
  <1>2. PublishedIds' = {Current}
    BY <1>1 DEF RowsKept, PublishedIds, InForce
  <1>3. Current' = Current
    BY <1>1, <1>2, CurrentIsNext DEF RowsKept
  <1>4. /\ RulesetIds = 1 .. Len(rulesets) /\ Len(rulesets) \in Nat
        /\ \A v \in RulesetIds : rulesets[v] \in RulesetRow
        /\ \A r \in RuleIds : rules[r] \in RuleRow
    BY RowIds DEF RuleInv
  <1>5. /\ RulesetIds' = 1 .. Len(rulesets')
        /\ \A v \in RulesetIds' : rulesets'[v] \in RulesetRow
        /\ \A r \in RuleIds' : rules'[r] \in RuleRow
    <2>1. RowsTyped' =>
            /\ (RulesetIds = 1 .. Len(rulesets))'
            /\ (\A v \in RulesetIds : rulesets[v] \in RulesetRow)'
            /\ (\A r \in RuleIds : rules[r] \in RuleRow)'
      BY RowIds, PTL
    <2> QED
      BY <2>1 DEF RowsKept
  <1>6. \A r \in RuleIds : rules[r].activated \in RulesetIds
    BY DEF RuleInv, RuleTypeOK
  <1>7. \A r \in RuleIds' : rules'[r].activated \in RulesetIds'
    BY DEF RowsKept, RuleTypeOK
  <1>8. \A v \in Nat : RulesOf(v)' = RulesOf(v)
    <2> SUFFICES ASSUME NEW v \in Nat PROVE RulesOf(v)' = RulesOf(v)
      OBVIOUS
    <2>1. \A r \in RuleIds : BelongsTo(r, v)' <=> BelongsTo(r, v)
      BY <1>6 DEF RowsKept, BelongsTo, InForce
    <2>2. \A r \in RuleIds' \ RuleIds : ~BelongsTo(r, v)'
      BY <1>7 DEF RowsKept, BelongsTo
    <2> QED
      BY <2>1, <2>2 DEF RulesOf, RowsKept
  <1>9. \A v \in RulesetIds : CandidateRules(v)' = CandidateRules(v)
    <2> SUFFICES ASSUME NEW v \in RulesetIds PROVE CandidateRules(v)' = CandidateRules(v)
      OBVIOUS
    <2>1. Own(v)' = Own(v)
      BY DEF Own, RowsKept
    <2>2. rulesets'[v].base = rulesets[v].base /\ rulesets'[v].removals = rulesets[v].removals
      BY DEF RowsKept
    <2>3. rulesets[v].base \in Nat
      BY <1>4 DEF RulesetRow
    <2>4. \A b \in Nat : b = rulesets[v].base => RulesOf(rulesets[v].base)' = RulesOf(b)
      BY <1>8, <2>2 DEF RulesOf, BelongsTo
    <2> QED
      BY <2>1, <2>2, <2>3, <2>4 DEF CandidateRules
  <1>10. VersionsHold'
    <2>1. \A v \in RulesetIds' : rulesets'[v].status \in InForce => v <= Current
      BY DEF RowsKept, RuleInv, VersionsHold, InForce
    <2>2. ASSUME NEW v \in RulesetIds', rulesets'[v].base # 0
          PROVE  rulesets'[rulesets'[v].base].status \in InForce
      <3>1. CASE v \in RulesetIds
        <4>1. /\ rulesets'[v].base = rulesets[v].base
              /\ rulesets[rulesets[v].base].status \in InForce
          BY <2>2, <3>1 DEF RowsKept, RuleInv, VersionsHold
        <4>2. rulesets[v].base \in Nat /\ rulesets[v].base < v
          BY <1>4, <3>1 DEF RuleInv, RuleTypeOK, RulesetRow
        <4>3. rulesets[v].base \in RulesetIds
          BY <1>4, <2>2, <3>1, <4>1, <4>2
        <4> QED
          BY <4>1, <4>3 DEF RowsKept
      <3>2. CASE v \notin RulesetIds
        BY <3>2 DEF RowsKept
      <3> QED
        BY <3>1, <3>2
    <2>3. ASSUME NEW v \in RulesetIds', NEW r \in rulesets'[v].removals
          PROVE  rules'[r].activated < v
      <3>1. CASE v \in RulesetIds
        <4>1. r \in rulesets[v].removals
          BY <2>3, <3>1 DEF RowsKept
        <4>2. r \in RuleIds /\ rules[r].activated < v
          BY <3>1, <4>1 DEF RuleInv, RuleTypeOK, VersionsHold
        <4> QED
          BY <4>2 DEF RowsKept
      <3>2. CASE v \notin RulesetIds
        BY <2>3, <3>2 DEF RowsKept
      <3> QED
        BY <3>1, <3>2
    <2>4. \A r \in RuleIds' : rules'[r].deactivated <= Current
      BY <1>1 DEF RowsKept, RuleInv, VersionsHold
    <2> QED
      BY <1>2, <1>3, <2>1, <2>2, <2>3, <2>4 DEF VersionsHold
  <1> QED
    BY <1>3, <1>8, <1>9, <1>10

\* So the results of builds stay worth what they were, ...
LEMMA KeepsIndexes ==
    ASSUME RuleInv, RowsKept, BuildsKept
    PROVE  IndexesHold'
  <1>1. /\ Current' = Current /\ Current \in RulesetIds /\ Current \in Nat \ {0}
        /\ rulesets[Current].status = "published"
        /\ \A v \in Nat : RulesOf(v)' = RulesOf(v)
        /\ \A v \in RulesetIds : CandidateRules(v)' = CandidateRules(v)
    BY Keeps, CurrentIsThere DEF RuleInv
  <1>2. RulesOf(Current)' = RulesOf(Current)
    <2>1. \A c \in Nat : c = Current' => RulesOf(Current)' = RulesOf(c)'
      BY DEF RulesOf, BelongsTo
    <2> QED
      BY <1>1, <2>1
  <1>3. ASSUME NEW v \in RulesetIds', rulesets'[v].status = "ready", rulesets'[v].base = Current
        PROVE  rulesets'[v].index = CandidateRules(v)'
    <2>1. v \in RulesetIds
      BY <1>3 DEF RowsKept
    <2>2. rulesets'[v] = rulesets[v]
      BY <1>3, <2>1 DEF BuildsKept
    <2> QED
      BY <1>1, <1>3, <2>1, <2>2 DEF RuleInv, IndexesHold
  <1>4. rulesets'[Current] = rulesets[Current]
    BY <1>1 DEF RowsKept, InForce
  <1>5. installing' # 0 =>
          installing' = Current /\ rulesets'[Current].index = RulesOf(Current)'
    BY <1>1, <1>2, <1>4 DEF BuildsKept, RuleInv, IndexesHold
  <1>6. /\ snapshot'.version \in Nat /\ snapshot'.version <= Current
        /\ snapshot'.version = Current => snapshot'.rules = RulesOf(Current)'
    BY <1>2 DEF BuildsKept, RuleInv, IndexesHold
  <1>7. \A v \in RulesetIds' :
          rulesets'[v].status = "ready" /\ rulesets'[v].base = Current'
            => rulesets'[v].index = CandidateRules(v)'
    BY <1>1, <1>3
  <1>8. installing' # 0 =>
          installing' = Current' /\ rulesets'[Current'].index = RulesOf(Current)'
    BY <1>1, <1>5
  <1>9. /\ snapshot'.version \in Nat /\ snapshot'.version <= Current'
        /\ snapshot'.version = Current' => snapshot'.rules = RulesOf(Current)'
    BY <1>1, <1>6
  <1> QED
    BY <1>7, <1>8, <1>9 DEF IndexesHold

\* ... and what the worker remembers true, if it goes on or begins anew.
LEMMA KeepsWorker ==
    ASSUME RuleInv, RowsKept,
           worker' = worker \/ worker'.pc \in {"imports", "rulesets", "installing"},
           DOMAIN imports \subseteq (DOMAIN imports)',
           \A v \in RulesetIds : rulesets[v].status \in {"building", "failed"}
                                   => rulesets'[v].status \in {"building", "failed"}
    PROVE  WorkerKnows'
  <1>1. /\ Current' = Current
        /\ \A v \in RulesetIds : CandidateRules(v)' = CandidateRules(v)
    BY Keeps
  <1>2. CASE worker' = worker
    <2>1. worker.pc \in {"validate", "create", "link"} => worker.import \in DOMAIN imports'
      BY DEF RuleInv, WorkerKnows
    <2>2. worker.pc = "create" =>
            worker.base \in RulesetIds' /\ rulesets'[worker.base].status \in InForce
      BY DEF RuleInv, WorkerKnows, RowsKept
    <2>3. worker.pc \in {"link", "build", "save", "check", "publish"} =>
            worker.ruleset \in RulesetIds /\ worker.ruleset \in RulesetIds'
      BY DEF RuleInv, WorkerKnows, RowsKept
    <2>4. worker.pc \in {"build", "save"} =>
            rulesets'[worker.ruleset].status \in {"building", "failed"}
      BY <2>3 DEF RuleInv, WorkerKnows
    <2>5. worker.pc = "save" => worker.index \subseteq RuleIds'
      BY DEF RuleInv, WorkerKnows, RowsKept
    <2>6. ASSUME worker.pc = "save", rulesets'[worker.ruleset].base = Current'
          PROVE  worker.index = CandidateRules(worker.ruleset)'
      <3>1. worker.ruleset \in RulesetIds /\ rulesets[worker.ruleset].base = Current
        BY <1>1, <2>3, <2>6 DEF RowsKept
      <3>2. worker.index = CandidateRules(worker.ruleset)
        BY <2>6, <3>1 DEF RuleInv, WorkerKnows
      <3>3. \A v \in RulesetIds : v = worker'.ruleset =>
              CandidateRules(worker.ruleset)' = CandidateRules(v)'
        BY DEF CandidateRules, Own
      <3> QED
        BY <1>1, <1>2, <3>1, <3>2, <3>3
    <2> QED
      BY <1>2, <2>1, <2>2, <2>3, <2>4, <2>5, <2>6 DEF WorkerKnows
  <1>3. CASE worker'.pc \in {"imports", "rulesets", "installing"}
    BY <1>3 DEF WorkerKnows
  <1> QED
    BY <1>2, <1>3

LEMMA QuietStep ==
    ASSUME RuleInv, RowsKept, BuildsKept,
           worker' = worker \/ worker'.pc \in {"imports", "rulesets", "installing"},
           DOMAIN imports \subseteq (DOMAIN imports)',
           \A v \in RulesetIds : rulesets[v].status \in {"building", "failed"}
                                   => rulesets'[v].status \in {"building", "failed"}
    PROVE  RuleInv'
  <1>1. RowsTyped' /\ RuleTypeOK'
    BY DEF RowsKept
  <1> QED
    BY <1>1, Keeps, KeepsIndexes, KeepsWorker DEF RuleInv

-----------------------------------------------------------------------------
(* The three ways the rows of rulesets and rules change without a publication. *)

LEMMA SameRows ==
    ASSUME RuleInv, UNCHANGED <<rulesets, rules>>, imports' \in Seq(ImportRow), RuleTypeOK'
    PROVE  RowsKept /\ \A v \in RulesetIds : rulesets'[v] = rulesets[v]
  <1>1. RowsTyped'
    BY DEF RuleInv, RowsTyped
  <1>2. RulesetIds' = RulesetIds /\ RuleIds' = RuleIds
    BY DEF RulesetIds, RuleIds
  <1> QED
    BY <1>1, <1>2 DEF RowsKept

LEMMA StatusFailed ==
    ASSUME RuleInv, NEW v \in RulesetIds, rulesets[v].status \notin InForce,
           SetStatus(v, "failed"), rules' = rules, imports' \in Seq(ImportRow),
           \A i \in (DOMAIN imports)' : imports'[i].ruleset \in RulesetIds \cup {0},
           installing' \in {0, installing}, ruleFaults' \in 0 .. MaxRuleFaults
    PROVE  /\ RowsKept
           /\ \A w \in RulesetIds : rulesets'[w] = rulesets[w] \/ rulesets'[w].status = "failed"
  <1> DEFINE row == [rulesets[v] EXCEPT !.status = "failed"]
  <1>1. /\ RulesetIds = 1 .. Len(rulesets) /\ rulesets \in Seq(RulesetRow)
        /\ rulesets[v] \in RulesetRow
    BY RowIds DEF RuleInv, RowsTyped
  <1>2. /\ row \in RulesetRow /\ row.status = "failed" /\ row.base = rulesets[v].base
        /\ row.removals = rulesets[v].removals /\ row.index = rulesets[v].index
    BY <1>1 DEF RulesetRow, Statuses
  <1>3. rulesets' = [rulesets EXCEPT ![v] = row]
    BY DEF SetStatus
  <1> HIDE DEF row
  <1>4. /\ rulesets' \in Seq(RulesetRow) /\ Len(rulesets') = Len(rulesets)
        /\ \A w \in RulesetIds : rulesets'[w] = IF w = v THEN row ELSE rulesets[w]
    BY <1>1, <1>2, <1>3, ExceptSeq
  <1>5. RulesetIds' = RulesetIds /\ RuleIds' = RuleIds
    BY <1>1, <1>4, LenProperties DEF RulesetIds, RuleIds
  <1>6. RowsTyped'
    BY <1>4 DEF RuleInv, RowsTyped
  <1>7. \A i \in (DOMAIN imports)' : imports'[i] \in ImportRow
    BY LenProperties, ElementOfSeq
  <1>8. RuleTypeOK'
    <2>1. \A w \in RulesetIds : /\ rulesets'[w].status \in Statuses
                                /\ rulesets'[w].base < w
                                /\ rulesets'[w].removals \subseteq RuleIds
                                /\ rulesets'[w].index \subseteq RuleIds
      BY <1>2, <1>4 DEF RuleInv, RuleTypeOK, Statuses
    <2>2. \A r \in RuleIds : /\ rules'[r].hash \in Hashes
                             /\ rules'[r].activated \in RulesetIds
                             /\ rules'[r].deactivated = 0 \/ rules'[r].activated < rules'[r].deactivated
      BY DEF RuleInv, RuleTypeOK
    <2>3. installing' \in RulesetIds \cup {0}
      BY DEF RuleInv, RuleTypeOK
    <2> QED
      BY <1>5, <1>7, <2>1, <2>2, <2>3 DEF RuleTypeOK, ImportRow
  <1>9. \A w \in RulesetIds : rulesets'[w] = rulesets[w] \/ rulesets'[w].status = "failed"
    BY <1>2, <1>4
  <1>10. \A w \in RulesetIds :
           /\ rulesets'[w].base = rulesets[w].base
           /\ rulesets'[w].removals = rulesets[w].removals
           /\ rulesets[w].status \in InForce \/ rulesets'[w].status \in InForce
                => rulesets'[w] = rulesets[w]
    BY <1>2, <1>4 DEF InForce
  <1> QED
    BY <1>5, <1>6, <1>8, <1>9, <1>10 DEF RowsKept

LEMMA Inserted ==
    ASSUME RuleInv, NEW base \in RulesetIds, rulesets[base].status \in InForce,
           NEW additions \in Seq(Hashes), NEW removals \in SUBSET RuleIds,
           InsertCandidate(base, additions, removals),
           imports' \in Seq(ImportRow),
           \A i \in (DOMAIN imports)' : imports'[i].ruleset \in RulesetIds \cup {0},
           installing' = installing, ruleFaults' = ruleFaults
    PROVE  /\ RowsKept
           /\ \A w \in RulesetIds : rulesets'[w] = rulesets[w]
           /\ Len(rulesets) + 1 \in RulesetIds'
  <1> DEFINE row == [status |-> "building", base |-> base, removals |-> removals, index |-> {}]
             new == Len(rulesets) + 1
             own == [i \in 1 .. Len(additions) |->
                       [hash |-> additions[i], activated |-> new, deactivated |-> 0]]
  <1>1. /\ RulesetIds = 1 .. Len(rulesets) /\ Len(rulesets) \in Nat /\ rulesets \in Seq(RulesetRow)
        /\ RuleIds = 1 .. Len(rules) /\ Len(rules) \in Nat /\ rules \in Seq(RuleRow)
    BY RowIds DEF RuleInv, RowsTyped
  <1>2. rulesets' = Append(rulesets, row) /\ rules' = rules \o own
    BY DEF InsertCandidate
  <1>3. /\ row \in RulesetRow /\ row.status = "building" /\ row.base = base
        /\ row.removals = removals /\ row.index = {}
    <2>1. base \in Nat /\ removals \in SUBSET Nat
      BY <1>1
    <2> QED
      BY <2>1 DEF RulesetRow, Statuses
  <1>4. /\ own \in Seq(RuleRow)
        /\ \A i \in 1 .. Len(own) : own[i].activated = new /\ own[i].deactivated = 0
    <2>1. Len(additions) \in Nat /\ \A i \in 1 .. Len(additions) : additions[i] \in Hashes
      BY LenProperties, ElementOfSeq
    <2>2. own \in [1 .. Len(additions) -> RuleRow]
      BY <1>1, <2>1 DEF RuleRow
    <2>3. own \in Seq(RuleRow) /\ Len(own) = Len(additions)
      BY <2>1, <2>2
    <2> QED
      BY <2>3
  <1> HIDE DEF row, own
  <1>5. /\ rulesets' \in Seq(RulesetRow) /\ Len(rulesets') = new
        /\ \A w \in RulesetIds : rulesets'[w] = rulesets[w]
        /\ rulesets'[new] = row
    BY <1>1, <1>2, <1>3, AppendProperties
  <1>6. Len(own) \in Nat
    BY <1>4, LenProperties
  <1>7. /\ rules' \in Seq(RuleRow) /\ Len(rules') = Len(rules) + Len(own)
        /\ \A r \in RuleIds : rules'[r] = rules[r]
        /\ \A r \in (Len(rules) + 1) .. Len(rules') : rules'[r] = own[r - Len(rules)]
    BY <1>1, <1>2, <1>4, <1>6, ConcatProperties
  <1>8. RulesetIds' = 1 .. new /\ RuleIds' = 1 .. Len(rules')
    BY <1>5, <1>7, LenProperties DEF RulesetIds, RuleIds
  <1>9. /\ RulesetIds \subseteq RulesetIds' /\ RuleIds \subseteq RuleIds'
        /\ \A w \in RulesetIds' \ RulesetIds : w = new
        /\ \A r \in RuleIds' \ RuleIds : r \in (Len(rules) + 1) .. Len(rules')
        /\ new \in RulesetIds' /\ new \notin RulesetIds
    <2>1. /\ Len(rulesets) \in Nat /\ RulesetIds = 1 .. Len(rulesets)
          /\ RulesetIds' = 1 .. Len(rulesets) + 1
      BY <1>1, <1>8
    <2>2. /\ RulesetIds \subseteq RulesetIds'
          /\ \A w \in RulesetIds' \ RulesetIds : w = new
          /\ new \in RulesetIds' /\ new \notin RulesetIds
      BY <2>1
    <2>3. /\ Len(rules) \in Nat /\ Len(own) \in Nat /\ RuleIds = 1 .. Len(rules)
          /\ Len(rules') = Len(rules) + Len(own) /\ RuleIds' = 1 .. Len(rules')
      BY <1>1, <1>6, <1>7, <1>8
    <2>4. /\ RuleIds \subseteq RuleIds'
          /\ \A r \in RuleIds' \ RuleIds : r \in (Len(rules) + 1) .. Len(rules')
      BY <2>3
    <2> QED
      BY <2>2, <2>4
  <1>10. \A r \in RuleIds' \ RuleIds : /\ rules'[r].activated = new /\ rules'[r].deactivated = 0
                                       /\ rules'[r] \in RuleRow
    <2> SUFFICES ASSUME NEW r \in RuleIds' \ RuleIds
                 PROVE  /\ rules'[r].activated = new /\ rules'[r].deactivated = 0
                        /\ rules'[r] \in RuleRow
      OBVIOUS
    <2>1. r \in (Len(rules) + 1) .. Len(rules')
      BY <1>9
    <2>2. rules'[r] = own[r - Len(rules)] /\ r - Len(rules) \in 1 .. Len(own)
      BY <1>1, <1>6, <1>7, <2>1
    <2> QED
      BY <1>4, <2>2, ElementOfSeq
  <1>11. \A r \in removals : r \in RuleIds /\ rules[r].activated < new
    <2> SUFFICES ASSUME NEW r \in removals PROVE r \in RuleIds /\ rules[r].activated < new
      OBVIOUS
    <2>1. r \in RuleIds /\ rules[r].activated \in 1 .. Len(rulesets)
      BY <1>1 DEF RuleInv, RuleTypeOK
    <2> QED
      BY <1>1, <2>1
  <1>12. RowsTyped'
    BY <1>5, <1>7 DEF RowsTyped
  <1>13. \A i \in (DOMAIN imports)' : imports'[i] \in ImportRow
    BY LenProperties, ElementOfSeq
  <1>14. RuleTypeOK'
    <2>1. \A w \in RulesetIds' : /\ rulesets'[w].status \in Statuses
                                 /\ rulesets'[w].base < w
                                 /\ rulesets'[w].removals \subseteq RuleIds'
                                 /\ rulesets'[w].index \subseteq RuleIds'
      <3> SUFFICES ASSUME NEW w \in RulesetIds'
                   PROVE  /\ rulesets'[w].status \in Statuses
                          /\ rulesets'[w].base < w
                          /\ rulesets'[w].removals \subseteq RuleIds'
                          /\ rulesets'[w].index \subseteq RuleIds'
        OBVIOUS
      <3>1. CASE w \in RulesetIds
        BY <1>5, <1>9, <3>1 DEF RuleInv, RuleTypeOK
      <3>2. CASE w = new
        <4>1. base < new
          BY <1>1
        <4>2. removals \subseteq RuleIds'
          BY <1>9
        <4> QED
          BY <1>3, <1>5, <3>2, <4>1, <4>2 DEF Statuses
      <3> QED
        BY <1>9, <3>1, <3>2
    <2>2. \A r \in RuleIds' :
            /\ rules'[r].hash \in Hashes
            /\ rules'[r].activated \in RulesetIds'
            /\ rules'[r].deactivated = 0 \/ rules'[r].activated < rules'[r].deactivated
      <3> SUFFICES ASSUME NEW r \in RuleIds'
                   PROVE  /\ rules'[r].hash \in Hashes
                          /\ rules'[r].activated \in RulesetIds'
                          /\ rules'[r].deactivated = 0 \/ rules'[r].activated < rules'[r].deactivated
        OBVIOUS
      <3>1. CASE r \in RuleIds
        BY <1>7, <1>9, <3>1 DEF RuleInv, RuleTypeOK
      <3>2. CASE r \notin RuleIds
        BY <1>9, <1>10, <3>2 DEF RuleRow
      <3> QED
        BY <3>1, <3>2
    <2>3. installing' \in RulesetIds' \cup {0} /\ ruleFaults' \in 0 .. MaxRuleFaults
      BY <1>9 DEF RuleInv, RuleTypeOK
    <2>4. \A i \in (DOMAIN imports)' : /\ imports'[i].status \in ImportStatuses
                                       /\ imports'[i].hash \in Hashes
                                       /\ imports'[i].ruleset \in RulesetIds' \cup {0}
      BY <1>9, <1>13 DEF ImportRow
    <2> QED
      BY <2>1, <2>2, <2>3, <2>4 DEF RuleTypeOK
  <1>15. \A w \in RulesetIds :
           /\ rulesets'[w].base = rulesets[w].base
           /\ rulesets'[w].removals = rulesets[w].removals
           /\ rulesets[w].status \in InForce \/ rulesets'[w].status \in InForce
                => rulesets'[w] = rulesets[w]
    BY <1>5
  <1>16. \A w \in RulesetIds' \ RulesetIds :
           /\ rulesets'[w].status = "building"
           /\ rulesets'[w].base \in RulesetIds /\ rulesets[rulesets'[w].base].status \in InForce
           /\ \A r \in rulesets'[w].removals : r \in RuleIds /\ rules[r].activated < w
    BY <1>3, <1>5, <1>9, <1>11
  <1>17. \A r \in RuleIds : rules'[r] = rules[r]
    BY <1>7
  <1>18. \A r \in RuleIds' \ RuleIds : rules'[r].activated \notin RulesetIds /\ rules'[r].deactivated = 0
    BY <1>9, <1>10
  <1> QED
    BY <1>5, <1>9, <1>12, <1>14, <1>15, <1>16, <1>17, <1>18 DEF RowsKept

-----------------------------------------------------------------------------
LEMMA RuleInitInv == RuleInit => RuleInv
  <1> SUFFICES ASSUME RuleInit PROVE RuleInv
    OBVIOUS
  <1> DEFINE first == [status |-> "published", base |-> 0, removals |-> {}, index |-> {}]
             rule == [hash |-> FirstHash, activated |-> 1, deactivated |-> 0]
  <1>1. /\ rulesets = <<first>> /\ rules = <<rule>> /\ imports = <<>> /\ worker = AtRest
        /\ installing = 0 /\ snapshot = [version |-> 1, rules |-> {1}] /\ ruleFaults = 0
    BY DEF RuleInit
  <1>2. /\ first \in RulesetRow /\ first.status = "published" /\ first.base = 0
        /\ first.removals = {} /\ first.index = {}
    BY DEF RulesetRow, Statuses
  <1>3. rule \in RuleRow /\ rule.hash = FirstHash /\ rule.activated = 1 /\ rule.deactivated = 0
    BY RuleSetsAssumption DEF RuleRow
  <1> HIDE DEF first, rule
  <1>4. /\ rulesets \in Seq(RulesetRow) /\ Len(rulesets) = 1 /\ rulesets[1] = first
        /\ rules \in Seq(RuleRow) /\ Len(rules) = 1 /\ rules[1] = rule
        /\ imports \in Seq(ImportRow) /\ Len(imports) = 0
    BY <1>1, <1>2, <1>3
  <1>5. RulesetIds = {1} /\ RuleIds = {1} /\ DOMAIN imports = {}
    BY <1>4, LenProperties DEF RulesetIds, RuleIds
  <1>6. RowsTyped
    BY <1>4 DEF RowsTyped
  <1>7. RuleTypeOK
    BY <1>1, <1>2, <1>3, <1>4, <1>5, RuleSetsAssumption DEF RuleTypeOK, Statuses
  <1>8. PublishedIds = {1} /\ Current = 1
    <2>1. PublishedIds = {1}
      BY <1>2, <1>4, <1>5 DEF PublishedIds
    <2> QED
      BY <1>5, <1>6, <2>1, CurrentIs
  <1>9. RulesOf(1) = {1}
    BY <1>2, <1>3, <1>4, <1>5 DEF RulesOf, BelongsTo
  <1>10. VersionsHold
    BY <1>2, <1>3, <1>4, <1>5, <1>8 DEF VersionsHold
  <1>11. IndexesHold
    BY <1>1, <1>2, <1>4, <1>5, <1>8, <1>9 DEF IndexesHold
  <1>12. WorkerKnows
    BY <1>1 DEF WorkerKnows, AtRest
  <1> QED
    BY <1>6, <1>7, <1>10, <1>11, <1>12 DEF RuleInv

-----------------------------------------------------------------------------
(* Publication: the ready candidate v takes the place of the version in force. *)

LEMMA PublishedRows ==
    ASSUME RuleInv, NEW v \in RulesetIds, PublishTx(v, rulesets[v].base)
    PROVE  /\ rulesets[v].status = "ready" /\ rulesets[v].base = Current /\ Current < v
           /\ RulesetIds' = RulesetIds /\ RuleIds' = RuleIds
           /\ rulesets' \in Seq(RulesetRow) /\ rules' \in Seq(RuleRow)
           /\ \A w \in RulesetIds :
                /\ rulesets'[w].base = rulesets[w].base
                /\ rulesets'[w].removals = rulesets[w].removals
                /\ rulesets'[w].index = rulesets[w].index
                /\ w # v /\ w # Current => rulesets'[w] = rulesets[w]
           /\ rulesets'[v].status = "published" /\ rulesets'[Current].status = "superseded"
           /\ \A r \in RuleIds :
                /\ rules'[r].hash = rules[r].hash /\ rules'[r].activated = rules[r].activated
                /\ rules'[r].deactivated = IF r \in rulesets[v].removals THEN v
                                           ELSE rules[r].deactivated
  <1> DEFINE c == Current
             new == [rulesets[v] EXCEPT !.status = "published"]
             old == [rulesets[c] EXCEPT !.status = "superseded"]
             rule(r) == [rules[r] EXCEPT !.deactivated = v]
  <1>1. /\ RulesetIds = 1 .. Len(rulesets) /\ Len(rulesets) \in Nat /\ rulesets \in Seq(RulesetRow)
        /\ RuleIds = 1 .. Len(rules) /\ Len(rules) \in Nat /\ rules \in Seq(RuleRow)
        /\ \A w \in RulesetIds : rulesets[w] \in RulesetRow
        /\ \A r \in RuleIds : rules[r] \in RuleRow
    BY RowIds DEF RuleInv, RowsTyped
  <1>2. c \in RulesetIds /\ rulesets[c].status = "published"
    BY CurrentIsThere DEF RuleInv
  <1>3. rulesets[v].status = "ready" /\ rulesets[v].base = c
    BY DEF PublishTx
  <1>4. c < v
    BY <1>3 DEF RuleInv, RuleTypeOK
  <1>5. /\ rulesets' = [rulesets EXCEPT ![v].status = "published", ![c].status = "superseded"]
        /\ rules' = [r \in RuleIds |-> IF r \in rulesets[v].removals THEN rule(r) ELSE rules[r]]
    BY DEF PublishTx
  <1>6. v # c
    BY <1>2, <1>3
  <1>7. /\ new \in RulesetRow /\ new.status = "published" /\ new.base = rulesets[v].base
        /\ new.removals = rulesets[v].removals /\ new.index = rulesets[v].index
    BY <1>1 DEF RulesetRow, Statuses
  <1>8. /\ old \in RulesetRow /\ old.status = "superseded" /\ old.base = rulesets[c].base
        /\ old.removals = rulesets[c].removals /\ old.index = rulesets[c].index
    BY <1>1, <1>2 DEF RulesetRow, Statuses
  <1>9. \A r \in RuleIds : /\ rule(r) \in RuleRow /\ rule(r).hash = rules[r].hash
                           /\ rule(r).activated = rules[r].activated /\ rule(r).deactivated = v
    BY <1>1 DEF RuleRow
  <1>10. rulesets' = [[rulesets EXCEPT ![v] = new] EXCEPT ![c] = old]
    BY <1>5, <1>6
  <1> HIDE DEF new, old, rule
  <1>11. /\ rulesets' \in Seq(RulesetRow) /\ Len(rulesets') = Len(rulesets)
         /\ \A w \in RulesetIds : rulesets'[w] = IF w = c THEN old ELSE IF w = v THEN new ELSE rulesets[w]
    <2> DEFINE mid == [rulesets EXCEPT ![v] = new]
    <2>1. /\ mid \in Seq(RulesetRow) /\ Len(mid) = Len(rulesets)
          /\ \A w \in RulesetIds : mid[w] = IF w = v THEN new ELSE rulesets[w]
      BY <1>1, <1>7, ExceptSeq
    <2>2. rulesets' = [mid EXCEPT ![c] = old]
      BY <1>10
    <2> HIDE DEF mid
    <2>3. /\ rulesets' \in Seq(RulesetRow) /\ Len(rulesets') = Len(mid)
          /\ \A w \in RulesetIds : rulesets'[w] = IF w = c THEN old ELSE mid[w]
      BY <1>1, <1>2, <1>8, <2>1, <2>2, ExceptSeq
    <2> QED
      BY <2>1, <2>3
  <1>12. /\ rules' \in Seq(RuleRow) /\ Len(rules') = Len(rules)
         /\ \A r \in RuleIds : rules'[r] = IF r \in rulesets[v].removals THEN rule(r) ELSE rules[r]
    <2>1. rules' \in [1 .. Len(rules) -> RuleRow]
      BY <1>1, <1>5, <1>9
    <2>2. rules' \in Seq(RuleRow) /\ Len(rules') = Len(rules)
      BY <1>1, <2>1
    <2> QED
      BY <1>5, <2>2
  <1>13. RulesetIds' = RulesetIds /\ RuleIds' = RuleIds
    BY <1>1, <1>11, <1>12, LenProperties DEF RulesetIds, RuleIds
  <1>14. \A w \in RulesetIds :
           /\ rulesets'[w].base = rulesets[w].base
           /\ rulesets'[w].removals = rulesets[w].removals
           /\ rulesets'[w].index = rulesets[w].index
           /\ w # v /\ w # c => rulesets'[w] = rulesets[w]
    BY <1>7, <1>8, <1>11
  <1>15. rulesets'[v].status = "published" /\ rulesets'[c].status = "superseded"
    BY <1>2, <1>6, <1>7, <1>8, <1>11
  <1>16. \A r \in RuleIds :
           /\ rules'[r].hash = rules[r].hash /\ rules'[r].activated = rules[r].activated
           /\ rules'[r].deactivated = IF r \in rulesets[v].removals THEN v ELSE rules[r].deactivated
    BY <1>9, <1>12
  <1> QED
    BY <1>3, <1>4, <1>11, <1>12, <1>13, <1>14, <1>15, <1>16

\* The rules in force change by the removals and the own rules of v, and a ready index of v
\* was built from just that.
LEMMA PublishedRules ==
    ASSUME RuleInv, NEW v \in RulesetIds, PublishTx(v, rulesets[v].base)
    PROVE  /\ PublishedIds' = {v}
           /\ RulesOf(v)' = CandidateRules(v)
           /\ CandidateRules(v) = (RulesOf(Current) \ rulesets[v].removals) \cup Own(v)
           /\ \A w \in RulesetIds : rulesets'[w].status \in InForce => w <= v
           /\ \A r \in RuleIds : rules'[r].deactivated <= v
  <1> DEFINE c == Current
  <1>1. /\ rulesets[v].status = "ready" /\ rulesets[v].base = c /\ c < v
        /\ RulesetIds' = RulesetIds /\ RuleIds' = RuleIds
        /\ \A w \in RulesetIds : w # v /\ w # c => rulesets'[w] = rulesets[w]
        /\ rulesets'[v].status = "published" /\ rulesets'[c].status = "superseded"
        /\ \A r \in RuleIds :
             /\ rules'[r].activated = rules[r].activated
             /\ rules'[r].deactivated = IF r \in rulesets[v].removals THEN v ELSE rules[r].deactivated
    BY PublishedRows
  <1>2. /\ c \in RulesetIds /\ c \in Nat \ {0} /\ rulesets[c].status = "published"
        /\ PublishedIds = {c} /\ v \in Nat
    BY CurrentIsThere, RowIds DEF RuleInv, VersionsHold
  <1>3. /\ \A w \in RulesetIds : /\ w \in Nat
                                 /\ rulesets[w].status \in InForce => w <= c
        /\ \A r \in RuleIds : /\ rules[r].activated \in Nat /\ rules[r].deactivated \in Nat
                              /\ rules[r].activated \in RulesetIds
                              /\ rules[r].deactivated <= c
                              /\ rules[r].deactivated = 0 \/ rules[r].activated < rules[r].deactivated
        /\ \A r \in rulesets[v].removals : r \in RuleIds /\ rules[r].activated < v
    BY RowIds DEF RuleInv, VersionsHold, RuleTypeOK, RuleRow
  <1>4. PublishedIds' = {v}
    BY <1>1, <1>2 DEF PublishedIds
  <1>5. \A w \in RulesetIds : rulesets'[w].status \in InForce
                                <=> w = v \/ rulesets[w].status \in InForce
    BY <1>1, <1>2 DEF InForce
  <1>6. rulesets[v].status \notin InForce
    BY <1>1 DEF InForce
  <1>7. \A r \in RuleIds : BelongsTo(r, c)
          <=> rulesets[rules[r].activated].status \in InForce /\ rules[r].deactivated = 0
    <2> SUFFICES ASSUME NEW r \in RuleIds
                 PROVE  BelongsTo(r, c) <=> /\ rulesets[rules[r].activated].status \in InForce
                                            /\ rules[r].deactivated = 0
      OBVIOUS
    <2>1. /\ ~(rules[r].deactivated > c)
          /\ rulesets[rules[r].activated].status \in InForce => rules[r].activated <= c
      BY <1>2, <1>3
    <2> QED
      BY <2>1 DEF BelongsTo, InForce
  <1>8. \A r \in RuleIds : BelongsTo(r, v)'
          <=> \/ r \in Own(v)
              \/ BelongsTo(r, c) /\ r \notin rulesets[v].removals
    <2> SUFFICES ASSUME NEW r \in RuleIds
                 PROVE  BelongsTo(r, v)' <=> \/ r \in Own(v)
                                             \/ BelongsTo(r, c) /\ r \notin rulesets[v].removals
      OBVIOUS
    <2>1. BelongsTo(r, v)' <=>
            /\ rulesets'[rules[r].activated].status \in InForce
            /\ rules[r].activated <= v
            /\ rules'[r].deactivated = 0 \/ rules'[r].deactivated > v
      BY <1>1 DEF BelongsTo, InForce
    <2>2. r \in Own(v) <=> rules[r].activated = v
      BY DEF Own
    <2>3. CASE rules[r].activated = v
      <3>1. r \notin rulesets[v].removals /\ rules[r].deactivated = 0
        BY <1>1, <1>2, <1>3, <2>3
      <3> QED
        BY <1>1, <1>2, <1>5, <2>1, <2>2, <2>3, <3>1
    <2>4. CASE rules[r].activated # v
      <3>1. rulesets'[rules[r].activated].status \in InForce
              <=> rulesets[rules[r].activated].status \in InForce
        BY <1>3, <1>5, <2>4
      <3>2. rulesets[rules[r].activated].status \in InForce => rules[r].activated <= v
        BY <1>1, <1>2, <1>3
      <3>3. (rules'[r].deactivated = 0 \/ rules'[r].deactivated > v)
              <=> rules[r].deactivated = 0 /\ r \notin rulesets[v].removals
        <4>1. CASE r \in rulesets[v].removals
          BY <1>1, <1>2, <4>1
        <4>2. CASE r \notin rulesets[v].removals
          <5>1. rules'[r].deactivated = rules[r].deactivated /\ ~(rules[r].deactivated > v)
            BY <1>1, <1>2, <1>3, <4>2
          <5> QED
            BY <4>2, <5>1
        <4> QED
          BY <4>1, <4>2
      <3> QED
        BY <1>7, <2>1, <2>2, <2>4, <3>1, <3>2, <3>3
    <2> QED
      BY <2>3, <2>4
  <1>9. CandidateRules(v) = (RulesOf(c) \ rulesets[v].removals) \cup Own(v)
    BY <1>1 DEF CandidateRules
  <1>10. RulesOf(v)' = CandidateRules(v)
    BY <1>1, <1>8, <1>9 DEF RulesOf, Own
  <1>11. \A w \in RulesetIds : rulesets'[w].status \in InForce => w <= v
    BY <1>1, <1>2, <1>3, <1>5
  <1>12. \A r \in RuleIds : rules'[r].deactivated <= v
    <2> SUFFICES ASSUME NEW r \in RuleIds PROVE rules'[r].deactivated <= v
      OBVIOUS
    <2>1. CASE r \in rulesets[v].removals
      BY <1>1, <1>2, <2>1
    <2>2. CASE r \notin rulesets[v].removals
      BY <1>1, <1>2, <1>3, <2>2
    <2> QED
      BY <2>1, <2>2
  <1> QED
    BY <1>4, <1>9, <1>10, <1>11, <1>12

LEMMA PublishStep ==
    ASSUME RuleInv, NEW v \in RulesetIds, PublishTx(v, rulesets[v].base),
           installing' = v, UNCHANGED <<imports, snapshot, ruleFaults>>,
           worker' = worker \/ worker'.pc = "installing"
    PROVE  RuleInv' /\ Current' = v
  <1> DEFINE c == Current
  <1>1. /\ rulesets[v].status = "ready" /\ rulesets[v].base = c /\ c < v
        /\ RulesetIds' = RulesetIds /\ RuleIds' = RuleIds
        /\ rulesets' \in Seq(RulesetRow) /\ rules' \in Seq(RuleRow)
        /\ \A w \in RulesetIds :
             /\ rulesets'[w].base = rulesets[w].base
             /\ rulesets'[w].removals = rulesets[w].removals
             /\ rulesets'[w].index = rulesets[w].index
             /\ w # v /\ w # c => rulesets'[w] = rulesets[w]
        /\ rulesets'[v].status = "published" /\ rulesets'[c].status = "superseded"
        /\ \A r \in RuleIds :
             /\ rules'[r].hash = rules[r].hash /\ rules'[r].activated = rules[r].activated
             /\ rules'[r].deactivated = IF r \in rulesets[v].removals THEN v ELSE rules[r].deactivated
    BY PublishedRows
  <1>2. /\ PublishedIds' = {v}
        /\ RulesOf(v)' = CandidateRules(v)
        /\ \A w \in RulesetIds : rulesets'[w].status \in InForce => w <= v
        /\ \A r \in RuleIds : rules'[r].deactivated <= v
    BY PublishedRules
  <1>3. /\ c \in RulesetIds /\ c \in Nat \ {0} /\ rulesets[c].status = "published"
        /\ RulesetIds = 1 .. Len(rulesets) /\ Len(rulesets) \in Nat /\ v \in Nat
        /\ \A w \in RulesetIds : rulesets[w].base \in Nat
    BY CurrentIsThere, RowIds DEF RuleInv, RulesetRow
  <1>4. RowsTyped'
    BY <1>1 DEF RuleInv, RowsTyped
  <1>5. Current' = v
    BY <1>1, <1>2, <1>4, CurrentIsNext
  <1>6. \A w \in RulesetIds : w # v /\ w # c => rulesets'[w] = rulesets[w]
    BY <1>1
  <1>7. \A w \in RulesetIds :
           rulesets[w].base # 0 => /\ rulesets[w].base \in RulesetIds
                                   /\ rulesets[rulesets[w].base].status \in InForce
    <2> SUFFICES ASSUME NEW w \in RulesetIds, rulesets[w].base # 0
                 PROVE  /\ rulesets[w].base \in RulesetIds
                        /\ rulesets[rulesets[w].base].status \in InForce
      OBVIOUS
    <2>1. rulesets[w].base < w
      BY DEF RuleInv, RuleTypeOK
    <2>2. rulesets[w].base \in RulesetIds
      BY <1>3, <2>1
    <2> QED
      BY <2>2 DEF RuleInv, VersionsHold
  <1>8. \A w \in RulesetIds : rulesets[w].base # v
    BY <1>1, <1>3, <1>7 DEF InForce
  <1>9. \A w \in RulesetIds : rulesets[w].status \in InForce => rulesets'[w].status \in InForce
    BY <1>1 DEF InForce
  <1>10. RuleTypeOK'
    <2>1. \A w \in RulesetIds : /\ rulesets'[w].status \in Statuses
                                /\ rulesets'[w].base < w
                                /\ rulesets'[w].removals \subseteq RuleIds
                                /\ rulesets'[w].index \subseteq RuleIds
      <3>1. \A w \in RulesetIds : rulesets'[w].status \in Statuses
        BY <1>1 DEF RuleInv, RuleTypeOK, Statuses
      <3> QED
        BY <1>1, <3>1 DEF RuleInv, RuleTypeOK
    <2>2. \A r \in RuleIds : /\ rules'[r].hash \in Hashes
                             /\ rules'[r].activated \in RulesetIds
                             /\ rules'[r].deactivated = 0 \/ rules'[r].activated < rules'[r].deactivated
      BY <1>1 DEF RuleInv, RuleTypeOK, VersionsHold
    <2>3. installing' \in RulesetIds \cup {0} /\ ruleFaults' \in 0 .. MaxRuleFaults
      BY DEF RuleInv, RuleTypeOK
    <2>4. \A i \in (DOMAIN imports)' : /\ imports'[i].status \in ImportStatuses
                                       /\ imports'[i].hash \in Hashes
                                       /\ imports'[i].ruleset \in RulesetIds \cup {0}
      BY DEF RuleInv, RuleTypeOK
    <2> QED
      BY <1>1, <2>1, <2>2, <2>3, <2>4 DEF RuleTypeOK
  <1>11. VersionsHold'
    <2>1. ASSUME NEW w \in RulesetIds, rulesets'[w].base # 0
          PROVE  rulesets'[rulesets'[w].base].status \in InForce
      BY <1>1, <1>7, <1>9, <2>1
    <2>2. \A w \in RulesetIds : \A r \in rulesets'[w].removals : rules'[r].activated < w
      BY <1>1 DEF RuleInv, VersionsHold, RuleTypeOK
    <2> QED
      BY <1>1, <1>2, <1>5, <2>1, <2>2 DEF VersionsHold
  <1>12. IndexesHold'
    <2>1. ASSUME NEW w \in RulesetIds, rulesets'[w].status = "ready", rulesets'[w].base = v
          PROVE  FALSE
      BY <1>1, <1>8, <2>1
    <2>2. rulesets[v].index = CandidateRules(v)
      BY <1>1 DEF RuleInv, IndexesHold
    <2>3. rulesets'[v].index = RulesOf(v)'
      BY <1>1, <1>2, <2>2
    <2>4. RulesOf(Current)' = RulesOf(v)'
      BY <1>5 DEF RulesOf, BelongsTo
    <2>5. snapshot'.version \in Nat /\ snapshot'.version < v
      <3>1. snapshot.version \in Nat /\ snapshot.version <= c
        BY DEF RuleInv, IndexesHold
      <3> QED
        BY <1>1, <1>3, <3>1
    <2>6. /\ snapshot'.version <= v /\ snapshot'.version # v
      BY <1>3, <2>5
    <2> QED
      BY <1>1, <1>5, <2>1, <2>3, <2>4, <2>5, <2>6 DEF IndexesHold
  <1>13. WorkerKnows'
    <2>1. CASE worker' = worker
      <3>1. worker.pc \in {"validate", "create", "link"} => worker.import \in DOMAIN imports'
        BY DEF RuleInv, WorkerKnows
      <3>2. worker.pc = "create" =>
              worker.base \in RulesetIds /\ rulesets'[worker.base].status \in InForce
        BY <1>9 DEF RuleInv, WorkerKnows
      <3>3. worker.pc \in {"link", "build", "save", "check", "publish"} => worker.ruleset \in RulesetIds
        BY DEF RuleInv, WorkerKnows
      <3>4. worker.pc \in {"build", "save"} =>
              rulesets'[worker.ruleset].status \in {"building", "failed"}
        BY <1>1, <1>3, <3>3 DEF RuleInv, WorkerKnows
      <3>5. worker.pc = "save" => /\ worker.index \subseteq RuleIds
                                  /\ rulesets'[worker.ruleset].base # v
        BY <1>1, <1>8, <3>3 DEF RuleInv, WorkerKnows
      <3> QED
        BY <1>1, <1>5, <2>1, <3>1, <3>2, <3>3, <3>4, <3>5 DEF WorkerKnows
    <2>2. CASE worker'.pc = "installing"
      BY <2>2 DEF WorkerKnows
    <2> QED
      BY <2>1, <2>2
  <1> QED
    BY <1>4, <1>5, <1>10, <1>11, <1>12, <1>13 DEF RuleInv

-----------------------------------------------------------------------------
(* One lemma per action. *)

\* Most actions are quiet: all that has to be said is what they do to the rows.
LEMMA ChangeRulesStep == ASSUME RuleInv, ChangeRules PROVE RuleInv' /\ RowsKept
  <1>1. /\ Current \in RulesetIds /\ rulesets[Current].status \in InForce
    BY CurrentIsThere DEF RuleInv, InForce
  <1>2. UNCHANGED <<imports, worker, installing, snapshot, ruleFaults>>
    BY DEF ChangeRules
  <1>3. /\ imports' \in Seq(ImportRow)
        /\ \A i \in (DOMAIN imports)' : imports'[i].ruleset \in RulesetIds \cup {0}
    BY <1>2 DEF RuleInv, RowsTyped, RuleTypeOK
  <1>4. PICK additions \in Seq(Hashes), removals \in SUBSET RuleIds :
          InsertCandidate(Current, additions, removals)
    <2>1. CASE \E h \in Hashes, removals \in {{}} \cup {{r} : r \in RuleIds} :
                 InsertCandidate(Current, <<h>>, removals)
      <3>1. PICK h \in Hashes, removals \in {{}} \cup {{r} : r \in RuleIds} :
                 InsertCandidate(Current, <<h>>, removals)
        BY <2>1
      <3>2. <<h>> \in Seq(Hashes) /\ removals \in SUBSET RuleIds
        OBVIOUS
      <3> QED
        BY <3>1, <3>2
    <2>2. CASE \E r \in RuleIds : InsertCandidate(Current, <<>>, {r})
      <3>1. <<>> \in Seq(Hashes) /\ \A r \in RuleIds : {r} \in SUBSET RuleIds
        BY EmptySeq
      <3> QED
        BY <2>2, <3>1
    <2>3. CASE \E r \in RuleIds : InsertCandidate(Current, <<rules[r].hash>>, {})
      <3>1. PICK r \in RuleIds : InsertCandidate(Current, <<rules[r].hash>>, {})
        BY <2>3
      <3>2. rules[r].hash \in Hashes
        BY DEF RuleInv, RuleTypeOK
      <3>3. <<rules[r].hash>> \in Seq(Hashes) /\ {} \in SUBSET RuleIds
        BY <3>2
      <3> QED
        BY <3>1, <3>3
    <2> QED
      BY <2>1, <2>2, <2>3 DEF ChangeRules
  <1>5. RowsKept /\ \A w \in RulesetIds : rulesets'[w] = rulesets[w]
    BY <1>1, <1>2, <1>3, <1>4, Inserted
  <1>6. BuildsKept
    BY <1>2, <1>5 DEF BuildsKept
  <1> QED
    BY <1>2, <1>5, <1>6, QuietStep

LEMMA CancelRulesetStep ==
    ASSUME RuleInv, NEW v \in RulesetIds, CancelRuleset(v) PROVE RuleInv' /\ RowsKept
  <1>1. /\ rulesets[v].status \notin InForce /\ SetStatus(v, "failed")
        /\ UNCHANGED <<rules, imports, worker, installing, snapshot, ruleFaults>>
    BY DEF CancelRuleset, InForce
  <1>2. /\ imports' \in Seq(ImportRow)
        /\ \A i \in (DOMAIN imports)' : imports'[i].ruleset \in RulesetIds \cup {0}
        /\ ruleFaults' \in 0 .. MaxRuleFaults
    BY <1>1 DEF RuleInv, RowsTyped, RuleTypeOK
  <1>3. RowsKept /\ \A w \in RulesetIds : rulesets'[w] = rulesets[w] \/ rulesets'[w].status = "failed"
    BY <1>1, <1>2, StatusFailed
  <1>4. BuildsKept
    BY <1>1, <1>3 DEF BuildsKept
  <1> QED
    BY <1>1, <1>3, <1>4, QuietStep

\* Actions that leave rulesets and rules alone.
LEMMA OnlyAround ==
    ASSUME RuleInv, UNCHANGED <<rulesets, rules>>, imports' \in Seq(ImportRow),
           \A i \in (DOMAIN imports)' : imports'[i].ruleset \in RulesetIds \cup {0},
           DOMAIN imports \subseteq (DOMAIN imports)',
           installing' \in {0, installing}, ruleFaults' \in 0 .. MaxRuleFaults
    PROVE  /\ RowsKept /\ \A w \in RulesetIds : rulesets'[w] = rulesets[w]
           /\ snapshot' = snapshot => BuildsKept
           /\ /\ snapshot' = snapshot
              /\ worker' = worker \/ worker'.pc \in {"imports", "rulesets", "installing"}
              => RuleInv'
  <1>1. \A i \in (DOMAIN imports)' : imports'[i] \in ImportRow
    BY LenProperties, ElementOfSeq
  <1>2. RulesetIds' = RulesetIds /\ RuleIds' = RuleIds
    BY DEF RulesetIds, RuleIds
  <1>3. RuleTypeOK'
    <2>1. \A i \in (DOMAIN imports)' : /\ imports'[i].status \in ImportStatuses
                                       /\ imports'[i].hash \in Hashes
                                       /\ imports'[i].ruleset \in RulesetIds \cup {0}
      BY <1>1 DEF ImportRow
    <2> QED
      BY <1>2, <2>1 DEF RuleInv, RuleTypeOK
  <1>4. RowsKept /\ \A w \in RulesetIds : rulesets'[w] = rulesets[w]
    BY <1>3, SameRows
  <1>5. snapshot' = snapshot => BuildsKept
    BY <1>4 DEF BuildsKept
  <1> QED
    BY <1>4, <1>5, QuietStep

LEMMA LeastIsThere ==
    ASSUME NEW S \in SUBSET Nat, S # {}
    PROVE  Min(S) \in S
  <1> DEFINE R == OpToRel(<, Nat)
  <1>1. IsWellFoundedOn(R, Nat)
    BY NatLessThanWellFounded DEF R
  <1> HIDE DEF R
  <1>2. PICK v \in S : \A w \in S : ~(<<w, v>> \in R)
    BY <1>1, WFMin
  <1>3. \A w \in S : v <= w
    <2> SUFFICES ASSUME NEW w \in S PROVE v <= w
      OBVIOUS
    <2>1. v \in Nat /\ w \in Nat /\ ~(<<w, v>> \in R)
      BY <1>2
    <2> QED
      BY <2>1 DEF R, OpToRel
  <1> QED
    BY <1>3 DEF Min

\* A status written to the row of an import.
LEMMA ImportSet ==
    ASSUME RuleInv, NEW i \in DOMAIN imports, NEW status \in ImportStatuses,
           NEW v \in RulesetIds \cup {0}, SetImport(i, status, v)
    PROVE  /\ imports' \in Seq(ImportRow) /\ (DOMAIN imports)' = DOMAIN imports
           /\ \A j \in (DOMAIN imports)' : imports'[j].ruleset \in RulesetIds \cup {0}
  <1> DEFINE row == [[imports[i] EXCEPT !.status = status] EXCEPT !.ruleset = v]
  <1>1. /\ DOMAIN imports = 1 .. Len(imports) /\ imports \in Seq(ImportRow)
        /\ imports[i] \in ImportRow /\ v \in Nat
    BY RowIds DEF RuleInv, RowsTyped
  <1>2. row \in ImportRow /\ row.ruleset = v
    BY <1>1 DEF ImportRow
  <1>3. imports' = [imports EXCEPT ![i] = row]
    BY DEF SetImport
  <1> HIDE DEF row
  <1>4. /\ imports' \in Seq(ImportRow) /\ Len(imports') = Len(imports)
        /\ \A j \in DOMAIN imports : imports'[j] = IF j = i THEN row ELSE imports[j]
    BY <1>1, <1>2, <1>3, ExceptSeq
  <1>5. (DOMAIN imports)' = DOMAIN imports
    BY <1>1, <1>4, LenProperties
  <1> QED
    BY <1>2, <1>4, <1>5 DEF RuleInv, RuleTypeOK

LEMMA CreateImportStep == ASSUME RuleInv, CreateImport PROVE RuleInv' /\ RowsKept
  <1>1. UNCHANGED <<rulesets, rules, worker, installing, snapshot, ruleFaults>>
    BY DEF CreateImport
  <1>2. PICK h \in Hashes : imports' = Append(imports, [status |-> "queued", hash |-> h, ruleset |-> 0])
    BY DEF CreateImport
  <1> DEFINE row == [status |-> "queued", hash |-> h, ruleset |-> 0]
  <1>3. row \in ImportRow /\ row.ruleset = 0
    BY DEF ImportRow, ImportStatuses
  <1>4. imports' = Append(imports, row)
    BY <1>2
  <1> HIDE DEF row
  <1>5. /\ DOMAIN imports = 1 .. Len(imports) /\ imports \in Seq(ImportRow) /\ Len(imports) \in Nat
    BY RowIds DEF RuleInv, RowsTyped
  <1>6. /\ imports' \in Seq(ImportRow) /\ Len(imports') = Len(imports) + 1
        /\ \A j \in 1 .. Len(imports) : imports'[j] = imports[j]
        /\ imports'[Len(imports) + 1] = row
    BY <1>3, <1>4, <1>5, AppendProperties
  <1>7. (DOMAIN imports)' = 1 .. Len(imports) + 1
    BY <1>6, LenProperties
  <1>8. \A j \in (DOMAIN imports)' : j \in DOMAIN imports \/ j = Len(imports) + 1
    BY <1>5, <1>7
  <1>9. DOMAIN imports \subseteq (DOMAIN imports)'
    BY <1>5, <1>7
  <1>10. \A j \in (DOMAIN imports)' : imports'[j].ruleset \in RulesetIds \cup {0}
    BY <1>3, <1>5, <1>6, <1>8 DEF RuleInv, RuleTypeOK
  <1>11. installing' \in {0, installing} /\ ruleFaults' \in 0 .. MaxRuleFaults
    BY <1>1 DEF RuleInv, RuleTypeOK
  <1> QED
    BY <1>1, <1>6, <1>9, <1>10, <1>11, OnlyAround

LEMMA CancelImportStep ==
    ASSUME RuleInv, NEW i \in DOMAIN imports, CancelImport(i) PROVE RuleInv' /\ RowsKept
  <1>1. UNCHANGED <<rulesets, rules, worker, installing, snapshot, ruleFaults>>
    BY DEF CancelImport
  <1>2. imports[i] \in ImportRow /\ imports[i].ruleset \in RulesetIds \cup {0}
    BY RowIds DEF RuleInv, RuleTypeOK
  <1>3. SetImport(i, "canceled", imports[i].ruleset)
    <2>1. [[imports[i] EXCEPT !.status = "canceled"] EXCEPT !.ruleset = imports[i].ruleset]
            = [imports[i] EXCEPT !.status = "canceled"]
      BY <1>2 DEF ImportRow
    <2> QED
      BY <2>1 DEF CancelImport, SetImport
  <1>4. /\ imports' \in Seq(ImportRow) /\ (DOMAIN imports)' = DOMAIN imports
        /\ \A j \in (DOMAIN imports)' : imports'[j].ruleset \in RulesetIds \cup {0}
    BY <1>2, <1>3, ImportSet DEF ImportStatuses
  <1>5. installing' \in {0, installing} /\ ruleFaults' \in 0 .. MaxRuleFaults
    BY <1>1 DEF RuleInv, RuleTypeOK
  <1> QED
    BY <1>1, <1>4, <1>5, OnlyAround

LEMMA Unmoved ==
    ASSUME RuleInv
    PROVE  /\ imports \in Seq(ImportRow)
           /\ \A i \in DOMAIN imports : imports[i].ruleset \in RulesetIds \cup {0}
           /\ ruleFaults \in 0 .. MaxRuleFaults
           /\ Fault => ruleFaults' \in 0 .. MaxRuleFaults
  <1>1. ruleFaults \in 0 .. MaxRuleFaults /\ MaxRuleFaults \in Nat
    BY RuleSetsAssumption DEF RuleInv, RuleTypeOK
  <1>2. Fault => ruleFaults' \in 0 .. MaxRuleFaults
    BY <1>1 DEF Fault
  <1> QED
    BY <1>1, <1>2 DEF RuleInv, RowsTyped, RuleTypeOK

LEMMA InstallFailsStep == ASSUME RuleInv, InstallFails PROVE RuleInv' /\ RowsKept
  <1>1. /\ UNCHANGED <<rulesets, rules, imports, snapshot>> /\ installing' = 0 /\ Fault
        /\ worker' = worker \/ worker'.pc = "imports"
    BY DEF InstallFails, AfterInstall, AtRest
  <1> QED
    BY <1>1, Unmoved, OnlyAround

LEMMA LinkFailsStep == ASSUME RuleInv, LinkFails PROVE RuleInv' /\ RowsKept
  <1>1. /\ UNCHANGED <<rulesets, rules, imports, installing, snapshot>> /\ Fault
        /\ worker'.pc = "imports"
    BY DEF LinkFails, AtRest
  <1> QED
    BY <1>1, Unmoved, OnlyAround

LEMMA BuildFailsStep == ASSUME RuleInv, BuildFails PROVE RuleInv' /\ RowsKept
  <1>1. /\ worker.pc \in {"build", "save"} /\ SetStatus(worker.ruleset, "failed") /\ Fault
        /\ UNCHANGED <<rules, imports, installing, snapshot>> /\ worker'.pc = "imports"
    BY DEF BuildFails, AtRest
  <1>2. worker.ruleset \in RulesetIds /\ rulesets[worker.ruleset].status \notin InForce
    BY <1>1 DEF RuleInv, WorkerKnows, InForce
  <1>3. RowsKept /\ \A w \in RulesetIds : rulesets'[w] = rulesets[w] \/ rulesets'[w].status = "failed"
    BY <1>1, <1>2, Unmoved, StatusFailed
  <1>4. BuildsKept
    BY <1>1, <1>3 DEF BuildsKept
  <1> QED
    BY <1>1, <1>3, <1>4, QuietStep

\* The two steps that give the classifier a snapshot.
LEMMA SnapshotStep ==
    ASSUME RuleInv, UNCHANGED <<rulesets, rules, imports>>, ruleFaults' \in 0 .. MaxRuleFaults,
           installing' = 0, worker' = worker \/ worker'.pc = "imports",
           snapshot' = snapshot \/ /\ snapshot'.version = Current
                                   /\ snapshot'.rules = RulesOf(Current)
    PROVE  RuleInv' /\ RowsKept
  <1>1. RowsKept /\ \A w \in RulesetIds : rulesets'[w] = rulesets[w]
    BY Unmoved, OnlyAround
  <1>2. Current' = Current /\ RulesOf(Current)' = RulesOf(Current)
    <2>1. Current' = Current
      BY <1>1, Keeps
    <2> QED
      BY <2>1 DEF RulesOf, BelongsTo, RuleIds
  <1>3. \A v \in RulesetIds : CandidateRules(v)' = CandidateRules(v)
    BY <1>1, Keeps
  <1>4. /\ snapshot'.version \in Nat /\ snapshot'.version <= Current
        /\ snapshot'.version = Current => snapshot'.rules = RulesOf(Current)
    BY CurrentIsThere DEF RuleInv, IndexesHold
  <1>5. \A v \in RulesetIds :
          rulesets[v].status = "ready" /\ rulesets[v].base = Current
            => rulesets[v].index = CandidateRules(v)'
    BY <1>3 DEF RuleInv, IndexesHold
  <1>6. RulesetIds' = RulesetIds
    BY DEF RulesetIds
  <1>7. IndexesHold'
    BY <1>2, <1>4, <1>5, <1>6 DEF IndexesHold
  <1>8. WorkerKnows'
    BY <1>1, KeepsWorker
  <1> QED
    BY <1>1, <1>7, <1>8, Keeps DEF RuleInv, RowsKept

LEMMA InstallStep == ASSUME RuleInv, Install PROVE RuleInv' /\ RowsKept
  <1>1. /\ installing # 0 /\ installing' = 0 /\ UNCHANGED <<rulesets, rules, imports, ruleFaults>>
        /\ worker' = worker \/ worker'.pc = "imports"
        /\ snapshot' = snapshot \/ /\ snapshot'.version = installing
                                   /\ snapshot'.rules = rulesets[installing].index
    BY DEF Install, AfterInstall, AtRest
  <1>2. installing = Current /\ rulesets[Current].index = RulesOf(Current)
    BY <1>1 DEF RuleInv, IndexesHold
  <1> QED
    BY <1>1, <1>2, Unmoved, SnapshotStep

LEMMA RestartStep == ASSUME RuleInv, Restart PROVE RuleInv' /\ RowsKept
  <1>1. /\ installing' = 0 /\ UNCHANGED <<rulesets, rules, imports>> /\ Fault
        /\ worker'.pc = "imports"
        /\ snapshot'.version = Current /\ snapshot'.rules = RulesOf(Current)
    BY DEF Restart, AtRest
  <1> QED
    BY <1>1, Unmoved, SnapshotStep

-----------------------------------------------------------------------------
(* The worker.  Between two of its steps the others may do anything; what it  *)
(* remembers is WorkerKnows.                                                  *)

LEMMA ClaimImportStep ==
    ASSUME RuleInv, ClaimImport, UNCHANGED <<snapshot, ruleFaults>> PROVE RuleInv' /\ RowsKept
  <1>1. UNCHANGED <<rulesets, rules, installing, snapshot, ruleFaults>>
    BY DEF ClaimImport
  <1>2. CASE Queued = {}
    <2>1. worker'.pc = "rulesets" /\ imports' = imports
      BY <1>2 DEF ClaimImport
    <2> QED
      BY <1>1, <2>1, Unmoved, OnlyAround
  <1>3. CASE Queued # {}
    <2> DEFINE i == Min(Queued)
    <2>1. SetImport(i, "validating", 0) /\ worker' = [pc |-> "validate", import |-> i]
      BY <1>3 DEF ClaimImport
    <2>2. i \in DOMAIN imports
      <3>1. Queued \in SUBSET Nat /\ Queued \subseteq DOMAIN imports
        BY RowIds DEF RuleInv, Queued
      <3> QED
        BY <1>3, <3>1, LeastIsThere
    <2> HIDE DEF i
    <2>3. /\ imports' \in Seq(ImportRow) /\ (DOMAIN imports)' = DOMAIN imports
          /\ \A j \in (DOMAIN imports)' : imports'[j].ruleset \in RulesetIds \cup {0}
      BY <2>1, <2>2, ImportSet DEF ImportStatuses
    <2>4. RowsKept /\ BuildsKept
      BY <1>1, <2>3, Unmoved, OnlyAround
    <2>5. WorkerKnows'
      BY <2>1, <2>2, <2>3 DEF WorkerKnows
    <2> QED
      BY <2>4, <2>5, Keeps, KeepsIndexes DEF RuleInv, RowsKept
  <1> QED
    BY <1>2, <1>3

LEMMA ValidateImportStep ==
    ASSUME RuleInv, ValidateImport, UNCHANGED <<snapshot, ruleFaults>> PROVE RuleInv' /\ RowsKept
  <1>1. /\ UNCHANGED <<rulesets, rules, installing, snapshot, ruleFaults>>
        /\ worker.pc = "validate"
    BY DEF ValidateImport
  <1>2. worker.import \in DOMAIN imports
    BY <1>1 DEF RuleInv, WorkerKnows
  <1>3. CASE /\ worker' = [pc |-> "create", import |-> worker.import, base |-> Current]
             /\ imports' = imports
    <2>1. RowsKept /\ BuildsKept /\ \A w \in RulesetIds : rulesets'[w] = rulesets[w]
      BY <1>1, <1>3, Unmoved, OnlyAround
    <2>2. /\ worker'.pc = "create" /\ worker'.import \in DOMAIN imports'
          /\ worker'.base = Current
      BY <1>2, <1>3
    <2>3. Current \in RulesetIds' /\ rulesets'[Current].status \in InForce
      BY <2>1, CurrentIsThere DEF RuleInv, RowsKept, InForce
    <2>4. WorkerKnows'
      BY <2>2, <2>3 DEF WorkerKnows
    <2> QED
      BY <2>1, <2>4, Keeps, KeepsIndexes DEF RuleInv, RowsKept
  <1>4. CASE SetImport(worker.import, "invalid", 0) /\ worker' \in {[pc |-> "rulesets"], AtRest}
    <2>1. /\ imports' \in Seq(ImportRow) /\ (DOMAIN imports)' = DOMAIN imports
          /\ \A j \in (DOMAIN imports)' : imports'[j].ruleset \in RulesetIds \cup {0}
      BY <1>2, <1>4, ImportSet DEF ImportStatuses
    <2>2. worker'.pc \in {"imports", "rulesets"}
      BY <1>4 DEF AtRest
    <2> QED
      BY <1>1, <2>1, <2>2, Unmoved, OnlyAround
  <1> QED
    BY <1>3, <1>4 DEF ValidateImport

LEMMA CreateImportedStep ==
    ASSUME RuleInv, CreateImported, UNCHANGED <<snapshot, ruleFaults>> PROVE RuleInv' /\ RowsKept
  <1>1. UNCHANGED <<installing, snapshot, ruleFaults>> /\ worker.pc = "create"
    BY DEF CreateImported
  <1>2. /\ worker.import \in DOMAIN imports /\ worker.base \in RulesetIds
        /\ rulesets[worker.base].status \in InForce /\ imports[worker.import].hash \in Hashes
    BY <1>1 DEF RuleInv, WorkerKnows, RuleTypeOK
  <1>3. CASE /\ InsertCandidate(worker.base, <<imports[worker.import].hash>>, {})
             /\ worker' = [pc |-> "link", import |-> worker.import, ruleset |-> Len(rulesets) + 1]
             /\ imports' = imports
    <2>1. <<imports[worker.import].hash>> \in Seq(Hashes) /\ {} \in SUBSET RuleIds
      BY <1>2
    <2>2. /\ RowsKept /\ Len(rulesets) + 1 \in RulesetIds'
          /\ \A w \in RulesetIds : rulesets'[w] = rulesets[w]
      BY <1>1, <1>2, <1>3, <2>1, Unmoved, Inserted
    <2>3. BuildsKept
      BY <1>1, <2>2 DEF BuildsKept
    <2>4. /\ worker'.pc = "link" /\ worker'.import \in DOMAIN imports'
          /\ worker'.ruleset \in RulesetIds'
      BY <1>2, <1>3, <2>2
    <2>5. WorkerKnows'
      BY <2>4 DEF WorkerKnows
    <2> QED
      BY <2>2, <2>3, <2>5, Keeps, KeepsIndexes DEF RuleInv, RowsKept
  <1>4. CASE /\ SetImport(worker.import, "invalid", 0) /\ worker' = AtRest
             /\ UNCHANGED <<rulesets, rules>>
    <2>1. /\ imports' \in Seq(ImportRow) /\ (DOMAIN imports)' = DOMAIN imports
          /\ \A j \in (DOMAIN imports)' : imports'[j].ruleset \in RulesetIds \cup {0}
      BY <1>2, <1>4, ImportSet DEF ImportStatuses
    <2>2. worker'.pc = "imports"
      BY <1>4 DEF AtRest
    <2> QED
      BY <1>1, <1>4, <2>1, <2>2, Unmoved, OnlyAround
  <1> QED
    BY <1>3, <1>4 DEF CreateImported

LEMMA LinkImportStep ==
    ASSUME RuleInv, LinkImport, UNCHANGED <<snapshot, ruleFaults>> PROVE RuleInv' /\ RowsKept
  <1>1. /\ worker.pc = "link" /\ SetImport(worker.import, "valid", worker.ruleset)
        /\ worker'.pc = "rulesets" /\ UNCHANGED <<rulesets, rules, installing, snapshot, ruleFaults>>
    BY DEF LinkImport
  <1>2. worker.import \in DOMAIN imports /\ worker.ruleset \in RulesetIds
    BY <1>1 DEF RuleInv, WorkerKnows
  <1>3. /\ imports' \in Seq(ImportRow) /\ (DOMAIN imports)' = DOMAIN imports
        /\ \A j \in (DOMAIN imports)' : imports'[j].ruleset \in RulesetIds \cup {0}
    BY <1>1, <1>2, ImportSet DEF ImportStatuses
  <1> QED
    BY <1>1, <1>3, Unmoved, OnlyAround

LEMMA ClaimRulesetStep ==
    ASSUME RuleInv, ClaimRuleset, UNCHANGED <<snapshot, ruleFaults>> PROVE RuleInv' /\ RowsKept
  <1>1. /\ UNCHANGED <<rulesets, rules, imports, installing, snapshot, ruleFaults>>
        /\ worker' = IF Building = {} THEN AtRest
                     ELSE [pc |-> "build", ruleset |-> Min(Building)]
    BY DEF ClaimRuleset
  <1>2. CASE Building = {}
    <2>1. worker'.pc = "imports"
      BY <1>1, <1>2 DEF AtRest
    <2> QED
      BY <1>1, <2>1, Unmoved, OnlyAround
  <1>3. CASE Building # {}
    <2> DEFINE v == Min(Building)
    <2>1. v \in RulesetIds /\ rulesets[v].status = "building"
      <3>1. Building \in SUBSET Nat
        BY RowIds DEF RuleInv, Building
      <3>2. v \in Building
        BY <1>3, <3>1, LeastIsThere
      <3> QED
        BY <3>2 DEF Building
    <2>2. worker' = [pc |-> "build", ruleset |-> v]
      BY <1>1, <1>3
    <2> HIDE DEF v
    <2>3. RowsKept /\ BuildsKept /\ \A w \in RulesetIds : rulesets'[w] = rulesets[w]
      BY <1>1, Unmoved, OnlyAround
    <2>4. /\ worker'.pc = "build" /\ worker'.ruleset = v /\ v \in RulesetIds'
          /\ rulesets'[v].status = "building"
      BY <2>1, <2>2, <2>3 DEF RowsKept
    <2>5. WorkerKnows'
      BY <2>4 DEF WorkerKnows
    <2> QED
      BY <2>3, <2>5, Keeps, KeepsIndexes DEF RuleInv, RowsKept
  <1> QED
    BY <1>2, <1>3

LEMMA BuildIndexStep ==
    ASSUME RuleInv, BuildIndex, UNCHANGED <<snapshot, ruleFaults>> PROVE RuleInv' /\ RowsKept
  <1> DEFINE v == worker.ruleset
  <1>1. worker.pc = "build" /\ UNCHANGED <<rules, imports, installing, snapshot, ruleFaults>>
    BY DEF BuildIndex
  <1>2. v \in RulesetIds /\ rulesets[v].status \in {"building", "failed"}
    BY <1>1 DEF RuleInv, WorkerKnows
  <1>3. CASE SetStatus(v, "failed") /\ worker' = AtRest
    <2>1. rulesets[v].status \notin InForce
      BY <1>2 DEF InForce
    <2>2. RowsKept /\ \A w \in RulesetIds : rulesets'[w] = rulesets[w] \/ rulesets'[w].status = "failed"
      BY <1>1, <1>2, <1>3, <2>1, Unmoved, StatusFailed
    <2>3. BuildsKept
      BY <1>1, <2>2 DEF BuildsKept
    <2>4. worker'.pc = "imports"
      BY <1>3 DEF AtRest
    <2> QED
      BY <1>1, <2>2, <2>3, <2>4, QuietStep
  <1>4. CASE /\ worker' = [pc |-> "save", ruleset |-> v, index |-> CandidateRules(v)]
             /\ UNCHANGED rulesets
    <2>1. RowsKept /\ BuildsKept /\ \A w \in RulesetIds : rulesets'[w] = rulesets[w]
      BY <1>1, <1>4, Unmoved, OnlyAround
    <2>2. /\ worker'.pc = "save" /\ worker'.ruleset = v /\ worker'.index = CandidateRules(v)
      BY <1>4
    <2>3. v \in RulesetIds' /\ rulesets'[v].status \in {"building", "failed"}
      BY <1>2, <2>1 DEF RowsKept
    <2>4. CandidateRules(v) \subseteq RuleIds'
      <3>1. CandidateRules(v) \subseteq RuleIds
        BY DEF CandidateRules, RulesOf, Own
      <3> QED
        BY <2>1, <3>1 DEF RowsKept
    <2>5. CandidateRules(worker.ruleset)' = CandidateRules(v)
      <3>1. \A w \in RulesetIds : CandidateRules(w)' = CandidateRules(w)
        BY <2>1, Keeps
      <3>2. \A w \in RulesetIds : w = worker'.ruleset => CandidateRules(worker.ruleset)' = CandidateRules(w)'
        BY DEF CandidateRules, Own
      <3> QED
        BY <1>2, <2>2, <3>1, <3>2
    <2> HIDE DEF v
    <2>6. WorkerKnows'
      BY <2>2, <2>3, <2>4, <2>5 DEF WorkerKnows
    <2> QED
      BY <2>1, <2>6, Keeps, KeepsIndexes DEF RuleInv, RowsKept
  <1> QED
    BY <1>3, <1>4 DEF BuildIndex

\* The end of a build: what was remembered since BuildIndex is still what a build would give,
\* if the base is still in force.
LEMMA SaveBuildStep ==
    ASSUME RuleInv, SaveBuild, UNCHANGED <<snapshot, ruleFaults>> PROVE RuleInv' /\ RowsKept
  <1> DEFINE v == worker.ruleset
             row == [[rulesets[v] EXCEPT !.status = "ready"] EXCEPT !.index = worker.index]
  <1>1. /\ worker.pc = "save" /\ UNCHANGED <<rules, imports, installing, snapshot, ruleFaults>>
        /\ worker' = [pc |-> "check", ruleset |-> v]
        /\ rulesets' = [rulesets EXCEPT ![v].status = "ready", ![v].index = worker.index]
    BY DEF SaveBuild
  <1>2. /\ v \in RulesetIds /\ rulesets[v].status \notin InForce /\ worker.index \subseteq RuleIds
        /\ rulesets[v].base = Current => worker.index = CandidateRules(v)
    BY <1>1 DEF RuleInv, WorkerKnows, InForce
  <1>3. /\ RulesetIds = 1 .. Len(rulesets) /\ rulesets \in Seq(RulesetRow)
        /\ rulesets[v] \in RulesetRow /\ RuleIds \subseteq Nat
    BY <1>2, RowIds DEF RuleInv, RowsTyped
  <1>4. /\ row \in RulesetRow /\ row.status = "ready" /\ row.base = rulesets[v].base
        /\ row.removals = rulesets[v].removals /\ row.index = worker.index
    <2>1. worker.index \in SUBSET Nat
      BY <1>2, <1>3
    <2> QED
      BY <1>3, <2>1 DEF RulesetRow, Statuses
  <1>5. rulesets' = [rulesets EXCEPT ![v] = row]
    BY <1>1
  <1> HIDE DEF row
  <1>6. /\ rulesets' \in Seq(RulesetRow) /\ Len(rulesets') = Len(rulesets)
        /\ \A w \in RulesetIds : rulesets'[w] = IF w = v THEN row ELSE rulesets[w]
    BY <1>2, <1>3, <1>4, <1>5, ExceptSeq
  <1>7. RulesetIds' = RulesetIds /\ RuleIds' = RuleIds
    BY <1>1, <1>3, <1>6, LenProperties DEF RulesetIds, RuleIds
  <1>8. RowsTyped'
    BY <1>1, <1>6 DEF RuleInv, RowsTyped
  <1>9. RuleTypeOK'
    <2>1. \A w \in RulesetIds : /\ rulesets'[w].status \in Statuses
                                /\ rulesets'[w].base < w
                                /\ rulesets'[w].removals \subseteq RuleIds
                                /\ rulesets'[w].index \subseteq RuleIds
      BY <1>2, <1>4, <1>6 DEF RuleInv, RuleTypeOK, Statuses
    <2> QED
      BY <1>1, <1>7, <2>1 DEF RuleInv, RuleTypeOK
  <1>10. \A w \in RulesetIds :
           /\ rulesets'[w].base = rulesets[w].base
           /\ rulesets'[w].removals = rulesets[w].removals
           /\ rulesets[w].status \in InForce \/ rulesets'[w].status \in InForce
                => rulesets'[w] = rulesets[w]
    BY <1>2, <1>4, <1>6 DEF InForce
  <1>11. RowsKept
    BY <1>1, <1>7, <1>8, <1>9, <1>10 DEF RowsKept
  <1>12. /\ Current' = Current /\ Current \in RulesetIds /\ rulesets'[Current] = rulesets[Current]
         /\ \A w \in Nat : RulesOf(w)' = RulesOf(w)
         /\ \A w \in RulesetIds : CandidateRules(w)' = CandidateRules(w)
         /\ Current \in Nat
    BY <1>10, <1>11, Keeps, CurrentIsThere DEF RuleInv, InForce
  <1>13. RulesOf(Current)' = RulesOf(Current)
    <2>1. \A c \in Nat : c = Current' => RulesOf(Current)' = RulesOf(c)'
      BY DEF RulesOf, BelongsTo
    <2> QED
      BY <1>12, <2>1
  <1>14. ASSUME NEW w \in RulesetIds, rulesets'[w].status = "ready", rulesets'[w].base = Current
         PROVE  rulesets'[w].index = CandidateRules(w)'
    <2>1. CASE w = v
      BY <1>2, <1>4, <1>6, <1>10, <1>12, <1>14, <2>1
    <2>2. CASE w # v
      BY <1>6, <1>12, <1>14, <2>2 DEF RuleInv, IndexesHold
    <2> QED
      BY <2>1, <2>2
  <1>15. IndexesHold'
    BY <1>1, <1>7, <1>12, <1>13, <1>14 DEF RuleInv, IndexesHold
  <1>16. WorkerKnows'
    <2>1. worker'.pc = "check" /\ worker'.ruleset \in RulesetIds'
      BY <1>1, <1>2, <1>7
    <2> QED
      BY <2>1 DEF WorkerKnows
  <1> QED
    BY <1>8, <1>9, <1>11, <1>15, <1>16, Keeps DEF RuleInv

LEMMA CheckLinkedStep ==
    ASSUME RuleInv, CheckLinked, UNCHANGED <<snapshot, ruleFaults>> PROVE RuleInv' /\ RowsKept
  <1> DEFINE v == worker.ruleset
  <1>1. /\ UNCHANGED <<rulesets, rules, imports, installing, snapshot, ruleFaults>>
        /\ worker.pc = "check" /\ worker' \in {AtRest, [pc |-> "publish", ruleset |-> v]}
    BY DEF CheckLinked
  <1>2. v \in RulesetIds
    BY <1>1 DEF RuleInv, WorkerKnows
  <1>3. CASE worker' = AtRest
    <2>1. worker'.pc = "imports"
      BY <1>3 DEF AtRest
    <2> QED
      BY <1>1, <2>1, Unmoved, OnlyAround
  <1>4. CASE worker' = [pc |-> "publish", ruleset |-> v]
    <2>1. RowsKept /\ BuildsKept
      BY <1>1, Unmoved, OnlyAround
    <2>2. worker'.pc = "publish" /\ worker'.ruleset \in RulesetIds'
      BY <1>2, <1>4, <2>1 DEF RowsKept
    <2>3. WorkerKnows'
      BY <2>2 DEF WorkerKnows
    <2> QED
      BY <2>1, <2>3, Keeps, KeepsIndexes DEF RuleInv, RowsKept
  <1> QED
    BY <1>1, <1>3, <1>4

\* What a step does to the rules in force: nothing, or it publishes.
ItsChange ==
    Current' # Current =>
        /\ Current' > Current
        /\ (RulesOf(Current))' = (RulesOf(Current) \ rulesets[Current'].removals)
                                    \cup Own(Current')

LEMMA KeptIsNoChange == ASSUME RuleInv, RowsKept PROVE ItsChange
  BY Keeps DEF ItsChange

LEMMA PublishIsItsChange ==
    ASSUME RuleInv, NEW v \in RulesetIds, PublishTx(v, rulesets[v].base), Current' = v
    PROVE  ItsChange
  <1>1. /\ Current < v
        /\ RulesOf(v)' = (RulesOf(Current) \ rulesets[v].removals) \cup Own(v)
    BY PublishedRows, PublishedRules
  <1>2. RulesOf(Current)' = RulesOf(v)'
    BY DEF RulesOf, BelongsTo
  <1>3. Current' > Current
    BY <1>1, CurrentIsThere, RowIds DEF RuleInv
  <1> QED
    BY <1>1, <1>2, <1>3 DEF ItsChange

LEMMA ConfirmStep ==
    ASSUME RuleInv, NEW v \in RulesetIds, Confirm(v) PROVE RuleInv' /\ ItsChange
  <1>1. /\ PublishTx(v, rulesets[v].base) /\ installing' = v
        /\ UNCHANGED <<imports, worker, snapshot, ruleFaults>>
    BY DEF Confirm
  <1>2. RuleInv' /\ Current' = v
    BY <1>1, PublishStep
  <1> QED
    BY <1>1, <1>2, PublishIsItsChange

LEMMA AutoPublishStep ==
    ASSUME RuleInv, AutoPublish, UNCHANGED <<snapshot, ruleFaults>> PROVE RuleInv' /\ ItsChange
  <1> DEFINE v == worker.ruleset
  <1>1. worker.pc = "publish" /\ UNCHANGED <<imports, snapshot, ruleFaults>>
    BY DEF AutoPublish
  <1>2. v \in RulesetIds
    BY <1>1 DEF RuleInv, WorkerKnows
  <1>3. CASE /\ PublishTx(v, rulesets[v].base) /\ installing' = v
             /\ worker' = [pc |-> "installing"]
    <2>1. worker'.pc = "installing"
      BY <1>3
    <2> HIDE DEF v
    <2>2. RuleInv' /\ Current' = v
      BY <1>1, <1>2, <1>3, <2>1, PublishStep
    <2> QED
      BY <1>2, <1>3, <2>2, PublishIsItsChange
  <1>4. CASE worker' = AtRest /\ UNCHANGED <<rulesets, rules, installing>>
    <2>1. worker'.pc = "imports"
      BY <1>4 DEF AtRest
    <2>2. RuleInv' /\ RowsKept
      BY <1>1, <1>4, <2>1, Unmoved, OnlyAround
    <2> QED
      BY <2>2, KeptIsNoChange
  <1> QED
    BY <1>3, <1>4 DEF AutoPublish

LEMMA WorkerInvStep == ASSUME RuleInv, WorkerStep PROVE RuleInv' /\ ItsChange
  <1>1. UNCHANGED <<snapshot, ruleFaults>>
    BY DEF WorkerStep
  <1>2. CASE AutoPublish
    BY <1>1, <1>2, AutoPublishStep
  <1>3. CASE ClaimImport
    BY <1>1, <1>3, ClaimImportStep, KeptIsNoChange
  <1>4. CASE ValidateImport
    BY <1>1, <1>4, ValidateImportStep, KeptIsNoChange
  <1>5. CASE CreateImported
    BY <1>1, <1>5, CreateImportedStep, KeptIsNoChange
  <1>6. CASE LinkImport
    BY <1>1, <1>6, LinkImportStep, KeptIsNoChange
  <1>7. CASE ClaimRuleset
    BY <1>1, <1>7, ClaimRulesetStep, KeptIsNoChange
  <1>8. CASE BuildIndex
    BY <1>1, <1>8, BuildIndexStep, KeptIsNoChange
  <1>9. CASE SaveBuild
    BY <1>1, <1>9, SaveBuildStep, KeptIsNoChange
  <1>10. CASE CheckLinked
    BY <1>1, <1>10, CheckLinkedStep, KeptIsNoChange
  <1> QED
    BY <1>2, <1>3, <1>4, <1>5, <1>6, <1>7, <1>8, <1>9, <1>10 DEF WorkerStep

LEMMA RuleInvStep == RuleInv /\ [RuleNext]_ruleVars => RuleInv' /\ (ItsChange \/ UNCHANGED ruleVars)
  <1> SUFFICES ASSUME RuleInv, [RuleNext]_ruleVars PROVE RuleInv' /\ (ItsChange \/ UNCHANGED ruleVars)
    OBVIOUS
  <1>1. CASE ChangeRules
    BY <1>1, ChangeRulesStep, KeptIsNoChange
  <1>2. CASE CreateImport
    BY <1>2, CreateImportStep, KeptIsNoChange
  <1>3. ASSUME NEW v \in RulesetIds, CancelRuleset(v) PROVE RuleInv' /\ ItsChange
    BY <1>3, CancelRulesetStep, KeptIsNoChange
  <1>4. ASSUME NEW v \in RulesetIds, Confirm(v) PROVE RuleInv' /\ ItsChange
    BY <1>4, ConfirmStep
  <1>5. ASSUME NEW i \in DOMAIN imports, CancelImport(i) PROVE RuleInv' /\ ItsChange
    BY <1>5, CancelImportStep, KeptIsNoChange
  <1>6. CASE WorkerStep
    BY <1>6, WorkerInvStep
  <1>7. CASE Install
    BY <1>7, InstallStep, KeptIsNoChange
  <1>8. CASE LinkFails
    BY <1>8, LinkFailsStep, KeptIsNoChange
  <1>9. CASE BuildFails
    BY <1>9, BuildFailsStep, KeptIsNoChange
  <1>10. CASE InstallFails
    BY <1>10, InstallFailsStep, KeptIsNoChange
  <1>11. CASE Restart
    BY <1>11, RestartStep, KeptIsNoChange
  <1>12. CASE UNCHANGED ruleVars
    <2>1. RuleInv'
      BY <1>12, Unmoved, OnlyAround DEF ruleVars, RuleInv, RuleTypeOK
    <2> QED
      BY <1>12, <2>1
  <1> QED
    BY <1>1, <1>2, <1>3, <1>4, <1>5, <1>6, <1>7, <1>8, <1>9, <1>10, <1>11, <1>12 DEF RuleNext

LEMMA RuleInvariant == RuleSpec => []RuleInv
  <1>1. RuleInv /\ [RuleNext]_ruleVars => RuleInv'
    BY RuleInvStep
  <1> QED
    BY <1>1, RuleInitInv, PTL DEF RuleSpec

\* Rows, positions of the worker and the snapshot refer to rows that exist, for any number of
\* candidates, imports and faults.
THEOREM RuleTypesHold == RuleSpec => []RuleTypeOK
  BY RuleInvariant, PTL DEF RuleInv

\* One set of rules is in force, and the classifier matches against exactly the rules of its
\* version (classifier.go, ReplaceSnapshot) whatever happened between build and publication.
THEOREM SnapshotsAreTheirVersion == RuleSpec => []SnapshotIsItsVersion
  <1>1. RuleInv => SnapshotIsItsVersion
    <2> SUFFICES ASSUME RuleInv PROVE SnapshotIsItsVersion
      OBVIOUS
    <2>1. PublishedIds = {Current}
      BY DEF RuleInv, VersionsHold
    <2>2. Cardinality({Current}) = 1
      BY FS_Singleton
    <2> QED
      BY <2>1, <2>2 DEF RuleInv, IndexesHold, SnapshotIsItsVersion
  <1> QED
    BY <1>1, RuleInvariant, PTL

\* A publication (repository/moderationrule PublishCandidate) changes the rules in force by
\* its own additions and removals and by nothing else.
THEOREM PublicationsAreTheirChange == RuleSpec => PublicationIsItsChange
  <1>1. RuleInv /\ [RuleNext]_ruleVars =>
          [Current' # Current =>
             /\ Current' > Current
             /\ (RulesOf(Current))' = (RulesOf(Current) \ rulesets[Current'].removals)
                                         \cup Own(Current')]_ruleVars
    BY RuleInvStep DEF ItsChange
  <1> QED
    BY <1>1, RuleInvariant, PTL DEF RuleSpec, PublicationIsItsChange
=============================================================================
