------------------------- MODULE EmailBatchesProofs -------------------------
(* Theorems about EmailBatches for every set of tasks, users and loops,    *)
(* every sequence of quota layers and every bound.                         *)
EXTENDS EmailBatches, FiniteSetTheorems, SequenceTheorems, WellFoundedInduction, TLAPS

(***************************************************************************)
(* The inductive invariant.  Nothing in it speaks of the leases of tasks:  *)
(* a planner may hold tasks another one has batched meanwhile, and the     *)
(* unique key decides.  Of the batches it says that each is held by one    *)
(* sender at most, because the claim moves it out of pending for good.     *)
(***************************************************************************)
Held(s) == sender[s].todo \cup (IF sender[s].pc = "between" THEN {} ELSE {sender[s].batch})

Contents(b) == {t \in Tasks : <<b, t>> \in items}

\* A batch is created with its items, all for one user and no more than fit.
BatchesAreWhole ==
    \A b \in Batches :
        /\ batch[b].status = "unused" <=> Contents(b) = {}
        /\ \A t, u \in Contents(b) : Recipient[t] = Recipient[u]
        /\ Cardinality(Contents(b)) <= MaxItems

\* What a planner has in hand is for one user.
PlanIsForOne(plan) ==
    \A t, u \in plan.group \cup plan.include \cup plan.defer : Recipient[t] = Recipient[u]

PlansAreForOne == \A p \in Planners : PlanIsForOne(planner[p])

SenderKnows(s) ==
    /\ sender[s].pc # "between" =>
          sender[s].batch \in Batches /\ sender[s].batch \notin sender[s].todo
    /\ sender[s].pc = "reserve" =>
          /\ sender[s].layer \in 1 .. Len(Layers) + 1
          /\ sender[s].layer <= Len(Layers) => Reserved(sender[s].layer)
    /\ sender[s].pc = "log" => \E c \in calls : c.batch = sender[s].batch /\ c.ok
    /\ sender[s].pc = "mark" => sender[s].batch \in sendLog

\* A batch in hand is being sent, and accepted only if its sender knows.
HoldsSending(s) ==
    /\ \A b \in Held(s) : batch[b].status = "sending"
    /\ \A c \in calls : c.ok /\ c.batch \in Held(s) =>
          sender[s].pc \in {"log", "mark"} /\ c.batch = sender[s].batch

HeldOnce == \A r, s \in Senders : r # s => Held(r) \cap Held(s) = {}

AcceptedOnce ==
    /\ \A c \in calls : c.ok => batch[c.batch].status \in {"sending", "sent"}
    /\ \A c, d \in calls : c.ok /\ d.ok /\ c.batch = d.batch => c = d

SentFromBatch == \A t \in Tasks : task[t].status = "sent" => task[t].batch \in Batches

MailInv ==
    /\ TypeOK
    /\ OneBatchPerTask
    /\ BatchesAreWhole
    /\ PlansAreForOne
    /\ \A s \in Senders : SenderKnows(s) /\ HoldsSending(s)
    /\ HeldOnce
    /\ AcceptedOnce
    /\ SentFromBatch
    /\ SentIsDelivered

-----------------------------------------------------------------------------
(* The layers.                                                             *)

LEMMA LayersLen == Len(Layers) \in Nat
  BY LayersAssumption

LEMMA LayerIs ==
    ASSUME NEW l \in 1 .. Len(Layers)
    PROVE  /\ Layers[l] \in [scope: Scopes, period: Nat \ {0}, limit: Nat]
           /\ Layers[l].period \in Nat \ {0} /\ Layers[l].limit \in Nat
  <1>1. ASSUME NEW S, Layers \in Seq(S) PROVE Layers[l] \in S
    BY <1>1, ElementOfSeq
  <1>2. Layers[l] \in [scope: Scopes, period: Nat \ {0}, limit: Nat]
    BY <1>1, LayersAssumption
  <1> QED
    BY <1>2

\* LayerFrom finds a layer Reserve reserves, or the end.
LEMMA LayerFromFinds ==
    ASSUME NEW l \in 1 .. Len(Layers) + 1
    PROVE  /\ LayerFrom(l) \in l .. Len(Layers) + 1
           /\ LayerFrom(l) <= Len(Layers) => Reserved(LayerFrom(l))
           /\ \A m \in l .. LayerFrom(l) - 1 : ~Reserved(m)
  <1> DEFINE R == OpToRel(<, Nat)
             T == {n \in l .. Len(Layers) + 1 : n <= Len(Layers) => Reserved(n)}
  <1>1. Len(Layers) + 1 \in T /\ T \subseteq Nat
    BY LayersLen
  <1>2. IsWellFoundedOn(R, Nat)
    BY NatLessThanWellFounded DEF R
  <1> HIDE DEF R, T
  <1>3. PICK n \in T : \A y \in T : ~(<<y, n>> \in R)
    BY <1>1, <1>2, WFMin
  <1>4. \A m \in l .. n - 1 : ~Reserved(m)
    <2> SUFFICES ASSUME NEW m \in l .. n - 1, Reserved(m) PROVE FALSE
      OBVIOUS
    <2>1. n \in Nat /\ l \in Nat /\ n <= Len(Layers) + 1
      BY <1>3, LayersLen DEF T
    <2>2. m \in T
      BY <2>1, LayersLen DEF T
    <2>3. <<m, n>> \in R
      BY <2>1 DEF R, OpToRel
    <2> QED
      BY <1>3, <2>2, <2>3
  <1>5. \E k \in l .. Len(Layers) + 1 :
           /\ k <= Len(Layers) => Reserved(k)
           /\ \A m \in l .. k - 1 : ~Reserved(m)
    BY <1>3, <1>4 DEF T
  <1> QED
    BY <1>5 DEF LayerFrom

-----------------------------------------------------------------------------
(* Steps that write the task table or a plan.                              *)

\* What such a step may do to a task that is in a batch, or is not.
TasksWritten ==
    \A t \in Tasks :
        /\ task'[t].batch = task[t].batch
        /\ \/ task'[t].status = task[t].status
           \/ task'[t].status = "deferred"
           \/ task[t].status = "none"

LEMMA TasksKeepInv ==
    ASSUME MailInv, TypeOK', PlansAreForOne', TasksWritten,
           UNCHANGED <<batch, items, sender, sendLog, calls>>,
           \A t \in Tasks : task'[t].status = "sent" => task[t].status = "sent"
    PROVE  MailInv'
  <1>1. TypeOK /\ OneBatchPerTask /\ BatchesAreWhole
        /\ (\A s \in Senders : SenderKnows(s) /\ HoldsSending(s))
        /\ HeldOnce /\ AcceptedOnce /\ SentFromBatch /\ SentIsDelivered
    BY DEF MailInv
  <1>2. OneBatchPerTask'
    <2> SUFFICES ASSUME NEW i \in items
                 PROVE  task'[i[2]].batch = i[1] /\ task'[i[2]].status \notin {"none", "pending"}
      BY DEF OneBatchPerTask
    <2>1. i[2] \in Tasks
      BY <1>1 DEF TypeOK
    <2>2. task[i[2]].batch = i[1] /\ task[i[2]].status \notin {"none", "pending"}
      BY <1>1 DEF OneBatchPerTask
    <2> QED
      BY <2>1, <2>2 DEF TasksWritten
  <1>3. BatchesAreWhole'
    BY <1>1 DEF BatchesAreWhole, Contents
  <1>4. \A s \in Senders : SenderKnows(s)' /\ HoldsSending(s)'
    BY <1>1 DEF SenderKnows, HoldsSending, Held, Reserved
  <1>5. HeldOnce' /\ AcceptedOnce'
    BY <1>1 DEF HeldOnce, Held, AcceptedOnce
  <1>6. SentIsDelivered'
    <2>1. \A t \in Tasks : task'[t].status = "sent" => batch[task'[t].batch].status = "sent"
      BY <1>1 DEF SentIsDelivered, TasksWritten
    <2> QED
      BY <1>1, <2>1 DEF SentIsDelivered
  <1>7. SentFromBatch'
    BY <1>1 DEF SentFromBatch, TasksWritten
  <1> QED
    BY <1>2, <1>3, <1>4, <1>5, <1>6, <1>7 DEF MailInv

LEMMA NoPlanType == NoPlan \in PlannerRecords /\ PlanIsForOne(NoPlan)
  BY DEF NoPlan, PlannerRecords, PlanIsForOne

LEMMA EnvironmentStep ==
    ASSUME MailInv, \/ Tick
                    \/ \E t \in Tasks : CreateEmailTask(t) \/ LeaseRunsOut(t)
    PROVE  MailInv'
  <1>1. TypeOK /\ PlansAreForOne
    BY DEF MailInv
  <1>2. CASE Tick
    <2>1. TypeOK'
      BY <1>1, <1>2 DEF TypeOK, Tick
    <2>2. TasksWritten /\ UNCHANGED <<task, planner, batch, items, sender, sendLog, calls>>
      BY <1>2 DEF Tick, TasksWritten
    <2> QED
      BY <1>1, <2>1, <2>2, TasksKeepInv DEF PlansAreForOne
  <1>3. ASSUME NEW t \in Tasks, CreateEmailTask(t) \/ LeaseRunsOut(t) PROVE MailInv'
    <2>1. PICK r \in TaskRecords :
             /\ task' = [task EXCEPT ![t] = r]
             /\ r.batch = task[t].batch /\ r.status \in {"pending", task[t].status}
             /\ r.status = "pending" => task[t].status \in {"none", "pending"}
      <3>1. task[t] \in TaskRecords
        BY <1>1 DEF TypeOK
      <3>2. CASE CreateEmailTask(t)
        <4>1. task' = [task EXCEPT ![t] = [task[t] EXCEPT !.status = "pending"]]
              /\ task[t].status = "none"
          BY <3>2 DEF CreateEmailTask
        <4>2. [task[t] EXCEPT !.status = "pending"] \in TaskRecords
          BY <3>1 DEF TaskRecords
        <4> QED
          BY <3>1, <4>1, <4>2 DEF TaskRecords
      <3>3. CASE LeaseRunsOut(t)
        <4>1. task' = [task EXCEPT ![t] = [task[t] EXCEPT !.leased = FALSE]]
              /\ task[t].status = "pending"
          BY <3>3 DEF LeaseRunsOut
        <4>2. [task[t] EXCEPT !.leased = FALSE] \in TaskRecords
          BY <3>1 DEF TaskRecords
        <4> QED
          BY <3>1, <4>1, <4>2 DEF TaskRecords
      <3> QED
        BY <1>3, <3>2, <3>3
    <2>2. UNCHANGED <<now, batch, items, usage, planner, sender, sendLog, calls, failures, aborts>>
      BY <1>3 DEF CreateEmailTask, LeaseRunsOut
    <2>3. task \in [Tasks -> TaskRecords] /\ task' \in [Tasks -> TaskRecords]
      BY <1>1, <2>1 DEF TypeOK
    <2>4. TypeOK'
      BY <1>1, <2>2, <2>3 DEF TypeOK
    <2>5. \A u \in Tasks : task'[u] = IF u = t THEN r ELSE task[u]
      BY <2>1, <2>3
    <2>6. TasksWritten
      BY <2>1, <2>5 DEF TasksWritten
    <2>7. \A u \in Tasks : task'[u].status = "sent" => task[u].status = "sent"
      BY <2>1, <2>5
    <2>8. PlansAreForOne'
      BY <1>1, <2>2 DEF PlansAreForOne
    <2> QED
      BY <2>2, <2>4, <2>6, <2>7, <2>8, TasksKeepInv
  <1> QED
    BY <1>2, <1>3

LEMMA AbortCounted ==
    ASSUME TypeOK, aborts' = aborts \/ Abort
    PROVE  aborts' \in 0 .. MaxAborts
  BY MailBoundsAssumption DEF TypeOK, Abort

\* One planner gets a new plan.
LEMMA PlanReplaced ==
    ASSUME TypeOK, PlansAreForOne, NEW p \in Planners, NEW plan \in PlannerRecords,
           PlanIsForOne(plan), planner' = [planner EXCEPT ![p] = plan]
    PROVE  planner' \in [Planners -> PlannerRecords] /\ PlansAreForOne'
  <1>1. planner \in [Planners -> PlannerRecords]
    BY DEF TypeOK
  <1>2. \A q \in Planners : planner'[q] = IF q = p THEN plan ELSE planner[q]
    BY <1>1
  <1>3. \A q \in Planners : PlanIsForOne(planner'[q])
    BY <1>2 DEF PlansAreForOne
  <1> QED
    BY <1>1, <1>3 DEF PlansAreForOne

\* The rows of some tasks are written one by one.
LEMMA TasksReplaced ==
    ASSUME TypeOK, NEW S \in SUBSET Tasks, NEW f \in [Tasks -> TaskRecords],
           task' = [t \in Tasks |-> IF t \in S THEN f[t] ELSE task[t]],
           \A t \in S : /\ f[t].batch = task[t].batch
                        /\ f[t].status \in {task[t].status, "deferred"}
    PROVE  /\ task' \in [Tasks -> TaskRecords] /\ TasksWritten
           /\ \A t \in Tasks : task'[t].status = "sent" => task[t].status = "sent"
  <1>1. task \in [Tasks -> TaskRecords]
    BY DEF TypeOK
  <1>2. task' \in [Tasks -> TaskRecords]
    BY <1>1
  <1>3. \A t \in Tasks : task'[t] = IF t \in S THEN f[t] ELSE task[t]
    OBVIOUS
  <1> QED
    BY <1>2, <1>3 DEF TasksWritten

LEMMA PlannerStep ==
    ASSUME MailInv, NEW p \in Planners,
           \/ LeaseEmailTasks(p) \/ DeferEmailTasks(p) \/ ReleaseOverflow(p)
           \/ CreationRefused(p) \/ PlannerAborts(p)
           \/ \E u \in Users : TakeGroup(p, u)
           \/ \E t \in Tasks : EvaluateTask(p, t)
    PROVE  MailInv'
  <1>1. TypeOK /\ PlansAreForOne
    BY DEF MailInv
  <1>2. PICK k \in PlannerRecords : k = planner[p] /\ PlanIsForOne(k)
    BY <1>1 DEF TypeOK, PlansAreForOne
  <1>3. /\ k.tasks \in SUBSET Tasks /\ k.group \in SUBSET Tasks
        /\ k.include \in SUBSET Tasks /\ k.defer \in SUBSET Tasks /\ k.at \in Nat
    BY DEF PlannerRecords
  <1>4. UNCHANGED <<now, batch, items, usage, sender, sendLog, calls, failures>>
    BY DEF LeaseEmailTasks, DeferEmailTasks, ReleaseOverflow, CreationRefused, PlannerAborts,
           TakeGroup, EvaluateTask
  <1>5. aborts' \in 0 .. MaxAborts
    <2>1. aborts' = aborts \/ Abort
      BY DEF LeaseEmailTasks, DeferEmailTasks, ReleaseOverflow, CreationRefused, PlannerAborts,
             TakeGroup, EvaluateTask
    <2> QED
      BY <1>1, <2>1, AbortCounted
  <1>6. task \in [Tasks -> TaskRecords]
    BY <1>1 DEF TypeOK
  <1> DEFINE Written == /\ task' \in [Tasks -> TaskRecords] /\ TasksWritten
                        /\ \A t \in Tasks : task'[t].status = "sent" => task[t].status = "sent"
             Replanned == planner' \in [Planners -> PlannerRecords] /\ PlansAreForOne'
  <1>7. ASSUME UNCHANGED task PROVE Written
    BY <1>6, <1>7 DEF TasksWritten
  <1>8. ASSUME planner' = [planner EXCEPT ![p] = NoPlan] PROVE Replanned
    BY <1>1, <1>8, NoPlanType, PlanReplaced
  <1>9. Written /\ Replanned
    <2>1. CASE LeaseEmailTasks(p)
      <3>1. PICK C \in SUBSET Tasks :
              /\ task' = [t \in Tasks |-> IF t \in C THEN [task[t] EXCEPT !.leased = TRUE] ELSE task[t]]
              /\ planner' = [planner EXCEPT ![p] = [NoPlan EXCEPT !.tasks = C, !.at = now]]
        BY <2>1 DEF LeaseEmailTasks, Claims, LeasableTasks
      <3>2. PICK f : f = [t \in Tasks |-> [task[t] EXCEPT !.leased = TRUE]]
        OBVIOUS
      <3>3. f \in [Tasks -> TaskRecords]
        BY <1>6, <3>2 DEF TaskRecords
      <3>4. Written
        <4>1. task' = [t \in Tasks |-> IF t \in C THEN f[t] ELSE task[t]]
          BY <3>1, <3>2
        <4>2. \A t \in C : f[t].batch = task[t].batch /\ f[t].status = task[t].status
          BY <1>6, <3>2 DEF TaskRecords
        <4> QED
          BY <1>1, <3>3, <4>1, <4>2, TasksReplaced
      <3>5. Replanned
        <4>1. PICK n \in Nat : n = now
          BY <1>1 DEF TypeOK
        <4> DEFINE plan == [NoPlan EXCEPT !.tasks = C, !.at = n]
        <4>2. plan \in PlannerRecords
          BY DEF NoPlan, PlannerRecords
        <4>3. PlanIsForOne(plan)
          BY DEF NoPlan, PlanIsForOne
        <4>4. planner' = [planner EXCEPT ![p] = plan]
          BY <3>1, <4>1
        <4> HIDE DEF plan
        <4> QED
          BY <1>1, <4>2, <4>3, <4>4, PlanReplaced
      <3> QED
        BY <3>4, <3>5
    <2>2. CASE DeferEmailTasks(p)
      <3>1. PICK f : f = [t \in Tasks |-> [task[t] EXCEPT !.status = "deferred", !.leased = FALSE]]
        OBVIOUS
      <3>2. f \in [Tasks -> TaskRecords]
        BY <1>6, <3>1 DEF TaskRecords
      <3>3. Written
        <4>1. task' = [t \in Tasks |-> IF t \in k.defer THEN f[t] ELSE task[t]]
          BY <1>2, <2>2, <3>1 DEF DeferEmailTasks
        <4>2. \A t \in k.defer : f[t].batch = task[t].batch /\ f[t].status = "deferred"
          BY <1>3, <1>6, <3>1 DEF TaskRecords
        <4> QED
          BY <1>1, <1>3, <3>2, <4>1, <4>2, TasksReplaced
      <3>4. Replanned
        <4> DEFINE plan == [k EXCEPT !.defer = {}]
        <4>1. plan \in PlannerRecords
          BY DEF PlannerRecords
        <4>2. PlanIsForOne(plan)
          BY <1>2 DEF PlannerRecords, PlanIsForOne
        <4>3. \/ planner' = [planner EXCEPT ![p] = NoPlan]
              \/ planner' = [planner EXCEPT ![p] = plan]
          BY <1>2, <2>2 DEF DeferEmailTasks, Planned
        <4> HIDE DEF plan
        <4> QED
          BY <1>1, <1>8, <4>1, <4>2, <4>3, PlanReplaced
      <3> QED
        BY <3>3, <3>4
    <2>3. CASE ReleaseOverflow(p)
      <3>1. PICK K \in SUBSET k.include :
              /\ task' = [t \in Tasks |-> IF t \in k.include \ K
                                          THEN [task[t] EXCEPT !.leased = FALSE]
                                          ELSE task[t]]
              /\ planner' = [planner EXCEPT ![p].include = K]
        BY <1>2, <2>3 DEF ReleaseOverflow, Claims
      <3>2. PICK f : f = [t \in Tasks |-> [task[t] EXCEPT !.leased = FALSE]]
        OBVIOUS
      <3>3. f \in [Tasks -> TaskRecords]
        BY <1>6, <3>2 DEF TaskRecords
      <3>4. Written
        <4>1. task' = [t \in Tasks |-> IF t \in k.include \ K THEN f[t] ELSE task[t]]
          BY <3>1, <3>2
        <4>2. \A t \in k.include \ K : f[t].batch = task[t].batch /\ f[t].status = task[t].status
          BY <1>3, <1>6, <3>2 DEF TaskRecords
        <4>3. k.include \ K \in SUBSET Tasks
          BY <1>3
        <4> QED
          BY <1>1, <3>3, <4>1, <4>2, <4>3, TasksReplaced
      <3>5. Replanned
        <4> DEFINE plan == [k EXCEPT !.include = K]
        <4>1. plan \in PlannerRecords
          BY <1>3 DEF PlannerRecords
        <4>2. PlanIsForOne(plan)
          BY <1>2 DEF PlannerRecords, PlanIsForOne
        <4>3. planner' = [planner EXCEPT ![p] = plan]
          BY <1>2, <3>1
        <4> HIDE DEF plan
        <4> QED
          BY <1>1, <4>1, <4>2, <4>3, PlanReplaced
      <3> QED
        BY <3>4, <3>5
    <2>4. CASE CreationRefused(p) \/ PlannerAborts(p)
      BY <1>7, <1>8, <2>4 DEF CreationRefused, PlannerAborts
    <2>5. ASSUME NEW u \in Users, TakeGroup(p, u) PROVE Written /\ Replanned
      <3>1. UNCHANGED task /\ k.group = {} /\ k.include = {} /\ k.defer = {}
        BY <1>2, <2>5 DEF TakeGroup, GroupDone
      <3>2. PICK G : G = {t \in k.tasks : Recipient[t] = u}
        OBVIOUS
      <3>3. planner' = [planner EXCEPT ![p].group = G, ![p].tasks = @ \ G]
        BY <1>2, <2>5, <3>2 DEF TakeGroup
      <3> DEFINE plan == [k EXCEPT !.group = G, !.tasks = k.tasks \ G]
      <3>4. plan \in PlannerRecords
        BY <1>3, <3>2 DEF PlannerRecords
      <3>5. PlanIsForOne(plan)
        BY <1>2, <3>1, <3>2 DEF PlannerRecords, PlanIsForOne
      <3>6. planner' = [planner EXCEPT ![p] = plan]
        BY <1>1, <1>2, <3>3 DEF TypeOK
      <3> HIDE DEF plan
      <3> QED
        BY <1>1, <1>7, <3>1, <3>4, <3>5, <3>6, PlanReplaced
    <2>6. ASSUME NEW t \in Tasks, EvaluateTask(p, t) PROVE Written /\ Replanned
      <3>1. UNCHANGED task /\ t \in k.group
        BY <1>2, <2>6 DEF EvaluateTask
      <3> DEFINE yes == [k EXCEPT !.group = k.group \ {t}, !.include = k.include \cup {t}]
                 no == [k EXCEPT !.group = k.group \ {t}, !.defer = k.defer \cup {t}]
      <3>2. yes \in PlannerRecords /\ no \in PlannerRecords
        BY <1>3 DEF PlannerRecords
      <3>3. PlanIsForOne(yes) /\ PlanIsForOne(no)
        BY <1>2, <3>1 DEF PlannerRecords, PlanIsForOne
      <3>4. planner' = [planner EXCEPT ![p] = yes] \/ planner' = [planner EXCEPT ![p] = no]
        BY <1>2, <2>6 DEF EvaluateTask
      <3> HIDE DEF yes, no
      <3> QED
        BY <1>1, <1>7, <3>1, <3>2, <3>3, <3>4, PlanReplaced
    <2> QED
      BY <2>1, <2>2, <2>3, <2>4, <2>5, <2>6
  <1>10. TypeOK'
    BY <1>1, <1>4, <1>5, <1>9 DEF TypeOK
  <1> QED
    BY <1>4, <1>9, <1>10, TasksKeepInv

-----------------------------------------------------------------------------
(* The creation of a batch.                                                *)

LEMMA CreationStep ==
    ASSUME MailInv, NEW p \in Planners, NEW b \in Batches, CreateEmailBatchWithItems(p, b)
    PROVE  MailInv'
  <1>1. TypeOK /\ OneBatchPerTask /\ BatchesAreWhole /\ PlansAreForOne
        /\ (\A s \in Senders : SenderKnows(s) /\ HoldsSending(s))
        /\ HeldOnce /\ AcceptedOnce /\ SentFromBatch /\ SentIsDelivered
    BY DEF MailInv
  <1>2. PICK k \in PlannerRecords : k = planner[p] /\ PlanIsForOne(k)
    BY <1>1 DEF TypeOK, PlansAreForOne
  <1>3. PICK S \in SUBSET Tasks : S = k.include
    BY DEF PlannerRecords
  <1>4. /\ S # {} /\ \A i \in items : i[2] \notin S
        /\ batch[b].status = "unused"
        /\ batch' = [batch EXCEPT ![b] = [status |-> "pending", at |-> k.at]]
        /\ items' = items \cup ({b} \X S)
        /\ task' = [t \in Tasks |-> IF t \in S
                                    THEN [task[t] EXCEPT !.status = "batched", !.batch = b]
                                    ELSE task[t]]
        /\ UNCHANGED <<now, usage, sender, sendLog, calls, failures, aborts>>
    BY <1>2, <1>3 DEF CreateEmailBatchWithItems, ReadyToCreate, Itemised
  <1>5. /\ task \in [Tasks -> TaskRecords] /\ batch \in [Batches -> BatchRecords]
        /\ items \in SUBSET (Batches \X Tasks)
    BY <1>1 DEF TypeOK
  <1>6. \A c \in Batches : c # b => batch'[c] = batch[c]
    BY <1>4, <1>5
  <1>7. batch'[b] = [status |-> "pending", at |-> k.at] /\ batch'[b] \in BatchRecords
    BY <1>2, <1>4, <1>5 DEF PlannerRecords, BatchRecords
  <1>8. \A t \in S : /\ task'[t] \in TaskRecords
                     /\ task'[t].status = "batched" /\ task'[t].batch = b
    <2> SUFFICES ASSUME NEW t \in S
                 PROVE  /\ task'[t] \in TaskRecords
                        /\ task'[t].status = "batched" /\ task'[t].batch = b
      OBVIOUS
    <2>1. task[t] \in TaskRecords /\ b \in 0 .. MaxBatches
      BY <1>5 DEF Batches
    <2>2. task'[t] = [task[t] EXCEPT !.status = "batched", !.batch = b]
      BY <1>4
    <2> QED
      BY <2>1, <2>2 DEF TaskRecords
  <1>9. \A t \in Tasks \ S : task'[t] = task[t]
    BY <1>4
  <1>10. planner' \in [Planners -> PlannerRecords] /\ PlansAreForOne'
    <2> DEFINE plan == [k EXCEPT !.include = {}]
    <2>1. plan \in PlannerRecords
      BY DEF PlannerRecords
    <2>2. PlanIsForOne(plan)
      BY <1>2 DEF PlannerRecords, PlanIsForOne
    <2>3. \/ planner' = [planner EXCEPT ![p] = NoPlan]
          \/ planner' = [planner EXCEPT ![p] = plan]
      BY <1>2 DEF CreateEmailBatchWithItems, Planned
    <2> HIDE DEF plan
    <2> QED
      BY <1>1, <2>1, <2>2, <2>3, NoPlanType, PlanReplaced
  <1>11. TypeOK'
    <2>1. task' \in [Tasks -> TaskRecords]
      BY <1>4, <1>5, <1>8, <1>9
    <2>2. batch' \in [Batches -> BatchRecords]
      BY <1>4, <1>5, <1>6, <1>7
    <2>3. items' \in SUBSET (Batches \X Tasks)
      BY <1>4, <1>5
    <2> QED
      BY <1>1, <1>4, <1>10, <2>1, <2>2, <2>3 DEF TypeOK
  <1>12. OneBatchPerTask'
    <2> SUFFICES ASSUME NEW i \in items'
                 PROVE  task'[i[2]].batch = i[1] /\ task'[i[2]].status \notin {"none", "pending"}
      BY DEF OneBatchPerTask
    <2>1. CASE i \in items
      BY <1>1, <1>4, <1>5, <1>9, <2>1 DEF OneBatchPerTask
    <2>2. CASE i \in {b} \X S
      BY <1>8, <2>2
    <2> QED
      BY <1>4, <2>1, <2>2
  <1>13. BatchesAreWhole'
    <2>1. Contents(b)' = S
      <3>1. Contents(b) = {}
        BY <1>1, <1>4 DEF BatchesAreWhole
      <3> QED
        BY <1>4, <3>1 DEF Contents
    <2>2. \A c \in Batches : c # b => Contents(c)' = Contents(c)
      BY <1>4 DEF Contents
    <2>3. \A t, u \in S : Recipient[t] = Recipient[u]
      BY <1>2, <1>3 DEF PlanIsForOne
    <2>4. batch'[b].status # "unused"
      BY <1>7
    <2>5. S # {} /\ Cardinality(S) <= MaxItems
      BY <1>2, <1>3, <1>4 DEF CreateEmailBatchWithItems, ReadyToCreate
    <2> QED
      BY <1>1, <1>6, <2>1, <2>2, <2>3, <2>4, <2>5 DEF BatchesAreWhole
  <1>14. \A s \in Senders : SenderKnows(s)' /\ HoldsSending(s)'
    <2> SUFFICES ASSUME NEW s \in Senders PROVE SenderKnows(s)' /\ HoldsSending(s)'
      OBVIOUS
    <2>1. SenderKnows(s)'
      BY <1>1, <1>4 DEF SenderKnows, Reserved
    <2>2. Held(s)' = Held(s) /\ Held(s) \subseteq Batches
      BY <1>1, <1>4 DEF Held, TypeOK, SenderRecords, SenderKnows
    <2>3. \A c \in Held(s) : batch'[c].status = "sending"
      BY <1>1, <1>4, <1>6, <2>2 DEF HoldsSending
    <2> QED
      BY <1>1, <1>4, <2>1, <2>2, <2>3 DEF HoldsSending
  <1>15. HeldOnce' /\ AcceptedOnce'
    <2>1. \A c \in calls : c.batch \in Batches
      BY <1>1 DEF TypeOK
    <2> QED
      BY <1>1, <1>4, <1>6, <2>1 DEF HeldOnce, Held, AcceptedOnce
  <1>16. SentFromBatch' /\ SentIsDelivered'
    <2>1. \A t \in Tasks : task'[t].status = "sent" => t \notin S /\ task'[t] = task[t]
      BY <1>8, <1>9
    <2>2. SentFromBatch'
      BY <1>1, <2>1 DEF SentFromBatch
    <2>3. \A c \in Batches : batch'[c].status = "sent" => batch[c].status = "sent"
      BY <1>6, <1>7
    <2>4. \A t \in Tasks : task'[t].status = "sent" => batch'[task'[t].batch].status = "sent"
      <3> SUFFICES ASSUME NEW t \in Tasks, task'[t].status = "sent"
                   PROVE  batch'[task'[t].batch].status = "sent"
        OBVIOUS
      <3>1. task'[t] = task[t] /\ task[t].status = "sent"
        BY <2>1
      <3>2. task[t].batch \in Batches /\ batch[task[t].batch].status = "sent"
        BY <1>1, <3>1 DEF SentFromBatch, SentIsDelivered
      <3>3. task[t].batch # b
        BY <1>4, <3>2
      <3> QED
        BY <1>6, <3>1, <3>2, <3>3
    <2> QED
      BY <1>1, <1>4, <2>2, <2>3, <2>4 DEF SentIsDelivered
  <1> QED
    BY <1>10, <1>11, <1>12, <1>13, <1>14, <1>15, <1>16 DEF MailInv

-----------------------------------------------------------------------------
(* Steps of a sender.                                                      *)

LEMMA BetweenType ==
    ASSUME NEW S \in SUBSET Batches
    PROVE  Between(S) \in SenderRecords
  BY MailBoundsAssumption DEF Between, SenderRecords

LEMMA SenderReplaced ==
    ASSUME TypeOK, NEW s \in Senders, NEW r \in SenderRecords,
           sender' = [sender EXCEPT ![s] = r]
    PROVE  /\ sender' \in [Senders -> SenderRecords] /\ sender'[s] = r
           /\ \A q \in Senders \ {s} : sender'[q] = sender[q]
  BY DEF TypeOK

\* What a sender has in hand are batches.
LEMMA HeldBatches ==
    ASSUME MailInv, NEW s \in Senders
    PROVE  Held(s) \subseteq Batches
  BY DEF MailInv, TypeOK, SenderRecords, SenderKnows, Held

\* A sender works on what it holds and takes nothing more.
LEMMA SenderMoves ==
    ASSUME MailInv, TypeOK', NEW s \in Senders,
           \A r \in Senders \ {s} : sender'[r] = sender[r],
           UNCHANGED <<items, planner>>,
           Held(s)' \subseteq Held(s),
           \A b \in Batches \ Held(s) : batch'[b] = batch[b],
           \A b \in Batches : batch'[b].status = "unused" <=> batch[b].status = "unused",
           calls \subseteq calls', sendLog \subseteq sendLog',
           \A c \in calls' : c \in calls \/ c.batch \in Held(s),
           SenderKnows(s)', HoldsSending(s)', OneBatchPerTask', AcceptedOnce',
           SentFromBatch', SentIsDelivered'
    PROVE  MailInv'
  <1>1. BatchesAreWhole /\ PlansAreForOne /\ HeldOnce
        /\ \A r \in Senders : SenderKnows(r) /\ HoldsSending(r)
    BY DEF MailInv
  <1>2. BatchesAreWhole'
    BY <1>1 DEF BatchesAreWhole, Contents
  <1>3. PlansAreForOne'
    BY <1>1 DEF PlansAreForOne
  <1>4. \A r \in Senders \ {s} : Held(r)' = Held(r) /\ Held(r) \cap Held(s) = {}
    BY <1>1 DEF Held, HeldOnce
  <1>5. ASSUME NEW r \in Senders \ {s} PROVE SenderKnows(r)' /\ HoldsSending(r)'
    <2>1. SenderKnows(r) /\ HoldsSending(r) /\ sender'[r] = sender[r]
      BY <1>1
    <2>2. SenderKnows(r)'
      <3>1. sender[r].pc = "log" => \E c \in calls' : c.batch = sender[r].batch /\ c.ok
        BY <2>1 DEF SenderKnows
      <3> QED
        BY <2>1, <3>1 DEF SenderKnows, Reserved
    <2>3. \A b \in Held(r) : batch'[b] = batch[b]
      BY <1>4, HeldBatches
    <2>4. \A c \in calls' : c.ok /\ c.batch \in Held(r) =>
             sender[r].pc \in {"log", "mark"} /\ c.batch = sender[r].batch
      BY <1>4, <2>1 DEF HoldsSending
    <2> QED
      BY <1>4, <2>1, <2>2, <2>3, <2>4 DEF HoldsSending
  <1>6. HeldOnce'
    <2>1. \A r, q \in Senders \ {s} : r # q => Held(r)' \cap Held(q)' = {}
      BY <1>1, <1>4 DEF HeldOnce
    <2>2. \A r \in Senders \ {s} : Held(r)' \cap Held(s)' = {}
      BY <1>4
    <2> QED
      BY <2>1, <2>2 DEF HeldOnce
  <1>7. \A r \in Senders : SenderKnows(r)' /\ HoldsSending(r)'
    BY <1>5
  <1> QED
    BY <1>2, <1>3, <1>6, <1>7 DEF MailInv

\* It only looks, counts quota or gives up.
LEMMA SenderLooks ==
    ASSUME MailInv, TypeOK', NEW s \in Senders,
           \A r \in Senders \ {s} : sender'[r] = sender[r],
           UNCHANGED <<task, batch, items, planner, sendLog, calls>>,
           Held(s)' \subseteq Held(s),
           SenderKnows(s)',
           \A c \in calls : c.ok /\ c.batch \in Held(s)' =>
               sender'[s].pc \in {"log", "mark"} /\ c.batch = sender'[s].batch
    PROVE  MailInv'
  <1>1. OneBatchPerTask /\ AcceptedOnce /\ SentFromBatch /\ SentIsDelivered /\ HoldsSending(s)
    BY DEF MailInv
  <1>2. HoldsSending(s)'
    BY <1>1 DEF HoldsSending
  <1>3. OneBatchPerTask' /\ AcceptedOnce' /\ SentFromBatch' /\ SentIsDelivered'
    BY <1>1 DEF OneBatchPerTask, AcceptedOnce, SentFromBatch, SentIsDelivered
  <1> QED
    BY <1>2, <1>3, SenderMoves

\* Every batch that is being sent is for somebody.
LEMMA RecipientOfBatch ==
    ASSUME MailInv, NEW s \in Senders, sender[s].pc # "between"
    PROVE  /\ sender[s].batch \in Held(s) /\ sender[s].batch \in Batches
           /\ batch[sender[s].batch].status = "sending"
           /\ BatchRecipient(sender[s].batch) \in Users
  <1>1. /\ sender[s].batch \in Held(s) /\ sender[s].batch \in Batches
        /\ batch[sender[s].batch].status = "sending"
    BY DEF MailInv, SenderKnows, HoldsSending, Held
  <1>2. Contents(sender[s].batch) # {}
    BY <1>1 DEF MailInv, BatchesAreWhole
  <1>3. \E t \in Tasks : <<sender[s].batch, t>> \in items
    BY <1>2 DEF Contents
  <1> QED
    BY <1>1, <1>3, RecipientAssumption DEF BatchRecipient

LEMMA KeyType ==
    ASSUME NEW l \in 1 .. Len(Layers), NEW u \in Users, NEW t \in Nat
    PROVE  UsageKey(l, u, t) \in Keys /\ UsageKey(l, u, t)[1] = l
  <1>1. t \div Layers[l].period \in Nat
    BY LayerIs
  <1>2. ScopeId(l, u) \in Users \cup {Site}
    BY DEF ScopeId
  <1> QED
    BY <1>1, <1>2 DEF UsageKey, Keys

LEMMA SendBatchStep ==
    ASSUME MailInv, NEW s \in Senders, NEW b \in Batches, SendBatch(s, b)
    PROVE  MailInv'
  <1>1. TypeOK /\ SenderKnows(s) /\ HoldsSending(s)
    BY DEF MailInv
  <1>2. PICK k \in SenderRecords : k = sender[s]
    BY <1>1 DEF TypeOK
  <1>3. PICK n \in Nat : n = now
    BY <1>1 DEF TypeOK
  <1>4. PICK l \in Nat : l = LayerFrom(1) /\ l \in 1 .. Len(Layers) + 1
                         /\ (l <= Len(Layers) => Reserved(l))
    BY LayerFromFinds, LayersLen
  <1> DEFINE r == [pc |-> "reserve", todo |-> k.todo \ {b}, batch |-> b, at |-> n,
                   layer |-> l, until |-> 0]
  <1>5. /\ k.pc = "between" /\ b \in k.todo
        /\ sender' = [sender EXCEPT ![s] = r]
        /\ UNCHANGED <<now, task, batch, items, usage, planner, sendLog, calls, failures, aborts>>
    BY <1>2, <1>3, <1>4 DEF SendBatch
  <1>6. r \in SenderRecords
    BY DEF SenderRecords, Batches
  <1>7. /\ sender' \in [Senders -> SenderRecords] /\ sender'[s] = r
        /\ \A q \in Senders \ {s} : sender'[q] = sender[q]
    <2> HIDE DEF r
    <2> QED
      BY <1>1, <1>5, <1>6, SenderReplaced
  <1>8. TypeOK'
    BY <1>1, <1>5, <1>7 DEF TypeOK
  <1>9. Held(s) = k.todo /\ Held(s)' = k.todo
    BY <1>2, <1>5, <1>7 DEF Held
  <1>10. SenderKnows(s)'
    BY <1>4, <1>7 DEF SenderKnows, Reserved
  <1>11. \A c \in calls : ~(c.ok /\ c.batch \in Held(s)')
    BY <1>1, <1>2, <1>5, <1>9 DEF HoldsSending
  <1> QED
    BY <1>5, <1>7, <1>8, <1>9, <1>10, <1>11, SenderLooks

LEMMA ReserveQuotaStep ==
    ASSUME MailInv, NEW s \in Senders, ReserveQuota(s)
    PROVE  MailInv'
  <1>1. TypeOK /\ SenderKnows(s) /\ HoldsSending(s)
    BY DEF MailInv
  <1>2. PICK k \in SenderRecords : k = sender[s]
    BY <1>1 DEF TypeOK
  <1>3. k.pc = "reserve" /\ k.layer \in 1 .. Len(Layers) /\ k.at \in Nat
    BY <1>1, <1>2, LayersLen DEF ReserveQuota, SenderKnows, SenderRecords
  <1>4. PICK u \in Users : u = BatchRecipient(k.batch)
    BY <1>2, <1>3, RecipientOfBatch
  <1>5. PICK key \in Keys : key = UsageKey(k.layer, u, k.at) /\ key[1] = k.layer
    BY <1>3, KeyType
  <1>6. PICK l \in Nat : l = LayerFrom(k.layer + 1) /\ l \in 1 .. Len(Layers) + 1
                         /\ (l <= Len(Layers) => Reserved(l))
    <2>1. k.layer + 1 \in 1 .. Len(Layers) + 1
      BY <1>3, LayersLen
    <2> QED
      BY <2>1, LayerFromFinds, LayersLen
  <1> DEFINE r == [k EXCEPT !.layer = l]
  <1>7. /\ HasRoom(k.layer, key)
        /\ usage' = [j \in DOMAIN usage \cup {key} |-> IF j = key THEN Used(key) + 1 ELSE usage[j]]
        /\ sender' = [sender EXCEPT ![s] = r]
        /\ UNCHANGED <<now, task, batch, items, planner, sendLog, calls, failures, aborts>>
    BY <1>2, <1>4, <1>5, <1>6 DEF ReserveQuota
  <1>8. r \in SenderRecords /\ r.pc = k.pc /\ r.todo = k.todo /\ r.batch = k.batch /\ r.layer = l
    BY DEF SenderRecords
  <1>9. /\ sender' \in [Senders -> SenderRecords] /\ sender'[s] = r
        /\ \A q \in Senders \ {s} : sender'[q] = sender[q]
    <2> HIDE DEF r
    <2> QED
      BY <1>1, <1>7, <1>8, SenderReplaced
  <1>10. DOMAIN usage' \subseteq Keys /\ \A j \in DOMAIN usage' : usage'[j] \in 0 .. Layers[j[1]].limit
    <2>1. DOMAIN usage' = DOMAIN usage \cup {key}
      BY <1>7
    <2>2. usage'[key] \in 0 .. Layers[key[1]].limit
      <3>1. Used(key) \in Nat
        BY <1>1, <1>5, LayerIs DEF Used, TypeOK, Keys
      <3>2. Used(key) + 1 <= Layers[key[1]].limit /\ Layers[key[1]].limit \in Nat
        BY <1>3, <1>5, <1>7, <3>1, LayerIs DEF HasRoom
      <3> QED
        BY <1>7, <3>1, <3>2
    <2>3. \A j \in DOMAIN usage : j # key => usage'[j] = usage[j]
      BY <1>7
    <2> QED
      BY <1>1, <2>1, <2>2, <2>3 DEF TypeOK
  <1>11. TypeOK'
    BY <1>1, <1>7, <1>9, <1>10 DEF TypeOK
  <1> HIDE DEF r
  <1>12. Held(s)' = Held(s)
    BY <1>2, <1>8, <1>9 DEF Held
  <1>13. SenderKnows(s)'
    BY <1>1, <1>2, <1>3, <1>6, <1>8, <1>9 DEF SenderKnows, Reserved
  <1>14. \A c \in calls : ~(c.ok /\ c.batch \in Held(s)')
    BY <1>1, <1>2, <1>3, <1>12 DEF HoldsSending
  <1> QED
    BY <1>7, <1>9, <1>11, <1>12, <1>13, <1>14, SenderLooks

LEMMA ReserveRefusedStep ==
    ASSUME MailInv, NEW s \in Senders, ReserveRefused(s)
    PROVE  MailInv'
  <1>1. TypeOK /\ SenderKnows(s) /\ HoldsSending(s)
    BY DEF MailInv
  <1>2. PICK k \in SenderRecords : k = sender[s]
    BY <1>1 DEF TypeOK
  <1>3. k.pc = "reserve" /\ k.layer \in 1 .. Len(Layers) /\ k.at \in Nat
    BY <1>1, <1>2, LayersLen DEF ReserveRefused, SenderKnows, SenderRecords
  <1>4. PICK end \in Nat : end = WindowEnd(k.layer, k.at)
    <2>1. PICK m \in Nat \ {0} : m = Layers[k.layer].period
      BY <1>3, LayerIs
    <2>2. PICK q \in Nat : q = k.at \div m + 1
      <3>1. k.at \div m \in Nat
        BY <1>3
      <3> QED
        BY <3>1
    <2>3. q * m \in Nat
      OBVIOUS
    <2> QED
      BY <2>1, <2>2, <2>3 DEF WindowEnd
  <1> DEFINE r == [k EXCEPT !.pc = "retry", !.until = end]
  <1>5. /\ sender' = [sender EXCEPT ![s] = r]
        /\ UNCHANGED <<now, task, batch, items, usage, planner, sendLog, calls, failures, aborts>>
    BY <1>1, <1>2, <1>4 DEF ReserveRefused, TypeOK
  <1>6. r \in SenderRecords /\ r.pc = "retry" /\ r.todo = k.todo /\ r.batch = k.batch
    BY DEF SenderRecords
  <1> HIDE DEF r
  <1>7. /\ sender' \in [Senders -> SenderRecords] /\ sender'[s] = r
        /\ \A q \in Senders \ {s} : sender'[q] = sender[q]
    BY <1>1, <1>5, <1>6, SenderReplaced
  <1>8. TypeOK'
    BY <1>1, <1>5, <1>7 DEF TypeOK
  <1>9. Held(s)' = Held(s)
    BY <1>2, <1>3, <1>6, <1>7 DEF Held
  <1>10. SenderKnows(s)'
    BY <1>1, <1>2, <1>3, <1>6, <1>7 DEF SenderKnows
  <1>11. \A c \in calls : ~(c.ok /\ c.batch \in Held(s)')
    BY <1>1, <1>2, <1>3, <1>9 DEF HoldsSending
  <1> QED
    BY <1>5, <1>7, <1>8, <1>9, <1>10, <1>11, SenderLooks

LEMMA SenderAbortsStep ==
    ASSUME MailInv, NEW s \in Senders, SenderAborts(s)
    PROVE  MailInv'
  <1>1. TypeOK
    BY DEF MailInv
  <1>2. PICK r \in SenderRecords : r = Between({})
    BY BetweenType
  <1>3. /\ sender' = [sender EXCEPT ![s] = r]
        /\ UNCHANGED <<now, task, batch, items, usage, planner, sendLog, calls, failures>>
    BY <1>2 DEF SenderAborts
  <1>4. /\ sender' \in [Senders -> SenderRecords] /\ sender'[s] = r
        /\ \A q \in Senders \ {s} : sender'[q] = sender[q]
    BY <1>1, <1>3, SenderReplaced
  <1>5. aborts' \in 0 .. MaxAborts
    BY <1>1, AbortCounted DEF SenderAborts
  <1>6. TypeOK'
    BY <1>1, <1>3, <1>4, <1>5 DEF TypeOK
  <1>7. Held(s)' = {} /\ SenderKnows(s)'
    BY <1>2, <1>4 DEF Held, SenderKnows, Between
  <1> QED
    BY <1>3, <1>4, <1>6, <1>7, SenderLooks

\* A call of SMTP for the batch in hand: accepted, it is the first that is.
LEMMA SendHTMLStep ==
    ASSUME MailInv, NEW s \in Senders, SendHTML(s) \/ SendHTMLFails(s)
    PROVE  MailInv'
  <1>1. TypeOK /\ SenderKnows(s) /\ HoldsSending(s) /\ AcceptedOnce
        /\ OneBatchPerTask /\ SentFromBatch /\ SentIsDelivered
    BY DEF MailInv
  <1>2. PICK k \in SenderRecords : k = sender[s]
    BY <1>1 DEF TypeOK
  <1>3. k.pc = "reserve" /\ k.at \in Nat
    BY <1>2 DEF SendHTML, SendHTMLFails, ReadyToCall, SenderRecords
  <1>4. k.batch \in Held(s) /\ k.batch \in Batches /\ batch[k.batch].status = "sending"
    BY <1>2, <1>3, RecipientOfBatch
  <1>5. PICK ok \in BOOLEAN, r \in SenderRecords :
           /\ calls' = calls \cup {[batch |-> k.batch, at |-> k.at, ok |-> ok]}
           /\ sender' = [sender EXCEPT ![s] = r]
           /\ r.todo = k.todo /\ r.batch = k.batch
           /\ r.pc = IF ok THEN "log" ELSE "retry"
    <2>1. CASE SendHTML(s)
      <3> DEFINE r == [k EXCEPT !.pc = "log"]
      <3>1. r \in SenderRecords /\ r.todo = k.todo /\ r.batch = k.batch /\ r.pc = "log"
        BY DEF SenderRecords
      <3>2. /\ calls' = calls \cup {[batch |-> k.batch, at |-> k.at, ok |-> TRUE]}
            /\ sender' = [sender EXCEPT ![s] = r]
        BY <1>2, <2>1 DEF SendHTML, Called
      <3> HIDE DEF r
      <3> QED
        BY <3>1, <3>2
    <2>2. CASE SendHTMLFails(s)
      <3>1. PICK u \in Nat : u = now + RetryDelay
        BY <1>1, MailBoundsAssumption DEF TypeOK
      <3> DEFINE r == [k EXCEPT !.pc = "retry", !.until = u]
      <3>2. r \in SenderRecords /\ r.todo = k.todo /\ r.batch = k.batch /\ r.pc = "retry"
        BY DEF SenderRecords
      <3>3. calls' = calls \cup {[batch |-> k.batch, at |-> k.at, ok |-> FALSE]}
        BY <1>2, <2>2 DEF SendHTMLFails, Called
      <3>4. sender' = [sender EXCEPT ![s] = r]
        BY <1>1, <1>2, <2>2, <3>1 DEF SendHTMLFails, TypeOK
      <3> HIDE DEF r
      <3> QED
        BY <3>2, <3>3, <3>4
    <2> QED
      BY <2>1, <2>2
  <1>6. PICK new \in [batch: Batches, at: Nat, ok: BOOLEAN] :
           /\ new.batch = k.batch /\ new.ok = ok
           /\ calls' = calls \cup {new}
    <2> DEFINE new == [batch |-> k.batch, at |-> k.at, ok |-> ok]
    <2>1. new \in [batch: Batches, at: Nat, ok: BOOLEAN] /\ new.batch = k.batch /\ new.ok = ok
      BY <1>3, <1>4
    <2>2. calls' = calls \cup {new}
      BY <1>5
    <2> HIDE DEF new
    <2> QED
      BY <2>1, <2>2
  <1>7. /\ sender' \in [Senders -> SenderRecords] /\ sender'[s] = r
        /\ \A q \in Senders \ {s} : sender'[q] = sender[q]
    BY <1>1, <1>5, SenderReplaced
  <1>8. UNCHANGED <<now, task, batch, items, usage, planner, sendLog, aborts>>
    BY DEF SendHTML, SendHTMLFails
  <1>9. TypeOK'
    <2>1. failures' \in 0 .. MaxFailures
      <3>1. failures' = failures \/ (failures < MaxFailures /\ failures' = failures + 1)
        BY DEF SendHTML, SendHTMLFails
      <3> QED
        BY <1>1, <3>1, MailBoundsAssumption DEF TypeOK
    <2>2. calls' \in SUBSET [batch: Batches, at: Nat, ok: BOOLEAN]
      BY <1>1, <1>6 DEF TypeOK
    <2> QED
      BY <1>1, <1>7, <1>8, <2>1, <2>2 DEF TypeOK
  <1>10. Held(s)' = Held(s)
    BY <1>2, <1>3, <1>5, <1>7 DEF Held
  <1>11. SenderKnows(s)'
    <2>1. r.pc = "log" => \E c \in calls' : c.batch = r.batch /\ c.ok
      BY <1>5, <1>6
    <2> QED
      BY <1>1, <1>2, <1>3, <1>5, <1>7, <2>1 DEF SenderKnows
  <1>12. \A c \in calls : c.ok => c.batch # k.batch /\ c.batch \notin Held(s)
    BY <1>1, <1>2, <1>3, <1>4 DEF HoldsSending
  <1>13. HoldsSending(s)'
    <2>1. \A c \in calls' : c.ok /\ c.batch \in Held(s) => c = new
      BY <1>6, <1>12
    <2>2. \A c \in calls' : c.ok /\ c.batch \in Held(s) => r.pc = "log" /\ c.batch = r.batch
      BY <1>5, <1>6, <2>1
    <2> QED
      BY <1>1, <1>7, <1>8, <1>10, <2>2 DEF HoldsSending
  <1>14. AcceptedOnce'
    <2>1. \A c \in calls' : c.ok => batch[c.batch].status \in {"sending", "sent"}
      BY <1>1, <1>4, <1>6 DEF AcceptedOnce
    <2>2. \A c, d \in calls' : c.ok /\ d.ok /\ c.batch = d.batch => c = d
      BY <1>1, <1>6, <1>12 DEF AcceptedOnce
    <2> QED
      BY <1>8, <2>1, <2>2 DEF AcceptedOnce
  <1>15. OneBatchPerTask' /\ SentFromBatch' /\ SentIsDelivered'
    <2>1. calls \subseteq calls'
      BY <1>6
    <2> QED
      BY <1>1, <1>8, <2>1 DEF OneBatchPerTask, SentFromBatch, SentIsDelivered
  <1>16. \A c \in calls' : c \in calls \/ c.batch \in Held(s)
    BY <1>4, <1>6
  <1> QED
    BY <1>6, <1>7, <1>8, <1>9, <1>10, <1>11, <1>13, <1>14, <1>15, <1>16, SenderMoves

LEMMA CreateSendLogStep ==
    ASSUME MailInv, NEW s \in Senders, CreateSendLog(s)
    PROVE  MailInv'
  <1>1. TypeOK /\ SenderKnows(s) /\ HoldsSending(s) /\ AcceptedOnce
        /\ OneBatchPerTask /\ SentFromBatch /\ SentIsDelivered
    BY DEF MailInv
  <1>2. PICK k \in SenderRecords : k = sender[s]
    BY <1>1 DEF TypeOK
  <1>3. k.pc = "log" /\ k.batch \in Batches
    BY <1>1, <1>2 DEF CreateSendLog, SenderKnows
  <1> DEFINE r == [k EXCEPT !.pc = "mark"]
  <1>4. /\ sendLog' = sendLog \cup {k.batch}
        /\ sender' = [sender EXCEPT ![s] = r]
        /\ UNCHANGED <<now, task, batch, items, usage, planner, calls, failures, aborts>>
    BY <1>2 DEF CreateSendLog
  <1>5. r \in SenderRecords /\ r.pc = "mark" /\ r.todo = k.todo /\ r.batch = k.batch
    BY DEF SenderRecords
  <1> HIDE DEF r
  <1>6. /\ sender' \in [Senders -> SenderRecords] /\ sender'[s] = r
        /\ \A q \in Senders \ {s} : sender'[q] = sender[q]
    BY <1>1, <1>4, <1>5, SenderReplaced
  <1>7. TypeOK'
    BY <1>1, <1>3, <1>4, <1>6 DEF TypeOK
  <1>8. Held(s)' = Held(s)
    BY <1>2, <1>3, <1>5, <1>6 DEF Held
  <1>9. SenderKnows(s)'
    BY <1>1, <1>2, <1>3, <1>4, <1>5, <1>6 DEF SenderKnows
  <1>10. HoldsSending(s)'
    BY <1>1, <1>2, <1>4, <1>5, <1>6, <1>8 DEF HoldsSending
  <1>11. AcceptedOnce' /\ OneBatchPerTask' /\ SentFromBatch'
    BY <1>1, <1>4 DEF AcceptedOnce, OneBatchPerTask, SentFromBatch
  <1>12. SentIsDelivered'
    <2>1. \E c \in calls : c.batch = k.batch /\ c.ok
      BY <1>1, <1>2, <1>3 DEF SenderKnows
    <2> QED
      BY <1>1, <1>4, <2>1 DEF SentIsDelivered
  <1> QED
    BY <1>4, <1>6, <1>7, <1>8, <1>9, <1>10, <1>11, <1>12, SenderMoves

LEMMA MarkBatchSentStep ==
    ASSUME MailInv, NEW s \in Senders, MarkBatchSent(s)
    PROVE  MailInv'
  <1>1. TypeOK /\ SenderKnows(s) /\ HoldsSending(s) /\ AcceptedOnce
        /\ OneBatchPerTask /\ SentFromBatch /\ SentIsDelivered
    BY DEF MailInv
  <1>2. PICK k \in SenderRecords : k = sender[s]
    BY <1>1 DEF TypeOK
  <1>3. k.pc = "mark" /\ k.batch \notin k.todo /\ k.batch \in sendLog
    BY <1>1, <1>2 DEF MarkBatchSent, SenderKnows
  <1>4. PICK b \in Batches : b = k.batch /\ b \in Held(s) /\ batch[b].status = "sending"
    BY <1>2, <1>3, RecipientOfBatch
  <1>5. PICK r \in SenderRecords : r = Between(k.todo)
    BY <1>2, BetweenType DEF SenderRecords
  <1>6. /\ batch' = [batch EXCEPT ![b].status = "sent"]
        /\ task' = [t \in Tasks |-> IF task[t].batch = b
                                    THEN [task[t] EXCEPT !.status = "sent"]
                                    ELSE task[t]]
        /\ sender' = [sender EXCEPT ![s] = r]
        /\ UNCHANGED <<now, items, usage, planner, sendLog, calls, failures, aborts>>
    BY <1>2, <1>4, <1>5 DEF MarkBatchSent
  <1>7. /\ sender' \in [Senders -> SenderRecords] /\ sender'[s] = r
        /\ \A q \in Senders \ {s} : sender'[q] = sender[q]
    BY <1>1, <1>6, SenderReplaced
  <1>8. task \in [Tasks -> TaskRecords] /\ batch \in [Batches -> BatchRecords]
    BY <1>1 DEF TypeOK
  <1>9. /\ batch' \in [Batches -> BatchRecords] /\ batch'[b].status = "sent"
        /\ \A c \in Batches : c # b => batch'[c] = batch[c]
    <2>1. batch[b] \in BatchRecords
      BY <1>8
    <2>2. [batch[b] EXCEPT !.status = "sent"] \in BatchRecords
          /\ [batch[b] EXCEPT !.status = "sent"].status = "sent"
      BY <2>1 DEF BatchRecords
    <2>3. batch' = [batch EXCEPT ![b] = [batch[b] EXCEPT !.status = "sent"]]
      BY <1>6
    <2> QED
      BY <1>8, <2>2, <2>3
  <1>10. \A t \in Tasks :
            /\ task'[t] \in TaskRecords /\ task'[t].batch = task[t].batch
            /\ task'[t].status = IF task[t].batch = b THEN "sent" ELSE task[t].status
    <2> SUFFICES ASSUME NEW t \in Tasks
                 PROVE  /\ task'[t] \in TaskRecords /\ task'[t].batch = task[t].batch
                        /\ task'[t].status = IF task[t].batch = b THEN "sent" ELSE task[t].status
      OBVIOUS
    <2>1. task[t] \in TaskRecords
      BY <1>8
    <2>2. task'[t] = IF task[t].batch = b THEN [task[t] EXCEPT !.status = "sent"] ELSE task[t]
      BY <1>6
    <2> QED
      BY <2>1, <2>2 DEF TaskRecords
  <1>11. TypeOK'
    <2>1. task' \in [Tasks -> TaskRecords]
      BY <1>6, <1>10
    <2> QED
      BY <1>1, <1>6, <1>7, <1>9, <2>1 DEF TypeOK
  <1>12. Held(s) = k.todo \cup {b} /\ Held(s)' = k.todo
    BY <1>2, <1>3, <1>4, <1>5, <1>7 DEF Held, Between
  <1>13. SenderKnows(s)'
    BY <1>5, <1>7 DEF SenderKnows, Between
  <1>14. HoldsSending(s)'
    <2>1. \A c \in k.todo : c \in Batches /\ c # b /\ batch'[c].status = "sending"
      BY <1>1, <1>3, <1>4, <1>9, <1>12, HeldBatches DEF HoldsSending
    <2>2. \A c \in calls' : ~(c.ok /\ c.batch \in k.todo)
      BY <1>1, <1>2, <1>3, <1>6, <1>12 DEF HoldsSending
    <2> QED
      BY <1>12, <2>1, <2>2 DEF HoldsSending
  <1>15. OneBatchPerTask'
    <2> SUFFICES ASSUME NEW i \in items
                 PROVE  task'[i[2]].batch = i[1] /\ task'[i[2]].status \notin {"none", "pending"}
      BY <1>6 DEF OneBatchPerTask
    <2>1. i[2] \in Tasks
      BY <1>1 DEF TypeOK
    <2> QED
      BY <1>1, <1>10, <2>1 DEF OneBatchPerTask
  <1>16. AcceptedOnce'
    <2>1. \A c \in calls : c.batch \in Batches
      BY <1>1 DEF TypeOK
    <2> QED
      BY <1>1, <1>6, <1>9, <2>1 DEF AcceptedOnce
  <1>17. SentFromBatch'
    BY <1>1, <1>10 DEF SentFromBatch
  <1>18. SentIsDelivered'
    <2>1. \A c \in Batches : batch'[c].status = "sent" =>
             c \in sendLog /\ \E d \in calls : d.batch = c /\ d.ok
      BY <1>1, <1>3, <1>4, <1>9 DEF SentIsDelivered
    <2>2. \A t \in Tasks : task'[t].status = "sent" => batch'[task'[t].batch].status = "sent"
      <3> SUFFICES ASSUME NEW t \in Tasks, task'[t].status = "sent"
                   PROVE  batch'[task[t].batch].status = "sent"
        BY <1>10
      <3>1. CASE task[t].batch = b
        BY <1>9, <3>1
      <3>2. CASE task[t].batch # b
        BY <1>1, <1>9, <1>10, <3>2 DEF SentFromBatch, SentIsDelivered
      <3> QED
        BY <3>1, <3>2
    <2> QED
      BY <1>1, <1>6, <2>1, <2>2 DEF SentIsDelivered
  <1>19. \A c \in Batches \ Held(s) : batch'[c] = batch[c]
    BY <1>4, <1>9
  <1>20. \A c \in Batches : batch'[c].status = "unused" <=> batch[c].status = "unused"
    BY <1>4, <1>9
  <1>21. calls \subseteq calls' /\ (\A c \in calls' : c \in calls) /\ sendLog \subseteq sendLog'
         /\ UNCHANGED <<items, planner>> /\ Held(s)' \subseteq Held(s)
    BY <1>6, <1>12
  <1> QED
    BY <1>7, <1>11, <1>13, <1>14, <1>15, <1>16, <1>17, <1>18, <1>19, <1>20, <1>21, SenderMoves

LEMMA MarkBatchRetryStep ==
    ASSUME MailInv, NEW s \in Senders, MarkBatchRetry(s)
    PROVE  MailInv'
  <1>1. TypeOK /\ SenderKnows(s) /\ HoldsSending(s) /\ AcceptedOnce
        /\ OneBatchPerTask /\ SentFromBatch /\ SentIsDelivered
    BY DEF MailInv
  <1>2. PICK k \in SenderRecords : k = sender[s]
    BY <1>1 DEF TypeOK
  <1>3. k.pc = "retry" /\ k.batch \notin k.todo /\ k.until \in Nat
    BY <1>1, <1>2 DEF MarkBatchRetry, SenderKnows, SenderRecords
  <1>4. PICK b \in Batches : b = k.batch /\ b \in Held(s) /\ batch[b].status = "sending"
    BY <1>2, <1>3, RecipientOfBatch
  <1>5. PICK r \in SenderRecords : r = Between(k.todo)
    BY <1>2, BetweenType DEF SenderRecords
  <1>6. /\ batch' = [batch EXCEPT ![b] = [status |-> "pending", at |-> k.until]]
        /\ sender' = [sender EXCEPT ![s] = r]
        /\ UNCHANGED <<now, task, items, usage, planner, sendLog, calls, failures, aborts>>
    BY <1>2, <1>4, <1>5 DEF MarkBatchRetry
  <1>7. /\ sender' \in [Senders -> SenderRecords] /\ sender'[s] = r
        /\ \A q \in Senders \ {s} : sender'[q] = sender[q]
    BY <1>1, <1>6, SenderReplaced
  <1>8. /\ batch' \in [Batches -> BatchRecords] /\ batch'[b].status = "pending"
        /\ \A c \in Batches : c # b => batch'[c] = batch[c]
    <2>1. batch \in [Batches -> BatchRecords]
      BY <1>1 DEF TypeOK
    <2>2. [status |-> "pending", at |-> k.until] \in BatchRecords
      BY <1>3 DEF BatchRecords
    <2> QED
      BY <1>6, <2>1, <2>2
  <1>9. TypeOK'
    BY <1>1, <1>6, <1>7, <1>8 DEF TypeOK
  <1>10. Held(s) = k.todo \cup {b} /\ Held(s)' = k.todo
    BY <1>2, <1>3, <1>4, <1>5, <1>7 DEF Held, Between
  <1>11. SenderKnows(s)'
    BY <1>5, <1>7 DEF SenderKnows, Between
  <1>12. \A c \in calls : c.ok => c.batch \notin Held(s)
    BY <1>1, <1>2, <1>3 DEF HoldsSending
  <1>13. HoldsSending(s)'
    <2>1. \A c \in k.todo : c \in Batches /\ c # b /\ batch'[c].status = "sending"
      BY <1>1, <1>3, <1>4, <1>8, <1>10, HeldBatches DEF HoldsSending
    <2> QED
      BY <1>6, <1>10, <1>12, <2>1 DEF HoldsSending
  <1>14. OneBatchPerTask' /\ SentFromBatch'
    BY <1>1, <1>6 DEF OneBatchPerTask, SentFromBatch
  <1>15. AcceptedOnce'
    <2>1. \A c \in calls : c.ok => c.batch \in Batches /\ c.batch # b
      BY <1>1, <1>4, <1>12 DEF TypeOK
    <2>2. \A c \in calls : c.ok => batch'[c.batch].status \in {"sending", "sent"}
      BY <1>1, <1>8, <2>1 DEF AcceptedOnce
    <2> QED
      BY <1>1, <1>6, <2>2 DEF AcceptedOnce
  <1>16. SentIsDelivered'
    <2>1. \A c \in Batches : batch'[c].status = "sent" => batch[c].status = "sent"
      BY <1>8
    <2>2. \A t \in Tasks : task[t].status = "sent" => batch'[task[t].batch].status = "sent"
      BY <1>1, <1>4, <1>8 DEF SentFromBatch, SentIsDelivered
    <2> QED
      BY <1>1, <1>6, <2>1, <2>2 DEF SentIsDelivered
  <1>17. \A c \in Batches \ Held(s) : batch'[c] = batch[c]
    BY <1>4, <1>8
  <1>18. \A c \in Batches : batch'[c].status = "unused" <=> batch[c].status = "unused"
    BY <1>4, <1>8
  <1>19. calls \subseteq calls' /\ (\A c \in calls' : c \in calls) /\ sendLog \subseteq sendLog'
         /\ UNCHANGED <<items, planner>> /\ Held(s)' \subseteq Held(s)
    BY <1>6, <1>10
  <1> QED
    BY <1>7, <1>9, <1>11, <1>13, <1>14, <1>15, <1>16, <1>17, <1>18, <1>19, SenderMoves

\* The claim: what another sender holds is in sending, so that nobody gets it twice.
LEMMA LeaseBatchesStep ==
    ASSUME MailInv, NEW s \in Senders, LeaseEmailBatches(s)
    PROVE  MailInv'
  <1>1. TypeOK /\ OneBatchPerTask /\ BatchesAreWhole /\ PlansAreForOne
        /\ (\A r \in Senders : SenderKnows(r) /\ HoldsSending(r))
        /\ HeldOnce /\ AcceptedOnce /\ SentFromBatch /\ SentIsDelivered
    BY DEF MailInv
  <1>2. PICK C \in SUBSET Batches :
          /\ \A b \in C : batch[b].status = "pending"
          /\ batch' = [b \in Batches |-> IF b \in C THEN [batch[b] EXCEPT !.status = "sending"]
                                                   ELSE batch[b]]
          /\ sender' = [sender EXCEPT ![s] = Between(C)]
    BY DEF LeaseEmailBatches, Claims, DueBatches
  <1>3. PICK q \in SenderRecords : q = Between(C)
    BY BetweenType
  <1>4. /\ sender' \in [Senders -> SenderRecords] /\ sender'[s] = q
        /\ \A r \in Senders \ {s} : sender'[r] = sender[r]
    BY <1>1, <1>2, <1>3, SenderReplaced
  <1>5. UNCHANGED <<now, task, items, usage, planner, sendLog, calls, failures, aborts>>
    BY DEF LeaseEmailBatches
  <1>6. \A b \in Batches : batch'[b] \in BatchRecords
                           /\ batch'[b].status = IF b \in C THEN "sending" ELSE batch[b].status
    <2> SUFFICES ASSUME NEW b \in Batches
                 PROVE  /\ batch'[b] \in BatchRecords
                        /\ batch'[b].status = IF b \in C THEN "sending" ELSE batch[b].status
      OBVIOUS
    <2>1. batch[b] \in BatchRecords
      BY <1>1 DEF TypeOK
    <2>2. batch'[b] = IF b \in C THEN [batch[b] EXCEPT !.status = "sending"] ELSE batch[b]
      BY <1>2
    <2> QED
      BY <2>1, <2>2 DEF BatchRecords
  <1>7. TypeOK'
    <2>1. batch' \in [Batches -> BatchRecords]
      BY <1>2, <1>6
    <2> QED
      BY <1>1, <1>4, <1>5, <2>1 DEF TypeOK
  <1>8. Held(s)' = C /\ \A r \in Senders \ {s} : Held(r)' = Held(r) /\ Held(r) \cap C = {}
    <2>1. Held(s)' = C
      BY <1>3, <1>4 DEF Held, Between
    <2>2. \A r \in Senders \ {s} : Held(r)' = Held(r)
      BY <1>4 DEF Held
    <2>3. \A r \in Senders : \A b \in Held(r) : batch[b].status = "sending"
      BY <1>1 DEF HoldsSending
    <2> QED
      BY <1>2, <2>1, <2>2, <2>3
  <1>9. \A c \in calls : c.ok => c.batch \in Batches /\ c.batch \notin C
    BY <1>1, <1>2 DEF AcceptedOnce, TypeOK
  <1>10. BatchesAreWhole'
    <2>1. \A b \in Batches : Contents(b)' = Contents(b)
      BY <1>5 DEF Contents
    <2>2. \A b \in Batches : batch'[b].status = "unused" <=> batch[b].status = "unused"
      BY <1>2, <1>6
    <2> QED
      BY <1>1, <2>1, <2>2 DEF BatchesAreWhole
  <1>11. ASSUME NEW r \in Senders PROVE SenderKnows(r)' /\ HoldsSending(r)'
    <2>1. CASE r = s
      <3>1. SenderKnows(s)'
        BY <1>3, <1>4 DEF SenderKnows, Between
      <3>2. HoldsSending(s)'
        BY <1>5, <1>6, <1>8, <1>9 DEF HoldsSending
      <3> QED
        BY <2>1, <3>1, <3>2
    <2>2. CASE r # s
      <3>1. sender'[r] = sender[r] /\ SenderKnows(r) /\ HoldsSending(r)
        BY <1>1, <1>4, <2>2
      <3>2. SenderKnows(r)'
        BY <1>5, <3>1 DEF SenderKnows, Reserved
      <3>3. Held(r)' = Held(r) /\ \A b \in Held(r) : batch'[b].status = "sending"
        <4>1. Held(r)' = Held(r) /\ Held(r) \cap C = {} /\ Held(r) \subseteq Batches
          BY <1>8, <2>2, HeldBatches
        <4> QED
          BY <1>6, <3>1, <4>1 DEF HoldsSending
      <3> QED
        BY <1>5, <3>1, <3>2, <3>3 DEF HoldsSending
    <2> QED
      BY <2>1, <2>2
  <1>12. HeldOnce'
    BY <1>1, <1>8 DEF HeldOnce
  <1>13. AcceptedOnce'
    BY <1>1, <1>5, <1>6, <1>9 DEF AcceptedOnce
  <1>14. OneBatchPerTask' /\ PlansAreForOne' /\ SentFromBatch'
    BY <1>1, <1>5 DEF OneBatchPerTask, PlansAreForOne, SentFromBatch
  <1>15. SentIsDelivered'
    <2>1. \A b \in Batches : batch'[b].status = "sent" <=> batch[b].status = "sent"
      BY <1>2, <1>6
    <2> QED
      BY <1>1, <1>5, <2>1 DEF SentIsDelivered, SentFromBatch
  <1> QED
    BY <1>7, <1>10, <1>11, <1>12, <1>13, <1>14, <1>15 DEF MailInv

-----------------------------------------------------------------------------
(* The invariant and what follows from it.                                 *)

LEMMA MailInit == Init => MailInv
  <1> SUFFICES ASSUME Init PROVE MailInv
    OBVIOUS
  <1>1. TypeOK
    <2>1. [status |-> "none", leased |-> FALSE, batch |-> 0] \in TaskRecords
      BY MailBoundsAssumption DEF TaskRecords
    <2>2. [status |-> "unused", at |-> 0] \in BatchRecords
      BY DEF BatchRecords
    <2>3. task \in [Tasks -> TaskRecords] /\ batch \in [Batches -> BatchRecords]
      BY <2>1, <2>2 DEF Init
    <2>4. planner \in [Planners -> PlannerRecords] /\ sender \in [Senders -> SenderRecords]
      BY NoPlanType, BetweenType DEF Init
    <2>5. DOMAIN usage = {}
      BY DEF Init
    <2> QED
      BY <2>3, <2>4, <2>5, MailBoundsAssumption DEF Init, TypeOK
  <1>2. \A s \in Senders : sender[s] = Between({}) /\ Held(s) = {}
    BY DEF Init, Held, Between
  <1>3. \A s \in Senders : SenderKnows(s) /\ HoldsSending(s)
    BY <1>2 DEF SenderKnows, HoldsSending, Between
  <1>4. HeldOnce /\ AcceptedOnce /\ OneBatchPerTask
    BY <1>2 DEF Init, HeldOnce, AcceptedOnce, OneBatchPerTask
  <1>5. BatchesAreWhole
    <2>1. \A b \in Batches : batch[b].status = "unused" /\ Contents(b) = {}
      BY DEF Init, Contents
    <2>2. Cardinality({}) <= MaxItems
      BY FS_EmptySet, MailBoundsAssumption
    <2> QED
      BY <2>1, <2>2 DEF BatchesAreWhole
  <1>6. PlansAreForOne
    BY NoPlanType DEF Init, PlansAreForOne
  <1>7. SentFromBatch /\ SentIsDelivered
    BY DEF Init, SentFromBatch, SentIsDelivered
  <1> QED
    BY <1>1, <1>3, <1>4, <1>5, <1>6, <1>7 DEF MailInv

LEMMA MailStutter == MailInv /\ UNCHANGED mailVars => MailInv'
  <1> SUFFICES ASSUME MailInv, UNCHANGED mailVars PROVE MailInv'
    OBVIOUS
  <1>1. TypeOK' /\ PlansAreForOne'
    BY DEF MailInv, mailVars, TypeOK, PlansAreForOne
  <1>2. TasksWritten /\ UNCHANGED <<task, batch, items, sender, sendLog, calls>>
    BY DEF mailVars, TasksWritten
  <1> QED
    BY <1>1, <1>2, TasksKeepInv

LEMMA MailStep == MailInv /\ [Next]_mailVars => MailInv'
  <1> SUFFICES ASSUME MailInv, [Next]_mailVars PROVE MailInv'
    OBVIOUS
  <1>1. CASE Tick \/ \E t \in Tasks : CreateEmailTask(t) \/ LeaseRunsOut(t)
    BY <1>1, EnvironmentStep
  <1>2. ASSUME NEW p \in Planners, LeaseEmailTasks(p) \/ Plan(p) \/ PlannerAborts(p)
        PROVE  MailInv'
    BY <1>2, PlannerStep, CreationStep DEF Plan
  <1>3. ASSUME NEW s \in Senders,
               LeaseEmailBatches(s) \/ Send(s) \/ SendHTMLFails(s) \/ SenderAborts(s)
        PROVE  MailInv'
    BY <1>3, LeaseBatchesStep, SendBatchStep, ReserveQuotaStep, ReserveRefusedStep, SendHTMLStep,
       CreateSendLogStep, MarkBatchSentStep, MarkBatchRetryStep, SenderAbortsStep DEF Send
  <1>4. CASE UNCHANGED mailVars
    BY <1>4, MailStutter
  <1> QED
    BY <1>1, <1>2, <1>3, <1>4 DEF Next

(* MailInv holds in every state of the planner and sender loops, whatever  *)
(* leases, failures and stops come between their database calls.           *)
THEOREM MailInvariance == Spec => []MailInv
  BY MailInit, MailStep, PTL DEF Spec

(* The rows of tasks, batches and quota keep their types; no count of a    *)
(* window goes above its limit, whoever reserves.                          *)
THEOREM MailTypes == Spec => []TypeOK
  <1>1. MailInv => TypeOK
    BY DEF MailInv
  <1> QED
    BY <1>1, MailInvariance, PTL

(* CreateEmailBatchWithItems never puts a task into a second batch, though *)
(* it looks at neither lease nor status.                                   *)
THEOREM TasksBatchedOnce == Spec => []OneBatchPerTask
  <1>1. MailInv => OneBatchPerTask
    BY DEF MailInv
  <1> QED
    BY <1>1, MailInvariance, PTL

(* Nothing is marked sent that SMTP did not accept (SendHTML,              *)
(* CreateSendLog, MarkBatchSent, in this order).                           *)
THEOREM SentWasAccepted == Spec => []SentIsDelivered
  <1>1. MailInv => SentIsDelivered
    BY DEF MailInv
  <1> QED
    BY <1>1, MailInvariance, PTL

-----------------------------------------------------------------------------
(* The promise.                                                            *)

\* A notice is mailed once at most: its one batch is accepted once.
LEMMA MailsOfOne ==
    ASSUME MailInv, NEW t \in Tasks
    PROVE  \A c, d \in Mails(t) : c = d
  <1>1. \A i \in items : task[i[2]].batch = i[1]
    BY DEF MailInv, OneBatchPerTask
  <1>2. \A c \in Mails(t) : c \in calls /\ c.ok /\ <<c.batch, t>> \in items
    BY DEF Mails
  <1>3. \A c \in Mails(t) : task[t].batch = c.batch
    BY <1>1, <1>2
  <1> QED
    BY <1>2, <1>3 DEF MailInv, AcceptedOnce

LEMMA MailsKept ==
    ASSUME UNCHANGED items, \A c : (c \in calls' /\ c.ok) <=> (c \in calls /\ c.ok)
    PROVE  UNCHANGED MailCount
  <1>1. ASSUME NEW t \in Tasks PROVE Mails(t)' = Mails(t)
    BY DEF Mails
  <1> QED
    BY <1>1 DEF MailCount

LEMMA CreationMailsNothing ==
    ASSUME MailInv, NEW p \in Planners, NEW b \in Batches, CreateEmailBatchWithItems(p, b)
    PROVE  UNCHANGED MailCount
  <1>1. /\ batch[b].status = "unused"
        /\ items' = items \cup ({b} \X planner[p].include)
        /\ UNCHANGED calls
    BY DEF CreateEmailBatchWithItems
  <1>2. \A c \in calls : c.ok => c.batch # b
    BY <1>1 DEF MailInv, AcceptedOnce
  <1>3. ASSUME NEW t \in Tasks PROVE Mails(t)' = Mails(t)
    BY <1>1, <1>2 DEF Mails
  <1> QED
    BY <1>3 DEF MailCount

LEMMA AcceptedCallMails ==
    ASSUME MailInv, NEW s \in Senders, SendHTML(s)
    PROVE  Promise!Next
  <1>1. TypeOK /\ OneBatchPerTask /\ BatchesAreWhole /\ HoldsSending(s) /\ AcceptedOnce
    BY DEF MailInv
  <1>2. sender[s].pc = "reserve" /\ UNCHANGED items
    BY DEF SendHTML, ReadyToCall
  <1>3. PICK b \in Batches : b = sender[s].batch /\ b \in Held(s) /\ batch[b].status = "sending"
    BY <1>2, RecipientOfBatch
  <1>4. PICK new : /\ new.batch = b /\ new.ok = TRUE
                   /\ calls' = calls \cup {new}
    <2> DEFINE new == [batch |-> b, at |-> sender[s].at, ok |-> TRUE]
    <2>1. new.batch = b /\ new.ok = TRUE
      OBVIOUS
    <2>2. calls' = calls \cup {new}
      BY <1>3 DEF SendHTML, Called
    <2> HIDE DEF new
    <2> QED
      BY <2>1, <2>2
  <1>5. PICK S \in SUBSET Tasks : S = Contents(b)
    BY DEF Contents
  <1>6. S # {} /\ Cardinality(S) <= MaxItems /\ \A t, u \in S : Recipient[t] = Recipient[u]
    BY <1>1, <1>3, <1>5 DEF BatchesAreWhole
  <1>7. ASSUME NEW t \in S PROVE MailCount[t] = 0 /\ MailCount'[t] = 1
    <2>1. task[t].batch = b /\ <<b, t>> \in items
      BY <1>1, <1>5 DEF Contents, OneBatchPerTask
    <2>2. \A c \in calls : ~(c.ok /\ c.batch = b)
      BY <1>1, <1>2, <1>3 DEF HoldsSending
    <2>3. \A c \in calls : ~(c.ok /\ <<c.batch, t>> \in items)
      BY <1>1, <2>1, <2>2 DEF OneBatchPerTask
    <2>4. Mails(t) = {}
      BY <2>3 DEF Mails
    <2>5. Mails(t)' = {new}
      BY <1>2, <1>4, <2>1, <2>3 DEF Mails
    <2> QED
      BY <2>4, <2>5, FS_EmptySet, FS_Singleton DEF MailCount
  <1>8. ASSUME NEW t \in Tasks \ S PROVE MailCount'[t] = MailCount[t]
    <2>1. <<b, t>> \notin items
      BY <1>5 DEF Contents
    <2>2. Mails(t)' = Mails(t)
      BY <1>2, <1>4, <2>1 DEF Mails
    <2> QED
      BY <2>2 DEF MailCount
  <1>9. MailCount' = [t \in Tasks |-> IF t \in S THEN 1 ELSE MailCount[t]]
    <2>1. MailCount' = [t \in Tasks |-> MailCount'[t]]
      BY DEF MailCount
    <2> QED
      BY <1>7, <1>8, <2>1
  <1>10. Promise!Mail(S)
    <2>1. \A t \in S : MailCount[t] = 0
      BY <1>7
    <2>2. \A t, u \in S : Recipient[t] = Recipient[u]
      BY <1>6
    <2>3. S # {} /\ Cardinality(S) <= MaxItems
      BY <1>6
    <2>4. Promise!Cardinality(S) = Cardinality(S)
      BY DEF Promise!Cardinality, Cardinality
    <2> QED
      BY <1>9, <2>1, <2>2, <2>3, <2>4 DEF Promise!Mail
  <1> QED
    BY <1>10 DEF Promise!Next

LEMMA PromiseStep == MailInv /\ [Next]_mailVars => [Promise!Next]_MailCount
  <1> SUFFICES ASSUME MailInv, [Next]_mailVars PROVE [Promise!Next]_MailCount
    OBVIOUS
  <1>1. CASE \/ Tick
             \/ \E t \in Tasks : CreateEmailTask(t) \/ LeaseRunsOut(t)
             \/ UNCHANGED mailVars
    <2>1. UNCHANGED <<items, calls>>
      BY <1>1 DEF Tick, CreateEmailTask, LeaseRunsOut, mailVars
    <2> QED
      BY <2>1, MailsKept
  <1>2. ASSUME NEW p \in Planners, LeaseEmailTasks(p) \/ Plan(p) \/ PlannerAborts(p)
        PROVE  UNCHANGED MailCount
    <2>1. CASE \E b \in Batches : CreateEmailBatchWithItems(p, b)
      BY <2>1, CreationMailsNothing
    <2>2. CASE ~ \E b \in Batches : CreateEmailBatchWithItems(p, b)
      <3>1. UNCHANGED <<items, calls>>
        BY <1>2, <2>2 DEF Plan, LeaseEmailTasks, TakeGroup, EvaluateTask, DeferEmailTasks,
                          ReleaseOverflow, CreationRefused, PlannerAborts
      <3> QED
        BY <3>1, MailsKept
    <2> QED
      BY <2>1, <2>2
  <1>3. ASSUME NEW s \in Senders,
               LeaseEmailBatches(s) \/ Send(s) \/ SendHTMLFails(s) \/ SenderAborts(s)
        PROVE  [Promise!Next]_MailCount
    <2>1. CASE SendHTML(s)
      BY <2>1, AcceptedCallMails
    <2>2. CASE SendHTMLFails(s)
      <3>1. UNCHANGED items
        BY <2>2 DEF SendHTMLFails
      <3>2. calls' = calls \cup {[batch |-> sender[s].batch, at |-> sender[s].at, ok |-> FALSE]}
        BY <2>2 DEF SendHTMLFails, Called
      <3>3. \A c : (c \in calls' /\ c.ok) <=> (c \in calls /\ c.ok)
        BY <3>2
      <3> QED
        BY <3>1, <3>3, MailsKept
    <2>3. CASE ~(SendHTML(s) \/ SendHTMLFails(s))
      <3>1. UNCHANGED <<items, calls>>
        BY <1>3, <2>3 DEF LeaseEmailBatches, Send, SendBatch, ReserveQuota, ReserveRefused,
                          CreateSendLog, MarkBatchSent, MarkBatchRetry, SenderAborts
      <3> QED
        BY <3>1, MailsKept
    <2> QED
      BY <2>1, <2>2, <2>3
  <1> QED
    BY <1>1, <1>2, <1>3 DEF Next

LEMMA PromiseInit == Init => Promise!Init
  <1> SUFFICES ASSUME Init PROVE Promise!Init
    OBVIOUS
  <1>1. \A t \in Tasks : Mails(t) = {}
    BY DEF Init, Mails
  <1> QED
    BY <1>1, FS_EmptySet DEF Promise!Init, MailCount

(* The planner and sender loops implement MailPromise: a notice accepted   *)
(* by SMTP is never mailed again, and a mail is for one user.              *)
THEOREM PromiseKept == Spec => OneMailPerNotice
  BY PromiseInit, PromiseStep, MailInvariance, PTL DEF Spec, OneMailPerNotice, Promise!Spec

-----------------------------------------------------------------------------
(***************************************************************************)
(* The quota.  Of each window of a reserved layer, used_count covers the   *)
(* calls made and the senders that have counted in it and not called yet.  *)
(* It may be more: what a refused or failed attempt has counted stays.     *)
(***************************************************************************)
KeyOf(l, b, at) == UsageKey(l, BatchRecipient(b), at)

CallsIn(l, k) == {c \in calls : KeyOf(l, c.batch, c.at) = k}

Counted(s, l) == sender[s].pc = "reserve" /\ sender[s].layer > l

CountedIn(l, k) ==
    {s \in Senders : Counted(s, l) /\ KeyOf(l, sender[s].batch, sender[s].at) = k}

Covered(l, k) == Cardinality(CallsIn(l, k)) + Cardinality(CountedIn(l, k)) <= Used(k)

ReservedLayers == {l \in 1 .. Len(Layers) : Reserved(l)}

QuotaInv ==
    /\ IsFiniteSet(calls)
    /\ \A c \in calls : batch[c.batch].status # "unused"
    /\ \A l \in ReservedLayers, k \in Keys : Covered(l, k)

LEMMA Finiteness ==
    ASSUME IsFiniteSet(calls), NEW l, NEW k
    PROVE  /\ IsFiniteSet(CallsIn(l, k)) /\ Cardinality(CallsIn(l, k)) \in Nat
           /\ IsFiniteSet(CountedIn(l, k)) /\ Cardinality(CountedIn(l, k)) \in Nat
  <1>1. IsFiniteSet(CallsIn(l, k))
    <2>1. CallsIn(l, k) \in SUBSET calls
      BY DEF CallsIn
    <2> QED
      BY <2>1, FS_Subset
  <1>2. IsFiniteSet(CountedIn(l, k))
    <2>1. CountedIn(l, k) \in SUBSET Senders
      BY DEF CountedIn
    <2> QED
      BY <2>1, FS_Subset, LoopsAssumption
  <1> QED
    BY <1>1, <1>2, FS_CardinalityType

LEMMA OneMoreElement ==
    ASSUME NEW S, IsFiniteSet(S), NEW x
    PROVE  /\ IsFiniteSet(S \cup {x}) /\ Cardinality(S \cup {x}) \in Nat
           /\ Cardinality(S \cup {x}) <= Cardinality(S) + 1
  <1>1. IsFiniteSet(S \cup {x})
    BY FS_AddElement
  <1>2. Cardinality(S \cup {x}) = IF x \in S THEN Cardinality(S) ELSE Cardinality(S) + 1
    BY FS_AddElement
  <1>3. Cardinality(S) \in Nat /\ Cardinality(S \cup {x}) \in Nat
    BY <1>1, FS_CardinalityType
  <1> QED
    BY <1>1, <1>2, <1>3

LEMMA UsedType == ASSUME TypeOK, NEW k \in Keys PROVE Used(k) \in Nat
  BY LayerIs DEF TypeOK, Used, Keys

LEMMA RecipientOfUsed ==
    ASSUME MailInv, NEW b \in Batches, batch[b].status # "unused"
    PROVE  BatchRecipient(b) \in Users
  <1>1. Contents(b) # {}
    BY DEF MailInv, BatchesAreWhole
  <1>2. \E t \in Tasks : <<b, t>> \in items
    BY <1>1 DEF Contents
  <1> QED
    BY <1>2, RecipientAssumption DEF BatchRecipient

\* The items of a batch, and with them its recipient, do not change once it is there.
LEMMA RecipientKept ==
    ASSUME MailInv, [Next]_mailVars, NEW b \in Batches, batch[b].status # "unused"
    PROVE  BatchRecipient(b)' = BatchRecipient(b)
  <1>1. ASSUME NEW p \in Planners, NEW c \in Batches, CreateEmailBatchWithItems(p, c)
        PROVE  BatchRecipient(b)' = BatchRecipient(b)
    <2>1. items' = items \cup ({c} \X planner[p].include) /\ b # c
      BY <1>1 DEF CreateEmailBatchWithItems
    <2>2. \A t \in Tasks : <<b, t>> \in items' <=> <<b, t>> \in items
      BY <2>1
    <2> QED
      BY <2>2 DEF BatchRecipient
  <1>2. ASSUME UNCHANGED items PROVE BatchRecipient(b)' = BatchRecipient(b)
    BY <1>2 DEF BatchRecipient
  <1>3. (\E p \in Planners, c \in Batches : CreateEmailBatchWithItems(p, c)) \/ UNCHANGED items
    BY DEF Next, mailVars, Tick, CreateEmailTask, LeaseRunsOut, Plan, Send, LeaseEmailTasks,
           TakeGroup, EvaluateTask, DeferEmailTasks, ReleaseOverflow, CreationRefused,
           PlannerAborts, LeaseEmailBatches, SendBatch, ReserveQuota, ReserveRefused, SendHTML,
           SendHTMLFails, CreateSendLog, MarkBatchSent, MarkBatchRetry, SenderAborts
  <1> QED
    BY <1>1, <1>2, <1>3

\* No batch becomes unused again.
LEMMA UsedForGood ==
    ASSUME MailInv, MailInv', [Next]_mailVars, NEW b \in Batches, batch[b].status # "unused"
    PROVE  batch'[b].status # "unused"
  <1>1. items \subseteq items'
    BY DEF Next, mailVars, Tick, CreateEmailTask, LeaseRunsOut, Plan, Send, LeaseEmailTasks,
           TakeGroup, EvaluateTask, DeferEmailTasks, ReleaseOverflow, CreationRefused,
           PlannerAborts, CreateEmailBatchWithItems, LeaseEmailBatches, SendBatch, ReserveQuota,
           ReserveRefused, SendHTML, SendHTMLFails, CreateSendLog, MarkBatchSent, MarkBatchRetry,
           SenderAborts
  <1>2. Contents(b) # {}
    BY DEF MailInv, BatchesAreWhole
  <1>3. Contents(b)' # {}
    BY <1>1, <1>2 DEF Contents
  <1> QED
    BY <1>3 DEF MailInv, BatchesAreWhole

LEMMA KeyKept ==
    ASSUME MailInv, [Next]_mailVars, NEW b \in Batches, batch[b].status # "unused",
           NEW l, NEW at
    PROVE  KeyOf(l, b, at)' = KeyOf(l, b, at)
  <1>1. BatchRecipient(b)' = BatchRecipient(b)
    BY RecipientKept
  <1> QED
    BY <1>1 DEF KeyOf, UsageKey, ScopeId

LEMMA CountedIsUsed ==
    ASSUME MailInv, NEW s \in Senders, sender[s].pc = "reserve"
    PROVE  sender[s].batch \in Batches /\ batch[sender[s].batch].status # "unused"
  BY RecipientOfBatch

\* A sender that does not move counts where it counted.
LEMMA OthersCounted ==
    ASSUME MailInv, [Next]_mailVars, NEW s \in Senders, NEW l, NEW k,
           sender'[s] = sender[s], s \in CountedIn(l, k)'
    PROVE  s \in CountedIn(l, k)
  <1>1. Counted(s, l) /\ KeyOf(l, sender[s].batch, sender[s].at)' = k
    BY DEF CountedIn, Counted
  <1>2. PICK b \in Batches : b = sender[s].batch /\ batch[b].status # "unused"
    BY <1>1, CountedIsUsed DEF Counted
  <1>3. PICK at : at = sender[s].at
    OBVIOUS
  <1>4. KeyOf(l, b, at)' = KeyOf(l, b, at)
    BY <1>2, KeyKept
  <1>5. KeyOf(l, sender[s].batch, sender[s].at)' = KeyOf(l, b, at)'
    BY <1>2, <1>3 DEF KeyOf, UsageKey, ScopeId, BatchRecipient
  <1> QED
    BY <1>1, <1>2, <1>3, <1>4, <1>5 DEF CountedIn

\* A call made stays in its window.
LEMMA CallsStay ==
    ASSUME MailInv, QuotaInv, [Next]_mailVars, NEW c \in calls, NEW l
    PROVE  KeyOf(l, c.batch, c.at)' = KeyOf(l, c.batch, c.at)
  <1>1. c.batch \in Batches /\ batch[c.batch].status # "unused"
    BY DEF MailInv, TypeOK, QuotaInv
  <1> QED
    BY <1>1, KeyKept

\* Nobody counts in a step that reserves nothing.
LEMMA QuotaQuiet ==
    ASSUME MailInv, MailInv', QuotaInv, [Next]_mailVars, UNCHANGED <<calls, usage>>,
           \A s \in Senders, l \in ReservedLayers : Counted(s, l)' => sender'[s] = sender[s]
    PROVE  QuotaInv'
  <1>1. calls \in SUBSET [batch: Batches, at: Nat, ok: BOOLEAN]
    BY DEF MailInv, TypeOK
  <1>2. \A c \in calls : batch'[c.batch].status # "unused"
    BY <1>1, UsedForGood DEF QuotaInv
  <1>3. ASSUME NEW l \in ReservedLayers, NEW k \in Keys PROVE Covered(l, k)'
    <2>1. CallsIn(l, k)' = CallsIn(l, k)
      BY CallsStay DEF CallsIn
    <2>2. CountedIn(l, k)' \subseteq CountedIn(l, k)
      BY OthersCounted DEF CountedIn
    <2>3. Used(k)' = Used(k)
      BY DEF Used
    <2>4. IsFiniteSet(calls) /\ Covered(l, k)
      BY DEF QuotaInv
    <2>5. /\ Cardinality(CallsIn(l, k)) \in Nat
          /\ IsFiniteSet(CountedIn(l, k)) /\ Cardinality(CountedIn(l, k)) \in Nat
      BY <2>4, Finiteness
    <2>6. PICK C, D : C = CountedIn(l, k) /\ D = CountedIn(l, k)'
      OBVIOUS
    <2>7. IsFiniteSet(D) /\ Cardinality(D) <= Cardinality(C)
      BY <2>2, <2>5, <2>6, FS_Subset
    <2>8. Cardinality(D) \in Nat /\ Used(k) \in Nat
      BY <2>7, FS_CardinalityType, UsedType DEF MailInv
    <2>9. Cardinality(CallsIn(l, k)) + Cardinality(C) <= Used(k)
      BY <2>4, <2>6 DEF Covered
    <2>10. Cardinality(CallsIn(l, k)) + Cardinality(D) <= Used(k)
      BY <2>5, <2>6, <2>7, <2>8, <2>9
    <2> QED
      BY <2>1, <2>3, <2>6, <2>10 DEF Covered
  <1> QED
    BY <1>2, <1>3 DEF QuotaInv, ReservedLayers, Reserved

LEMMA QuotaReserved ==
    ASSUME MailInv, MailInv', QuotaInv, [Next]_mailVars, NEW s \in Senders, ReserveQuota(s)
    PROVE  QuotaInv'
  <1>1. TypeOK /\ SenderKnows(s) /\ IsFiniteSet(calls)
    BY DEF MailInv, QuotaInv
  <1>2. PICK m \in SenderRecords : m = sender[s]
    BY <1>1 DEF TypeOK
  <1>3. m.pc = "reserve" /\ m.layer \in ReservedLayers /\ m.at \in Nat
    BY <1>1, <1>2, LayersLen DEF ReserveQuota, SenderKnows, SenderRecords, ReservedLayers
  <1>4. PICK u \in Users : u = BatchRecipient(m.batch)
    BY <1>2, <1>3, RecipientOfBatch
  <1>5. PICK key \in Keys : key = UsageKey(m.layer, u, m.at) /\ key[1] = m.layer
    BY <1>3, KeyType DEF ReservedLayers
  <1>6. PICK next \in Nat : /\ next = LayerFrom(m.layer + 1)
                            /\ \A l \in m.layer + 1 .. next - 1 : ~Reserved(l)
    <2>1. m.layer + 1 \in 1 .. Len(Layers) + 1
      BY <1>3, LayersLen DEF ReservedLayers
    <2> QED
      BY <2>1, LayerFromFinds, LayersLen
  <1>7. /\ usage' = [j \in DOMAIN usage \cup {key} |-> IF j = key THEN Used(key) + 1 ELSE usage[j]]
        /\ sender' = [sender EXCEPT ![s] = [m EXCEPT !.layer = next]]
        /\ UNCHANGED <<batch, items, calls>>
    BY <1>2, <1>4, <1>5, <1>6 DEF ReserveQuota
  <1>8. /\ \A r \in Senders \ {s} : sender'[r] = sender[r]
        /\ sender'[s].batch = m.batch /\ sender'[s].at = m.at /\ sender'[s].layer = next
    BY <1>1, <1>2, <1>7 DEF TypeOK, SenderRecords
  <1>9. ASSUME NEW l \in ReservedLayers, NEW k \in Keys PROVE Covered(l, k)'
    <2>1. CallsIn(l, k)' = CallsIn(l, k)
      BY <1>7, CallsStay DEF CallsIn
    <2>2. Used(k)' = IF k = key THEN Used(k) + 1 ELSE Used(k)
      BY <1>7 DEF Used
    <2>3. s \in CountedIn(l, k)' => s \in CountedIn(l, k) \/ k = key
      <3> SUFFICES ASSUME s \in CountedIn(l, k)', s \notin CountedIn(l, k) PROVE k = key
        OBVIOUS
      <3>1. next > l /\ KeyOf(l, sender[s].batch, sender[s].at)' = k
        BY <1>8 DEF CountedIn, Counted
      <3>2. KeyOf(l, sender[s].batch, sender[s].at)' = UsageKey(l, u, m.at)
        <4>1. PICK b \in Batches : b = m.batch /\ batch[b].status # "unused"
          BY <1>2, <1>3, CountedIsUsed
        <4>2. PICK at : at = m.at
          OBVIOUS
        <4>3. KeyOf(l, sender[s].batch, sender[s].at)' = KeyOf(l, b, at)'
          BY <1>8, <4>1, <4>2 DEF KeyOf, UsageKey, ScopeId, BatchRecipient
        <4>4. KeyOf(l, b, at)' = KeyOf(l, b, at)
          BY <4>1, KeyKept
        <4> QED
          BY <1>4, <4>1, <4>2, <4>3, <4>4 DEF KeyOf
      <3>3. ~(m.layer > l)
        BY <1>2, <1>3, <1>4, <3>1, <3>2 DEF CountedIn, Counted, KeyOf
      <3>4. l = m.layer
        <4>1. l \in Nat /\ m.layer \in Nat /\ Reserved(l)
          BY <1>3, LayersLen DEF ReservedLayers
        <4> QED
          BY <1>6, <3>1, <3>3, <4>1
      <3> QED
        BY <1>5, <3>1, <3>2, <3>4
    <2>4. \A r \in Senders \ {s} : r \in CountedIn(l, k)' => r \in CountedIn(l, k)
      BY <1>8, OthersCounted
    <2>5. PICK C, D : C = CountedIn(l, k) /\ D = CountedIn(l, k)'
      OBVIOUS
    <2>6. D \subseteq C \cup (IF k = key THEN {s} ELSE {})
      BY <2>3, <2>4, <2>5 DEF CountedIn
    <2>7. /\ Cardinality(CallsIn(l, k)) \in Nat
          /\ IsFiniteSet(C) /\ Cardinality(C) \in Nat
      BY <1>1, <2>5, Finiteness
    <2>8. Cardinality(CallsIn(l, k)) + Cardinality(C) <= Used(k) /\ Used(k) \in Nat
      BY <1>1, <2>5, UsedType DEF QuotaInv, Covered
    <2>9. Cardinality(CallsIn(l, k)) + Cardinality(D) <= Used(k)'
      <3>1. CASE k = key
        <4>1. IsFiniteSet(C \cup {s}) /\ Cardinality(C \cup {s}) <= Cardinality(C) + 1
              /\ Cardinality(C \cup {s}) \in Nat
          BY <2>7, OneMoreElement
        <4>2. IsFiniteSet(D) /\ Cardinality(D) <= Cardinality(C \cup {s})
          BY <2>6, <3>1, <4>1, FS_Subset
        <4>3. Cardinality(D) \in Nat
          BY <4>2, FS_CardinalityType
        <4> QED
          BY <2>2, <2>7, <2>8, <3>1, <4>1, <4>2, <4>3
      <3>2. CASE k # key
        <4>1. D \in SUBSET C
          BY <2>6, <3>2
        <4>2. IsFiniteSet(D) /\ Cardinality(D) <= Cardinality(C)
          BY <2>7, <4>1, FS_Subset
        <4>3. Cardinality(D) \in Nat
          BY <4>2, FS_CardinalityType
        <4> QED
          BY <2>2, <2>7, <2>8, <3>2, <4>2, <4>3
      <3> QED
        BY <3>1, <3>2
    <2> QED
      BY <2>1, <2>5, <2>9 DEF Covered
  <1>10. IsFiniteSet(calls') /\ \A c \in calls' : batch'[c.batch].status # "unused"
    BY <1>7 DEF QuotaInv
  <1> QED
    BY <1>9, <1>10 DEF QuotaInv, ReservedLayers, Reserved

\* A call takes over what its sender had counted in every reserved layer.
LEMMA QuotaSpent ==
    ASSUME MailInv, MailInv', QuotaInv, [Next]_mailVars, NEW s \in Senders,
           SendHTML(s) \/ SendHTMLFails(s)
    PROVE  QuotaInv'
  <1>1. TypeOK /\ SenderKnows(s) /\ IsFiniteSet(calls)
    BY DEF MailInv, QuotaInv
  <1>2. PICK m \in SenderRecords : m = sender[s]
    BY <1>1 DEF TypeOK
  <1>3. m.pc = "reserve" /\ m.layer > Len(Layers)
    BY <1>2 DEF SendHTML, SendHTMLFails, ReadyToCall
  <1>4. m.batch \in Batches /\ batch[m.batch].status # "unused"
    BY <1>2, <1>3, CountedIsUsed
  <1>5. PICK new : /\ new.batch = m.batch /\ new.at = m.at
                   /\ calls' = calls \cup {new}
    <2>1. PICK ok \in BOOLEAN : calls' = calls \cup {[batch |-> m.batch, at |-> m.at, ok |-> ok]}
      BY <1>2 DEF SendHTML, SendHTMLFails, Called
    <2> DEFINE new == [batch |-> m.batch, at |-> m.at, ok |-> ok]
    <2>2. new.batch = m.batch /\ new.at = m.at
      OBVIOUS
    <2>3. calls' = calls \cup {new}
      BY <2>1
    <2> HIDE DEF new
    <2> QED
      BY <2>2, <2>3
  <1>6. /\ UNCHANGED <<batch, items, usage>>
        /\ \A r \in Senders \ {s} : sender'[r] = sender[r]
        /\ sender'[s].pc # "reserve"
    <2>1. sender \in [Senders -> SenderRecords]
      BY <1>1 DEF TypeOK
    <2>2. CASE SendHTML(s)
      <3>1. sender' = [sender EXCEPT ![s] = [m EXCEPT !.pc = "log"]]
            /\ UNCHANGED <<batch, items, usage>>
        BY <1>2, <2>2 DEF SendHTML
      <3>2. [m EXCEPT !.pc = "log"].pc = "log"
        BY DEF SenderRecords
      <3> QED
        BY <2>1, <3>1, <3>2
    <2>3. CASE SendHTMLFails(s)
      <3>1. sender' = [sender EXCEPT ![s] = [m EXCEPT !.pc = "retry", !.until = now + RetryDelay]]
            /\ UNCHANGED <<batch, items, usage>>
        BY <1>2, <2>1, <2>3 DEF SendHTMLFails
      <3>2. [m EXCEPT !.pc = "retry", !.until = now + RetryDelay].pc = "retry"
        BY DEF SenderRecords
      <3> QED
        BY <2>1, <3>1, <3>2
    <2> QED
      BY <2>2, <2>3
  <1>7. ASSUME NEW l \in ReservedLayers, NEW k \in Keys PROVE Covered(l, k)'
    <2>1. PICK A, B, C, D : /\ A = CallsIn(l, k) /\ B = CallsIn(l, k)'
                            /\ C = CountedIn(l, k) /\ D = CountedIn(l, k)'
      OBVIOUS
    <2>2. /\ IsFiniteSet(A) /\ Cardinality(A) \in Nat
          /\ IsFiniteSet(C) /\ Cardinality(C) \in Nat
      BY <1>1, <2>1, Finiteness
    <2>3. Cardinality(A) + Cardinality(C) <= Used(k) /\ Used(k) \in Nat /\ Used(k)' = Used(k)
      BY <1>1, <1>6, <2>1, UsedType DEF QuotaInv, Covered, Used
    <2>4. D \subseteq C \ {s}
      <3>1. s \notin D
        BY <1>6, <2>1 DEF CountedIn, Counted
      <3>2. \A r \in Senders \ {s} : r \in D => r \in C
        BY <1>6, <2>1, OthersCounted
      <3> QED
        BY <2>1, <3>1, <3>2 DEF CountedIn
    <2>5. KeyOf(l, m.batch, m.at) = k => s \in C
      <3>1. m.layer > l
        <4>1. l <= Len(Layers) /\ l \in Nat /\ m.layer \in Nat
          BY LayersLen DEF ReservedLayers, SenderRecords
        <4> QED
          BY <1>3, <4>1, LayersLen
      <3> QED
        BY <1>2, <1>3, <2>1, <3>1 DEF CountedIn, Counted
    <2>6. B \subseteq A \cup (IF KeyOf(l, m.batch, m.at) = k THEN {new} ELSE {})
      <3> SUFFICES ASSUME NEW c \in calls', KeyOf(l, c.batch, c.at)' = k
                   PROVE  c \in A \/ (c = new /\ KeyOf(l, m.batch, m.at) = k)
        BY <2>1 DEF CallsIn
      <3>1. CASE c \in calls
        BY <2>1, <3>1, CallsStay DEF CallsIn
      <3>2. CASE c = new
        <4>1. c.batch = m.batch /\ c.at = m.at
          BY <1>5, <3>2
        <4>2. KeyOf(l, c.batch, c.at)' = KeyOf(l, c.batch, c.at)
          BY <1>4, <4>1, KeyKept
        <4> QED
          BY <3>2, <4>1, <4>2
      <3> QED
        BY <1>5, <3>1, <3>2
    <2>7. Cardinality(B) + Cardinality(D) <= Used(k)
      <3>1. CASE KeyOf(l, m.batch, m.at) = k
        <4>1. IsFiniteSet(A \cup {new}) /\ Cardinality(A \cup {new}) <= Cardinality(A) + 1
              /\ Cardinality(A \cup {new}) \in Nat
          BY <2>2, OneMoreElement
        <4>2. IsFiniteSet(B) /\ Cardinality(B) <= Cardinality(A \cup {new})
          BY <2>6, <3>1, <4>1, FS_Subset
        <4>3. IsFiniteSet(C \ {s}) /\ Cardinality(C \ {s}) = Cardinality(C) - 1
              /\ Cardinality(C \ {s}) \in Nat
          BY <2>2, <2>5, <3>1, FS_RemoveElement, FS_CardinalityType
        <4>4. IsFiniteSet(D) /\ Cardinality(D) <= Cardinality(C \ {s})
          BY <2>4, <4>3, FS_Subset
        <4>5. Cardinality(B) \in Nat /\ Cardinality(D) \in Nat
          BY <4>2, <4>4, FS_CardinalityType
        <4> QED
          BY <2>2, <2>3, <4>1, <4>2, <4>3, <4>4, <4>5
      <3>2. CASE KeyOf(l, m.batch, m.at) # k
        <4>1. B \in SUBSET A /\ D \in SUBSET C
          BY <2>4, <2>6, <3>2
        <4>2. /\ IsFiniteSet(B) /\ Cardinality(B) <= Cardinality(A)
              /\ IsFiniteSet(D) /\ Cardinality(D) <= Cardinality(C)
          BY <2>2, <4>1, FS_Subset
        <4>3. Cardinality(B) \in Nat /\ Cardinality(D) \in Nat
          BY <4>2, FS_CardinalityType
        <4> QED
          BY <2>2, <2>3, <4>2, <4>3
      <3> QED
        BY <3>1, <3>2
    <2> QED
      BY <2>1, <2>3, <2>7 DEF Covered
  <1>8. IsFiniteSet(calls') /\ \A c \in calls' : batch'[c.batch].status # "unused"
    <2>1. IsFiniteSet(calls')
      BY <1>1, <1>5, FS_AddElement
    <2> QED
      BY <1>4, <1>5, <1>6, <2>1 DEF QuotaInv
  <1> QED
    BY <1>7, <1>8 DEF QuotaInv, ReservedLayers, Reserved

LEMMA QuotaStep == MailInv /\ MailInv' /\ QuotaInv /\ [Next]_mailVars => QuotaInv'
  <1> SUFFICES ASSUME MailInv, MailInv', QuotaInv, [Next]_mailVars PROVE QuotaInv'
    OBVIOUS
  <1>1. CASE \E s \in Senders : ReserveQuota(s)
    BY <1>1, QuotaReserved
  <1>2. CASE \E s \in Senders : SendHTML(s) \/ SendHTMLFails(s)
    BY <1>2, QuotaSpent
  <1>3. CASE ~ \E s \in Senders : ReserveQuota(s) \/ SendHTML(s) \/ SendHTMLFails(s)
    <2>1. UNCHANGED <<calls, usage>>
      BY <1>3 DEF Next, mailVars, Tick, CreateEmailTask, LeaseRunsOut, Plan, Send, LeaseEmailTasks,
             TakeGroup, EvaluateTask, DeferEmailTasks, ReleaseOverflow, CreationRefused,
             PlannerAborts, CreateEmailBatchWithItems, LeaseEmailBatches, SendBatch,
             ReserveRefused, CreateSendLog, MarkBatchSent, MarkBatchRetry, SenderAborts
    <2>2. ASSUME NEW s \in Senders, NEW l \in ReservedLayers, Counted(s, l)'
          PROVE  sender'[s] = sender[s]
      <3>1. sender \in [Senders -> SenderRecords]
        BY DEF MailInv, TypeOK
      <3>2. CASE UNCHANGED sender
        BY <3>2
      <3>3. ASSUME NEW r \in Senders,
                   \/ LeaseEmailBatches(r) \/ ReserveRefused(r) \/ CreateSendLog(r)
                   \/ MarkBatchSent(r) \/ MarkBatchRetry(r) \/ SenderAborts(r)
            PROVE  sender'[s] = sender[s]
        <4>1. \A q \in Senders \ {r} : sender'[q] = sender[q]
          BY <3>1, <3>3 DEF LeaseEmailBatches, ReserveRefused, CreateSendLog, MarkBatchSent,
                            MarkBatchRetry, SenderAborts
        <4>2. sender'[r].pc # "reserve"
          BY <3>1, <3>3 DEF LeaseEmailBatches, ReserveRefused, CreateSendLog, MarkBatchSent,
                            MarkBatchRetry, SenderAborts, Between, SenderRecords
        <4> QED
          BY <2>2, <4>1, <4>2 DEF Counted
      <3>4. ASSUME NEW r \in Senders, NEW b \in Batches, SendBatch(r, b)
            PROVE  sender'[s] = sender[s]
        <4>1. \A q \in Senders \ {r} : sender'[q] = sender[q]
          BY <3>1, <3>4 DEF SendBatch
        <4>2. sender'[r].layer = LayerFrom(1)
          BY <3>1, <3>4 DEF SendBatch
        <4>3. ~(LayerFrom(1) > l)
          <5>1. 1 \in 1 .. Len(Layers) + 1 /\ l \in Nat /\ l >= 1 /\ Reserved(l)
            BY LayersLen DEF ReservedLayers
          <5>2. LayerFrom(1) \in Nat /\ \A m \in 1 .. LayerFrom(1) - 1 : ~Reserved(m)
            BY <5>1, LayerFromFinds, LayersLen
          <5> QED
            BY <5>1, <5>2
        <4> QED
          BY <2>2, <4>1, <4>2, <4>3 DEF Counted
      <3>5. \/ UNCHANGED sender
            \/ \E r \in Senders :
                  \/ LeaseEmailBatches(r) \/ ReserveRefused(r) \/ CreateSendLog(r)
                  \/ MarkBatchSent(r) \/ MarkBatchRetry(r) \/ SenderAborts(r)
            \/ \E r \in Senders, b \in Batches : SendBatch(r, b)
        BY <1>3 DEF Next, mailVars, Tick, CreateEmailTask, LeaseRunsOut, Plan, Send,
               LeaseEmailTasks, TakeGroup, EvaluateTask, DeferEmailTasks, ReleaseOverflow,
               CreationRefused, PlannerAborts, CreateEmailBatchWithItems
      <3> QED
        BY <3>2, <3>3, <3>4, <3>5
    <2> QED
      BY <2>1, <2>2, QuotaQuiet
  <1> QED
    BY <1>1, <1>2, <1>3

LEMMA QuotaInit == Init => QuotaInv
  <1> SUFFICES ASSUME Init PROVE QuotaInv
    OBVIOUS
  <1>1. calls = {} /\ \A s \in Senders : sender[s].pc = "between"
    BY DEF Init, Between
  <1>2. \A l, k : CallsIn(l, k) = {} /\ CountedIn(l, k) = {}
    BY <1>1 DEF CallsIn, CountedIn, Counted
  <1>3. \A k : Used(k) = 0
    BY DEF Init, Used
  <1> QED
    BY <1>1, <1>2, <1>3, FS_EmptySet DEF QuotaInv, Covered

LEMMA QuotaFollows == MailInv /\ QuotaInv => QuotaHolds
  <1> SUFFICES ASSUME MailInv, QuotaInv, NEW l \in ReservedLayers, NEW c \in calls
               PROVE  Cardinality(CallsIn(l, KeyOf(l, c.batch, c.at))) <= Layers[l].limit
    BY DEF QuotaHolds, ReservedLayers, CallsIn, KeyOf
  <1>1. c.batch \in Batches /\ c.at \in Nat /\ l \in 1 .. Len(Layers) /\ TypeOK
    BY DEF MailInv, TypeOK, ReservedLayers
  <1>2. BatchRecipient(c.batch) \in Users
    BY <1>1, RecipientOfUsed DEF QuotaInv
  <1>3. PICK k \in Keys : k = KeyOf(l, c.batch, c.at) /\ k[1] = l
    BY <1>1, <1>2, KeyType DEF KeyOf
  <1>4. Covered(l, k) /\ IsFiniteSet(calls)
    BY DEF QuotaInv
  <1>5. Cardinality(CallsIn(l, k)) \in Nat /\ Cardinality(CountedIn(l, k)) \in Nat
    BY <1>4, Finiteness
  <1>6. Used(k) \in Nat /\ Used(k) <= Layers[l].limit
    BY <1>1, <1>3, LayerIs, UsedType DEF Used, TypeOK
  <1>7. Layers[l].limit \in Nat
    BY <1>1, LayerIs
  <1> QED
    BY <1>3, <1>4, <1>5, <1>6, <1>7 DEF Covered

(* The quota of every reserved layer holds in every window, with any       *)
(* number of senders between the calls of ReserveQuota.                    *)
THEOREM QuotaKept == Spec => []QuotaHolds
  <1>1. MailInv /\ QuotaInv /\ MailInv' /\ [Next]_mailVars => QuotaInv'
    BY QuotaStep
  <1> QED
    BY <1>1, QuotaInit, QuotaFollows, MailInvariance, PTL DEF Spec

=============================================================================
