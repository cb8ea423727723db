---------------------------- MODULE EmailBatches ----------------------------
(***************************************************************************)
(* From the mail queue to SMTP: the planner and sender loops               *)
(* (internal/service/notification/email_planner.go, email_sender.go), the  *)
(* quota they ask (quota.go) and the tables of tasks, batches, batch items *)
(* and quota usage (internal/repository/notification).                     *)
(*                                                                         *)
(* A planner gathers leased tasks into one batch per recipient; a sender   *)
(* leases batches, reserves quota layer by layer and calls SMTP.  Each     *)
(* database call is a step.  Leases run out at any time, calls fail and    *)
(* processes stop.  The clock counts the shortest quota window.            *)
(***************************************************************************)
EXTENDS Naturals, Sequences, FiniteSets

CONSTANTS
    Tasks,          \* mail tasks: one per event and recipient
    Users,
    Site,           \* scope_id 0, of the layers that count for everybody; not one of Users
    Recipient,      \* Recipient[t]: recipient and address of the task
    Planners,       \* planner loops, one per process that plans
    Senders,        \* sender loops, one per process
    BatchSize,      \* rows one tick leases
    MaxItems,       \* maxBatchItems: tasks in one mail
    Layers,         \* the quota layers in force, in the order they are asked
    Day,            \* the length of the day window
    RetryDelay,     \* wait after a failed SMTP call
    MaxBatches,     \* bound on the batches created
    MaxTime,        \* bound on the clock, moved on while a batch is scheduled later
    MaxFailures,    \* bound on the failed SMTP calls
    MaxAborts       \* bound on iterations ended by an error or a stop

Scopes == {"site", "purpose", "actor", "recipient"}

ASSUME RecipientAssumption == Site \notin Users /\ Recipient \in [Tasks -> Users]
ASSUME LoopsAssumption == IsFiniteSet(Senders)
ASSUME LayersAssumption ==
    Layers \in Seq([scope: Scopes, period: Nat \ {0}, limit: Nat])
ASSUME MailBoundsAssumption ==
    /\ BatchSize \in Nat \ {0} /\ MaxItems \in Nat \ {0} /\ RetryDelay \in Nat \ {0}
    /\ MaxBatches \in Nat /\ MaxTime \in Nat /\ MaxFailures \in Nat /\ MaxAborts \in Nat

VARIABLES
    now,
    task,       \* notification_email_task: status, and whether lease_until is still to come
    batch,      \* notification_email_batch: status and scheduled_at
    items,      \* notification_email_batch_item: <<batch, task>>
    usage,      \* email_quota_usage: used_count per layer, scope id and window, where there is a row
    planner,    \* the planners
    sender,     \* the senders
    sendLog,    \* email_send_log: the batches a successful attempt is recorded of
    calls,      \* the SMTP calls made: batch, time of the reservation, answer
    failures, aborts

mailVars == <<now, task, batch, items, usage, planner, sender, sendLog, calls, failures, aborts>>

Batches == 1 .. MaxBatches

TaskRecords == [status: {"none", "pending", "batched", "deferred", "sent"},
                leased: BOOLEAN, batch: 0 .. MaxBatches]
BatchRecords == [status: {"unused", "pending", "sending", "sent"}, at: Nat]

\* tasks: leased and not in a group yet; group: to be asked the quota for; include, defer: the answers.
PlannerRecords == [tasks: SUBSET Tasks, group: SUBSET Tasks, include: SUBSET Tasks,
                   defer: SUBSET Tasks, at: Nat]
NoPlan == [tasks |-> {}, group |-> {}, include |-> {}, defer |-> {}, at |-> 0]

\* at: when the reservation began; layer: the next to reserve; until: scheduled_at of the retry.
SenderRecords ==
    [pc: {"between", "reserve", "log", "mark", "retry"}, todo: SUBSET Batches, batch: 0 .. MaxBatches,
     at: Nat, layer: Nat, until: Nat]
Between(S) == [pc |-> "between", todo |-> S, batch |-> 0, at |-> 0, layer |-> 0, until |-> 0]

Keys == (1 .. Len(Layers)) \X (Users \cup {Site}) \X Nat

TypeOK ==
    /\ now \in Nat
    /\ task \in [Tasks -> TaskRecords]
    /\ batch \in [Batches -> BatchRecords]
    /\ items \in SUBSET (Batches \X Tasks)
    /\ DOMAIN usage \subseteq Keys
    /\ \A k \in DOMAIN usage : usage[k] \in 0 .. Layers[k[1]].limit
    /\ planner \in [Planners -> PlannerRecords]
    /\ sender \in [Senders -> SenderRecords]
    /\ sendLog \in SUBSET Batches
    /\ calls \in SUBSET [batch: Batches, at: Nat, ok: BOOLEAN]
    /\ failures \in 0 .. MaxFailures /\ aborts \in 0 .. MaxAborts

Init ==
    /\ now = 0
    /\ task = [t \in Tasks |-> [status |-> "none", leased |-> FALSE, batch |-> 0]]
    /\ batch = [b \in Batches |-> [status |-> "unused", at |-> 0]]
    /\ items = {}
    /\ usage = [k \in {} |-> 0]
    /\ planner = [p \in Planners |-> NoPlan]
    /\ sender = [s \in Senders |-> Between({})]
    /\ sendLog = {} /\ calls = {}
    /\ failures = 0 /\ aborts = 0

Abort == aborts < MaxAborts /\ aborts' = aborts + 1

\* The dispatcher inserts the task (CreateEmailTask); it is due at once.
CreateEmailTask(t) ==
    /\ task[t].status = "none"
    /\ task' = [task EXCEPT ![t].status = "pending"]
    /\ UNCHANGED <<now, batch, items, usage, planner, sender, sendLog, calls, failures, aborts>>

Tick ==
    /\ now < MaxTime \/ \E b \in Batches : batch[b].status = "pending" /\ batch[b].at > now
    /\ now' = now + 1
    /\ UNCHANGED <<task, batch, items, usage, planner, sender, sendLog, calls, failures, aborts>>

\* Mutation of LeaseRunsOut: LeaseEmailTasks asks for lease_until IS NULL only.
LeaseNeverOver(t) == FALSE /\ t \in Tasks /\ UNCHANGED mailVars

\* The lease of any other task has no effect.
LeaseRunsOut(t) ==
    /\ task[t].status = "pending" /\ task[t].leased
    /\ task' = [task EXCEPT ![t].leased = FALSE]
    /\ UNCHANGED <<now, batch, items, usage, planner, sender, sendLog, calls, failures, aborts>>

-----------------------------------------------------------------------------
(* Quota.                                                                  *)

\* Of an actor nothing is ever counted, so that one id stands for all of them.
ScopeId(l, u) == IF Layers[l].scope = "recipient" THEN u ELSE Site

\* The end of the window of layer l that holds time t.
WindowEnd(l, t) == (t \div Layers[l].period + 1) * Layers[l].period

UsageKey(l, u, t) == <<l, ScopeId(l, u), t \div Layers[l].period>>

Used(k) == IF k \in DOMAIN usage THEN usage[k] ELSE 0

\* The sender names no actor and reserves no shorter purpose window than the day: those
\* layers are asked by Evaluate only, and nothing ever uses them up.
Reserved(l) ==
    /\ Layers[l].scope # "actor"
    /\ Layers[l].scope = "purpose" => Layers[l].period = Day

\* Evaluate: every layer has room for one more mail to u at time t.
Evaluate(u, t) ==
    \A l \in 1 .. Len(Layers) : Used(UsageKey(l, u, t)) + 1 <= Layers[l].limit

-----------------------------------------------------------------------------
(* The planner: PlanOnce, planGroup.                                       *)

Claims(S, limit) ==
    {C \in SUBSET S : Cardinality(C) = IF Cardinality(S) < limit THEN Cardinality(S) ELSE limit}

LeasableTasks == {t \in Tasks : task[t].status = "pending" /\ ~task[t].leased}

\* A leased task is due, so that none is released for being early.
LeaseEmailTasks(p) ==
    /\ planner[p] = NoPlan
    /\ LeasableTasks # {}
    /\ \E C \in Claims(LeasableTasks, BatchSize) :
        /\ task' = [t \in Tasks |-> IF t \in C THEN [task[t] EXCEPT !.leased = TRUE] ELSE task[t]]
        /\ planner' = [planner EXCEPT ![p] = [NoPlan EXCEPT !.tasks = C, !.at = now]]
    /\ UNCHANGED <<now, batch, items, usage, sender, sendLog, calls, failures, aborts>>

GroupDone(p) == planner[p].group = {} /\ planner[p].include = {} /\ planner[p].defer = {}

\* The tasks of the next recipient.
TakeGroup(p, u) ==
    LET G == {t \in planner[p].tasks : Recipient[t] = u}
    IN  /\ GroupDone(p) /\ G # {}
        /\ planner' = [planner EXCEPT ![p].group = G, ![p].tasks = @ \ G]
        /\ UNCHANGED <<now, task, batch, items, usage, sender, sendLog, calls, failures, aborts>>

\* Each task of the group is weighed alone: none counts for the next.  In a window usage only
\* grows, so reading layer after layer decides as one of the moments in between would.
EvaluateTask(p, t) ==
    LET k == planner[p]
    IN  /\ t \in k.group
        /\ planner' = [planner EXCEPT ![p] =
              IF Evaluate(Recipient[t], k.at)
              THEN [k EXCEPT !.group = @ \ {t}, !.include = @ \cup {t}]
              ELSE [k EXCEPT !.group = @ \ {t}, !.defer = @ \cup {t}]]
        /\ UNCHANGED <<now, task, batch, items, usage, sender, sendLog, calls, failures, aborts>>

\* The plan is over when its last group is.
Planned(p, plan) ==
    planner' = [planner EXCEPT ![p] =
        IF plan.tasks = {} /\ plan.include = {} THEN NoPlan ELSE plan]

DeferEmailTasks(p) ==
    /\ planner[p].group = {} /\ planner[p].defer # {}
    /\ task' = [t \in Tasks |-> IF t \in planner[p].defer
                                THEN [task[t] EXCEPT !.status = "deferred", !.leased = FALSE]
                                ELSE task[t]]
    /\ Planned(p, [planner[p] EXCEPT !.defer = {}])
    /\ UNCHANGED <<now, batch, items, usage, sender, sendLog, calls, failures, aborts>>

\* Room for MaxItems tasks: the others are released.
ReleaseOverflow(p) ==
    LET full == planner[p].include
    IN  /\ planner[p].group = {} /\ planner[p].defer = {}
        /\ Cardinality(full) > MaxItems
        /\ \E K \in Claims(full, MaxItems) :
            /\ task' = [t \in Tasks |-> IF t \in full \ K
                                        THEN [task[t] EXCEPT !.leased = FALSE]
                                        ELSE task[t]]
            /\ planner' = [planner EXCEPT ![p].include = K]
        /\ UNCHANGED <<now, batch, items, usage, sender, sendLog, calls, failures, aborts>>

\* Mutation of Itemised: the key is on the pair of batch and task only (uk_batch_item).
ItemisedInThisBatch(S) == FALSE /\ S \subseteq Tasks

\* uk_batch_task: no task has two items.
Itemised(S) == \E i \in items : i[2] \in S

\* Mutation of ReadyToCreate: the tasks beyond maxBatchItems are not cut off.
ReadyUncut(p) ==
    planner[p].group = {} /\ planner[p].defer = {} /\ planner[p].include # {}

ReadyToCreate(p) ==
    /\ planner[p].group = {} /\ planner[p].defer = {}
    /\ planner[p].include # {} /\ Cardinality(planner[p].include) <= MaxItems

\* One transaction, for the tasks by id: neither their lease nor their status is looked at.
CreateEmailBatchWithItems(p, b) ==
    LET S == planner[p].include
    IN  /\ ReadyToCreate(p) /\ ~Itemised(S)
        /\ batch[b].status = "unused" /\ \A c \in 1 .. b - 1 : batch[c].status # "unused"
        /\ batch' = [batch EXCEPT ![b] = [status |-> "pending", at |-> planner[p].at]]
        /\ items' = items \cup ({b} \X S)
        /\ task' = [t \in Tasks |-> IF t \in S
                                    THEN [task[t] EXCEPT !.status = "batched", !.batch = b]
                                    ELSE task[t]]
        /\ Planned(p, [planner[p] EXCEPT !.include = {}])
        /\ UNCHANGED <<now, usage, sender, sendLog, calls, failures, aborts>>

\* The unique key refuses the items: the transaction rolls back and the iteration ends.
CreationRefused(p) ==
    /\ ReadyToCreate(p) /\ Itemised(planner[p].include)
    /\ planner' = [planner EXCEPT ![p] = NoPlan]
    /\ UNCHANGED <<now, task, batch, items, usage, sender, sendLog, calls, failures, aborts>>

\* A call fails or the process stops: the leases stay until they run out.
PlannerAborts(p) ==
    /\ planner[p] # NoPlan
    /\ Abort
    /\ planner' = [planner EXCEPT ![p] = NoPlan]
    /\ UNCHANGED <<now, task, batch, items, usage, sender, sendLog, calls, failures>>

-----------------------------------------------------------------------------
(* The sender: SendOnce, sendBatch.                                        *)

\* Mutation of DueBatches: the query asks for batches in sending too.
DueOrSending == {b \in Batches : batch[b].status \in {"pending", "sending"} /\ batch[b].at <= now}

DueBatches == {b \in Batches : batch[b].status = "pending" /\ batch[b].at <= now}

\* A pending batch has no lease: the lease condition of the query is always met.
LeaseEmailBatches(s) ==
    /\ sender[s] = Between({})
    /\ DueBatches # {}
    /\ \E C \in Claims(DueBatches, BatchSize) :
        /\ batch' = [b \in Batches |-> IF b \in C THEN [batch[b] EXCEPT !.status = "sending"] ELSE batch[b]]
        /\ sender' = [sender EXCEPT ![s] = Between(C)]
    /\ UNCHANGED <<now, task, items, usage, planner, sendLog, calls, failures, aborts>>

\* The first layer from l on that Reserve reserves, or none left.
LayerFrom(l) == CHOOSE n \in l .. Len(Layers) + 1 :
                    /\ n <= Len(Layers) => Reserved(n)
                    /\ \A m \in l .. n - 1 : ~Reserved(m)

SendBatch(s, b) ==
    /\ sender[s].pc = "between" /\ b \in sender[s].todo
    /\ sender' = [sender EXCEPT ![s] =
          [pc |-> "reserve", todo |-> @.todo \ {b}, batch |-> b, at |-> now,
           layer |-> LayerFrom(1), until |-> 0]]
    /\ UNCHANGED <<now, task, batch, items, usage, planner, sendLog, calls, failures, aborts>>

\* Everything a batch mails is for one recipient.
BatchRecipient(b) == Recipient[CHOOSE t \in Tasks : <<b, t>> \in items]

\* Mutation of HasRoom: used_count <= limit.
HasRoomOrIsFull(l, k) == Used(k) <= Layers[l].limit

HasRoom(l, k) == Used(k) < Layers[l].limit

\* UPDATE ... WHERE used_count < limit, in a transaction of its own per layer.
ReserveQuota(s) ==
    LET l == sender[s].layer
        k == UsageKey(l, BatchRecipient(sender[s].batch), sender[s].at)
    IN  /\ sender[s].pc = "reserve" /\ l <= Len(Layers)
        /\ HasRoom(l, k)
        /\ usage' = [j \in DOMAIN usage \cup {k} |-> IF j = k THEN Used(k) + 1 ELSE usage[j]]
        /\ sender' = [sender EXCEPT ![s].layer = LayerFrom(l + 1)]
        /\ UNCHANGED <<now, task, batch, items, planner, sendLog, calls, failures, aborts>>

\* What the layers before have counted stays counted.
ReserveRefused(s) ==
    LET l == sender[s].layer
        k == UsageKey(l, BatchRecipient(sender[s].batch), sender[s].at)
    IN  /\ sender[s].pc = "reserve" /\ l <= Len(Layers)
        /\ ~HasRoom(l, k)
        /\ sender' = [sender EXCEPT ![s].pc = "retry", ![s].until = WindowEnd(l, sender[s].at)]
        /\ UNCHANGED <<now, task, batch, items, usage, planner, sendLog, calls, failures, aborts>>

Called(s, ok) == calls' = calls \cup {[batch |-> sender[s].batch, at |-> sender[s].at, ok |-> ok]}

ReadyToCall(s) == sender[s].pc = "reserve" /\ sender[s].layer > Len(Layers)

SendHTML(s) ==
    /\ ReadyToCall(s)
    /\ Called(s, TRUE)
    /\ sender' = [sender EXCEPT ![s].pc = "log"]
    /\ UNCHANGED <<now, task, batch, items, usage, planner, sendLog, failures, aborts>>

\* Mutation of SendHTMLFails: the error of SendHTML is logged and forgotten.
SendHTMLFailsUnnoticed(s) ==
    /\ ReadyToCall(s)
    /\ failures < MaxFailures /\ failures' = failures + 1
    /\ Called(s, FALSE)
    /\ sender' = [sender EXCEPT ![s].pc = "log"]
    /\ UNCHANGED <<now, task, batch, items, usage, planner, sendLog, aborts>>

\* The log of a failed attempt is written or not, unread either way.
SendHTMLFails(s) ==
    /\ ReadyToCall(s)
    /\ failures < MaxFailures /\ failures' = failures + 1
    /\ Called(s, FALSE)
    /\ sender' = [sender EXCEPT ![s].pc = "retry", ![s].until = now + RetryDelay]
    /\ UNCHANGED <<now, task, batch, items, usage, planner, sendLog, aborts>>

CreateSendLog(s) ==
    /\ sender[s].pc = "log"
    /\ sendLog' = sendLog \cup {sender[s].batch}
    /\ sender' = [sender EXCEPT ![s].pc = "mark"]
    /\ UNCHANGED <<now, task, batch, items, usage, planner, calls, failures, aborts>>

\* The batch, and every task whose batch_id it is.
MarkBatchSent(s) ==
    /\ sender[s].pc = "mark"
    /\ batch' = [batch EXCEPT ![sender[s].batch].status = "sent"]
    /\ task' = [t \in Tasks |-> IF task[t].batch = sender[s].batch
                                THEN [task[t] EXCEPT !.status = "sent"]
                                ELSE task[t]]
    /\ sender' = [sender EXCEPT ![s] = Between(@.todo)]
    /\ UNCHANGED <<now, items, usage, planner, sendLog, calls, failures, aborts>>

\* Mutation of MarkBatchRetry: the batch becomes deferred, as the tasks do.
MarkBatchDeferred(s) ==
    /\ sender[s].pc = "retry"
    /\ batch' = [batch EXCEPT ![sender[s].batch] = [status |-> "deferred", at |-> sender[s].until]]
    /\ sender' = [sender EXCEPT ![s] = Between(@.todo)]
    /\ UNCHANGED <<now, task, items, usage, planner, sendLog, calls, failures, aborts>>

MarkBatchRetry(s) ==
    /\ sender[s].pc = "retry"
    /\ batch' = [batch EXCEPT ![sender[s].batch] = [status |-> "pending", at |-> sender[s].until]]
    /\ sender' = [sender EXCEPT ![s] = Between(@.todo)]
    /\ UNCHANGED <<now, task, items, usage, planner, sendLog, calls, failures, aborts>>

\* Any other error ends the iteration, with the batches it had leased; so does a stop.
SenderAborts(s) ==
    /\ sender[s] # Between({})
    /\ Abort
    /\ sender' = [sender EXCEPT ![s] = Between({})]
    /\ UNCHANGED <<now, task, batch, items, usage, planner, sendLog, calls, failures>>

-----------------------------------------------------------------------------
Plan(p) ==
    \/ \E u \in Users : TakeGroup(p, u)
    \/ \E t \in Tasks : EvaluateTask(p, t)
    \/ DeferEmailTasks(p) \/ ReleaseOverflow(p) \/ CreationRefused(p)
    \/ \E b \in Batches : CreateEmailBatchWithItems(p, b)

Send(s) ==
    \/ \E b \in Batches : SendBatch(s, b)
    \/ ReserveQuota(s) \/ ReserveRefused(s) \/ SendHTML(s) \/ CreateSendLog(s)
    \/ MarkBatchSent(s) \/ MarkBatchRetry(s)

Next ==
    \/ Tick
    \/ \E t \in Tasks : CreateEmailTask(t) \/ LeaseRunsOut(t)
    \/ \E p \in Planners : LeaseEmailTasks(p) \/ Plan(p) \/ PlannerAborts(p)
    \/ \E s \in Senders : LeaseEmailBatches(s) \/ Send(s) \/ SendHTMLFails(s) \/ SenderAborts(s)

Spec == Init /\ [][Next]_mailVars

\* Time passes, leases end, loops tick and finish their iterations.
Fairness ==
    /\ WF_mailVars(Tick)
    /\ \A t \in Tasks : WF_mailVars(LeaseRunsOut(t))
    /\ \A p \in Planners : WF_mailVars(LeaseEmailTasks(p)) /\ WF_mailVars(Plan(p))
    /\ \A s \in Senders : WF_mailVars(LeaseEmailBatches(s)) /\ WF_mailVars(Send(s))

FairSpec == Spec /\ Fairness

-----------------------------------------------------------------------------
Mails(t) == {c \in calls : c.ok /\ <<c.batch, t>> \in items}

(* No task is in two batches, whatever planners with expired leases write: *)
(* its row names the one batch that has an item of it, and it is not       *)
(* queued again (uk_batch_task against CreateEmailBatchWithItems).         *)
OneBatchPerTask ==
    \A i \in items : task[i[2]].batch = i[1] /\ task[i[2]].status \notin {"none", "pending"}

(* A batch marked sent, and with it every task marked sent, was accepted   *)
(* by SMTP and has its success on the send log.                            *)
SentIsDelivered ==
    /\ \A b \in Batches : batch[b].status = "sent" =>
          b \in sendLog /\ \E c \in calls : c.batch = b /\ c.ok
    /\ \A t \in Tasks : task[t].status = "sent" => batch[task[t].batch].status = "sent"
    /\ \A b \in sendLog : \E c \in calls : c.batch = b /\ c.ok

(* The calls of SMTP whose quota was reserved in one window of a layer are *)
(* no more than its limit, with any number of senders (ReserveQuota counts *)
(* up under a condition; Reserve stops at the first layer that is full).   *)
QuotaHolds ==
    \A l \in 1 .. Len(Layers) : Reserved(l) =>
        LET key(c) == UsageKey(l, BatchRecipient(c.batch), c.at)
        IN  \A c \in calls : Cardinality({d \in calls : key(d) = key(c)}) <= Layers[l].limit

MailCount == [t \in Tasks |-> Cardinality(Mails(t))]

Promise == INSTANCE MailPromise WITH mailed <- MailCount

(* The queue keeps the promise: a notice SMTP has accepted is not mailed   *)
(* again, and a mail is for one user, through failed calls, refused quota, *)
(* stale planners and stops.                                               *)
OneMailPerNotice == Promise!Spec

\* Being sent by nobody.
Abandoned(b) ==
    /\ batch[b].status = "sending"
    /\ \A s \in Senders : b # sender[s].batch /\ b \notin sender[s].todo

(* A queued task is batched or deferred in the end: planners that stop     *)
(* lose nothing, for the leases run out.                                   *)
EveryTaskPlanned == \A t \in Tasks : task[t].status = "pending" ~> task[t].status # "pending"

(* A batch is sent in the end, through failed calls and refused quota,     *)
(* unless the iteration that sends it ends by an error or a stop.          *)
EveryBatchSent ==
    \A b \in Batches :
        batch[b].status = "pending" ~> (batch[b].status = "sent" \/ Abandoned(b))

(* What the design says of a stop: a batch whose sender is gone is leased  *)
(* again once its lease is over.                                           *)
AbandonedIsTakenOver == \A b \in Batches : Abandoned(b) ~> ~Abandoned(b)
=============================================================================
