----------------------------- MODULE ReviewDigest -----------------------------
(***************************************************************************)
(* The digest that tells the administrator of content waiting for review:  *)
(* the worker loop (internal/worker/moderationemail), the planner and the  *)
(* sender it calls (internal/service/moderationemail) and their tables     *)
(* (internal/repository/moderationemail).                                  *)
(*                                                                         *)
(* Every process runs one loop, which plans and then sends; each database  *)
(* call and the SMTP call is a step.  Times are flags that an action of    *)
(* its own turns when the time has come: available_at, next_attempt_at,    *)
(* lease_until, the cooldown after a mail and the wait for a recipient.    *)
(***************************************************************************)
EXTENDS Naturals, FiniteSets

CONSTANTS
    ReviewTasks,    \* moderation_review_email_task: one for each revision that waits for review
    Loops,          \* the worker loops, one per process
    MaxDigestFaults \* bound on failed calls and stopped processes

ASSUME DigestAssumption ==
    IsFiniteSet(ReviewTasks) /\ IsFiniteSet(Loops) /\ MaxDigestFaults \in Nat

VARIABLES
    reviewTask,     \* the tasks: status, batch, available_at reached, revision still pending
    digest,         \* moderation_review_email_batch
    loop,           \* the loops: next call and what the earlier ones returned
    recipientValid, \* LoadAdminRecipient finds the configured administrator
    cooling,        \* the last successful send is less than MinInterval ago
    digestMails,    \* <<batch, task>>: the mails SMTP accepted listed the task
    digestFaults

digestVars == <<reviewTask, digest, loop, recipientValid, cooling, digestMails, digestFaults>>

\* Every batch takes at least one task, and no task is ever taken twice.
Digests == 1 .. Cardinality(ReviewTasks)

ReviewTaskRecords == [status: {"none", "pending", "batched", "sent", "skipped"},
                      batch: {0} \cup Digests, due: BOOLEAN, waiting: BOOLEAN]
DigestRecords == [status: {"none", "pending", "sending", "sent", "failed"},
                  due: BOOLEAN, leased: BOOLEAN, named: BOOLEAN]
LoopRecords == [pc: {"plan", "open", "due", "recipient", "create",
                     "lease", "persist", "load", "mail", "mark", "skip", "retry"},
                batch: {0} \cup Digests, tasks: SUBSET ReviewTasks, deferred: BOOLEAN]

DigestTypeOK ==
    /\ reviewTask \in [ReviewTasks -> ReviewTaskRecords]
    /\ digest \in [Digests -> DigestRecords]
    /\ loop \in [Loops -> LoopRecords]
    /\ recipientValid \in BOOLEAN /\ cooling \in BOOLEAN
    /\ digestMails \subseteq Digests \X ReviewTasks
    /\ digestFaults \in 0 .. MaxDigestFaults

NewLoop == [pc |-> "plan", batch |-> 0, tasks |-> {}, deferred |-> FALSE]

DigestInit ==
    /\ reviewTask = [t \in ReviewTasks |->
           [status |-> "none", batch |-> 0, due |-> FALSE, waiting |-> FALSE]]
    /\ digest = [b \in Digests |->
           [status |-> "none", due |-> FALSE, leased |-> FALSE, named |-> FALSE]]
    /\ loop = [l \in Loops |-> NewLoop]
    /\ recipientValid \in BOOLEAN
    /\ cooling = FALSE /\ digestMails = {} /\ digestFaults = 0

DigestFault == digestFaults < MaxDigestFaults /\ digestFaults' = digestFaults + 1

GoTo(l, pc) == loop' = [loop EXCEPT ![l].pc = pc]

OpenDigests == {b \in Digests : digest[b].status \in {"pending", "sending"}}

\* The joins on moderation_revision and moderation_item: the revision is still the one to review.
CurrentTasks == {t \in ReviewTasks : reviewTask[t].status = "pending" /\ reviewTask[t].waiting}

-----------------------------------------------------------------------------
(* What other parts of the system do, and time.                            *)

\* ApplyTransition creates a pending revision and its task in one transaction.
SubmitForReview(t) ==
    /\ reviewTask[t].status = "none"
    /\ reviewTask' = [reviewTask EXCEPT ![t].status = "pending", ![t].waiting = TRUE]
    /\ UNCHANGED <<digest, loop, recipientValid, cooling, digestMails, digestFaults>>

\* The revision is approved, rejected, superseded or deleted; later it makes no difference here.
DecideRevision(t) ==
    /\ reviewTask[t].status \in {"pending", "batched"} /\ reviewTask[t].waiting
    /\ reviewTask' = [reviewTask EXCEPT ![t].waiting = FALSE]
    /\ UNCHANGED <<digest, loop, recipientValid, cooling, digestMails, digestFaults>>

\* The administrator gets the role or the verified address the configuration supposes.
RecipientRepaired ==
    /\ ~recipientValid /\ recipientValid' = TRUE
    /\ UNCHANGED <<reviewTask, digest, loop, cooling, digestMails, digestFaults>>

TaskBecomesDue(t) ==
    /\ reviewTask[t].status = "pending" /\ ~reviewTask[t].due
    /\ reviewTask' = [reviewTask EXCEPT ![t].due = TRUE]
    /\ UNCHANGED <<digest, loop, recipientValid, cooling, digestMails, digestFaults>>

CooldownEnds ==
    /\ cooling /\ cooling' = FALSE
    /\ UNCHANGED <<reviewTask, digest, loop, recipientValid, digestMails, digestFaults>>

\* Only the process that failed to find a recipient waits: retryAt is a field of its Planner.
DeferralEnds(l) ==
    /\ loop[l].deferred
    /\ loop' = [loop EXCEPT ![l].deferred = FALSE]
    /\ UNCHANGED <<reviewTask, digest, recipientValid, cooling, digestMails, digestFaults>>

\* A loop is between LeaseBatches and the end of sendBatch.
AtWork(b) == \E l \in Loops : loop[l].batch = b

RetryDue(b) ==
    /\ digest[b].status = "pending" /\ ~digest[b].due
    /\ digest' = [digest EXCEPT ![b].due = TRUE]

LeaseOver(b) ==
    /\ digest[b].status = "sending" /\ digest[b].leased
    /\ digest' = [digest EXCEPT ![b].leased = FALSE]

DigestTimer(b) ==
    /\ ~AtWork(b)
    /\ RetryDue(b) \/ LeaseOver(b)
    /\ UNCHANGED <<reviewTask, loop, recipientValid, cooling, digestMails, digestFaults>>

\* The lease and the retry delay are minutes: a loop that is still at work when they are over
\* counts as a fault.
SlowLoop(b) ==
    /\ AtWork(b) /\ DigestFault
    /\ RetryDue(b) \/ LeaseOver(b)
    /\ UNCHANGED <<reviewTask, loop, recipientValid, cooling, digestMails>>

\* A stop loses the loop's memory, retryAt included.
LoopRestarts(l) ==
    /\ DigestFault
    /\ loop' = [loop EXCEPT ![l] = NewLoop]
    /\ UNCHANGED <<reviewTask, digest, recipientValid, cooling, digestMails>>

-----------------------------------------------------------------------------
(* The planner.  An error ends it, and the loop goes on to the sender.     *)

Planning == {"open", "due", "recipient", "create"}

PlanFails(l) ==
    /\ loop[l].pc \in {"plan"} \cup Planning
    /\ DigestFault
    /\ GoTo(l, "lease")
    /\ UNCHANGED <<reviewTask, digest, recipientValid, cooling, digestMails>>

SkipStaleTasks(l) ==
    /\ loop[l].pc = "plan"
    /\ IF loop[l].deferred
       THEN GoTo(l, "lease") /\ UNCHANGED reviewTask
       ELSE /\ GoTo(l, "open")
            /\ reviewTask' = [t \in ReviewTasks |->
                   IF reviewTask[t].status = "pending" /\ ~reviewTask[t].waiting
                   THEN [reviewTask[t] EXCEPT !.status = "skipped"] ELSE reviewTask[t]]
    /\ UNCHANGED <<digest, recipientValid, cooling, digestMails, digestFaults>>

HasOpenBatch(l) ==
    /\ loop[l].pc = "open"
    /\ GoTo(l, IF OpenDigests = {} THEN "due" ELSE "lease")
    /\ UNCHANGED <<reviewTask, digest, recipientValid, cooling, digestMails, digestFaults>>

\* OldestPendingTask and LastSuccessfulSend.
CheckDue(l) ==
    /\ loop[l].pc = "due"
    /\ GoTo(l, IF ~cooling /\ \E t \in CurrentTasks : reviewTask[t].due
               THEN "recipient" ELSE "lease")
    /\ UNCHANGED <<reviewTask, digest, recipientValid, cooling, digestMails, digestFaults>>

LoadAdminRecipient(l) ==
    /\ loop[l].pc = "recipient"
    /\ loop' = [loop EXCEPT ![l].pc = IF recipientValid THEN "create" ELSE "lease",
                            ![l].deferred = ~recipientValid]
    /\ UNCHANGED <<reviewTask, digest, recipientValid, cooling, digestMails, digestFaults>>

\* The batch with its tasks; b is the id the insert gets.
InsertDigest(b, T) ==
    /\ digest[b].status = "none" /\ \A c \in 1 .. b - 1 : digest[c].status # "none"
    /\ digest' = [digest EXCEPT ![b] =
           [status |-> "pending", due |-> TRUE, leased |-> FALSE, named |-> FALSE]]
    /\ reviewTask' = [t \in ReviewTasks |->
           IF t \in T THEN [reviewTask[t] EXCEPT !.status = "batched", !.batch = b]
           ELSE reviewTask[t]]

\* Mutation of CreateBatch: no second look at the open batches under the locks.
CreateBatchUnchecked(l) ==
    LET T == {t \in CurrentTasks : reviewTask[t].due} IN
    /\ loop[l].pc = "create"
    /\ IF T = {} THEN UNCHANGED <<reviewTask, digest>> ELSE \E b \in Digests : InsertDigest(b, T)
    /\ GoTo(l, "lease")
    /\ UNCHANGED <<recipientValid, cooling, digestMails, digestFaults>>

\* The transaction locks the oldest due tasks first, so that two planners take turns; then it
\* looks for an open batch again.  It does not look at the last successful send again.
CreateBatch(l) ==
    LET T == {t \in CurrentTasks : reviewTask[t].due} IN
    /\ loop[l].pc = "create"
    /\ IF T = {} \/ OpenDigests # {} THEN UNCHANGED <<reviewTask, digest>>
       ELSE \E b \in Digests : InsertDigest(b, T)
    /\ GoTo(l, "lease")
    /\ UNCHANGED <<recipientValid, cooling, digestMails, digestFaults>>

-----------------------------------------------------------------------------
(* The sender.                                                             *)

\* Mutation of Leasable: a batch in "sending" is left to the loop that leased it.
LeasableNew == {b \in OpenDigests : digest[b].due /\ digest[b].status = "pending"}

\* The rows the claiming UPDATE matches; no more than one batch is ever open.
Leasable == {b \in OpenDigests : digest[b].due /\ (digest[b].status = "pending" \/ ~digest[b].leased)}

Claim(b) == digest' = [digest EXCEPT ![b].status = "sending", ![b].leased = TRUE]

LeaseBatches(l) ==
    /\ loop[l].pc = "lease"
    /\ IF Leasable = {} THEN GoTo(l, "plan") /\ UNCHANGED digest
       ELSE \E b \in Leasable :
              /\ Claim(b)
              /\ loop' = [loop EXCEPT ![l].pc = IF digest[b].named THEN "load" ELSE "persist",
                                      ![l].batch = b]
    /\ UNCHANGED <<reviewTask, recipientValid, cooling, digestMails, digestFaults>>

\* The UPDATE fails, or the SELECT that reads the claimed rows back.
LeaseBatchesFails(l) ==
    /\ loop[l].pc = "lease" /\ DigestFault
    /\ UNCHANGED digest \/ \E b \in Leasable : Claim(b)
    /\ GoTo(l, "plan")
    /\ UNCHANGED <<reviewTask, recipientValid, cooling, digestMails>>

Sending(b) == digest[b].status = "sending"

\* No row matches when another loop has closed the batch or put it back: an error like any other.
PersistBatchMessageID(l) ==
    LET b == loop[l].batch IN
    /\ loop[l].pc = "persist"
    /\ IF Sending(b) THEN digest' = [digest EXCEPT ![b].named = TRUE] /\ GoTo(l, "load")
       ELSE UNCHANGED digest /\ GoTo(l, "retry")
    /\ UNCHANGED <<reviewTask, recipientValid, cooling, digestMails, digestFaults>>

LoadBatchTasks(l) ==
    LET T == {t \in ReviewTasks : /\ reviewTask[t].batch = loop[l].batch
                                  /\ reviewTask[t].status = "batched" /\ reviewTask[t].waiting} IN
    /\ loop[l].pc = "load"
    /\ loop' = [loop EXCEPT ![l].pc = IF T = {} THEN "skip" ELSE "mail", ![l].tasks = T]
    /\ UNCHANGED <<reviewTask, digest, recipientValid, cooling, digestMails, digestFaults>>

\* SMTP accepts the mail.
SendHTML(l) ==
    /\ loop[l].pc = "mail"
    /\ digestMails' = digestMails \cup ({loop[l].batch} \X loop[l].tasks)
    /\ loop' = [loop EXCEPT ![l].pc = "mark", ![l].tasks = {}]
    /\ UNCHANGED <<reviewTask, digest, recipientValid, cooling, digestFaults>>

\* An iteration is over: the loop forgets the batch.
Rested(l) == loop' = [loop EXCEPT ![l] = [NewLoop EXCEPT !.deferred = loop[l].deferred]]

\* MarkBatchSent and MarkBatchSkipped close the batch and its tasks in one transaction.
Close(b, status, taskStatus) ==
    /\ digest' = [digest EXCEPT ![b].status = status, ![b].leased = FALSE]
    /\ reviewTask' = [t \in ReviewTasks |->
           IF reviewTask[t].batch = b /\ reviewTask[t].status = "batched"
           THEN [reviewTask[t] EXCEPT !.status = taskStatus] ELSE reviewTask[t]]

MarkBatchSent(l) ==
    /\ loop[l].pc = "mark"
    /\ IF Sending(loop[l].batch)
       THEN Close(loop[l].batch, "sent", "sent") /\ cooling' = TRUE /\ Rested(l)
       ELSE UNCHANGED <<digest, reviewTask, cooling>> /\ GoTo(l, "retry")
    /\ UNCHANGED <<recipientValid, digestMails, digestFaults>>

\* No mail was sent, so no cooldown begins.  When no row matches the error is returned.
MarkBatchSkipped(l) ==
    /\ loop[l].pc = "skip"
    /\ IF Sending(loop[l].batch) THEN Close(loop[l].batch, "failed", "skipped")
       ELSE UNCHANGED <<digest, reviewTask>>
    /\ Rested(l)
    /\ UNCHANGED <<recipientValid, cooling, digestMails, digestFaults>>

\* Mutation of SendCallFails: the answer of SMTP is not looked at.
SendCallFailsUnseen(l) ==
    /\ loop[l].pc \in {"persist", "load", "mail", "mark"} /\ DigestFault
    /\ loop' = [loop EXCEPT ![l].pc = IF @ = "mail" THEN "mark" ELSE "retry", ![l].tasks = {}]
    /\ UNCHANGED <<reviewTask, digest, recipientValid, cooling, digestMails>>

\* A call of sendBatch fails: the batch goes back.
SendCallFails(l) ==
    /\ loop[l].pc \in {"persist", "load", "mail", "mark"} /\ DigestFault
    /\ loop' = [loop EXCEPT ![l].pc = "retry", ![l].tasks = {}]
    /\ UNCHANGED <<reviewTask, digest, recipientValid, cooling, digestMails>>

\* The status is all it asks: a loop whose lease is over takes the batch from the one that has it.
MarkBatchRetry(l) ==
    LET b == loop[l].batch IN
    /\ loop[l].pc = "retry"
    /\ digest' = IF Sending(b)
                 THEN [digest EXCEPT ![b].status = "pending", ![b].due = FALSE, ![b].leased = FALSE]
                 ELSE digest
    /\ Rested(l)
    /\ UNCHANGED <<reviewTask, recipientValid, cooling, digestMails, digestFaults>>

\* MarkBatchSkipped or MarkBatchRetry fails: the batch keeps its lease.
CloseFails(l) ==
    /\ loop[l].pc \in {"skip", "retry"} /\ DigestFault
    /\ Rested(l)
    /\ UNCHANGED <<reviewTask, digest, recipientValid, cooling, digestMails>>

-----------------------------------------------------------------------------
LoopStep(l) ==
    \/ SkipStaleTasks(l) \/ HasOpenBatch(l) \/ CheckDue(l) \/ LoadAdminRecipient(l) \/ CreateBatch(l)
    \/ LeaseBatches(l) \/ PersistBatchMessageID(l) \/ LoadBatchTasks(l) \/ SendHTML(l)
    \/ MarkBatchSent(l) \/ MarkBatchSkipped(l) \/ MarkBatchRetry(l)

TimePasses ==
    \/ CooldownEnds \/ RecipientRepaired
    \/ \E t \in ReviewTasks : TaskBecomesDue(t)
    \/ \E b \in Digests : DigestTimer(b)
    \/ \E l \in Loops : DeferralEnds(l)

DigestNext ==
    \/ \E t \in ReviewTasks : SubmitForReview(t) \/ DecideRevision(t)
    \/ TimePasses
    \/ \E b \in Digests : SlowLoop(b)
    \/ \E l \in Loops :
         \/ LoopStep(l)
         \/ LoopRestarts(l) \/ PlanFails(l) \/ LeaseBatchesFails(l) \/ SendCallFails(l) \/ CloseFails(l)

DigestSpec == DigestInit /\ [][DigestNext]_digestVars

-----------------------------------------------------------------------------
(* Properties.                                                             *)

\* However many processes plan, one batch at most is open, and the tasks in batches are those
\* of the open one: a batch that was sent or given up leaves none behind in "batched", where
\* neither the planner nor a later batch would look for it (CreateBatch, MarkBatchSent,
\* MarkBatchSkipped, MarkBatchRetry).
OneOpenDigest ==
    /\ \A b, c \in OpenDigests : b = c
    /\ \A t \in ReviewTasks : reviewTask[t].status = "batched" => reviewTask[t].batch \in OpenDigests

\* A task counted as reported was listed in a mail that SMTP accepted, unless its revision was
\* decided before the mail was put together; one given up had been decided; and no revision
\* is reported by the mails of two batches, with several loops at work, leases that end under
\* a loop, failed calls and restarts (sendBatch, "同一修订不会被成功报告两次" in the design).
ReportedOnce ==
    /\ \A t \in ReviewTasks :
         /\ reviewTask[t].status = "sent" /\ reviewTask[t].waiting => <<reviewTask[t].batch, t>> \in digestMails
         /\ reviewTask[t].status = "skipped" => ~reviewTask[t].waiting
    /\ \A m, n \in digestMails : m[2] = n[2] => m[1] = n[1]

\* Both: one digest at a time, and it tells the truth (LockPendingBatch, MarkBatchSent).
DigestSound == OneOpenDigest /\ ReportedOnce

\* Every task is reported or given up some day, whatever fails a bounded number of times.
EveryTaskReported ==
    \A t \in ReviewTasks :
        reviewTask[t].status \in {"pending", "batched"} ~> reviewTask[t].status \in {"sent", "skipped"}
=============================================================================
