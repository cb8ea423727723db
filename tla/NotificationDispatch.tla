------------------------ MODULE NotificationDispatch ------------------------
(***************************************************************************)
(* From a notification event to the inbox and the mail queue: the          *)
(* dispatcher loop of every process (internal/service/notification/        *)
(* dispatcher.go) over the tables notification_event, notification_inbox   *)
(* and notification_email_task (internal/repository/notification).         *)
(*                                                                         *)
(* A dispatcher claims events under a lease and delivers them one by one,  *)
(* each database call a step of its own.  A lease may run out at any time  *)
(* while its holder works on: another dispatcher then claims the event     *)
(* too, and both write.  The delay before a retry is "any later time".     *)
(***************************************************************************)
EXTENDS Naturals, Sequences, FiniteSets

CONSTANTS
    SiteEvents,     \* the events the site may publish
    NoEvent,
    Users,
    Recipients,     \* Recipients[e]: the users named in the metadata of e, or the owner of its root
    Explicit,       \* the events whose metadata names the recipients
    Actor,          \* Actor[e]: the user who caused e (one of Users, or anything else for none)
    EmailEligible,  \* the events of the types that are mailed: comment, reply, message
    InAppUsers,     \* the users who take notices in the inbox
    MailUsers,      \* the users with mail switched on and a verified address
    Workers,        \* dispatchers, one per process
    BatchSize,      \* events one tick claims
    MaxDispatchFaults   \* bound on failed calls and stopped processes

ASSUME RecipientsAssumption == NoEvent \notin SiteEvents /\ Recipients \in [SiteEvents -> Seq(Users)]
ASSUME DispatchBoundsAssumption == BatchSize \in Nat \ {0} /\ MaxDispatchFaults \in Nat

VARIABLES
    event,      \* notification_event: dispatch_status, and whether lease_until is still to come
    rootAlive,  \* is the root object of the event there, for OwnerOf
    inbox,      \* notification_inbox: the row of an event and a user, soft deletion included
    task,       \* notification_email_task: the idempotency keys that have a row
    dispatcher, \* the dispatcher loops
    dispatchFaults

dispatchVars == <<event, rootAlive, inbox, task, dispatcher, dispatchFaults>>

EventRecords == [status: {"unpublished", "pending", "processing", "done"}, leased: BOOLEAN]
InboxStates == {"none", "unread", "read", "deleted"}

\* todo: claimed and not begun; pos: the next recipient of the event in hand.
WorkerRecords ==
    [pc: {"between", "deliver", "mail", "retry"}, todo: SUBSET SiteEvents,
     event: SiteEvents \cup {NoEvent}, pos: Nat \ {0}]

Between(S) == [pc |-> "between", todo |-> S, event |-> NoEvent, pos |-> 1]

DispatchTypeOK ==
    /\ event \in [SiteEvents -> EventRecords]
    /\ rootAlive \in [SiteEvents -> BOOLEAN]
    /\ inbox \in [SiteEvents \X Users -> InboxStates]
    /\ task \in SUBSET (SiteEvents \X Users)
    /\ dispatcher \in [Workers -> WorkerRecords]
    /\ dispatchFaults \in 0 .. MaxDispatchFaults

DispatchInit ==
    /\ event = [e \in SiteEvents |-> [status |-> "unpublished", leased |-> FALSE]]
    /\ rootAlive = [e \in SiteEvents |-> TRUE]
    /\ inbox = [x \in SiteEvents \X Users |-> "none"]
    /\ task = {}
    /\ dispatcher = [w \in Workers |-> Between({})]
    /\ dispatchFaults = 0

DispatchFault == dispatchFaults < MaxDispatchFaults /\ dispatchFaults' = dispatchFaults + 1

-----------------------------------------------------------------------------
(* The site and its users.                                                 *)

Publish(e) ==
    /\ event[e].status = "unpublished"
    /\ event' = [event EXCEPT ![e] = [status |-> "pending", leased |-> FALSE]]
    /\ UNCHANGED <<rootAlive, inbox, task, dispatcher, dispatchFaults>>

\* The article, moment or guestbook the event is about is deleted; of an event that names
\* its recipients nobody asks for the root.
DeleteRoot(e) ==
    /\ rootAlive[e] /\ e \notin Explicit
    /\ rootAlive' = [rootAlive EXCEPT ![e] = FALSE]
    /\ UNCHANGED <<event, inbox, task, dispatcher, dispatchFaults>>

\* One notice, or with others of the user in one statement: the effect per row.
MarkInboxRead(x) ==
    /\ inbox[x] = "unread"
    /\ inbox' = [inbox EXCEPT ![x] = "read"]
    /\ UNCHANGED <<event, rootAlive, task, dispatcher, dispatchFaults>>

DeleteInbox(x) ==
    /\ inbox[x] \in {"unread", "read"}
    /\ inbox' = [inbox EXCEPT ![x] = "deleted"]
    /\ UNCHANGED <<event, rootAlive, task, dispatcher, dispatchFaults>>

LeaseRunsOut(e) ==
    /\ event[e].leased
    /\ event' = [event EXCEPT ![e].leased = FALSE]
    /\ UNCHANGED <<rootAlive, inbox, task, dispatcher, dispatchFaults>>

-----------------------------------------------------------------------------
(* The dispatcher.                                                         *)

\* Mutation of Claimable: the events of a dispatcher that is gone are not looked at.
ClaimablePending == {e \in SiteEvents : event[e].status = "pending" /\ ~event[e].leased}

Claimable == {e \in SiteEvents : event[e].status \in {"pending", "processing"} /\ ~event[e].leased}

\* UPDATE ... LIMIT: as many as there are, up to the limit.
Claims(S, limit) ==
    {C \in SUBSET S : Cardinality(C) = IF Cardinality(S) < limit THEN Cardinality(S) ELSE limit}

\* The claim commits; the rows are then read back, unless that read fails.
LeasePendingEvents(w) ==
    /\ dispatcher[w] = Between({})
    /\ Claimable # {}
    /\ \E C \in Claims(Claimable, BatchSize) :
        /\ event' = [e \in SiteEvents |->
              IF e \in C THEN [status |-> "processing", leased |-> TRUE] ELSE event[e]]
        /\ \/ dispatcher' = [dispatcher EXCEPT ![w] = Between(C)] /\ UNCHANGED dispatchFaults
           \/ DispatchFault /\ UNCHANGED dispatcher
    /\ UNCHANGED <<rootAlive, inbox, task>>

\* Recipients are resolved once; the owner of a root that is gone is nobody.
Resolves(e) == e \in Explicit \/ rootAlive[e]

BeginEvent(w, e) ==
    /\ dispatcher[w].pc = "between" /\ e \in dispatcher[w].todo
    /\ dispatcher' = [dispatcher EXCEPT ![w] =
          [pc |-> "deliver", todo |-> @.todo \ {e}, event |-> e,
           pos |-> IF Resolves(e) THEN 1 ELSE Len(Recipients[e]) + 1]]
    /\ UNCHANGED <<event, rootAlive, inbox, task, dispatchFaults>>

ResolveFails(w, e) ==
    /\ dispatcher[w].pc = "between" /\ e \in dispatcher[w].todo
    /\ DispatchFault
    /\ dispatcher' = [dispatcher EXCEPT ![w] =
          [pc |-> "retry", todo |-> @.todo \ {e}, event |-> e, pos |-> 1]]
    /\ UNCHANGED <<event, rootAlive, inbox, task>>

InHand(w) == Recipients[dispatcher[w].event][dispatcher[w].pos]
Left(w) == dispatcher[w].pos <= Len(Recipients[dispatcher[w].event])

Mailed(e, u) == e \in EmailEligible /\ u \in MailUsers

\* Mutation of CreateInbox: INSERT ... ON CONFLICT DO UPDATE.
UpsertInbox(x) == inbox' = [inbox EXCEPT ![x] = "unread"]

\* INSERT ... ON CONFLICT DO NOTHING: a row once there, deleted or not, stays as it is.
CreateInbox(x) == inbox' = [inbox EXCEPT ![x] = IF @ = "none" THEN "unread" ELSE @]

\* The notice of the recipient in hand; the one who caused the event gets none.
DeliverNotice(w) ==
    LET e == dispatcher[w].event
        u == InHand(w)
        self == u = Actor[e]
    IN  /\ dispatcher[w].pc = "deliver" /\ Left(w)
        /\ IF ~self /\ u \in InAppUsers THEN CreateInbox(<<e, u>>) ELSE UNCHANGED inbox
        /\ IF ~self /\ Mailed(e, u)
           THEN dispatcher' = [dispatcher EXCEPT ![w].pc = "mail"]
           ELSE dispatcher' = [dispatcher EXCEPT ![w].pos = @ + 1]
        /\ UNCHANGED <<event, rootAlive, task, dispatchFaults>>

CreateEmailTask(w) ==
    /\ dispatcher[w].pc = "mail"
    /\ task' = task \cup {<<dispatcher[w].event, InHand(w)>>}
    /\ dispatcher' = [dispatcher EXCEPT ![w].pc = "deliver", ![w].pos = @ + 1]
    /\ UNCHANGED <<event, rootAlive, inbox, dispatchFaults>>

\* Both marks go by the id alone, whoever holds the event by now.
Mark(e, status) == event' = [event EXCEPT ![e] = [status |-> status, leased |-> FALSE]]

MarkEventDone(w) ==
    /\ dispatcher[w].pc = "deliver" /\ ~Left(w)
    /\ Mark(dispatcher[w].event, "done")
    /\ dispatcher' = [dispatcher EXCEPT ![w] = Between(@.todo)]
    /\ UNCHANGED <<rootAlive, inbox, task, dispatchFaults>>

\* Mutation of DeliveryFails: the error ends the delivery to this recipient only.
DeliverySkipped(w) ==
    /\ dispatcher[w].pc \in {"deliver", "mail"} /\ Left(w)
    /\ DispatchFault
    /\ dispatcher' = [dispatcher EXCEPT ![w].pc = "deliver", ![w].pos = @ + 1]
    /\ UNCHANGED <<event, rootAlive, inbox, task>>

\* A read or a write of the delivery failed.
DeliveryFails(w) ==
    /\ dispatcher[w].pc \in {"deliver", "mail"} /\ Left(w)
    /\ DispatchFault
    /\ dispatcher' = [dispatcher EXCEPT ![w].pc = "retry"]
    /\ UNCHANGED <<event, rootAlive, inbox, task>>

\* The fault that failed the delivery may fail this call too; its error is dropped and the
\* event waits for its lease.
MarkEventRetry(w) ==
    /\ dispatcher[w].pc = "retry"
    /\ Mark(dispatcher[w].event, "pending") \/ UNCHANGED event
    /\ dispatcher' = [dispatcher EXCEPT ![w] = Between(@.todo)]
    /\ UNCHANGED <<rootAlive, inbox, task, dispatchFaults>>

\* The process stops, or MarkEventDone fails: the rest of the claim is dropped, its leases stay.
Abandon(w) ==
    /\ dispatcher[w] # Between({})
    /\ DispatchFault
    /\ dispatcher' = [dispatcher EXCEPT ![w] = Between({})]
    /\ UNCHANGED <<event, rootAlive, inbox, task>>

-----------------------------------------------------------------------------
Work(w) ==
    \/ \E e \in SiteEvents : BeginEvent(w, e)
    \/ DeliverNotice(w) \/ CreateEmailTask(w) \/ MarkEventDone(w) \/ MarkEventRetry(w)

DispatchNext ==
    \/ \E e \in SiteEvents : Publish(e) \/ DeleteRoot(e) \/ LeaseRunsOut(e)
    \/ \E x \in SiteEvents \X Users : MarkInboxRead(x) \/ DeleteInbox(x)
    \/ \E w \in Workers :
        \/ LeasePendingEvents(w) \/ Work(w) \/ DeliveryFails(w) \/ Abandon(w)
        \/ \E e \in SiteEvents : ResolveFails(w, e)

DispatchSpec == DispatchInit /\ [][DispatchNext]_dispatchVars

\* Every loop ticks and finishes its iterations; every lease ends.
DispatchFairness ==
    /\ \A w \in Workers : WF_dispatchVars(LeasePendingEvents(w)) /\ WF_dispatchVars(Work(w))
    /\ \A e \in SiteEvents : WF_dispatchVars(LeaseRunsOut(e))

DispatchFairSpec == DispatchSpec /\ DispatchFairness

-----------------------------------------------------------------------------
\* What e owes u has been written.
Delivered(e, u) ==
    u # Actor[e] =>
        /\ u \in InAppUsers => inbox[<<e, u>>] # "none"
        /\ Mailed(e, u) => <<e, u>> \in task

(* An event marked done (MarkEventDone, by whichever dispatcher outlived   *)
(* or inherited its lease) has left every recipient the notice and the     *)
(* mail task due, unless its root was deleted before it was resolved.      *)
DoneMeansDelivered ==
    \A e \in SiteEvents :
        event[e].status = "done" /\ Resolves(e) =>
            \A i \in 1 .. Len(Recipients[e]) : Delivered(e, Recipients[e][i])

(* A notice its reader has read or deleted stays so, however often its     *)
(* event is dispatched again (uk_inbox_recipient_event covers soft         *)
(* deleted rows).                                                          *)
NoticesNeverReturn ==
    [][\A x \in SiteEvents \X Users :
          /\ inbox[x] = "deleted" => inbox'[x] = "deleted"
          /\ inbox[x] = "read" => inbox'[x] # "unread"]_dispatchVars

(* Every published event is dispatched for good, across failures, stopped  *)
(* dispatchers and leases that run out under a slow one.                   *)
EveryEventDispatched ==
    \A e \in SiteEvents : event[e].status = "pending" ~> [](event[e].status = "done")
=============================================================================
