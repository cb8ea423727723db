---------------------- MODULE NotificationDispatchProofs ----------------------
(* Theorems about NotificationDispatch for every set of events, users and     *)
(* dispatchers, however their leases overlap.                                 *)
EXTENDS NotificationDispatch, TLAPS

(***************************************************************************)
(* What a dispatcher in the middle of an event has behind it.  It is not   *)
(* about the lease, which may be another's by now: whoever wrote them, the *)
(* rows of the recipients before pos are there, and no step takes a row    *)
(* away.                                                                   *)
(***************************************************************************)
NoticeWritten(e, u) == u # Actor[e] /\ u \in InAppUsers => inbox[<<e, u>>] # "none"

DeliveredBefore(e, n) == \A i \in 1 .. n : Delivered(e, Recipients[e][i])

Holds(w) ==
    LET k == dispatcher[w]
    IN  /\ k.pc # "between" => k.event \in SiteEvents /\ k.pos \in 1 .. Len(Recipients[k.event]) + 1
        /\ k.pc \in {"deliver", "mail"} /\ Resolves(k.event) => DeliveredBefore(k.event, k.pos - 1)
        /\ k.pc = "mail" => Left(w) /\ NoticeWritten(k.event, InHand(w))

DispatchInv ==
    /\ DispatchTypeOK
    /\ \A w \in Workers : Holds(w)
    /\ DoneMeansDelivered

LEMMA RecipientType ==
    ASSUME NEW e \in SiteEvents, NEW i \in 1 .. Len(Recipients[e])
    PROVE  Recipients[e][i] \in Users
  <1>1. Recipients[e] \in Seq(Users)
    BY RecipientsAssumption
  <1> QED
    BY <1>1

LEMMA RecipientCount == ASSUME NEW e \in SiteEvents PROVE Len(Recipients[e]) \in Nat
  <1>1. Recipients[e] \in Seq(Users)
    BY RecipientsAssumption
  <1> QED
    BY <1>1

LEMMA BetweenType == ASSUME NEW S \in SUBSET SiteEvents PROVE Between(S) \in WorkerRecords
  BY DEF Between, WorkerRecords

\* No step takes a notice or a mail task away, or brings a root back.
RowsKept ==
    /\ \A x \in SiteEvents \X Users : inbox[x] # "none" => inbox'[x] # "none"
    /\ task \subseteq task'
    /\ \A e \in SiteEvents : rootAlive'[e] => rootAlive[e]

LEMMA DeliveredKept ==
    ASSUME RowsKept, NEW e \in SiteEvents, NEW u \in Users, Delivered(e, u)
    PROVE  Delivered(e, u)'
  BY DEF RowsKept, Delivered, Mailed

LEMMA DeliveredBeforeKept ==
    ASSUME RowsKept, NEW e \in SiteEvents, NEW n \in Nat, n <= Len(Recipients[e]), DeliveredBefore(e, n)
    PROVE  DeliveredBefore(e, n)'
  <1> SUFFICES ASSUME NEW i \in 1 .. n PROVE Delivered(e, Recipients[e][i])'
    BY DEF DeliveredBefore
  <1>1. i \in 1 .. Len(Recipients[e])
    BY RecipientCount
  <1> QED
    BY <1>1, RecipientType, DeliveredKept DEF DeliveredBefore

LEMMA ResolvesKept ==
    ASSUME RowsKept, NEW e \in SiteEvents, Resolves(e)' PROVE Resolves(e)
  BY DEF RowsKept, Resolves

\* A dispatcher that does not move keeps what it holds while others write.
LEMMA HoldsKept ==
    ASSUME DispatchTypeOK, RowsKept, NEW w \in Workers, dispatcher'[w] = dispatcher[w], Holds(w)
    PROVE  Holds(w)'
  <1> DEFINE k == dispatcher[w]
  <1>0. k \in WorkerRecords
    BY DEF DispatchTypeOK
  <1>1. CASE k.pc = "between"
    BY <1>1 DEF Holds
  <1>2. CASE k.pc # "between"
    <2>1. k.event \in SiteEvents /\ k.pos \in 1 .. Len(Recipients[k.event]) + 1
      BY <1>2 DEF Holds
    <2>2. k.pos - 1 \in Nat /\ k.pos - 1 <= Len(Recipients[k.event])
      BY <2>1, RecipientCount
    <2>3. k.pc \in {"deliver", "mail"} /\ Resolves(k.event)' => DeliveredBefore(k.event, k.pos - 1)'
      BY <2>1, <2>2, ResolvesKept, DeliveredBeforeKept DEF Holds
    <2>4. k.pc = "mail" => Left(w) /\ NoticeWritten(k.event, InHand(w))
      BY DEF Holds
    <2>5. k.pc = "mail" => InHand(w) \in Users
      BY <2>1, <2>4, RecipientType, RecipientCount DEF InHand, Left
    <2>6. k.pc = "mail" => NoticeWritten(k.event, InHand(w))'
      BY <2>1, <2>4, <2>5 DEF RowsKept, NoticeWritten, InHand
    <2> QED
      BY <2>1, <2>3, <2>4, <2>6 DEF Holds, Left
  <1> QED
    BY <1>1, <1>2

\* An event stays done as it was if nobody marks it.
LEMMA DoneKept ==
    ASSUME DispatchTypeOK, RowsKept, DoneMeansDelivered,
           \A e \in SiteEvents : event'[e].status = "done" => event[e].status = "done"
    PROVE  DoneMeansDelivered'
  <1> SUFFICES ASSUME NEW e \in SiteEvents, event'[e].status = "done", Resolves(e)',
                      NEW i \in 1 .. Len(Recipients[e])
               PROVE  Delivered(e, Recipients[e][i])'
    BY DEF DoneMeansDelivered
  <1>1. Delivered(e, Recipients[e][i])
    BY ResolvesKept DEF DoneMeansDelivered
  <1> QED
    BY <1>1, RecipientType, DeliveredKept

LEMMA DispatchInitInv == DispatchInit => DispatchInv
  <1> SUFFICES ASSUME DispatchInit PROVE DispatchInv
    OBVIOUS
  <1>1. \A w \in Workers : dispatcher[w] = Between({})
    BY DEF DispatchInit
  <1>2. DispatchTypeOK
    BY BetweenType, DispatchBoundsAssumption DEF DispatchInit, DispatchTypeOK, EventRecords, InboxStates
  <1>3. \A w \in Workers : Holds(w)
    BY <1>1 DEF Holds, Between
  <1>4. DoneMeansDelivered
    BY DEF DispatchInit, DoneMeansDelivered
  <1> QED
    BY <1>2, <1>3, <1>4 DEF DispatchInv

-----------------------------------------------------------------------------
(* One lemma per group of steps.                                           *)

LEMMA SiteStep ==
    ASSUME DispatchInv,
           \/ \E e \in SiteEvents : Publish(e) \/ DeleteRoot(e) \/ LeaseRunsOut(e)
           \/ \E x \in SiteEvents \X Users : MarkInboxRead(x) \/ DeleteInbox(x)
    PROVE  DispatchInv'
  <1>1. DispatchTypeOK /\ DoneMeansDelivered /\ \A w \in Workers : Holds(w)
    BY DEF DispatchInv
  <1>2. UNCHANGED <<dispatcher, task, dispatchFaults>>
    BY DEF Publish, DeleteRoot, LeaseRunsOut, MarkInboxRead, DeleteInbox
  <1> DEFINE Harmless == /\ DispatchTypeOK' /\ RowsKept
                         /\ \A e \in SiteEvents : event'[e].status = "done" => event[e].status = "done"
  <1>3. Harmless
    <2>1. ASSUME NEW e \in SiteEvents, Publish(e) \/ LeaseRunsOut(e) PROVE Harmless
      <3>1. event' \in [SiteEvents -> EventRecords]
        <4>1. event \in [SiteEvents -> EventRecords]
          BY <1>1 DEF DispatchTypeOK
        <4>2. CASE Publish(e)
          <5>1. [status |-> "pending", leased |-> FALSE] \in EventRecords
            BY DEF EventRecords
          <5> QED
            BY <4>1, <4>2, <5>1 DEF Publish
        <4>3. CASE LeaseRunsOut(e)
          <5>1. [event[e] EXCEPT !.leased = FALSE] \in EventRecords
            BY <4>1 DEF EventRecords
          <5> QED
            BY <4>1, <4>3, <5>1 DEF LeaseRunsOut
        <4> QED
          BY <2>1, <4>2, <4>3
      <3>2. UNCHANGED <<rootAlive, inbox, task, dispatcher, dispatchFaults>>
        BY <2>1 DEF Publish, LeaseRunsOut
      <3>3. \A d \in SiteEvents : event'[d].status = "done" => event[d].status = "done"
        BY <1>1, <2>1 DEF DispatchTypeOK, Publish, LeaseRunsOut, EventRecords
      <3> QED
        BY <1>1, <3>1, <3>2, <3>3 DEF DispatchTypeOK, RowsKept
    <2>2. ASSUME NEW e \in SiteEvents, DeleteRoot(e) PROVE Harmless
      BY <1>1, <1>2, <2>2 DEF DispatchTypeOK, RowsKept, DeleteRoot
    <2>3. ASSUME NEW x \in SiteEvents \X Users, MarkInboxRead(x) \/ DeleteInbox(x) PROVE Harmless
      BY <1>1, <1>2, <2>3 DEF DispatchTypeOK, RowsKept, MarkInboxRead, DeleteInbox, InboxStates
    <2> QED
      BY <2>1, <2>2, <2>3
  <1>4. \A w \in Workers : Holds(w)'
    BY <1>1, <1>2, <1>3, HoldsKept
  <1>5. DoneMeansDelivered'
    BY <1>1, <1>3, DoneKept
  <1> QED
    BY <1>3, <1>4, <1>5 DEF DispatchInv

\* A step of one dispatcher that marks nothing done.
LEMMA OneMoves ==
    ASSUME DispatchInv, DispatchTypeOK', RowsKept, NEW w \in Workers, Holds(w)',
           \A v \in Workers \ {w} : dispatcher'[v] = dispatcher[v],
           \A e \in SiteEvents : event'[e].status = "done" => event[e].status = "done"
    PROVE  DispatchInv'
  <1>1. DispatchTypeOK /\ DoneMeansDelivered /\ \A v \in Workers : Holds(v)
    BY DEF DispatchInv
  <1>2. \A v \in Workers \ {w} : Holds(v)'
    BY <1>1, HoldsKept
  <1>3. DoneMeansDelivered'
    BY <1>1, DoneKept
  <1> QED
    BY <1>2, <1>3 DEF DispatchInv

\* What is in hand in the middle of an event.
LEMMA HeldEvent ==
    ASSUME DispatchInv, NEW w \in Workers, dispatcher[w].pc # "between"
    PROVE  /\ dispatcher \in [Workers -> WorkerRecords] /\ dispatcher[w].event \in SiteEvents
           /\ dispatcher[w].pos \in Nat \ {0} /\ dispatcher[w].pos <= Len(Recipients[dispatcher[w].event]) + 1
           /\ Left(w) => InHand(w) \in Users
  <1>1. dispatcher \in [Workers -> WorkerRecords] /\ Holds(w)
    BY DEF DispatchInv, DispatchTypeOK
  <1>2. /\ dispatcher[w].event \in SiteEvents
        /\ dispatcher[w].pos \in 1 .. Len(Recipients[dispatcher[w].event]) + 1
    BY <1>1 DEF Holds
  <1>3. Len(Recipients[dispatcher[w].event]) \in Nat
    BY <1>2, RecipientCount
  <1> QED
    BY <1>1, <1>2, <1>3, RecipientType DEF Left, InHand

LEMMA LeaseStep ==
    ASSUME DispatchInv, NEW w \in Workers, LeasePendingEvents(w)
    PROVE  DispatchInv'
  <1>1. DispatchTypeOK
    BY DEF DispatchInv
  <1>2. PICK C \in SUBSET SiteEvents :
          /\ event' = [e \in SiteEvents |->
                IF e \in C THEN [status |-> "processing", leased |-> TRUE] ELSE event[e]]
          /\ \/ dispatcher' = [dispatcher EXCEPT ![w] = Between(C)] /\ UNCHANGED dispatchFaults
             \/ DispatchFault /\ UNCHANGED dispatcher
    BY DEF LeasePendingEvents, Claims, Claimable
  <1>3. dispatcher' = [dispatcher EXCEPT ![w] = Between(C)] \/ dispatcher' = dispatcher
    BY <1>2
  <1>4. UNCHANGED <<rootAlive, inbox, task>> /\ dispatcher[w] = Between({})
    BY DEF LeasePendingEvents
  <1>5. event' \in [SiteEvents -> EventRecords]
    BY <1>1, <1>2 DEF DispatchTypeOK, EventRecords
  <1>6. dispatcher' \in [Workers -> WorkerRecords]
    BY <1>1, <1>3, BetweenType DEF DispatchTypeOK
  <1>7. dispatchFaults' \in 0 .. MaxDispatchFaults
    BY <1>1, <1>2, DispatchBoundsAssumption DEF DispatchTypeOK, DispatchFault
  <1>8. DispatchTypeOK' /\ RowsKept
    BY <1>1, <1>4, <1>5, <1>6, <1>7 DEF DispatchTypeOK, RowsKept
  <1>9. dispatcher'[w].pc = "between"
    BY <1>1, <1>3, <1>4 DEF DispatchTypeOK, Between
  <1>10. \A e \in SiteEvents : event'[e].status = "done" => event[e].status = "done"
    BY <1>2
  <1>11. \A v \in Workers \ {w} : dispatcher'[v] = dispatcher[v]
    BY <1>1, <1>3 DEF DispatchTypeOK
  <1>12. Holds(w)'
    BY <1>9 DEF Holds
  <1> QED
    BY <1>8, <1>10, <1>11, <1>12, OneMoves

\* Nothing is behind a dispatcher that begins; of a root that is gone nothing is due.
LEMMA BeginStep ==
    ASSUME DispatchInv, NEW w \in Workers, NEW e \in SiteEvents, BeginEvent(w, e) \/ ResolveFails(w, e)
    PROVE  DispatchInv'
  <1>1. DispatchTypeOK /\ Len(Recipients[e]) \in Nat
    BY RecipientCount DEF DispatchInv
  <1>2. UNCHANGED <<event, rootAlive, inbox, task>>
    BY DEF BeginEvent, ResolveFails
  <1>3. PICK c \in {"deliver", "retry"}, n \in Nat \ {0} :
          /\ dispatcher' = [dispatcher EXCEPT ![w] =
                [pc |-> c, todo |-> @.todo \ {e}, event |-> e, pos |-> n]]
          /\ n <= Len(Recipients[e]) + 1
          /\ c = "deliver" /\ Resolves(e) => n = 1
    BY <1>1 DEF BeginEvent, ResolveFails
  <1>4. dispatcher[w].todo \in SUBSET SiteEvents
    BY <1>1 DEF DispatchTypeOK, WorkerRecords
  <1>5. [pc |-> c, todo |-> dispatcher[w].todo \ {e}, event |-> e, pos |-> n] \in WorkerRecords
    BY <1>4 DEF WorkerRecords
  <1>6. dispatcher' \in [Workers -> WorkerRecords]
    BY <1>1, <1>3, <1>5 DEF DispatchTypeOK
  <1>7. dispatchFaults' \in 0 .. MaxDispatchFaults
    BY <1>1, DispatchBoundsAssumption DEF DispatchTypeOK, DispatchFault, BeginEvent, ResolveFails
  <1>8. DispatchTypeOK' /\ RowsKept
    BY <1>1, <1>2, <1>6, <1>7 DEF DispatchTypeOK, RowsKept
  <1>9. dispatcher'[w] = [pc |-> c, todo |-> dispatcher[w].todo \ {e}, event |-> e, pos |-> n]
    BY <1>1, <1>3 DEF DispatchTypeOK
  <1>10. Holds(w)'
    <2>1. c = "deliver" /\ Resolves(e)' => DeliveredBefore(e, n - 1)'
      BY <1>2, <1>3 DEF Resolves, DeliveredBefore
    <2> QED
      BY <1>1, <1>3, <1>9, <2>1 DEF Holds
  <1>11. \A v \in Workers \ {w} : dispatcher'[v] = dispatcher[v]
    BY <1>1, <1>3 DEF DispatchTypeOK
  <1> QED
    BY <1>2, <1>8, <1>10, <1>11, OneMoves

\* One more recipient is done with.
LEMMA OneMoreDelivered ==
    ASSUME RowsKept, NEW e \in SiteEvents, NEW n \in Nat \ {0}, n <= Len(Recipients[e]),
           DeliveredBefore(e, n - 1), Delivered(e, Recipients[e][n])'
    PROVE  DeliveredBefore(e, n)'
  <1>1. n - 1 \in Nat /\ n - 1 <= Len(Recipients[e])
    BY RecipientCount
  <1>2. DeliveredBefore(e, n - 1)'
    BY <1>1, DeliveredBeforeKept
  <1>3. \A i \in 1 .. n : i = n \/ i \in 1 .. n - 1
    OBVIOUS
  <1> QED
    BY <1>2, <1>3 DEF DeliveredBefore

LEMMA NoticeStep ==
    ASSUME DispatchInv, NEW w \in Workers, DeliverNotice(w)
    PROVE  DispatchInv'
  <1>0. dispatcher[w].pc = "deliver" /\ Left(w)
    BY DEF DeliverNotice
  <1>1. DispatchTypeOK /\ Holds(w) /\ dispatcher \in [Workers -> WorkerRecords]
    BY DEF DispatchInv, DispatchTypeOK
  <1>2. PICK k \in WorkerRecords, e \in SiteEvents, u \in Users :
            k = dispatcher[w] /\ e = k.event /\ u = InHand(w)
    BY <1>0, <1>1, HeldEvent
  <1> DEFINE mail == u # Actor[e] /\ Mailed(e, u)
             next == IF mail THEN [k EXCEPT !.pc = "mail"] ELSE [k EXCEPT !.pos = k.pos + 1]
  <1>3. Len(Recipients[e]) \in Nat /\ k.pos \in 1 .. Len(Recipients[e]) /\ u = Recipients[e][k.pos]
    BY <1>0, <1>2, HeldEvent, RecipientCount DEF Left, InHand
  <1>4. /\ UNCHANGED <<event, rootAlive, task, dispatchFaults>>
        /\ IF u # Actor[e] /\ u \in InAppUsers THEN CreateInbox(<<e, u>>) ELSE UNCHANGED inbox
    BY <1>2 DEF DeliverNotice
  <1>5. inbox' \in [SiteEvents \X Users -> InboxStates]
    BY <1>1, <1>4 DEF DispatchTypeOK, CreateInbox, InboxStates
  <1>6. \A x \in SiteEvents \X Users : inbox[x] # "none" => inbox'[x] # "none"
    BY <1>1, <1>4 DEF DispatchTypeOK, CreateInbox
  <1>7. RowsKept
    BY <1>4, <1>6 DEF RowsKept
  <1>8. NoticeWritten(e, u)'
    <2>1. CASE u # Actor[e] /\ u \in InAppUsers
      <3>1. inbox' = [inbox EXCEPT ![<<e, u>>] = IF inbox[<<e, u>>] = "none" THEN "unread" ELSE inbox[<<e, u>>]]
        BY <1>4, <2>1 DEF CreateInbox
      <3>2. inbox'[<<e, u>>] # "none"
        BY <1>1, <3>1 DEF DispatchTypeOK
      <3> QED
        BY <3>2 DEF NoticeWritten
    <2>2. CASE ~(u # Actor[e] /\ u \in InAppUsers)
      BY <2>2 DEF NoticeWritten
    <2> QED
      BY <2>1, <2>2
  <1>9. next \in WorkerRecords
    <2>1. k.pos + 1 \in Nat \ {0}
      BY <1>3
    <2> QED
      BY <2>1 DEF WorkerRecords
  <1>10. /\ dispatcher' \in [Workers -> WorkerRecords] /\ dispatcher'[w] = next
         /\ \A v \in Workers \ {w} : dispatcher'[v] = dispatcher[v]
    <2>1. dispatcher' = [dispatcher EXCEPT ![w] = next]
      <3>1. CASE mail
        BY <1>1, <1>2, <3>1 DEF DeliverNotice
      <3>2. CASE ~mail
        BY <1>1, <1>2, <3>2 DEF DeliverNotice
      <3> QED
        BY <3>1, <3>2
    <2> HIDE DEF next
    <2> QED
      BY <1>1, <1>9, <2>1
  <1>11. DispatchTypeOK'
    BY <1>1, <1>4, <1>5, <1>10 DEF DispatchTypeOK
  <1>12. Resolves(e)' => DeliveredBefore(e, k.pos - 1)
    BY <1>0, <1>1, <1>2, <1>7, ResolvesKept DEF Holds
  <1>13. Holds(w)'
    <2>1. CASE mail
      <3>1. k.pos - 1 \in Nat /\ k.pos - 1 <= Len(Recipients[e])
        BY <1>3
      <3>2. dispatcher'[w].pc = "mail" /\ dispatcher'[w].event = e /\ dispatcher'[w].pos = k.pos
        BY <1>2, <1>10, <2>1 DEF WorkerRecords
      <3>3. Left(w)' /\ InHand(w)' = u
        BY <1>3, <3>2 DEF Left, InHand
      <3>4. Resolves(e)' => DeliveredBefore(e, k.pos - 1)'
        BY <1>7, <1>12, <3>1, DeliveredBeforeKept
      <3>5. k.pos \in 1 .. Len(Recipients[e]) + 1
        BY <1>3
      <3> QED
        BY <1>8, <3>2, <3>3, <3>4, <3>5 DEF Holds
    <2>2. CASE ~mail
      <3>1. dispatcher'[w].pc = "deliver" /\ dispatcher'[w].event = e /\ dispatcher'[w].pos = k.pos + 1
        BY <1>0, <1>2, <1>10, <2>2 DEF WorkerRecords
      <3>2. Delivered(e, u)'
        BY <1>8, <2>2 DEF Delivered, NoticeWritten, Mailed
      <3>3. Resolves(e)' => DeliveredBefore(e, k.pos)'
        BY <1>3, <1>7, <1>12, <3>2, OneMoreDelivered
      <3>4. k.pos + 1 \in 1 .. Len(Recipients[e]) + 1 /\ (k.pos + 1) - 1 = k.pos
        BY <1>3
      <3> QED
        BY <3>1, <3>3, <3>4 DEF Holds
    <2> QED
      BY <2>1, <2>2
  <1> QED
    BY <1>4, <1>7, <1>10, <1>11, <1>13, OneMoves

LEMMA TaskStep ==
    ASSUME DispatchInv, NEW w \in Workers, CreateEmailTask(w)
    PROVE  DispatchInv'
  <1>0. dispatcher[w].pc = "mail"
    BY DEF CreateEmailTask
  <1>1. DispatchTypeOK /\ Holds(w) /\ dispatcher \in [Workers -> WorkerRecords] /\ Left(w)
    BY <1>0 DEF DispatchInv, DispatchTypeOK, Holds
  <1>2. PICK k \in WorkerRecords, e \in SiteEvents, u \in Users :
            k = dispatcher[w] /\ e = k.event /\ u = InHand(w)
    BY <1>0, <1>1, HeldEvent
  <1> DEFINE next == [k EXCEPT !.pc = "deliver", !.pos = k.pos + 1]
  <1>3. Len(Recipients[e]) \in Nat /\ k.pos \in 1 .. Len(Recipients[e]) /\ u = Recipients[e][k.pos]
    BY <1>0, <1>1, <1>2, HeldEvent, RecipientCount DEF Left, InHand
  <1>4. /\ UNCHANGED <<event, rootAlive, inbox, dispatchFaults>>
        /\ task' = task \cup {<<e, u>>}
        /\ dispatcher' = [dispatcher EXCEPT ![w] = next]
    BY <1>1, <1>2 DEF CreateEmailTask
  <1>5. RowsKept
    BY <1>4 DEF RowsKept
  <1>6. next \in WorkerRecords
    <2>1. k.pos + 1 \in Nat \ {0}
      BY <1>3
    <2> QED
      BY <2>1 DEF WorkerRecords
  <1>7. /\ dispatcher' \in [Workers -> WorkerRecords] /\ dispatcher'[w] = next
        /\ \A v \in Workers \ {w} : dispatcher'[v] = dispatcher[v]
    BY <1>1, <1>4, <1>6
  <1>8. task' \in SUBSET (SiteEvents \X Users)
    BY <1>1, <1>4 DEF DispatchTypeOK
  <1>9. DispatchTypeOK'
    BY <1>1, <1>4, <1>7, <1>8 DEF DispatchTypeOK
  <1>10. Delivered(e, u)'
    <2>1. NoticeWritten(e, u)
      BY <1>0, <1>1, <1>2 DEF Holds
    <2> QED
      BY <1>4, <2>1 DEF NoticeWritten, Delivered
  <1>11. Resolves(e)' => DeliveredBefore(e, k.pos - 1)
    BY <1>0, <1>1, <1>2, <1>5, ResolvesKept DEF Holds
  <1>12. Resolves(e)' => DeliveredBefore(e, k.pos)'
    BY <1>3, <1>5, <1>10, <1>11, OneMoreDelivered
  <1>13. dispatcher'[w].pc = "deliver" /\ dispatcher'[w].event = e /\ dispatcher'[w].pos = k.pos + 1
    BY <1>2, <1>7 DEF WorkerRecords
  <1>14. k.pos + 1 \in 1 .. Len(Recipients[e]) + 1 /\ (k.pos + 1) - 1 = k.pos
    BY <1>3
  <1>15. Holds(w)'
    BY <1>12, <1>13, <1>14 DEF Holds
  <1> QED
    BY <1>4, <1>5, <1>7, <1>9, <1>15, OneMoves

\* Whoever marks the event done has every recipient behind it.
LEMMA DoneStep ==
    ASSUME DispatchInv, NEW w \in Workers, MarkEventDone(w)
    PROVE  DispatchInv'
  <1> DEFINE k == dispatcher[w]
             e == k.event
  <1>0. k.pc = "deliver" /\ ~Left(w)
    BY DEF MarkEventDone
  <1>1. DispatchTypeOK /\ DoneMeansDelivered /\ \A v \in Workers : Holds(v)
    BY DEF DispatchInv
  <1>2. /\ dispatcher \in [Workers -> WorkerRecords] /\ e \in SiteEvents
        /\ k.pos \in Nat \ {0} /\ k.pos <= Len(Recipients[e]) + 1
    BY <1>0, HeldEvent
  <1>3. k.pos - 1 = Len(Recipients[e])
    BY <1>0, <1>2, RecipientCount DEF Left
  <1>4. /\ UNCHANGED <<rootAlive, inbox, task, dispatchFaults>>
        /\ event' = [event EXCEPT ![e] = [status |-> "done", leased |-> FALSE]]
        /\ dispatcher' = [dispatcher EXCEPT ![w] = Between(k.todo)]
    BY DEF MarkEventDone, Mark
  <1>5. event' \in [SiteEvents -> EventRecords]
    BY <1>1, <1>4 DEF DispatchTypeOK, EventRecords
  <1>6. dispatcher' \in [Workers -> WorkerRecords] /\ dispatcher'[w] = Between(k.todo)
    BY <1>2, <1>4, BetweenType DEF WorkerRecords
  <1>7. DispatchTypeOK' /\ RowsKept
    BY <1>1, <1>4, <1>5, <1>6 DEF DispatchTypeOK, RowsKept
  <1>8. \A v \in Workers : Holds(v)'
    <2>1. Holds(w)'
      BY <1>6 DEF Holds, Between
    <2>2. \A v \in Workers \ {w} : Holds(v)'
      BY <1>1, <1>2, <1>4, <1>7, HoldsKept
    <2> QED
      BY <2>1, <2>2
  <1>9. Resolves(e) => \A i \in 1 .. Len(Recipients[e]) : Delivered(e, Recipients[e][i])
    BY <1>0, <1>1, <1>3 DEF Holds, DeliveredBefore
  <1>10. DoneMeansDelivered'
    <2> SUFFICES ASSUME NEW d \in SiteEvents, event'[d].status = "done", Resolves(d)',
                        NEW i \in 1 .. Len(Recipients[d])
                 PROVE  Delivered(d, Recipients[d][i])'
      BY DEF DoneMeansDelivered
    <2>1. Resolves(d)
      BY <1>7, ResolvesKept
    <2>2. d = e \/ event[d].status = "done"
      BY <1>1, <1>4 DEF DispatchTypeOK
    <2>3. Delivered(d, Recipients[d][i])
      BY <1>1, <1>9, <2>1, <2>2 DEF DoneMeansDelivered
    <2> QED
      BY <1>7, <2>3, RecipientType, DeliveredKept
  <1> QED
    BY <1>7, <1>8, <1>10 DEF DispatchInv

LEMMA SetbackStep ==
    ASSUME DispatchInv, NEW w \in Workers, DeliveryFails(w) \/ MarkEventRetry(w) \/ Abandon(w)
    PROVE  DispatchInv'
  <1>1. DispatchTypeOK /\ Holds(w) /\ dispatcher \in [Workers -> WorkerRecords]
    BY DEF DispatchInv, DispatchTypeOK
  <1>2. UNCHANGED <<rootAlive, inbox, task>>
    BY DEF DeliveryFails, MarkEventRetry, Abandon
  <1>3. /\ event' \in [SiteEvents -> EventRecords]
        /\ \A e \in SiteEvents : event'[e].status = "done" => event[e].status = "done"
    <2>1. CASE MarkEventRetry(w)
      <3>1. event' = event \/ event' = [event EXCEPT ![dispatcher[w].event] = [status |-> "pending", leased |-> FALSE]]
        BY <2>1 DEF MarkEventRetry, Mark
      <3>2. [status |-> "pending", leased |-> FALSE] \in EventRecords
        BY DEF EventRecords
      <3> QED
        BY <1>1, <3>1, <3>2 DEF DispatchTypeOK
    <2>2. CASE DeliveryFails(w) \/ Abandon(w)
      BY <1>1, <2>2 DEF DispatchTypeOK, DeliveryFails, Abandon
    <2> QED
      BY <2>1, <2>2
  <1>4. dispatchFaults' \in 0 .. MaxDispatchFaults
    BY <1>1, DispatchBoundsAssumption DEF DispatchTypeOK, DispatchFault, DeliveryFails, MarkEventRetry, Abandon
  <1>5. dispatcher' \in [Workers -> WorkerRecords] /\ \A v \in Workers \ {w} : dispatcher'[v] = dispatcher[v]
    <2>1. CASE DeliveryFails(w)
      <3>1. dispatcher' = [dispatcher EXCEPT ![w] = [dispatcher[w] EXCEPT !.pc = "retry"]]
        BY <1>1, <2>1 DEF DeliveryFails
      <3>2. [dispatcher[w] EXCEPT !.pc = "retry"] \in WorkerRecords
        BY <1>1 DEF WorkerRecords
      <3> QED
        BY <1>1, <3>1, <3>2
    <2>2. CASE MarkEventRetry(w)
      BY <1>1, <2>2, BetweenType DEF MarkEventRetry, WorkerRecords
    <2>3. CASE Abandon(w)
      BY <1>1, <2>3, BetweenType DEF Abandon
    <2> QED
      BY <2>1, <2>2, <2>3
  <1>6. DispatchTypeOK' /\ RowsKept
    BY <1>1, <1>2, <1>3, <1>4, <1>5 DEF DispatchTypeOK, RowsKept
  <1>7. Holds(w)'
    <2>1. CASE DeliveryFails(w)
      <3>1. dispatcher[w].pc # "between"
        BY <2>1 DEF DeliveryFails
      <3>2. /\ dispatcher'[w].pc = "retry" /\ dispatcher'[w].event = dispatcher[w].event
            /\ dispatcher'[w].pos = dispatcher[w].pos
        BY <1>1, <2>1 DEF DeliveryFails, WorkerRecords
      <3> QED
        BY <1>1, <3>1, <3>2 DEF Holds
    <2>2. CASE MarkEventRetry(w) \/ Abandon(w)
      <3>1. dispatcher'[w].pc = "between"
        BY <1>1, <2>2 DEF MarkEventRetry, Abandon, Between
      <3> QED
        BY <3>1 DEF Holds
    <2> QED
      BY <2>1, <2>2
  <1> QED
    BY <1>3, <1>5, <1>6, <1>7, OneMoves

LEMMA DispatchStep == DispatchInv /\ [DispatchNext]_dispatchVars => DispatchInv'
  <1> SUFFICES ASSUME DispatchInv, [DispatchNext]_dispatchVars PROVE DispatchInv'
    OBVIOUS
  <1>1. CASE UNCHANGED dispatchVars
    BY <1>1 DEF dispatchVars, DispatchInv, DispatchTypeOK, Holds, Left, InHand, NoticeWritten, DeliveredBefore,
                DoneMeansDelivered, Delivered, Resolves, Mailed
  <1>2. CASE \/ \E e \in SiteEvents : Publish(e) \/ DeleteRoot(e) \/ LeaseRunsOut(e)
             \/ \E x \in SiteEvents \X Users : MarkInboxRead(x) \/ DeleteInbox(x)
    BY <1>2, SiteStep
  <1>3. ASSUME NEW w \in Workers,
               \/ LeasePendingEvents(w) \/ Work(w) \/ DeliveryFails(w) \/ Abandon(w)
               \/ \E e \in SiteEvents : ResolveFails(w, e)
        PROVE  DispatchInv'
    BY <1>3, LeaseStep, BeginStep, NoticeStep, TaskStep, DoneStep, SetbackStep DEF Work
  <1> QED
    BY <1>1, <1>2, <1>3 DEF DispatchNext

\* The inductive invariant: types, what every dispatcher has behind it, and the
\* deliveries of the events that are done.
THEOREM DispatchInvariance == DispatchSpec => []DispatchInv
  <1> QED
    BY DispatchInitInv, DispatchStep, PTL DEF DispatchSpec

\* The records of the dispatcher and its tables keep their types.
THEOREM DispatchTypes == DispatchSpec => []DispatchTypeOK
  <1>1. DispatchInv => DispatchTypeOK
    BY DEF DispatchInv
  <1> QED
    BY <1>1, DispatchInvariance, PTL

\* No event is done that owes a recipient a notice or a mail task, however many
\* dispatchers have held it, outlived their lease, failed or stopped.
THEOREM DoneEventsDelivered == DispatchSpec => []DoneMeansDelivered
  <1>1. DispatchInv => DoneMeansDelivered
    BY DEF DispatchInv
  <1> QED
    BY <1>1, DispatchInvariance, PTL

\* A notice once read or deleted is not put back, however often it is dispatched.
THEOREM NoticesStayHandled == DispatchSpec => NoticesNeverReturn
  <1> DEFINE Handled == \A x \in SiteEvents \X Users :
                            /\ inbox[x] = "deleted" => inbox'[x] = "deleted"
                            /\ inbox[x] = "read" => inbox'[x] # "unread"
  <1>1. DispatchTypeOK /\ [DispatchNext]_dispatchVars => [Handled]_dispatchVars
    <2> SUFFICES ASSUME DispatchTypeOK, DispatchNext PROVE Handled
      OBVIOUS
    <2>1. UNCHANGED inbox \/ \E x : MarkInboxRead(x) \/ DeleteInbox(x) \/ CreateInbox(x)
      <3>1. ASSUME NEW w \in Workers, DeliverNotice(w)
            PROVE  UNCHANGED inbox \/ \E x : CreateInbox(x)
        BY <3>1 DEF DeliverNotice
      <3>2. ASSUME NEW w \in Workers,
                   \/ LeasePendingEvents(w) \/ DeliveryFails(w) \/ Abandon(w)
                   \/ CreateEmailTask(w) \/ MarkEventDone(w) \/ MarkEventRetry(w)
                   \/ \E e \in SiteEvents : BeginEvent(w, e) \/ ResolveFails(w, e)
            PROVE  UNCHANGED inbox
        BY <3>2 DEF LeasePendingEvents, DeliveryFails, Abandon, CreateEmailTask, MarkEventDone,
                    MarkEventRetry, BeginEvent, ResolveFails
      <3>3. ASSUME NEW e \in SiteEvents, Publish(e) \/ DeleteRoot(e) \/ LeaseRunsOut(e)
            PROVE  UNCHANGED inbox
        BY <3>3 DEF Publish, DeleteRoot, LeaseRunsOut
      <3> QED
        BY <3>1, <3>2, <3>3 DEF DispatchNext, Work
    <2> QED
      BY <2>1 DEF DispatchTypeOK, MarkInboxRead, DeleteInbox, CreateInbox
  <1>2. NoticesNeverReturn <=> [][Handled]_dispatchVars
    BY PTL DEF NoticesNeverReturn
  <1> QED
    BY <1>1, <1>2, DispatchTypes, PTL DEF DispatchSpec
=============================================================================
