------------------------ MODULE ModerationInvariants ------------------------
(* The types and the safety invariants of Moderation, for every set of      *)
(* items, keys and clients: the typing of every step, then the inductive    *)
(* invariant the safety properties follow from, and its proof.              *)
EXTENDS Moderation, TLAPS

(***************************************************************************)
(* The state machine on its own: what an accepted event makes of a valid   *)
(* item is an item of the right type, and a valid one.                     *)
(***************************************************************************)
LEMMA NoRevIsPointer == NoRev \in Pointers /\ Revisions \subseteq Pointers
  BY BoundsAssumption DEF NoRev, Pointers, Revisions

LEMMA EmptyItemType == EmptyItem \in ItemRecords(Pointers)
  BY NoRevIsPointer DEF EmptyItem, ItemRecords, Lifecycles, PublicStates, BeforeStates

LEMMA AfterType ==
    ASSUME NEW i \in ItemRecords(Pointers), NEW r \in Pointers, NEW e \in Events, NEW a
    PROVE  After(e, i, a, r) \in ItemRecords(Pointers)
  <1> DEFINE P == Pointers
  <1>0. NoRev \in P /\ r \in P
    BY NoRevIsPointer
  <1> HIDE DEF P
  <1>1. \A b \in ItemRecords(P) : ApprovedSubmission(b, r) \in ItemRecords(P)
    BY <1>0 DEF ApprovedSubmission, ItemRecords, PublicStates
  <1>2. \A b \in ItemRecords(P) : PostReviewSubmission(b, r) \in ItemRecords(P)
    BY <1>0 DEF PostReviewSubmission, ItemRecords, PublicStates
  <1>3. \A b \in ItemRecords(P) : PreReviewSubmission(b, r) \in ItemRecords(P)
    BY <1>0 DEF PreReviewSubmission, ItemRecords, PublicStates
  <1>4. \A b \in ItemRecords(P) : ReviewApproval(b, r) \in ItemRecords(P)
    BY <1>0 DEF ReviewApproval, ItemRecords, PublicStates
  <1>5. \A b \in ItemRecords(P) : ReviewRejection(b) \in ItemRecords(P)
    BY <1>0 DEF ReviewRejection, ItemRecords, PublicStates
  <1>6. \A b \in ItemRecords(P) : Tombstone(b) \in ItemRecords(P)
    BY <1>0 DEF Tombstone, ItemRecords, PublicStates, Lifecycles, BeforeStates
  <1>7. \A b \in ItemRecords(P) : EmergencyHidden(b) \in ItemRecords(P)
    BY DEF EmergencyHidden, ItemRecords, PublicStates, BeforeStates
  <1>8. \A b \in ItemRecords(P) : Restored(b) \in ItemRecords(P)
    BY DEF Restored, ItemRecords, PublicStates, BeforeStates
  <1>9. EmptyItem \in ItemRecords(P) /\ i \in ItemRecords(P)
    BY EmptyItemType DEF P
  <1>10. SubmitBase(i) \in ItemRecords(P)
    BY <1>9 DEF SubmitBase, ItemRecords, Lifecycles
  <1>11. Submitted(i, a, r) \in ItemRecords(P)
    BY <1>1, <1>2, <1>3, <1>10 DEF Submitted
  <1>12. After(e, i, a, r) \in ItemRecords(P)
    BY <1>4, <1>5, <1>6, <1>7, <1>8, <1>9, <1>11 DEF After
  <1> QED
    BY <1>12 DEF P

(***************************************************************************)
(* Types, with what a request carries at each program counter.             *)
(***************************************************************************)
KnownRequest(q) ==
    /\ q.pc # "idle" /\ q.event # "submit" => q.target \in Items
    /\ q.event \in SubmitEvents => q.key \in Keys
    /\ q.event \in SubmitEvents /\ q.pc \in {"planned", "creating"} => q.action \in PublishingActions
    /\ q.pc = "checked" => q.event = "resubmit"
    /\ q.pc = "creating" => q.event = "submit"
    /\ q.pc = "blocked" => q.event \in SubmitEvents
    /\ q.pc = "deleting" => q.event = "delete"

RequestsKnown == \A c \in Clients : KnownRequest(req[c])

TypeInv == TypeOK /\ RequestsKnown

LEMMA MaterializedByType ==
    ASSUME NEW i \in ItemRecords(Pointers), NEW r \in Pointers, NEW e, NEW a
    PROVE  MaterializedBy(e, i, a, r) \in Pointers
  BY NoRevIsPointer DEF MaterializedBy, ItemRecords

LEMMA CreatedType ==
    ASSUME NEW i \in Items, NEW k \in Keys, NEW a \in PublishingActions
    PROVE  Created(i, k, a) \in RevisionRecords
  BY DEF Created, RevisionRecords, Statuses, Decisions

LEMMA SupersededType ==
    ASSUME NEW rv \in [Revisions -> RevisionRecords], NEW r
    PROVE  Superseded(rv, r) \in [Revisions -> RevisionRecords]
  BY DEF Superseded, RevisionRecords, Statuses

LEMMA ReviewedType ==
    ASSUME NEW rv \in [Revisions -> RevisionRecords], NEW r \in Revisions, NEW e
    PROVE  Reviewed(rv, r, e) \in [Revisions -> RevisionRecords]
  <1> DEFINE s == IF e = "reject" THEN "rejected" ELSE "approved"
             d == CASE e = "approve" -> "approved"
                    [] e = "correct_and_approve" -> "corrected"
                    [] OTHER -> "rejected"
  <1>1. s \in Statuses /\ d \in Decisions
    BY DEF Statuses, Decisions
  <1>2. Reviewed(rv, r, e) = [rv EXCEPT ![r] = [rv[r] EXCEPT !.status = s, !.decision = d]]
    BY DEF Reviewed
  <1> HIDE DEF s, d
  <1>3. [rv[r] EXCEPT !.status = s, !.decision = d] \in RevisionRecords
    BY <1>1 DEF RevisionRecords
  <1> QED
    BY <1>2, <1>3

LEMMA MaterializedType ==
    ASSUME NEW i, NEW r \in Pointers, row \in [Items -> RowRecords]
    PROVE  Materialized(i, r) \in [Items -> RowRecords]
  <1>1. CASE i \in Items
    BY <1>1 DEF Materialized, RowRecords
  <1>2. CASE i \notin Items
    BY <1>2 DEF Materialized
  <1> QED
    BY <1>1, <1>2

LEMMA AnnouncementType ==
    ASSUME NEW i \in Items, NEW e, NEW b, NEW n, announced \in [Items -> Nat]
    PROVE  Announcement(i, e, b, n) \in [Items -> Nat]
  <1>1. [announced EXCEPT ![i] = @ + 1] \in [Items -> Nat]
    OBVIOUS
  <1> QED
    BY <1>1 DEF Announcement

LEMMA BumpedType ==
    ASSUME lock \in [Items -> 0 .. MaxLock], NEW S \in SUBSET Items, \A i \in S : lock[i] < MaxLock
    PROVE  Bumped(S) \in [Items -> 0 .. MaxLock]
  BY BoundsAssumption DEF Bumped

LEMMA RemovedType ==
    ASSUME row \in [Items -> RowRecords], NEW S
    PROVE  Removed(S) \in [Items -> RowRecords]
  BY DEF Removed, RowRecords

LEMMA IdleType == Idle \in Requests /\ KnownRequest(Idle)
  BY EmptyItemType, BoundsAssumption DEF Idle, Requests, KnownRequest, SubmitEvents

\* One request changes, to a record of the right type.
LEMMA RequestStep ==
    ASSUME TypeInv, NEW c \in Clients, NEW q \in Requests, KnownRequest(q),
           req' = [req EXCEPT ![c] = q]
    PROVE  req' \in [Clients -> Requests] /\ RequestsKnown'
  <1>1. /\ req' \in [Clients -> Requests]
        /\ \A d \in Clients : req'[d] = IF d = c THEN q ELSE req[d]
    BY DEF TypeInv, TypeOK
  <1>2. \A d \in Clients : KnownRequest(req'[d])
    BY <1>1 DEF TypeInv, RequestsKnown
  <1> QED
    BY <1>1, <1>2 DEF RequestsKnown, KnownRequest

LEMMA FinishStep ==
    ASSUME TypeInv, NEW c \in Clients, Finish(c)
    PROVE  req' \in [Clients -> Requests] /\ RequestsKnown'
  BY IdleType, RequestStep DEF Finish

LEMMA PlannedOnType ==
    ASSUME TypeInv, NEW i \in Items, NEW e \in Events \ SubmitEvents
    PROVE  PlannedOn(e, i) \in Requests /\ KnownRequest(PlannedOn(e, i))
  <1>1. item[i] \in ItemRecords(Pointers) /\ lock[i] \in 0 .. MaxLock
    BY DEF TypeInv, TypeOK
  <1>2. PlannedOn(e, i) \in Requests
    BY <1>1, IdleType DEF PlannedOn, Idle, Requests
  <1> QED
    BY <1>2, <1>1 DEF PlannedOn, Idle, KnownRequest

LEMMA TypeStep == TypeInv /\ [Next]_vars => TypeInv'
  <1> SUFFICES ASSUME TypeInv, [Next]_vars PROVE TypeInv'
    OBVIOUS
  <1> USE DEF TypeInv, TypeOK
  <1>1. CASE UNCHANGED vars
    BY <1>1 DEF vars, stored, RequestsKnown, KnownRequest
  <1>2. ASSUME NEW c \in Clients, NEW p \in Items \cup {NoItem}, NEW k \in Keys,
               NEW a \in PublishingActions \cup {"block"}, StartSubmit(c, p, k, a)
        PROVE  TypeInv'
    <2> DEFINE q == [Idle EXCEPT !.pc = IF a = "block" THEN "blocked" ELSE "planned",
                        !.event = "submit", !.target = p, !.key = k,
                        !.action = IF a = "block" THEN "none" ELSE a]
    <2>1. q \in Requests /\ KnownRequest(q)
      BY <1>2, IdleType DEF Idle, Requests, KnownRequest, Events, SubmitEvents, PublishingActions
    <2>2. req' = [req EXCEPT ![c] = q] /\ UNCHANGED stored
      BY <1>2 DEF StartSubmit
    <2> QED
      BY <2>1, <2>2, RequestStep DEF stored
  <1>3. ASSUME NEW c \in Clients, NEW i \in Items, NEW k \in Keys, StartEdit(c, i, k)
        PROVE  TypeInv'
    <2> DEFINE q == [Idle EXCEPT !.pc = "checked", !.event = "resubmit", !.target = i, !.key = k]
    <2>1. q \in Requests /\ KnownRequest(q)
      BY IdleType DEF Idle, Requests, KnownRequest, Events, SubmitEvents
    <2>2. req' = [req EXCEPT ![c] = q] /\ UNCHANGED stored
      BY <1>3 DEF StartEdit
    <2> QED
      BY <2>1, <2>2, RequestStep DEF stored
  <1>4. ASSUME NEW c \in Clients, NEW a \in PublishingActions \cup {"block"}, PlanEdit(c, a)
        PROVE  TypeInv'
    <2>1. /\ req[c] \in Requests /\ req[c].pc = "checked" /\ KnownRequest(req[c])
          /\ req[c].target \in Items /\ UNCHANGED stored
      BY <1>4 DEF PlanEdit, RequestsKnown, KnownRequest
    <2>2. item[req[c].target] \in ItemRecords(Pointers) /\ lock[req[c].target] \in 0 .. MaxLock
      BY <2>1
    <2>3. CASE req' = [req EXCEPT ![c] = [req[c] EXCEPT !.pc = "blocked"]]
      <3> DEFINE q == [req[c] EXCEPT !.pc = "blocked"]
      <3>1. q \in Requests /\ KnownRequest(q)
        BY <2>1 DEF Requests, KnownRequest, SubmitEvents
      <3> QED
        BY <3>1, <2>1, <2>3, RequestStep DEF stored
    <2>4. CASE /\ a # "block"
               /\ req' = [req EXCEPT ![c] = [req[c] EXCEPT !.pc = "planned", !.action = a,
                              !.snap = item[req[c].target], !.lock = lock[req[c].target]]]
      <3> DEFINE q == [req[c] EXCEPT !.pc = "planned", !.action = a,
                           !.snap = item[req[c].target], !.lock = lock[req[c].target]]
      <3>1. q \in Requests /\ KnownRequest(q)
        BY <2>1, <2>2, <2>4 DEF Requests, KnownRequest
      <3> QED
        BY <3>1, <2>1, <2>4, RequestStep DEF stored
    <2> QED
      BY <1>4, <2>3, <2>4 DEF PlanEdit
  <1>5. ASSUME NEW c \in Clients, RecordBlock(c)
        PROVE  TypeInv'
    <2>1. req[c].key \in Keys
      BY <1>5 DEF RecordBlock, RequestsKnown, KnownRequest
    <2>2. ScoredBlock(req[c].key) \in Counters
      BY DEF ScoredBlock, Counters
    <2> QED
      BY <1>5, <2>1, <2>2, FinishStep DEF RecordBlock
  <1>6. ASSUME NEW c \in Clients, BeginCreate(c)
        PROVE  TypeInv'
    <2> DEFINE q == [req[c] EXCEPT !.pc = "creating"]
    <2>1. q \in Requests /\ KnownRequest(q)
      BY <1>6 DEF BeginCreate, Requests, RequestsKnown, KnownRequest, SubmitEvents
    <2>2. req' = [req EXCEPT ![c] = q] /\ UNCHANGED stored
      BY <1>6 DEF BeginCreate
    <2> QED
      BY <2>1, <2>2, RequestStep DEF stored
  <1>7. ASSUME NEW c \in Clients, NEW i \in Items, CommitCreate(c, i)
        PROVE  TypeInv'
    <2> DEFINE q == req[c]
               r == last + 1
    <2>1. q.key \in Keys /\ q.action \in PublishingActions
      BY <1>7 DEF CommitCreate, RequestsKnown, KnownRequest, SubmitEvents
    <2>2. r \in Pointers
      BY <1>7, BoundsAssumption DEF CommitCreate, Pointers
    <2>3. /\ item' = [item EXCEPT ![i] = After("submit", EmptyItem, q.action, r)]
          /\ row' = [row EXCEPT ![i] = [alive |-> TRUE, shows |-> MaterializedBy("submit", EmptyItem, q.action, r)]]
          /\ rev' = [rev EXCEPT ![r] = Created(i, q.key, q.action)]
          /\ lock' = [lock EXCEPT ![i] = 2] /\ 2 \in 0 .. MaxLock /\ last' = r
          /\ announced' = Announcement(i, "submit", EmptyItem, After("submit", EmptyItem, q.action, r))
          /\ Finish(c) /\ UNCHANGED <<attempt, profile>>
      BY <1>7, BoundsAssumption DEF CommitCreate
    <2>4. After("submit", EmptyItem, q.action, r) \in ItemRecords(Pointers)
      BY <2>2, EmptyItemType, AfterType DEF Events, SubmitEvents
    <2>5. item' \in [Items -> ItemRecords(Pointers)]
      BY <2>3, <2>4
    <2>6. row' \in [Items -> RowRecords]
      BY <2>3, <2>2, EmptyItemType, MaterializedByType DEF RowRecords
    <2>7. rev' \in [Revisions -> RevisionRecords]
      BY <2>1, <2>3, CreatedType
    <2>8. announced' \in [Items -> Nat]
      BY <2>3, AnnouncementType
    <2> QED
      BY <2>2, <2>3, <2>5, <2>6, <2>7, <2>8, FinishStep
  <1>8. ASSUME NEW c \in Clients, CommitEdit(c)
        PROVE  TypeInv'
    <2> DEFINE q == req[c]
               i == q.target
               r == last + 1
               next == After("resubmit", q.snap, q.action, r)
    <2>1. q \in Requests /\ i \in Items /\ q.key \in Keys /\ q.action \in PublishingActions
      BY <1>8 DEF CommitEdit, RequestsKnown, KnownRequest, SubmitEvents
    <2>2. r \in Pointers /\ q.snap \in ItemRecords(Pointers)
      BY <1>8, <2>1, BoundsAssumption DEF CommitEdit, Pointers, Requests
    <2>3. /\ item' = [item EXCEPT ![i] = next]
          /\ row' = Materialized(i, MaterializedBy("resubmit", q.snap, q.action, r))
          /\ rev' = [Superseded(rev, SupersededBy("resubmit", q.snap)) EXCEPT ![r] = Created(i, q.key, q.action)]
          /\ lock' = [lock EXCEPT ![i] = @ + 1] /\ lock[i] < MaxLock /\ last' = r
          /\ announced' = Announcement(i, "resubmit", q.snap, next)
          /\ Finish(c) /\ UNCHANGED <<attempt, profile>>
      BY <1>8 DEF CommitEdit
    <2>4. next \in ItemRecords(Pointers)
      BY <2>2, AfterType DEF Events, SubmitEvents
    <2> HIDE DEF next
    <2>5. item' \in [Items -> ItemRecords(Pointers)]
      BY <2>3, <2>4
    <2>6. row' \in [Items -> RowRecords]
      BY <2>3, <2>2, MaterializedByType, MaterializedType
    <2>7. rev' \in [Revisions -> RevisionRecords]
      BY <2>1, <2>3, CreatedType, SupersededType
    <2>8. announced' \in [Items -> Nat]
      BY <2>1, <2>3, AnnouncementType
    <2>9. lock' \in [Items -> 0 .. MaxLock]
      BY <2>1, <2>3, BoundsAssumption
    <2> QED
      BY <2>2, <2>3, <2>5, <2>6, <2>7, <2>8, <2>9, FinishStep
  <1>9. ASSUME NEW c \in Clients, NEW i \in Items, NEW e \in ReviewEvents, PlanReview(c, i, e)
        PROVE  TypeInv'
    <2>1. e \in Events \ SubmitEvents
      BY DEF Events, SubmitEvents, ReviewEvents
    <2> QED
      BY <1>9, <2>1, PlannedOnType, RequestStep DEF PlanReview, stored
  <1>10. ASSUME NEW c \in Clients, CommitReview(c)
         PROVE  TypeInv'
    <2> DEFINE q == req[c]
               i == q.target
               r == q.snap.pend
               next == After(q.event, q.snap, "none", r)
    <2>1. q \in Requests /\ i \in Items /\ q.event \in Events
      BY <1>10 DEF CommitReview, RequestsKnown, KnownRequest, Requests, ReviewEvents, Events
    <2>2. r \in Pointers /\ q.snap \in ItemRecords(Pointers)
      BY <2>1 DEF Requests, ItemRecords
    <2>3. /\ item' = [item EXCEPT ![i] = next]
          /\ row' = Materialized(i, MaterializedBy(q.event, q.snap, "none", r))
          /\ rev' = Reviewed(rev, r, q.event) /\ StillPending(r)
          /\ lock' = [lock EXCEPT ![i] = @ + 1] /\ lock[i] < MaxLock
          /\ announced' = Announcement(i, q.event, q.snap, next)
          /\ profile' = Scored(q.event)
          /\ Finish(c) /\ UNCHANGED <<last, attempt>>
      BY <1>10 DEF CommitReview
    <2>4. next \in ItemRecords(Pointers)
      BY <2>1, <2>2, AfterType
    <2> HIDE DEF next
    <2>5. item' \in [Items -> ItemRecords(Pointers)]
      BY <2>3, <2>4
    <2>6. row' \in [Items -> RowRecords]
      BY <2>3, <2>2, MaterializedByType, MaterializedType
    <2>7. rev' \in [Revisions -> RevisionRecords]
      <3>1. CASE r \in Revisions
        BY <2>3, <3>1, ReviewedType
      <3>2. CASE r \notin Revisions
        BY <2>3, <3>2 DEF Reviewed
      <3> QED
        BY <3>1, <3>2
    <2>8. announced' \in [Items -> Nat]
      BY <2>1, <2>3, AnnouncementType
    <2>9. lock' \in [Items -> 0 .. MaxLock]
      BY <2>1, <2>3, BoundsAssumption
    <2>10. profile' \in Counters
      BY <2>3 DEF Scored, Counters
    <2> QED
      BY <2>3, <2>5, <2>6, <2>7, <2>8, <2>9, <2>10, FinishStep
  <1>11. ASSUME NEW c \in Clients, NEW i \in Items, PlanDelete(c, i)
         PROVE  TypeInv'
    <2>1. "delete" \in Events \ SubmitEvents
      BY DEF Events, SubmitEvents
    <2> QED
      BY <1>11, <2>1, PlannedOnType, RequestStep DEF PlanDelete, stored
  <1>12. ASSUME NEW c \in Clients, BeginDelete(c)
         PROVE  TypeInv'
    <2> DEFINE q == [req[c] EXCEPT !.pc = "deleting", !.tree = Descendants(req[c].target)]
    <2>1. q \in Requests /\ KnownRequest(q)
      BY <1>12 DEF BeginDelete, Requests, RequestsKnown, KnownRequest, SubmitEvents, Descendants
    <2>2. req' = [req EXCEPT ![c] = q] /\ UNCHANGED stored
      BY <1>12 DEF BeginDelete
    <2> HIDE DEF q
    <2> QED
      BY <2>1, <2>2, RequestStep DEF stored
  <1>13. ASSUME NEW c \in Clients, CommitDelete(c)
         PROVE  TypeInv'
    <2> DEFINE q == req[c]
               i == q.target
               gone == q.tree \cup {i}
               next == After("delete", q.snap, "none", NoRev)
    <2>1. q \in Requests /\ i \in Items /\ gone \in SUBSET Items
      BY <1>13 DEF CommitDelete, RequestsKnown, KnownRequest, Requests
    <2>2. /\ item' = [x \in Items |-> IF x = i THEN next
                                      ELSE IF x \in q.tree THEN Tombstone(item[x]) ELSE item[x]]
          /\ rev' = [r \in Revisions |-> IF r \in Withdrawn(q)
                                         THEN [rev[r] EXCEPT !.status = "superseded"] ELSE rev[r]]
          /\ lock' = Bumped(gone) /\ \A d \in gone : lock[d] < MaxLock
          /\ row' = Removed(gone)
          /\ Finish(c) /\ UNCHANGED <<last, attempt, profile, announced>>
      BY <1>13 DEF CommitDelete
    <2>3. next \in ItemRecords(Pointers)
      BY <2>1, NoRevIsPointer, AfterType DEF Requests, Events
    <2>4. \A x \in Items : Tombstone(item[x]) \in ItemRecords(Pointers)
      BY NoRevIsPointer DEF Tombstone, ItemRecords, Lifecycles, PublicStates, BeforeStates
    <2> HIDE DEF next
    <2>5. item' \in [Items -> ItemRecords(Pointers)]
      BY <2>2, <2>3, <2>4
    <2>6. row' \in [Items -> RowRecords]
      BY <2>2, RemovedType
    <2>7. rev' \in [Revisions -> RevisionRecords]
      BY <2>2 DEF RevisionRecords, Statuses
    <2>8. lock' \in [Items -> 0 .. MaxLock]
      BY <2>1, <2>2, BumpedType
    <2> QED
      BY <2>2, <2>5, <2>6, <2>7, <2>8, FinishStep
  <1>14. ASSUME NEW c \in Clients, NEW i \in Items, NEW e \in EmergencyEvents, PlanEmergency(c, i, e)
         PROVE  TypeInv'
    <2>1. e \in Events \ SubmitEvents
      BY DEF Events, SubmitEvents, EmergencyEvents
    <2> QED
      BY <1>14, <2>1, PlannedOnType, RequestStep DEF PlanEmergency, stored
  <1>15. ASSUME NEW c \in Clients, CommitEmergency(c)
         PROVE  TypeInv'
    <2> DEFINE q == req[c]
               i == q.target
               next == After(q.event, q.snap, "none", NoRev)
    <2>1. q \in Requests /\ i \in Items /\ q.event \in Events
      BY <1>15 DEF CommitEmergency, RequestsKnown, KnownRequest, Requests, EmergencyEvents, Events
    <2>2. /\ item' = [item EXCEPT ![i] = next]
          /\ lock' = [lock EXCEPT ![i] = @ + 1] /\ lock[i] < MaxLock
          /\ Finish(c) /\ UNCHANGED <<row, rev, last, attempt, profile, announced>>
      BY <1>15 DEF CommitEmergency
    <2>3. next \in ItemRecords(Pointers)
      BY <2>1, NoRevIsPointer, AfterType DEF Requests
    <2> HIDE DEF next
    <2>4. item' \in [Items -> ItemRecords(Pointers)]
      BY <2>2, <2>3
    <2>5. lock' \in [Items -> 0 .. MaxLock]
      BY <2>1, <2>2, BoundsAssumption
    <2> QED
      BY <2>2, <2>4, <2>5, FinishStep
  <1>16. ASSUME NEW S \in SUBSET Items, BatchHide(S)
         PROVE  TypeInv'
    <2>1. UNCHANGED <<row, rev, last, attempt, profile, announced, req>>
      BY <1>16 DEF BatchHide
    <2>2. CASE \A i \in S : PreviousStateCheck(HideInColumnOrder(item[i]))
      <3>1. \A i \in S : HideInColumnOrder(item[i]) \in ItemRecords(Pointers)
        BY <2>2 DEF HideInColumnOrder, PreviousStateCheck, ItemRecords, PublicStates, BeforeStates
      <3>2. item' \in [Items -> ItemRecords(Pointers)]
        BY <1>16, <2>2, <3>1 DEF BatchHide
      <3>3. lock' \in [Items -> 0 .. MaxLock]
        BY <1>16, <2>2, BumpedType DEF BatchHide, Batch
      <3> QED
        BY <2>1, <3>2, <3>3 DEF RequestsKnown, KnownRequest
    <2>3. CASE ~\A i \in S : PreviousStateCheck(HideInColumnOrder(item[i]))
      BY <1>16, <2>1, <2>3 DEF BatchHide, RequestsKnown, KnownRequest
    <2> QED
      BY <2>2, <2>3
  <1>17. ASSUME NEW S \in SUBSET Items, BatchRestore(S)
         PROVE  TypeInv'
    <2>1. \A i \in S : Restored(item[i]) \in ItemRecords(Pointers)
      BY DEF Restored, ItemRecords, PublicStates, BeforeStates
    <2>2. item' \in [Items -> ItemRecords(Pointers)]
      BY <1>17, <2>1 DEF BatchRestore
    <2>3. lock' \in [Items -> 0 .. MaxLock]
      BY <1>17, BumpedType DEF BatchRestore, Batch
    <2> QED
      BY <1>17, <2>2, <2>3 DEF BatchRestore, RequestsKnown, KnownRequest
  <1>18. ASSUME NEW c \in Clients, Abandon(c)
         PROVE  TypeInv'
    BY <1>18, FinishStep DEF Abandon, stored
  <1> QED
    BY <1>1, <1>2, <1>3, <1>4, <1>5, <1>6, <1>7, <1>8, <1>9, <1>10, <1>11, <1>12, <1>13,
       <1>14, <1>15, <1>16, <1>17, <1>18 DEF Next, Author, Reviewer, Remover, Operator

LEMMA InitType == Init => TypeInv
  <1> SUFFICES ASSUME Init PROVE TypeInv
    OBVIOUS
  <1>1. NoRevision \in RevisionRecords
    BY DEF NoRevision, RevisionRecords, Statuses, Decisions
  <1>2. TypeOK
    BY <1>1, EmptyItemType, IdleType, NoRevIsPointer, BoundsAssumption
    DEF Init, TypeOK, Counters, RowRecords, NoRev
  <1> QED
    BY <1>2, IdleType DEF Init, TypeInv, RequestsKnown

\* Every variable keeps its type: in particular state_before_emergency only ever
\* holds a value its check constraint accepts, and every request carries a known
\* target, key and action by the time it commits.
THEOREM TypeCorrect == Spec => []TypeOK
  <1>1. TypeInv => TypeOK
    BY DEF TypeInv
  <1> QED
    BY <1>1, InitType, TypeStep, PTL DEF Spec

(***************************************************************************)
(* The inductive invariant.                                                *)
(***************************************************************************)
\* Revision ids are handed out in order, and a revision has an owner from the
\* moment it exists; its owner exists too.
RevisionsOwned ==
    \A r \in Revisions :
        /\ r > last => rev[r] = NoRevision
        /\ r <= last => rev[r].owner \in Items /\ Exists(rev[r].owner)

\* The page shows a pending revision only when the policy let it through.
PendingShownByPolicy ==
    \A i \in Items : SameRevision(item[i].mat, item[i].pend) => rev[item[i].pend].action = "post_review"

LockedOnceCreated == \A i \in Items : lock[i] = 0 <=> ~Exists(i)

\* What a request with a plan may rely on: the plan was accepted for the state it
\* read, that state is still there if the version is, and a deletion that holds
\* its row sees the version it planned on.
RevisionOf(q) == IF q.event = "resubmit" THEN NewRevision ELSE q.snap.pend

PlanHolds(q) ==
    q.lock # 0 =>
        /\ q.target \in Items /\ q.lock <= lock[q.target]
        /\ lock[q.target] = q.lock => item[q.target] = q.snap
        /\ Accepts(q.event, q.snap, q.action, RevisionOf(q))
        /\ q.event = "delete" => q.snap.lifecycle = "active"
        /\ q.pc = "deleting" => lock[q.target] = q.lock /\ row[q.target].alive

PlansHold == \A c \in Clients : PlanHolds(req[c])

DeletionsHold ==
    \A c \in Clients : req[c].pc = "deleting" =>
        /\ req[c].lock # 0
        /\ req[c].target \notin req[c].tree
        /\ \A d \in Clients \ {c} : ~HoldsRow(d, req[c].target)

StoredInv ==
    /\ RevisionsOwned /\ StateMatrix /\ PointersMatchRevisions /\ PendingShownByPolicy
    /\ LockedOnceCreated /\ RowsFollowLifecycle

IInv == TypeInv /\ StoredInv /\ PlansHold /\ DeletionsHold

----------------------------------------------------------------------------
(* The state machine on a valid item.                                       *)

\* An accepted edit of a valid item: the new revision is approved or pending,
\* the approved one stays unless the new one takes its place, and the page
\* shows the pending one only under post review.
LEMMA SubmissionEffect ==
    ASSUME NEW i \in ItemRecords(Pointers), ValidItem(i), i.lifecycle # "deleted",
           i.public # "emergency_hidden", NEW a \in PublishingActions, NEW r \in Revisions,
           ~HasRevision(i, r), NEW n, n = Submitted(i, a, r)
    PROVE  /\ ValidItem(n) /\ n.lifecycle = "active"
           /\ n.app = IF a = "auto_approve" THEN r ELSE i.app
           /\ n.pend = IF a = "auto_approve" THEN NoRev ELSE r
           /\ SameRevision(n.mat, n.pend) => a = "post_review"
  <1> DEFINE b == SubmitBase(i)
  <1>1. r # NoRev
    BY DEF Revisions, NoRev
  <1>2. /\ b \in ItemRecords(Pointers) /\ b.lifecycle = "active" /\ b.before = "none"
        /\ b.app = i.app /\ b.mat = i.mat /\ b.pend = i.pend
    BY NoRevIsPointer DEF SubmitBase, ValidItem, ValidActive, EmptyItem, ItemRecords, Lifecycles, PublicStates, BeforeStates
  <1>3. r # b.app /\ r # b.mat /\ r # b.pend
    BY <1>2 DEF HasRevision
  <1> HIDE DEF b
  <1>4. CASE a = "auto_approve"
    <2>1. n = ApprovedSubmission(b, r)
      BY <1>4 DEF Submitted, b
    <2> QED
      BY <1>1, <1>2, <1>4, <2>1
      DEF ApprovedSubmission, ValidItem, ValidActive, ValidVisiblePointers, SameRevision, ItemRecords
  <1>5. CASE a = "post_review"
    <2>1. n = PostReviewSubmission(b, r)
      BY <1>5 DEF Submitted, b
    <2> QED
      BY <1>1, <1>2, <1>3, <1>5, <2>1
      DEF PostReviewSubmission, ValidItem, ValidActive, ValidVisiblePointers, SameRevision, ItemRecords
  <1>6. CASE a = "pre_review"
    <2>1. n = PreReviewSubmission(b, r)
      BY <1>6 DEF Submitted, b
    <2> QED
      BY <1>1, <1>2, <1>3, <1>6, <2>1
      DEF PreReviewSubmission, ValidItem, ValidActive, ValidVisiblePointers, SameRevision, ItemRecords
  <1> QED
    BY <1>4, <1>5, <1>6 DEF PublishingActions

\* A review of the pending revision: it is approved, or the page returns to the
\* approved one, and nothing is left pending.
LEMMA ReviewEffect ==
    ASSUME NEW i \in ItemRecords(Pointers), NEW e \in ReviewEvents,
           Accepts(e, i, "none", i.pend), NEW n, n = After(e, i, "none", i.pend)
    PROVE  /\ i.lifecycle = "active" /\ i.pend # NoRev
           /\ ValidItem(n) /\ n.lifecycle = "active" /\ n.pend = NoRev
           /\ n.app = IF e = "reject" THEN i.app ELSE i.pend
  <1>1. ~IsIdempotent(e, i)
    BY DEF IsIdempotent, ReviewEvents
  <1>2. i.lifecycle = "active" /\ i.pend # NoRev /\ ValidItem(n)
    BY <1>1 DEF Accepts, Allowed, ReviewEvents, SubmitEvents, SameRevision
  <1>3. n = IF e = "reject" THEN ReviewRejection(i) ELSE ReviewApproval(i, i.pend)
    BY <1>1 DEF After, ReviewEvents, SubmitEvents
  <1> QED
    BY <1>2, <1>3 DEF ReviewRejection, ReviewApproval, ItemRecords

LEMMA TombstoneEffect ==
    ASSUME NEW i \in ItemRecords(Pointers), NEW n, n = Tombstone(i)
    PROVE  ValidItem(n) /\ n.lifecycle = "deleted" /\ n.app = i.app /\ n.pend = NoRev /\ n.mat = NoRev
  BY DEF Tombstone, ValidItem, ItemRecords

LEMMA DeletionEffect ==
    ASSUME NEW i, i.lifecycle = "active"
    PROVE  After("delete", i, "none", NoRev) = Tombstone(i)
  BY DEF After, IsIdempotent, SubmitEvents

\* Hiding and restoring touch no revision pointer.
LEMMA EmergencyEffect ==
    ASSUME NEW i \in ItemRecords(Pointers), NEW e \in EmergencyEvents, NEW r, NEW s,
           Accepts(e, i, "none", r), NEW n, n = After(e, i, "none", s)
    PROVE  /\ ValidItem(n) /\ i.lifecycle = "active" /\ n.lifecycle = "active"
           /\ n.app = i.app /\ n.pend = i.pend /\ n.mat = i.mat
  <1>1. i.lifecycle = "active" /\ ValidItem(i)
    BY DEF Accepts, IsIdempotent, Allowed, EmergencyEvents, SubmitEvents, ReviewEvents
  <1>2. CASE IsIdempotent(e, i)
    BY <1>1, <1>2 DEF After
  <1>3. CASE ~IsIdempotent(e, i) /\ e = "emergency_hide"
    <2>1. n = EmergencyHidden(i) /\ Allowed(e, i, "none", r)
      BY <1>3 DEF After, Accepts, SubmitEvents
    <2> QED
      BY <1>1, <1>3, <2>1
      DEF EmergencyHidden, Allowed, ValidItem, ValidActive, SameRevision, ItemRecords, SubmitEvents, ReviewEvents
  <1>4. CASE ~IsIdempotent(e, i) /\ e = "restore"
    <2>1. n = Restored(i) /\ Allowed(e, i, "none", r)
      BY <1>4 DEF After, Accepts, SubmitEvents
    <2>2. i.public = "emergency_hidden" /\ i.before = "visible"
      BY <1>4, <2>1 DEF Allowed, SubmitEvents, ReviewEvents
    <2>3. i.pend = NoRev /\ SameRevision(i.mat, i.app)
      BY <1>1, <2>2 DEF ValidItem, ValidActive, EmptyItem
    <2>4. /\ n.lifecycle = "active" /\ n.public = "visible" /\ n.before = "none"
          /\ n.app = i.app /\ n.pend = i.pend /\ n.mat = i.mat
      BY <1>1, <2>1, <2>2 DEF Restored, ItemRecords
    <2> QED
      BY <1>1, <2>3, <2>4 DEF ValidItem, ValidActive, ValidVisiblePointers, SameRevision
  <1> QED
    BY <1>2, <1>3, <1>4 DEF EmergencyEvents

----------------------------------------------------------------------------
(* What a request that is about to commit knows of the stored state.        *)

\* The page of an item shows nothing, its approved or its pending revision.
LEMMA ShownPointer ==
    ASSUME NEW i, ValidItem(i)
    PROVE  i.mat \in {NoRev, i.app, i.pend}
  BY DEF ValidItem, ValidActive, ValidVisiblePointers, SameRevision, EmptyItem

\* The id the next revision gets names no revision and is in no item.
LEMMA NextRevisionIsFresh ==
    ASSUME TypeInv, StoredInv, last < MaxRevision, NEW i \in Items
    PROVE  /\ last + 1 \in Revisions /\ rev[last + 1] = NoRevision
           /\ ~HasRevision(item[i], last + 1)
  <1> DEFINE r == last + 1
  <1>1. r \in Revisions /\ r > last
    BY BoundsAssumption DEF TypeInv, TypeOK, Revisions, Pointers
  <1>2. rev[r] = NoRevision
    BY <1>1 DEF StoredInv, RevisionsOwned
  <1>3. r # NoRev
    BY <1>1 DEF Revisions, NoRev
  <1>4. r # item[i].app /\ r # item[i].pend
    BY <1>2, <1>3 DEF StoredInv, PointersMatchRevisions, NoRevision
  <1>5. r # item[i].mat
    BY <1>3, <1>4, ShownPointer DEF StoredInv, StateMatrix
  <1> QED
    BY <1>1, <1>2, <1>4, <1>5 DEF HasRevision

\* A request that finds its version and a live row finds the item it planned on.
LEMMA LockedItem ==
    ASSUME IInv, NEW c \in Clients, NEW q, q = req[c], q.target \in Items, LockedAsPlanned(q)
    PROVE  /\ item[q.target] = q.snap /\ q.lock # 0
           /\ item[q.target].lifecycle = "active"
           /\ Accepts(q.event, item[q.target], q.action, RevisionOf(q))
  <1>1. item[q.target].lifecycle = "active"
    BY DEF LockedAsPlanned, IInv, StoredInv, RowsFollowLifecycle
  <1>2. q.lock # 0
    BY <1>1 DEF LockedAsPlanned, IInv, StoredInv, LockedOnceCreated, Exists
  <1> QED
    BY <1>1, <1>2 DEF IInv, PlansHold, PlanHolds, LockedAsPlanned

\* A row that a deletion holds has been created: its version is not 0.
LEMMA HeldRowExists ==
    ASSUME IInv, NEW d \in Clients, NEW i \in Items, HoldsRow(d, i)
    PROVE  lock[i] # 0 /\ lock[i] = req[d].lock /\ row[i].alive
  BY DEF IInv, HoldsRow, DeletionsHold, PlansHold, PlanHolds

----------------------------------------------------------------------------
(* The plans of the requests across a step.                                 *)

\* A step of one request that leaves every item alone, or moves its version
\* while no other deletion holds it, leaves the other requests' plans good.
LEMMA PlansKept ==
    ASSUME IInv, TypeInv', NEW c \in Clients,
           \A d \in Clients \ {c} : req'[d] = req[d],
           \A x \in Items :
               \/ item'[x] = item[x] /\ lock'[x] = lock[x] /\ row'[x].alive = row[x].alive
               \/ lock'[x] > lock[x] /\ RowFree(c, x),
           PlanHolds(req[c])',
           req'[c].pc # "deleting"
    PROVE  PlansHold' /\ DeletionsHold'
  <1>0. \A x \in Items : lock[x] \in Nat /\ lock'[x] \in Nat
    BY BoundsAssumption DEF IInv, TypeInv, TypeOK
  <1>1. ASSUME NEW d \in Clients \ {c} PROVE PlanHolds(req[d])'
    <2> DEFINE q == req[d]
    <2>1. PlanHolds(q) /\ req'[d] = q /\ q.lock \in Nat
      BY BoundsAssumption DEF IInv, PlansHold, TypeInv, TypeOK, Requests
    <2> SUFFICES ASSUME q.lock # 0
                 PROVE  /\ q.target \in Items /\ q.lock <= lock'[q.target]
                        /\ lock'[q.target] = q.lock => item'[q.target] = q.snap
                        /\ Accepts(q.event, q.snap, q.action, RevisionOf(q))
                        /\ q.event = "delete" => q.snap.lifecycle = "active"
                        /\ q.pc = "deleting" => lock'[q.target] = q.lock /\ row'[q.target].alive
      BY <2>1 DEF PlanHolds, Accepts, RevisionOf
    <2>2. /\ q.target \in Items /\ q.lock <= lock[q.target]
          /\ lock[q.target] = q.lock => item[q.target] = q.snap
          /\ Accepts(q.event, q.snap, q.action, RevisionOf(q))
          /\ q.event = "delete" => q.snap.lifecycle = "active"
          /\ q.pc = "deleting" => lock[q.target] = q.lock /\ row[q.target].alive
      BY <2>1 DEF PlanHolds
    <2> HIDE DEF q
    <2>3. CASE /\ item'[q.target] = item[q.target] /\ lock'[q.target] = lock[q.target]
               /\ row'[q.target].alive = row[q.target].alive
      BY <2>2, <2>3
    <2>4. CASE lock'[q.target] > lock[q.target] /\ RowFree(c, q.target)
      <3>1. q.pc # "deleting"
        BY <2>4 DEF RowFree, HoldsRow, q
      <3>2. q.lock < lock'[q.target]
        BY <2>1, <2>2, <2>4, <1>0
      <3> QED
        BY <2>1, <2>2, <3>1, <3>2, <1>0
    <2> QED
      BY <2>2, <2>3, <2>4
  <1>2. PlansHold'
    BY <1>1 DEF PlansHold
  <1>3. DeletionsHold'
    BY DEF DeletionsHold, HoldsRow, IInv
  <1> QED
    BY <1>2, <1>3

LEMMA IdlePlan ==
    ASSUME TypeInv, NEW c \in Clients, Finish(c)
    PROVE  /\ \A d \in Clients \ {c} : req'[d] = req[d]
           /\ PlanHolds(req[c])' /\ req'[c].pc # "deleting"
  <1>1. req'[c] = Idle /\ \A d \in Clients \ {c} : req'[d] = req[d]
    BY DEF Finish, TypeInv, TypeOK
  <1> QED
    BY <1>1 DEF Idle, PlanHolds

----------------------------------------------------------------------------
(* The stored state across the writes the commits are made of.              *)

\* A version of content is written to one item: it becomes the approved or the
\* pending revision, and the one it replaces is superseded.
LEMMA WritePreserves ==
    ASSUME TypeInv, TypeInv', StoredInv, last < MaxRevision,
           NEW i \in Items, item[i].lifecycle # "deleted", item[i].public # "emergency_hidden",
           NEW a \in PublishingActions, NEW k \in Keys,
           item' = [item EXCEPT ![i] = Submitted(item[i], a, last + 1)],
           rev' = [Superseded(rev, item[i].pend) EXCEPT ![last + 1] = Created(i, k, a)],
           last' = last + 1,
           \A x \in Items \ {i} : lock'[x] = lock[x] /\ row'[x].alive = row[x].alive,
           lock'[i] # 0, row'[i].alive
    PROVE  StoredInv'
  <1> DEFINE r == last + 1
             n == Submitted(item[i], a, r)
  <1>0. item \in [Items -> ItemRecords(Pointers)] /\ rev \in [Revisions -> RevisionRecords]
        /\ item[i] \in ItemRecords(Pointers) /\ last \in Nat
    BY DEF TypeInv, TypeOK, Pointers
  <1>1. r \in Revisions /\ rev[r] = NoRevision /\ r # NoRev /\ ~HasRevision(item[i], r)
    BY NextRevisionIsFresh DEF Revisions, NoRev
  <1>2. ValidItem(item[i])
    BY DEF StoredInv, StateMatrix
  <1>3. /\ ValidItem(n) /\ n.lifecycle = "active"
        /\ a = "auto_approve" => n.app = r /\ n.pend = NoRev
        /\ a # "auto_approve" => n.app = item[i].app /\ n.pend = r
        /\ SameRevision(n.mat, n.pend) => a = "post_review"
    BY <1>0, <1>1, <1>2, SubmissionEffect
  <1>4. /\ item'[i] = n
        /\ \A x \in Items \ {i} : item'[x] = item[x]
    BY <1>0
  <1>5. \A s \in Revisions :
           rev'[s] = IF s = r THEN Created(i, k, a)
                     ELSE IF s = item[i].pend THEN [rev[s] EXCEPT !.status = "superseded"]
                     ELSE rev[s]
    BY <1>0, <1>1 DEF Superseded
  <1>6. /\ rev'[r].owner = i /\ rev'[r].action = a
        /\ a = "auto_approve" => rev'[r].status = "approved"
        /\ a # "auto_approve" => rev'[r].status = "pending"
    <2>1. rev'[r] = Created(i, k, a)
      BY <1>1, <1>5
    <2> QED
      BY <2>1 DEF Created
  <1>7. \A s \in Revisions \ {r} :
           /\ rev'[s].owner = rev[s].owner /\ rev'[s].action = rev[s].action
           /\ s # item[i].pend => rev'[s] = rev[s]
           /\ s = item[i].pend => rev'[s].status = "superseded"
    <2> SUFFICES ASSUME NEW s \in Revisions \ {r}
                 PROVE  /\ rev'[s].owner = rev[s].owner /\ rev'[s].action = rev[s].action
                        /\ s # item[i].pend => rev'[s] = rev[s]
                        /\ s = item[i].pend => rev'[s].status = "superseded"
      OBVIOUS
    <2>1. rev'[s] = IF s = item[i].pend THEN [rev[s] EXCEPT !.status = "superseded"] ELSE rev[s]
      BY <1>5
    <2>2. rev[s] \in RevisionRecords
      BY <1>0
    <2> QED
      BY <2>1, <2>2 DEF RevisionRecords
  <1>8. \A x \in Items : /\ item[x].app # NoRev => item[x].app \in Revisions \ {r}
                         /\ item[x].pend # NoRev => item[x].pend \in Revisions \ {r}
    <2>1. \A x \in Items : item[x].app \in Pointers /\ item[x].pend \in Pointers
      BY <1>0 DEF ItemRecords
    <2>2. \A x \in Items : ~HasRevision(item[x], r)
      BY NextRevisionIsFresh
    <2> QED
      BY <2>1, <2>2 DEF HasRevision, Pointers, Revisions, NoRev
  <1> HIDE DEF n, r
  <1>9. \A x \in Items \ {i} :
           /\ item[x].app # NoRev => item[x].app # item[i].pend
           /\ item[x].pend # NoRev => item[x].pend # item[i].pend
    BY <1>8 DEF StoredInv, PointersMatchRevisions
  <1>10. StateMatrix'
    BY <1>2, <1>3, <1>4 DEF StoredInv, StateMatrix
  <1>11. RevisionsOwned'
    <2>1. ASSUME NEW s \in Revisions, s > last' PROVE rev'[s] = NoRevision
      <3>1. s > last /\ s # r /\ rev[s] = NoRevision
        BY <1>0, <2>1 DEF StoredInv, RevisionsOwned, r, Revisions
      <3>2. s # item[i].pend
        <4>1. CASE item[i].pend = NoRev
          BY <4>1 DEF Revisions, NoRev
        <4>2. CASE item[i].pend # NoRev
          BY <3>1, <4>2 DEF StoredInv, PointersMatchRevisions, NoRevision
        <4> QED
          BY <4>1, <4>2
      <3> QED
        BY <1>7, <3>1, <3>2
    <2>2. ASSUME NEW s \in Revisions, s <= last'
          PROVE  rev'[s].owner \in Items /\ item'[rev'[s].owner].lifecycle # "absent"
      <3>1. CASE s = r
        BY <1>3, <1>4, <1>6, <3>1 DEF Exists
      <3>2. CASE s # r
        <4>1. rev[s].owner \in Items /\ Exists(rev[s].owner)
          BY <1>0, <2>2, <3>2 DEF StoredInv, RevisionsOwned, r, Revisions
        <4> QED
          BY <1>3, <1>4, <1>7, <3>2, <4>1 DEF Exists
      <3> QED
        BY <3>1, <3>2
    <2> QED
      BY <2>1, <2>2 DEF RevisionsOwned, Exists
  <1>12. PointersMatchRevisions'
    <2>1. ASSUME NEW x \in Items, item'[x].app # NoRev
          PROVE  rev'[item'[x].app].status = "approved" /\ rev'[item'[x].app].owner = x
      <3>1. CASE x = i /\ a = "auto_approve"
        BY <1>3, <1>4, <1>6, <3>1
      <3>2. CASE x # i \/ a # "auto_approve"
        <4>1. item'[x].app = item[x].app
          BY <1>3, <1>4, <3>2
        <4>2. rev[item[x].app].status = "approved" /\ rev[item[x].app].owner = x
          BY <2>1, <4>1 DEF StoredInv, PointersMatchRevisions
        <4>3. item[x].app # item[i].pend
          <5>1. CASE x = i
            BY <2>1, <4>1, <4>2, <5>1 DEF StoredInv, PointersMatchRevisions
          <5> QED
            BY <1>9, <2>1, <4>1, <5>1
        <4> QED
          BY <1>7, <1>8, <2>1, <4>1, <4>2, <4>3
      <3> QED
        BY <3>1, <3>2
    <2>2. ASSUME NEW x \in Items, item'[x].pend # NoRev
          PROVE  rev'[item'[x].pend].status = "pending" /\ rev'[item'[x].pend].owner = x
      <3>1. CASE x = i
        BY <1>3, <1>4, <1>6, <2>2, <3>1
      <3>2. CASE x # i
        BY <1>4, <1>7, <1>8, <1>9, <2>2, <3>2 DEF StoredInv, PointersMatchRevisions
      <3> QED
        BY <3>1, <3>2
    <2>3. ASSUME NEW x \in Items, NEW s \in Revisions, rev'[s].status = "pending", rev'[s].owner = x
          PROVE  item'[x].pend = s
      <3>1. CASE s = r
        BY <1>3, <1>4, <1>6, <2>3, <3>1
      <3>2. CASE s # r
        <4>1. s # item[i].pend /\ rev'[s] = rev[s]
          BY <1>7, <2>3, <3>2
        <4>2. item[x].pend = s
          BY <2>3, <4>1 DEF StoredInv, PointersMatchRevisions
        <4> QED
          BY <1>4, <4>1, <4>2
      <3> QED
        BY <3>1, <3>2
    <2> QED
      BY <2>1, <2>2, <2>3 DEF PointersMatchRevisions
  <1>13. PendingShownByPolicy'
    <2> SUFFICES ASSUME NEW x \in Items, SameRevision(item'[x].mat, item'[x].pend)
                 PROVE  rev'[item'[x].pend].action = "post_review"
      BY DEF PendingShownByPolicy, SameRevision
    <2>1. CASE x = i
      <3>1. a = "post_review" /\ item'[i].pend = r
        BY <1>3, <1>4, <2>1
      <3> QED
        BY <1>1, <1>5, <1>6, <2>1, <3>1
    <2>2. CASE x # i
      <3>1. item[x].pend # NoRev /\ SameRevision(item[x].mat, item[x].pend) /\ item'[x] = item[x]
        BY <1>4, <2>2 DEF SameRevision, ValidItem
      <3>2. rev[item[x].pend].action = "post_review"
        BY <3>1 DEF StoredInv, PendingShownByPolicy
      <3> QED
        BY <1>7, <1>8, <3>1, <3>2
    <2> QED
      BY <2>1, <2>2
  <1>14. LockedOnceCreated' /\ RowsFollowLifecycle'
    BY <1>3, <1>4 DEF StoredInv, LockedOnceCreated, RowsFollowLifecycle, Exists
  <1> QED
    BY <1>10, <1>11, <1>12, <1>13, <1>14 DEF StoredInv

\* The pending revision of one item is decided.
LEMMA ReviewPreserves ==
    ASSUME TypeInv, StoredInv, NEW i \in Items, NEW e \in ReviewEvents, NEW r, r = item[i].pend,
           Accepts(e, item[i], "none", r), StillPending(r),
           item' = [item EXCEPT ![i] = After(e, item[i], "none", r)],
           rev' = Reviewed(rev, r, e), last' = last,
           \A x \in Items \ {i} : lock'[x] = lock[x],
           lock'[i] # 0,
           \A x \in Items : row'[x].alive = row[x].alive
    PROVE  StoredInv'
  <1> DEFINE n == After(e, item[i], "none", r)
  <1>0. /\ item \in [Items -> ItemRecords(Pointers)] /\ rev \in [Revisions -> RevisionRecords]
        /\ item[i] \in ItemRecords(Pointers) /\ last \in Nat
    BY DEF TypeInv, TypeOK, Pointers
  <1>1. /\ item[i].lifecycle = "active" /\ r # NoRev
        /\ ValidItem(n) /\ n.lifecycle = "active" /\ n.pend = NoRev
        /\ e = "reject" => n.app = item[i].app
        /\ e # "reject" => n.app = r
    BY <1>0, ReviewEffect
  <1> HIDE DEF n
  <1>2. item'[i] = n /\ \A x \in Items \ {i} : item'[x] = item[x]
    BY <1>0 DEF n
  <1>3. r \in Revisions /\ rev[r].status = "pending" /\ rev[r].owner = i
    BY <1>1 DEF StillPending, StoredInv, PointersMatchRevisions
  <1>4. /\ \A s \in Revisions \ {r} : rev'[s] = rev[s]
        /\ rev'[r].owner = rev[r].owner /\ rev'[r].action = rev[r].action
        /\ e = "reject" => rev'[r].status = "rejected"
        /\ e # "reject" => rev'[r].status = "approved"
    BY <1>0, <1>3 DEF Reviewed, RevisionRecords
  <1>5. \A x \in Items : /\ item[x].app # NoRev => item[x].app \in Revisions
                         /\ item[x].pend # NoRev => item[x].pend \in Revisions
    BY <1>0 DEF ItemRecords, Pointers, Revisions, NoRev
  <1>6. \A x \in Items \ {i} : /\ item[x].app # NoRev => item[x].app # r
                               /\ item[x].pend # NoRev => item[x].pend # r
    BY <1>3 DEF StoredInv, PointersMatchRevisions
  <1>7. item[i].app # NoRev => item[i].app # r
    BY <1>3 DEF StoredInv, PointersMatchRevisions
  <1>8. StateMatrix'
    BY <1>1, <1>2 DEF StoredInv, StateMatrix
  <1>9. RevisionsOwned'
    <2>1. ASSUME NEW s \in Revisions, s > last' PROVE rev'[s] = NoRevision
      <3>1. rev[s] = NoRevision
        BY <2>1 DEF StoredInv, RevisionsOwned
      <3>2. s # r
        BY <3>1, <1>3 DEF NoRevision
      <3> QED
        BY <1>4, <3>1, <3>2
    <2>2. ASSUME NEW s \in Revisions, s <= last'
          PROVE  rev'[s].owner \in Items /\ item'[rev'[s].owner].lifecycle # "absent"
      <3>1. rev[s].owner \in Items /\ item[rev[s].owner].lifecycle # "absent"
        BY <2>2 DEF StoredInv, RevisionsOwned, Exists
      <3>2. rev'[s].owner = rev[s].owner
        BY <1>4
      <3> QED
        BY <1>1, <1>2, <3>1, <3>2
    <2> QED
      BY <2>1, <2>2 DEF RevisionsOwned, Exists
  <1>10. PointersMatchRevisions'
    <2>1. ASSUME NEW x \in Items, item'[x].app # NoRev
          PROVE  rev'[item'[x].app].status = "approved" /\ rev'[item'[x].app].owner = x
      <3>1. CASE x = i /\ e # "reject"
        BY <1>1, <1>2, <1>3, <1>4, <3>1
      <3>2. CASE x # i \/ e = "reject"
        <4>1. item'[x].app = item[x].app
          BY <1>1, <1>2, <3>2
        <4>2. rev[item[x].app].status = "approved" /\ rev[item[x].app].owner = x
          BY <2>1, <4>1 DEF StoredInv, PointersMatchRevisions
        <4> QED
          BY <1>4, <1>5, <1>6, <1>7, <2>1, <4>1, <4>2
      <3> QED
        BY <3>1, <3>2
    <2>2. ASSUME NEW x \in Items, item'[x].pend # NoRev
          PROVE  rev'[item'[x].pend].status = "pending" /\ rev'[item'[x].pend].owner = x
      <3>1. x # i /\ item'[x] = item[x]
        BY <1>1, <1>2, <2>2
      <3> QED
        BY <1>4, <1>5, <1>6, <2>2, <3>1 DEF StoredInv, PointersMatchRevisions
    <2>3. ASSUME NEW x \in Items, NEW s \in Revisions, rev'[s].status = "pending", rev'[s].owner = x
          PROVE  item'[x].pend = s
      <3>1. s # r /\ rev'[s] = rev[s]
        BY <1>4, <2>3
      <3>2. item[x].pend = s
        BY <2>3, <3>1 DEF StoredInv, PointersMatchRevisions
      <3> QED
        BY <1>2, <3>1, <3>2
    <2> QED
      BY <2>1, <2>2, <2>3 DEF PointersMatchRevisions
  <1>11. PendingShownByPolicy'
    <2> SUFFICES ASSUME NEW x \in Items, SameRevision(item'[x].mat, item'[x].pend)
                 PROVE  rev'[item'[x].pend].action = "post_review"
      BY DEF PendingShownByPolicy, SameRevision
    <2>1. x # i /\ item'[x] = item[x] /\ item[x].pend # NoRev
      BY <1>1, <1>2 DEF SameRevision
    <2>2. rev[item[x].pend].action = "post_review"
      BY <2>1 DEF StoredInv, PendingShownByPolicy
    <2> QED
      BY <1>4, <1>5, <1>6, <2>1, <2>2
  <1>12. LockedOnceCreated' /\ RowsFollowLifecycle'
    BY <1>1, <1>2 DEF StoredInv, LockedOnceCreated, RowsFollowLifecycle, Exists
  <1> QED
    BY <1>8, <1>9, <1>10, <1>11, <1>12 DEF StoredInv

\* A set of live items goes, and every revision one of them has pending with it.
LEMMA RemovalPreserves ==
    ASSUME TypeInv, StoredInv, NEW S \in SUBSET Items, \A x \in S : row[x].alive,
           item' = [x \in Items |-> IF x \in S THEN Tombstone(item[x]) ELSE item[x]],
           rev' = [r \in Revisions |-> IF r \in {item[x].pend : x \in S} \ {NoRev}
                                       THEN [rev[r] EXCEPT !.status = "superseded"] ELSE rev[r]],
           last' = last,
           \A x \in Items : lock'[x] = 0 <=> lock[x] = 0,
           \A x \in Items : row'[x].alive = IF x \in S THEN FALSE ELSE row[x].alive
    PROVE  StoredInv'
  <1> DEFINE old == {item[x].pend : x \in S} \ {NoRev}
  <1>0. /\ item \in [Items -> ItemRecords(Pointers)] /\ rev \in [Revisions -> RevisionRecords]
        /\ last \in Nat
    BY DEF TypeInv, TypeOK, Pointers
  <1>1. /\ \A x \in S : /\ ValidItem(item'[x]) /\ item'[x].lifecycle = "deleted"
                        /\ item'[x].app = item[x].app /\ item'[x].pend = NoRev
        /\ \A x \in Items \ S : item'[x] = item[x]
    BY <1>0, TombstoneEffect
  <1>2. /\ \A r \in old \cap Revisions : rev'[r].status = "superseded"
        /\ \A r \in Revisions \ old : rev'[r] = rev[r]
        /\ \A r \in Revisions : rev'[r].owner = rev[r].owner /\ rev'[r].action = rev[r].action
    <2> SUFFICES ASSUME NEW r \in Revisions
                 PROVE  /\ r \in old => rev'[r].status = "superseded"
                        /\ r \notin old => rev'[r] = rev[r]
                        /\ rev'[r].owner = rev[r].owner /\ rev'[r].action = rev[r].action
      OBVIOUS
    <2>1. rev'[r] = IF r \in old THEN [rev[r] EXCEPT !.status = "superseded"] ELSE rev[r]
      OBVIOUS
    <2>2. rev[r] \in RevisionRecords
      BY <1>0
    <2> HIDE DEF old
    <2> QED
      BY <2>1, <2>2 DEF RevisionRecords
  <1>3. \A r \in old : \E x \in S : item[x].pend = r /\ r # NoRev
    OBVIOUS
  <1>4. \A r \in old : rev[r].status = "pending" /\ rev[r].owner \in S /\ item[rev[r].owner].pend = r
    BY <1>3 DEF StoredInv, PointersMatchRevisions
  <1>5. \A x \in S : item[x].pend # NoRev => item[x].pend \in old
    OBVIOUS
  <1>6. \A x \in Items : /\ item[x].app # NoRev => item[x].app \in Revisions
                         /\ item[x].pend # NoRev => item[x].pend \in Revisions
    BY <1>0 DEF ItemRecords, Pointers, Revisions, NoRev
  <1> HIDE DEF old
  <1>7. StateMatrix'
    BY <1>1 DEF StoredInv, StateMatrix
  <1>8. RevisionsOwned'
    <2>1. ASSUME NEW s \in Revisions, s > last' PROVE rev'[s] = NoRevision
      <3>1. rev[s] = NoRevision
        BY <2>1 DEF StoredInv, RevisionsOwned
      <3>2. s \notin old
        BY <1>4, <3>1 DEF NoRevision
      <3> QED
        BY <1>2, <3>1, <3>2
    <2>2. ASSUME NEW s \in Revisions, s <= last'
          PROVE  rev'[s].owner \in Items /\ item'[rev'[s].owner].lifecycle # "absent"
      <3>1. rev[s].owner \in Items /\ item[rev[s].owner].lifecycle # "absent"
        BY <2>2 DEF StoredInv, RevisionsOwned, Exists
      <3>2. rev'[s].owner = rev[s].owner
        BY <1>2
      <3> QED
        BY <1>1, <3>1, <3>2
    <2> QED
      BY <2>1, <2>2 DEF RevisionsOwned, Exists
  <1>9. PointersMatchRevisions'
    <2>1. ASSUME NEW x \in Items, item'[x].app # NoRev
          PROVE  rev'[item'[x].app].status = "approved" /\ rev'[item'[x].app].owner = x
      <3>1. item'[x].app = item[x].app
        BY <1>1
      <3>2. rev[item[x].app].status = "approved" /\ rev[item[x].app].owner = x
        BY <2>1, <3>1 DEF StoredInv, PointersMatchRevisions
      <3>3. item[x].app \in Revisions \ old
        BY <1>4, <1>6, <2>1, <3>1, <3>2
      <3>4. rev'[item[x].app] = rev[item[x].app]
        BY <1>2, <3>3
      <3> QED
        BY <3>1, <3>2, <3>4
    <2>2. ASSUME NEW x \in Items, item'[x].pend # NoRev
          PROVE  rev'[item'[x].pend].status = "pending" /\ rev'[item'[x].pend].owner = x
      <3>1. x \notin S /\ item'[x] = item[x]
        BY <1>1, <2>2
      <3>2. rev[item[x].pend].status = "pending" /\ rev[item[x].pend].owner = x
        BY <2>2, <3>1 DEF StoredInv, PointersMatchRevisions
      <3>3. item[x].pend \in Revisions \ old
        BY <1>4, <1>6, <2>2, <3>1, <3>2
      <3>4. rev'[item[x].pend] = rev[item[x].pend]
        BY <1>2, <3>3
      <3> QED
        BY <3>1, <3>2, <3>4
    <2>3. ASSUME NEW x \in Items, NEW s \in Revisions, rev'[s].status = "pending", rev'[s].owner = x
          PROVE  item'[x].pend = s
      <3>1. s \notin old /\ rev'[s] = rev[s]
        BY <1>2, <2>3
      <3>2. item[x].pend = s
        BY <2>3, <3>1 DEF StoredInv, PointersMatchRevisions
      <3>3. s # NoRev
        BY DEF Revisions, NoRev
      <3> QED
        BY <1>1, <1>5, <3>1, <3>2, <3>3
    <2> QED
      BY <2>1, <2>2, <2>3 DEF PointersMatchRevisions
  <1>10. PendingShownByPolicy'
    <2> SUFFICES ASSUME NEW x \in Items, SameRevision(item'[x].mat, item'[x].pend)
                 PROVE  rev'[item'[x].pend].action = "post_review"
      BY DEF PendingShownByPolicy, SameRevision
    <2>1. item'[x] = item[x] /\ item[x].pend # NoRev
      BY <1>1 DEF SameRevision
    <2>2. rev[item[x].pend].action = "post_review"
      BY <2>1 DEF StoredInv, PendingShownByPolicy
    <2> QED
      BY <1>2, <1>6, <2>1, <2>2
  <1>11. LockedOnceCreated' /\ RowsFollowLifecycle'
    BY <1>1 DEF StoredInv, LockedOnceCreated, RowsFollowLifecycle, Exists
  <1> QED
    BY <1>7, <1>8, <1>9, <1>10, <1>11 DEF StoredInv

\* Items are hidden or restored in place.
LEMMA IsolationPreserves ==
    ASSUME TypeInv, StoredInv,
           \A x \in Items :
               \/ item'[x] = item[x]
               \/ /\ ValidItem(item'[x]) /\ item[x].lifecycle = "active" /\ item'[x].lifecycle = "active"
                  /\ item'[x].app = item[x].app /\ item'[x].pend = item[x].pend
                  /\ item'[x].mat = item[x].mat,
           UNCHANGED <<row, rev, last>>,
           \A x \in Items : lock'[x] = 0 <=> lock[x] = 0
    PROVE  StoredInv'
  <1>1. StateMatrix'
    BY DEF StoredInv, StateMatrix
  <1>2. \A x \in Items : /\ item'[x].app = item[x].app /\ item'[x].pend = item[x].pend
                         /\ item'[x].mat = item[x].mat /\ item'[x].lifecycle = item[x].lifecycle
    OBVIOUS
  <1>3. RevisionsOwned'
    BY <1>2 DEF StoredInv, RevisionsOwned, Exists
  <1>4. PointersMatchRevisions'
    BY <1>2 DEF StoredInv, PointersMatchRevisions
  <1>5. PendingShownByPolicy'
    BY <1>2 DEF StoredInv, PendingShownByPolicy, SameRevision
  <1>6. LockedOnceCreated' /\ RowsFollowLifecycle'
    BY <1>2 DEF StoredInv, LockedOnceCreated, RowsFollowLifecycle, Exists
  <1> QED
    BY <1>1, <1>3, <1>4, <1>5, <1>6 DEF StoredInv

----------------------------------------------------------------------------
(* The inductive step.                                                      *)

LEMMA StoredKept ==
    ASSUME StoredInv, UNCHANGED <<item, lock, row, rev, last>>
    PROVE  StoredInv'
  BY DEF StoredInv, RevisionsOwned, StateMatrix, PointersMatchRevisions, PendingShownByPolicy,
         LockedOnceCreated, RowsFollowLifecycle, Exists

\* A step that only moves one request, to a plan that holds.
LEMMA QuietStep ==
    ASSUME IInv, TypeInv', UNCHANGED <<item, lock, row, rev, last>>, NEW c \in Clients,
           \A d \in Clients \ {c} : req'[d] = req[d],
           PlanHolds(req[c])', req'[c].pc # "deleting"
    PROVE  IInv'
  <1>1. StoredInv'
    BY StoredKept DEF IInv
  <1>2. PlansHold' /\ DeletionsHold'
    BY PlansKept
  <1> QED
    BY <1>1, <1>2 DEF IInv

\* Deletions, hides and restores are accepted whatever revision is named.
LEMMA AcceptsAnyRevision ==
    ASSUME NEW e \in EmergencyEvents \cup {"delete"}, NEW i, NEW a, NEW r, NEW s, Accepts(e, i, a, r)
    PROVE  Accepts(e, i, a, s)
  <1>1. After(e, i, a, r) = After(e, i, a, s)
    BY DEF After, EmergencyEvents, SubmitEvents
  <1>2. Allowed(e, i, a, r) <=> Allowed(e, i, a, s)
    BY DEF Allowed, EmergencyEvents, SubmitEvents, ReviewEvents
  <1> QED
    BY <1>1, <1>2 DEF Accepts

LEMMA AcceptedEdit ==
    ASSUME NEW i, NEW a, NEW r, Accepts("resubmit", i, a, r)
    PROVE  i.lifecycle = "active" /\ i.public # "emergency_hidden"
  <1>1. Allowed("resubmit", i, a, r)
    BY DEF Accepts, IsIdempotent
  <1> QED
    BY <1>1 DEF Allowed, SubmitEvents, ReviewEvents

\* A plan just made on a stored item.
LEMMA PlannedStep ==
    ASSUME IInv, TypeInv', NEW c \in Clients, NEW i \in Items, NEW e \in Events \ SubmitEvents,
           Accepts(e, item[i], "none", item[i].pend),
           e = "delete" => item[i].lifecycle = "active",
           req' = [req EXCEPT ![c] = PlannedOn(e, i)], UNCHANGED stored
    PROVE  IInv'
  <1> DEFINE q == PlannedOn(e, i)
  <1>1. /\ q.pc = "planned" /\ q.event = e /\ q.target = i /\ q.snap = item[i] /\ q.lock = lock[i]
        /\ q.action = "none"
    BY DEF PlannedOn, Idle
  <1>2. req'[c] = q /\ \A d \in Clients \ {c} : req'[d] = req[d]
    BY DEF IInv, TypeInv, TypeOK
  <1>3. UNCHANGED <<item, lock, row, rev, last>>
    BY DEF stored
  <1> HIDE DEF q
  <1>4. RevisionOf(req'[c]) = item[i].pend
    BY <1>1, <1>2 DEF RevisionOf, SubmitEvents
  <1>5. lock[i] \in Nat
    BY BoundsAssumption DEF IInv, TypeInv, TypeOK
  <1>6. PlanHolds(req[c])'
    BY <1>1, <1>2, <1>3, <1>4, <1>5 DEF PlanHolds, Accepts, RevisionOf
  <1>7. req'[c].pc # "deleting"
    BY <1>1, <1>2
  <1> QED
    BY <1>2, <1>3, <1>6, <1>7, QuietStep

\* A commit that touches the items of S and ends its request.
LEMMA CommitStep ==
    ASSUME IInv, TypeInv', StoredInv', NEW c \in Clients, Finish(c), NEW S \in SUBSET Items,
           \A x \in Items \ S : item'[x] = item[x] /\ lock'[x] = lock[x] /\ row'[x].alive = row[x].alive,
           \A x \in S : lock'[x] > lock[x] /\ RowFree(c, x)
    PROVE  IInv'
  <1>1. PlansHold' /\ DeletionsHold'
    BY IdlePlan, PlansKept DEF IInv
  <1> QED
    BY <1>1 DEF IInv

LEMMA IInvStep == IInv /\ [Next]_vars => IInv'
  <1> SUFFICES ASSUME IInv, [Next]_vars PROVE IInv'
    OBVIOUS
  <1>0. TypeInv /\ TypeInv' /\ StoredInv /\ PlansHold /\ DeletionsHold
    BY TypeStep DEF IInv
  <1>t. /\ item \in [Items -> ItemRecords(Pointers)] /\ req \in [Clients -> Requests]
        /\ lock \in [Items -> 0 .. MaxLock] /\ \A x \in Items : lock[x] \in Nat
        /\ row \in [Items -> RowRecords]
    BY <1>0, BoundsAssumption DEF TypeInv, TypeOK
  <1>1. CASE UNCHANGED vars
    BY <1>1, <1>0, StoredKept
    DEF vars, stored, IInv, PlansHold, PlanHolds, DeletionsHold, HoldsRow
  <1>2. ASSUME NEW c \in Clients, NEW p \in Items \cup {NoItem}, NEW k \in Keys,
               NEW a \in PublishingActions \cup {"block"}, StartSubmit(c, p, k, a)
        PROVE  IInv'
    <2>1. UNCHANGED <<item, lock, row, rev, last>> /\ \A d \in Clients \ {c} : req'[d] = req[d]
      BY <1>2, <1>t DEF StartSubmit, stored
    <2>2. req'[c].lock = 0 /\ req'[c].pc # "deleting"
      BY <1>2, <1>t DEF StartSubmit, Idle
    <2> QED
      BY <1>0, <2>1, <2>2, QuietStep DEF PlanHolds
  <1>3. ASSUME NEW c \in Clients, NEW i \in Items, NEW k \in Keys, StartEdit(c, i, k)
        PROVE  IInv'
    <2>1. UNCHANGED <<item, lock, row, rev, last>> /\ \A d \in Clients \ {c} : req'[d] = req[d]
      BY <1>3, <1>t DEF StartEdit, stored
    <2>2. req'[c].lock = 0 /\ req'[c].pc # "deleting"
      BY <1>3, <1>t DEF StartEdit, Idle
    <2> QED
      BY <1>0, <2>1, <2>2, QuietStep DEF PlanHolds
  <1>4. ASSUME NEW c \in Clients, NEW a \in PublishingActions \cup {"block"}, PlanEdit(c, a)
        PROVE  IInv'
    <2> DEFINE q == req[c]
               i == q.target
    <2>1. /\ UNCHANGED <<item, lock, row, rev, last>> /\ \A d \in Clients \ {c} : req'[d] = req[d]
          /\ q.pc = "checked" /\ q.event = "resubmit" /\ i \in Items /\ q \in Requests
      BY <1>0, <1>4, <1>t DEF PlanEdit, stored, TypeInv, RequestsKnown, KnownRequest
    <2>2. CASE req' = [req EXCEPT ![c] = [q EXCEPT !.pc = "blocked"]]
      <3>1. req'[c] = [q EXCEPT !.pc = "blocked"]
        BY <1>t, <2>2
      <3>2. /\ req'[c].pc = "blocked" /\ req'[c].event = q.event /\ req'[c].lock = q.lock
            /\ req'[c].target = q.target /\ req'[c].snap = q.snap /\ req'[c].action = q.action
        BY <2>1, <3>1 DEF Requests
      <3>3. PlanHolds(q)
        BY <1>0 DEF PlansHold
      <3>4. PlanHolds(req[c])'
        BY <2>1, <3>2, <3>3 DEF PlanHolds, RevisionOf, Accepts
      <3> QED
        BY <1>0, <2>1, <3>2, <3>4, QuietStep
    <2>3. CASE /\ Accepts("resubmit", item[i], a, NewRevision)
               /\ req' = [req EXCEPT ![c] = [q EXCEPT !.pc = "planned", !.action = a,
                                                      !.snap = item[i], !.lock = lock[i]]]
      <3>1. req'[c] = [q EXCEPT !.pc = "planned", !.action = a, !.snap = item[i], !.lock = lock[i]]
        BY <1>t, <2>3
      <3>2. /\ req'[c].pc = "planned" /\ req'[c].event = "resubmit" /\ req'[c].lock = lock[i]
            /\ req'[c].target = i /\ req'[c].snap = item[i] /\ req'[c].action = a
        BY <2>1, <3>1 DEF Requests
      <3>3. PlanHolds(req[c])'
        BY <1>t, <2>1, <2>3, <3>2 DEF PlanHolds, RevisionOf, Accepts
      <3> QED
        BY <1>0, <2>1, <3>2, <3>3, QuietStep
    <2> QED
      BY <1>4, <2>2, <2>3 DEF PlanEdit
  <1>5. ASSUME NEW c \in Clients, RecordBlock(c)
        PROVE  IInv'
    <2>1. UNCHANGED <<item, lock, row, rev, last>> /\ Finish(c)
      BY <1>5 DEF RecordBlock
    <2> QED
      BY <1>0, <2>1, IdlePlan, QuietStep
  <1>6. ASSUME NEW c \in Clients, BeginCreate(c)
        PROVE  IInv'
    <2> DEFINE q == req[c]
    <2>1. /\ UNCHANGED <<item, lock, row, rev, last>> /\ \A d \in Clients \ {c} : req'[d] = req[d]
          /\ req'[c] = [q EXCEPT !.pc = "creating"] /\ q \in Requests
      BY <1>6, <1>t DEF BeginCreate, stored
    <2>2. /\ req'[c].pc = "creating" /\ req'[c].event = q.event /\ req'[c].lock = q.lock
          /\ req'[c].target = q.target /\ req'[c].snap = q.snap /\ req'[c].action = q.action
      BY <2>1 DEF Requests
    <2>3. PlanHolds(q)
      BY <1>0 DEF PlansHold
    <2>4. PlanHolds(req[c])'
      BY <2>1, <2>2, <2>3 DEF PlanHolds, RevisionOf, Accepts
    <2> QED
      BY <1>0, <2>1, <2>2, <2>4, QuietStep
  <1>7. ASSUME NEW c \in Clients, NEW i \in Items, CommitCreate(c, i)
        PROVE  IInv'
    <2> DEFINE q == req[c]
               r == last + 1
    <2>1. q.key \in Keys /\ q.action \in PublishingActions
      BY <1>0, <1>7 DEF CommitCreate, TypeInv, RequestsKnown, KnownRequest, SubmitEvents
    <2>2. item[i] = EmptyItem /\ lock[i] = 0
      BY <1>0, <1>7 DEF CommitCreate, Exists, StoredInv, StateMatrix, ValidItem, LockedOnceCreated
    <2>3. /\ item' = [item EXCEPT ![i] = After("submit", EmptyItem, q.action, r)]
          /\ row' = [row EXCEPT ![i] = [alive |-> TRUE, shows |-> MaterializedBy("submit", EmptyItem, q.action, r)]]
          /\ rev' = [rev EXCEPT ![r] = Created(i, q.key, q.action)]
          /\ lock' = [lock EXCEPT ![i] = 2] /\ last' = r /\ last < MaxRevision /\ Finish(c)
      BY <1>7 DEF CommitCreate
    <2>4. After("submit", EmptyItem, q.action, r) = Submitted(item[i], q.action, r)
      BY <2>2 DEF After, IsIdempotent, SubmitEvents
    <2>5. Superseded(rev, item[i].pend) = rev
      <3>1. item[i].pend \notin Revisions
        BY <2>2 DEF EmptyItem, Revisions, NoRev
      <3>2. rev = [x \in Revisions |-> rev[x]]
        BY <1>0 DEF TypeInv, TypeOK
      <3> QED
        BY <3>1, <3>2 DEF Superseded
    <2>6. /\ item[i].lifecycle # "deleted" /\ item[i].public # "emergency_hidden"
      BY <2>2 DEF EmptyItem
    <2>7. /\ lock'[i] = 2 /\ row'[i].alive
          /\ \A x \in Items \ {i} : lock'[x] = lock[x] /\ row'[x].alive = row[x].alive /\ item'[x] = item[x]
      BY <1>t, <2>3
    <2>8. StoredInv'
      <3>1. item' = [item EXCEPT ![i] = Submitted(item[i], q.action, last + 1)]
        BY <2>3, <2>4
      <3>2. rev' = [Superseded(rev, item[i].pend) EXCEPT ![last + 1] = Created(i, q.key, q.action)]
        BY <2>3, <2>5
      <3>3. last' = last + 1 /\ last < MaxRevision /\ lock'[i] # 0
        BY <2>3, <2>7
      <3> HIDE DEF q, r
      <3> QED
        BY <1>0, <2>1, <2>6, <2>7, <3>1, <3>2, <3>3, WritePreserves DEF q, r
    <2>9. \A x \in {i} : lock'[x] > lock[x] /\ RowFree(c, x)
      BY <2>2, <2>7, HeldRowExists DEF RowFree
    <2>10. {i} \in SUBSET Items /\ Finish(c)
      BY <2>3
    <2> QED
      BY <1>0, <2>7, <2>8, <2>9, <2>10, CommitStep
  <1>8. ASSUME NEW c \in Clients, CommitEdit(c)
        PROVE  IInv'
    <2> DEFINE q == req[c]
               i == q.target
               r == last + 1
    <2>1. i \in Items /\ q.key \in Keys /\ q.action \in PublishingActions /\ q.event = "resubmit"
      BY <1>0, <1>8 DEF CommitEdit, TypeInv, RequestsKnown, KnownRequest, SubmitEvents
    <2>2. LockedAsPlanned(q) /\ RowFree(c, i) /\ Finish(c) /\ last' = r /\ last < MaxRevision
      BY <1>8 DEF CommitEdit
    <2>3. /\ item[i] = q.snap /\ item[i].lifecycle = "active"
          /\ Accepts("resubmit", item[i], q.action, NewRevision)
      BY <2>1, <2>2, LockedItem DEF RevisionOf
    <2>4. item[i].public # "emergency_hidden"
      BY <2>3, AcceptedEdit
    <2>5. /\ After("resubmit", item[i], q.action, r) = Submitted(item[i], q.action, r)
          /\ SupersededBy("resubmit", item[i]) = item[i].pend
      BY DEF After, IsIdempotent, SubmitEvents, SupersededBy
    <2>6. /\ item' = [item EXCEPT ![i] = Submitted(item[i], q.action, r)]
          /\ rev' = [Superseded(rev, item[i].pend) EXCEPT ![r] = Created(i, q.key, q.action)]
          /\ lock' = [lock EXCEPT ![i] = @ + 1]
          /\ row' = Materialized(i, MaterializedBy("resubmit", q.snap, q.action, r))
      BY <1>8, <2>3, <2>5 DEF CommitEdit
    <2>7. \A x \in Items : row'[x].alive = row[x].alive
      BY <1>t, <2>6 DEF Materialized, RowRecords
    <2>8. /\ lock'[i] > lock[i] /\ lock'[i] # 0
          /\ \A x \in Items \ {i} : lock'[x] = lock[x] /\ item'[x] = item[x]
      BY <1>t, <2>1, <2>6
    <2>9. StoredInv'
      BY <1>0, <2>1, <2>2, <2>3, <2>4, <2>6, <2>7, <2>8, WritePreserves DEF LockedAsPlanned
    <2>10. {i} \in SUBSET Items /\ \A x \in {i} : lock'[x] > lock[x] /\ RowFree(c, x)
      BY <2>1, <2>2, <2>8
    <2> QED
      BY <1>0, <2>2, <2>7, <2>8, <2>9, <2>10, CommitStep
  <1>9. ASSUME NEW c \in Clients, NEW i \in Items, NEW e \in ReviewEvents, PlanReview(c, i, e)
        PROVE  IInv'
    <2>1. e \in Events \ SubmitEvents /\ e # "delete"
      BY DEF Events, SubmitEvents, ReviewEvents
    <2> QED
      BY <1>0, <1>9, <2>1, PlannedStep DEF PlanReview
  <1>10. ASSUME NEW c \in Clients, CommitReview(c)
         PROVE  IInv'
    <2> DEFINE q == req[c]
               i == q.target
               r == q.snap.pend
    <2>1. i \in Items /\ q.event \in ReviewEvents
      BY <1>0, <1>10 DEF CommitReview, TypeInv, RequestsKnown, KnownRequest, ReviewEvents
    <2>2. LockedAsPlanned(q) /\ RowFree(c, i) /\ Finish(c) /\ last' = last /\ StillPending(r)
      BY <1>10 DEF CommitReview
    <2>3. item[i] = q.snap /\ Accepts(q.event, item[i], q.action, r)
      BY <2>1, <2>2, LockedItem DEF RevisionOf, ReviewEvents
    <2>4. Accepts(q.event, item[i], "none", r)
      <3>1. /\ After(q.event, item[i], q.action, r) = After(q.event, item[i], "none", r)
            /\ Allowed(q.event, item[i], q.action, r) <=> Allowed(q.event, item[i], "none", r)
        BY <2>1 DEF After, Allowed, ReviewEvents, SubmitEvents
      <3> QED
        BY <2>3, <3>1 DEF Accepts
    <2>5. /\ item' = [item EXCEPT ![i] = After(q.event, item[i], "none", r)]
          /\ rev' = Reviewed(rev, r, q.event)
          /\ lock' = [lock EXCEPT ![i] = @ + 1]
          /\ row' = Materialized(i, MaterializedBy(q.event, q.snap, "none", r))
      BY <1>10, <2>3 DEF CommitReview
    <2>6. \A x \in Items : row'[x].alive = row[x].alive
      BY <1>t, <2>5 DEF Materialized, RowRecords
    <2>7. /\ lock'[i] > lock[i] /\ lock'[i] # 0
          /\ \A x \in Items \ {i} : lock'[x] = lock[x] /\ item'[x] = item[x]
      BY <1>t, <2>1, <2>5
    <2>8. StoredInv'
      BY <1>0, <2>1, <2>2, <2>3, <2>4, <2>5, <2>6, <2>7, ReviewPreserves
    <2>9. {i} \in SUBSET Items /\ \A x \in {i} : lock'[x] > lock[x] /\ RowFree(c, x)
      BY <2>1, <2>2, <2>7
    <2> QED
      BY <1>0, <2>2, <2>6, <2>7, <2>8, <2>9, CommitStep
  <1>11. ASSUME NEW c \in Clients, NEW i \in Items, PlanDelete(c, i)
         PROVE  IInv'
    <2>1. "delete" \in Events \ SubmitEvents
      BY DEF Events, SubmitEvents
    <2>2. Accepts("delete", item[i], "none", item[i].pend)
      BY <1>11, AcceptsAnyRevision DEF PlanDelete
    <2>3. item[i].lifecycle = "active"
      BY <1>0, <1>11 DEF PlanDelete, StoredInv, RowsFollowLifecycle
    <2> QED
      BY <1>0, <1>11, <2>1, <2>2, <2>3, PlannedStep DEF PlanDelete
  <1>12. ASSUME NEW c \in Clients, BeginDelete(c)
         PROVE  IInv'
    <2> DEFINE q == req[c]
               i == q.target
    <2>1. i \in Items /\ q \in Requests /\ q.event = "delete"
      BY <1>0, <1>12, <1>t DEF BeginDelete, TypeInv, RequestsKnown, KnownRequest
    <2>2. LockedAsPlanned(q) /\ RowFree(c, i) /\ UNCHANGED <<item, lock, row, rev, last>>
      BY <1>12 DEF BeginDelete, stored
    <2>3. req'[c] = [q EXCEPT !.pc = "deleting", !.tree = Descendants(i)]
          /\ \A d \in Clients \ {c} : req'[d] = req[d]
      BY <1>12, <1>t DEF BeginDelete
    <2>4. /\ req'[c].pc = "deleting" /\ req'[c].event = q.event /\ req'[c].lock = q.lock
          /\ req'[c].target = i /\ req'[c].snap = q.snap /\ req'[c].action = q.action
          /\ req'[c].tree = Descendants(i)
      BY <2>1, <2>3 DEF Requests
    <2>5. PlanHolds(q) /\ q.lock # 0
      BY <1>0, <2>1, <2>2, LockedItem DEF PlansHold
    <2>6. PlanHolds(req[c])'
      BY <2>2, <2>4, <2>5 DEF PlanHolds, RevisionOf, Accepts, LockedAsPlanned
    <2>7. \A d \in Clients \ {c} : PlanHolds(req[d])'
      <3> SUFFICES ASSUME NEW d \in Clients \ {c} PROVE PlanHolds(req[d])'
        OBVIOUS
      <3>1. PlanHolds(req[d]) /\ req'[d] = req[d]
        BY <1>0, <2>3 DEF PlansHold
      <3> QED
        BY <2>2, <3>1 DEF PlanHolds, RevisionOf, Accepts
    <2>8. i \notin Descendants(i)
      BY DEF Descendants
    <2>9. ASSUME NEW d \in Clients, req'[d].pc = "deleting"
          PROVE  /\ req'[d].lock # 0 /\ req'[d].target \notin req'[d].tree
                 /\ \A e \in Clients \ {d} : ~(req'[e].pc = "deleting" /\ req'[e].target = req'[d].target)
      <3>1. CASE d = c
        BY <2>2, <2>3, <2>4, <2>5, <2>8, <3>1 DEF RowFree, HoldsRow
      <3>2. CASE d # c
        <4>1. req'[d] = req[d] /\ req[d].target # i
          BY <2>2, <2>3, <2>9, <3>2 DEF RowFree, HoldsRow
        <4>2. /\ req[d].lock # 0 /\ req[d].target \notin req[d].tree
              /\ \A e \in Clients \ {d} : ~(req[e].pc = "deleting" /\ req[e].target = req[d].target)
          BY <1>0, <2>9, <4>1 DEF DeletionsHold, HoldsRow
        <4>3. ASSUME NEW e \in Clients \ {d}
              PROVE  ~(req'[e].pc = "deleting" /\ req'[e].target = req'[d].target)
          <5>1. CASE e = c
            BY <2>4, <4>1, <5>1
          <5>2. CASE e # c
            BY <2>3, <4>1, <4>2, <5>2
          <5> QED
            BY <5>1, <5>2
        <4> QED
          BY <4>1, <4>2, <4>3
      <3> QED
        BY <3>1, <3>2
    <2>10. DeletionsHold'
      BY <2>9 DEF DeletionsHold, HoldsRow
    <2>11. PlansHold'
      BY <2>6, <2>7 DEF PlansHold
    <2> QED
      BY <1>0, <2>2, <2>10, <2>11, StoredKept DEF IInv
  <1>13. ASSUME NEW c \in Clients, CommitDelete(c)
         PROVE  IInv'
    <2> DEFINE q == req[c]
               i == q.target
               S == q.tree \cup {i}
    <2>1. i \in Items /\ S \in SUBSET Items /\ q.pc = "deleting" /\ q.event = "delete"
      BY <1>0, <1>13, <1>t DEF CommitDelete, TypeInv, RequestsKnown, KnownRequest, Requests
    <2>2. /\ q.lock # 0 /\ i \notin q.tree /\ lock[i] = q.lock /\ row[i].alive /\ RowFree(c, i)
          /\ item[i] = q.snap /\ q.snap.lifecycle = "active"
      BY <1>0, <2>1 DEF DeletionsHold, PlansHold, PlanHolds, RowFree
    <2>3. /\ \A d \in q.tree : RowFree(c, d) /\ row[d].alive
          /\ Finish(c) /\ last' = last /\ lock' = Bumped(S) /\ row' = Removed(S)
      BY <1>13 DEF CommitDelete
    <2>4. After("delete", q.snap, "none", NoRev) = Tombstone(item[i])
      BY <2>2, DeletionEffect
    <2>5. item' = [x \in Items |-> IF x \in S THEN Tombstone(item[x]) ELSE item[x]]
      BY <1>13, <2>2, <2>4 DEF CommitDelete
    <2>6. Withdrawn(q) = {item[x].pend : x \in S} \ {NoRev}
      BY <2>2 DEF Withdrawn, SupersededBy
    <2>7. rev' = [r \in Revisions |-> IF r \in {item[x].pend : x \in S} \ {NoRev}
                                      THEN [rev[r] EXCEPT !.status = "superseded"] ELSE rev[r]]
      BY <1>13, <2>6 DEF CommitDelete
    <2>8. \A x \in Items : row'[x].alive = IF x \in S THEN FALSE ELSE row[x].alive
      BY <1>t, <2>3 DEF Removed, RowRecords
    <2>9. /\ \A x \in S : lock'[x] = lock[x] + 1
          /\ \A x \in Items \ S : lock'[x] = lock[x] /\ item'[x] = item[x]
      BY <2>1, <2>3, <2>5 DEF Bumped
    <2>10. \A x \in S : row[x].alive /\ RowFree(c, x)
      BY <2>2, <2>3
    <2>11. \A x \in Items : lock'[x] = 0 <=> lock[x] = 0
      <3>1. \A x \in S : lock[x] # 0
        BY <1>0, <2>1, <2>10 DEF StoredInv, RowsFollowLifecycle, LockedOnceCreated, Exists
      <3> QED
        BY <1>t, <2>1, <2>9, <3>1
    <2> HIDE DEF S
    <2>12. StoredInv'
      BY <1>0, <2>1, <2>3, <2>5, <2>7, <2>8, <2>10, <2>11, RemovalPreserves
    <2>13. \A x \in S : lock'[x] > lock[x]
      BY <1>t, <2>1, <2>9
    <2> QED
      BY <1>0, <2>1, <2>3, <2>8, <2>9, <2>10, <2>12, <2>13, CommitStep
  <1>14. ASSUME NEW c \in Clients, NEW i \in Items, NEW e \in EmergencyEvents, PlanEmergency(c, i, e)
         PROVE  IInv'
    <2>1. e \in Events \ SubmitEvents /\ e # "delete"
      BY DEF Events, SubmitEvents, EmergencyEvents
    <2>2. Accepts(e, item[i], "none", item[i].pend)
      BY <1>14, AcceptsAnyRevision DEF PlanEmergency
    <2> QED
      BY <1>0, <1>14, <2>1, <2>2, PlannedStep DEF PlanEmergency
  <1>15. ASSUME NEW c \in Clients, CommitEmergency(c)
         PROVE  IInv'
    <2> DEFINE q == req[c]
               i == q.target
               n == After(q.event, q.snap, "none", NoRev)
    <2>1. i \in Items /\ q.event \in EmergencyEvents
      BY <1>0, <1>15 DEF CommitEmergency, TypeInv, RequestsKnown, KnownRequest, EmergencyEvents
    <2>2. /\ LockedAsPlanned(q) /\ RowFree(c, i) /\ Finish(c) /\ UNCHANGED <<row, rev, last>>
          /\ item' = [item EXCEPT ![i] = n] /\ lock' = [lock EXCEPT ![i] = @ + 1]
      BY <1>15 DEF CommitEmergency
    <2>3. item[i] = q.snap /\ Accepts(q.event, item[i], q.action, RevisionOf(q))
          /\ item[i].lifecycle = "active"
      BY <2>1, <2>2, LockedItem
    <2>4. Accepts(q.event, item[i], "none", NoRev)
      <3>1. /\ After(q.event, item[i], q.action, RevisionOf(q)) = After(q.event, item[i], "none", NoRev)
            /\ Allowed(q.event, item[i], q.action, RevisionOf(q)) <=> Allowed(q.event, item[i], "none", NoRev)
        BY <2>1 DEF After, Allowed, EmergencyEvents, ReviewEvents, SubmitEvents
      <3> QED
        BY <2>3, <3>1 DEF Accepts
    <2>5. /\ ValidItem(n) /\ n.lifecycle = "active"
          /\ n.app = item[i].app /\ n.pend = item[i].pend /\ n.mat = item[i].mat
      BY <1>t, <2>1, <2>3, <2>4, EmergencyEffect
    <2> HIDE DEF n
    <2>6. item'[i] = n /\ lock'[i] > lock[i] /\ lock[i] # 0 /\ lock'[i] # 0
      BY <1>0, <1>t, <2>1, <2>2, <2>3 DEF StoredInv, LockedOnceCreated, Exists
    <2>7. \A x \in Items \ {i} : lock'[x] = lock[x] /\ item'[x] = item[x]
      BY <1>t, <2>2
    <2>8. StoredInv'
      BY <1>0, <2>2, <2>3, <2>5, <2>6, <2>7, IsolationPreserves
    <2>9. {i} \in SUBSET Items /\ \A x \in {i} : lock'[x] > lock[x] /\ RowFree(c, x)
      BY <2>1, <2>2, <2>6
    <2> QED
      BY <1>0, <2>2, <2>7, <2>8, <2>9, CommitStep
  <1>16. ASSUME NEW S \in SUBSET Items, BatchHide(S)
         PROVE  IInv'
    <2>1. \A i \in S : HideInColumnOrder(item[i]).before = "emergency_hidden"
      BY <1>t DEF HideInColumnOrder, ItemRecords
    <2>2. \A i \in S : ~PreviousStateCheck(HideInColumnOrder(item[i]))
      BY <2>1 DEF PreviousStateCheck, BeforeStates
    <2>3. UNCHANGED <<item, lock, row, rev, last, req>>
      BY <1>16, <2>2 DEF BatchHide, Batch
    <2> QED
      BY <1>0, <2>3, StoredKept
      DEF IInv, PlansHold, PlanHolds, DeletionsHold, HoldsRow
  <1>17. ASSUME NEW S \in SUBSET Items, BatchRestore(S)
         PROVE  IInv'
    <2>1. /\ \A i \in S : RestoreCandidate(i) /\ \A d \in Clients : ~HoldsRow(d, i)
          /\ item' = [i \in Items |-> IF i \in S THEN Restored(item[i]) ELSE item[i]]
          /\ lock' = Bumped(S) /\ UNCHANGED <<row, rev, last, req>>
      BY <1>17 DEF BatchRestore, Batch
    <2>2. ASSUME NEW x \in S
          PROVE  /\ ValidItem(item'[x]) /\ item[x].lifecycle = "active" /\ item'[x].lifecycle = "active"
                 /\ item'[x].app = item[x].app /\ item'[x].pend = item[x].pend
                 /\ item'[x].mat = item[x].mat
      <3>1. /\ item[x].lifecycle = "active" /\ item[x].public = "emergency_hidden"
            /\ ValidItem(item[x]) /\ item'[x] = Restored(item[x]) /\ item[x] \in ItemRecords(Pointers)
        BY <1>0, <1>t, <2>1 DEF RestoreCandidate, StoredInv, StateMatrix
      <3>2. item[x].before = "visible" /\ item[x].pend = NoRev /\ SameRevision(item[x].mat, item[x].app)
        BY <3>1 DEF ValidItem, ValidActive, EmptyItem
      <3>3. /\ item'[x].lifecycle = "active" /\ item'[x].public = "visible" /\ item'[x].before = "none"
            /\ item'[x].app = item[x].app /\ item'[x].pend = item[x].pend /\ item'[x].mat = item[x].mat
        BY <3>1, <3>2 DEF Restored, ItemRecords
      <3> QED
        BY <3>1, <3>2, <3>3 DEF ValidItem, ValidActive, ValidVisiblePointers, SameRevision
    <2>3. \A x \in Items \ S : item'[x] = item[x] /\ lock'[x] = lock[x]
      BY <2>1 DEF Bumped
    <2>4. \A x \in S : lock[x] # 0 /\ lock'[x] = lock[x] + 1
      BY <1>0, <2>1 DEF Bumped, RestoreCandidate, StoredInv, LockedOnceCreated, Exists
    <2>5. \A x \in Items : lock'[x] = 0 <=> lock[x] = 0
      BY <1>t, <2>3, <2>4
    <2>6. StoredInv'
      BY <1>0, <2>1, <2>2, <2>3, <2>5, IsolationPreserves
    <2>7. ASSUME NEW d \in Clients PROVE PlanHolds(req[d])'
      <3> DEFINE q == req[d]
      <3>1. PlanHolds(q) /\ req'[d] = q /\ q.lock \in Nat
        BY <1>0, <1>t, <2>1, BoundsAssumption DEF PlansHold, Requests
      <3>2. CASE q.target \in S
        <4>1. q.pc # "deleting"
          BY <2>1, <3>2 DEF HoldsRow
        <4> QED
          BY <1>t, <2>4, <3>1, <3>2, <4>1 DEF PlanHolds, RevisionOf, Accepts
      <3>3. CASE q.target \notin S
        BY <1>t, <2>1, <2>3, <3>1, <3>3 DEF PlanHolds, RevisionOf, Accepts
      <3> QED
        BY <3>2, <3>3
    <2>8. DeletionsHold'
      BY <1>0, <2>1 DEF DeletionsHold, HoldsRow
    <2> QED
      BY <1>0, <2>6, <2>7, <2>8 DEF IInv, PlansHold
  <1>18. ASSUME NEW c \in Clients, Abandon(c)
         PROVE  IInv'
    BY <1>0, <1>18, IdlePlan, QuietStep DEF Abandon, stored
  <1> QED
    BY <1>1, <1>2, <1>3, <1>4, <1>5, <1>6, <1>7, <1>8, <1>9, <1>10, <1>11, <1>12, <1>13,
       <1>14, <1>15, <1>16, <1>17, <1>18 DEF Next, Author, Reviewer, Remover, Operator

LEMMA IInvInit == Init => IInv
  <1> SUFFICES ASSUME Init PROVE IInv
    OBVIOUS
  <1>1. TypeInv
    BY InitType
  <1>2. StateMatrix
    BY DEF Init, StateMatrix, ValidItem
  <1>3. RevisionsOwned
    BY DEF Init, RevisionsOwned, Revisions
  <1>4. PointersMatchRevisions
    BY DEF Init, PointersMatchRevisions, EmptyItem, NoRevision, NoRev
  <1>5. PendingShownByPolicy
    BY DEF Init, PendingShownByPolicy, EmptyItem, SameRevision
  <1>6. LockedOnceCreated /\ RowsFollowLifecycle
    BY DEF Init, LockedOnceCreated, RowsFollowLifecycle, EmptyItem, Exists
  <1>7. PlansHold /\ DeletionsHold
    BY DEF Init, PlansHold, PlanHolds, DeletionsHold, Idle
  <1> QED
    BY <1>1, <1>2, <1>3, <1>4, <1>5, <1>6, <1>7 DEF IInv, StoredInv

\* The inductive invariant holds of every reachable state: items, revisions and
\* rows agree, and each request still knows what it must of the item it planned on.
THEOREM Invariance == Spec => []IInv
  BY IInvInit, IInvStep, PTL DEF Spec

\* No commit leaves an item that validateItemSnapshot refuses, so that every
\* stored item can still be edited, reviewed, hidden, restored or deleted.
THEOREM StateMatrixHolds == Spec => []StateMatrix
  <1>1. IInv => StateMatrix
    BY DEF IInv, StoredInv
  <1> QED
    BY <1>1, Invariance, PTL

\* The pointers of the items and the statuses of the revisions agree, and no
\* revision stays in the review queue that no item waits for.
THEOREM PointersHold == Spec => []PointersMatchRevisions
  <1>1. IInv => PointersMatchRevisions
    BY DEF IInv, StoredInv
  <1> QED
    BY <1>1, Invariance, PTL

\* A business row lives exactly as long as its item is active.
THEOREM RowsHold == Spec => []RowsFollowLifecycle
  <1>1. IInv => RowsFollowLifecycle
    BY DEF IInv, StoredInv
  <1> QED
    BY <1>1, Invariance, PTL

\* lock_version is enough: a request that finds the version it planned on finds
\* the very item it planned on, whoever wrote in between.
THEOREM PlansStayCurrent == Spec => []PlansAreCurrent
  <1>1. IInv => PlansAreCurrent
    BY DEF IInv, PlansHold, PlanHolds, PlansAreCurrent
  <1> QED
    BY <1>1, Invariance, PTL

\* A page shows an approved revision of its item, or a pending one the policy
\* let through for review afterwards.
THEOREM OnlyReleasedShown == Spec => []OnlyReleasedContentShown
  <1>1. ASSUME IInv PROVE OnlyReleasedContentShown
    <2> SUFFICES ASSUME NEW i \in Items, item[i].public = "visible"
                 PROVE  /\ item[i].mat # NoRev /\ rev[item[i].mat].owner = i
                        /\ \/ rev[item[i].mat].status = "approved"
                           \/ /\ rev[item[i].mat].status = "pending"
                              /\ rev[item[i].mat].action = "post_review"
      BY DEF OnlyReleasedContentShown
    <2>1. ValidItem(item[i])
      BY <1>1 DEF IInv, StoredInv, StateMatrix
    <2>2. ValidVisiblePointers(item[i])
      BY <2>1 DEF ValidItem, ValidActive, EmptyItem
    <2>3. CASE SameRevision(item[i].mat, item[i].app)
      BY <1>1, <2>3 DEF IInv, StoredInv, PointersMatchRevisions, SameRevision
    <2>4. CASE SameRevision(item[i].mat, item[i].pend)
      BY <1>1, <2>4 DEF IInv, StoredInv, PointersMatchRevisions, PendingShownByPolicy, SameRevision
    <2> QED
      BY <2>2, <2>3, <2>4 DEF ValidVisiblePointers
  <1> QED
    BY <1>1, Invariance, PTL
=============================================================================
