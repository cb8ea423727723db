------------------------- MODULE ModerationOutcomes -------------------------
(* What has been decided stays decided: outcomes of keys, of revisions and  *)
(* of deletions; what is scored and announced, and how often; and what the  *)
(* readers see meanwhile.  For every set of items, keys and clients.        *)
EXTENDS ModerationInvariants, FiniteSetTheorems

(***************************************************************************)
(* Idempotency keys.                                                       *)
(***************************************************************************)
\* A creation in progress holds the profile lock of its key and found it unused.
KeysHeld ==
    \A c \in Clients : req[c].pc = "creating" =>
        ~Answered(req[c].key) /\ KeyFree(c, req[c].key)

KeysInv == IInv /\ OneOutcomePerKey /\ KeysHeld

\* A commit that answers one unanswered key with a revision.
LEMMA NewRevisionAnswers ==
    ASSUME TypeInv, OneOutcomePerKey, NEW r \in Revisions, NEW k \in Keys, ~Answered(k),
           rev[r] = NoRevision, rev'[r].key = k, attempt' = attempt,
           \A s \in Revisions \ {r} : rev'[s].key = rev[s].key
    PROVE  /\ OneOutcomePerKey'
           /\ \A h \in Keys \ {k} : ~Answered(h) => ~Answered(h)'
  <1>1. \A s \in Revisions : rev[s].key # k
    BY DEF Answered
  <1>2. \A s \in Revisions : rev'[s].key \notin attempt'
    BY DEF OneOutcomePerKey, Answered
  <1>3. \A s, t \in Revisions : rev'[s].key # NoKey /\ rev'[s].key = rev'[t].key => s = t
    BY <1>1 DEF OneOutcomePerKey
  <1>4. \A h \in Keys \ {k} : ~Answered(h) => ~Answered(h)'
    BY DEF Answered
  <1> QED
    BY <1>2, <1>3, <1>4 DEF OneOutcomePerKey

\* The creations in progress across a step that answers no key they hold and
\* starts no creation.
LEMMA KeysKept ==
    ASSUME TypeInv, KeysHeld, NEW c \in Clients,
           \A d \in Clients \ {c} : req'[d] = req[d],
           req'[c].pc # "creating",
           \A d \in Clients \ {c} : req[d].pc = "creating" => ~Answered(req[d].key)'
    PROVE  KeysHeld'
  <1> SUFFICES ASSUME NEW d \in Clients, req'[d].pc = "creating"
               PROVE  ~Answered(req[d].key)' /\ KeyFree(d, req[d].key)'
    BY DEF KeysHeld
  <1>1. d # c /\ req'[d] = req[d]
    OBVIOUS
  <1>2. KeyFree(d, req[d].key)
    BY <1>1 DEF KeysHeld
  <1>3. ~Answered(req[d].key)'
    BY <1>1
  <1>4. KeyFree(d, req[d].key)'
    BY <1>1, <1>2 DEF KeyFree
  <1> QED
    BY <1>3, <1>4

\* The outcomes of the keys depend on these two variables only.
LEMMA OutcomesKept ==
    ASSUME TypeInv, OneOutcomePerKey, attempt' = attempt,
           \A s \in Revisions : rev'[s].key = rev[s].key
    PROVE  OneOutcomePerKey' /\ \A h \in Keys : Answered(h)' <=> Answered(h)
  BY DEF OneOutcomePerKey, Answered

\* A step of one request that answers no key and does not end up creating.
LEMMA KeysQuiet ==
    ASSUME KeysInv, NEW c \in Clients, attempt' = attempt,
           \A s \in Revisions : rev'[s].key = rev[s].key,
           \A d \in Clients \ {c} : req'[d] = req[d],
           req'[c].pc # "creating"
    PROVE  OneOutcomePerKey' /\ KeysHeld'
  <1>1. TypeInv /\ OneOutcomePerKey /\ KeysHeld
    BY DEF KeysInv, IInv
  <1>2. OneOutcomePerKey' /\ \A h \in Keys : Answered(h)' <=> Answered(h)
    BY <1>1, OutcomesKept
  <1>3. ASSUME NEW d \in Clients \ {c}, req[d].pc = "creating" PROVE ~Answered(req[d].key)'
    <2>1. req[d].key \in Keys /\ ~Answered(req[d].key) /\ req'[d] = req[d]
      BY <1>1, <1>3 DEF TypeInv, RequestsKnown, KnownRequest, SubmitEvents, KeysHeld
    <2> QED
      BY <1>2, <2>1
  <1> QED
    BY <1>1, <1>2, <1>3, KeysKept

\* A creation or an edit commits under an unanswered key no other creation holds.
LEMMA KeysAnswered ==
    ASSUME KeysInv, NEW c \in Clients, NEW r \in Revisions, rev[r] = NoRevision,
           req[c].key \in Keys, ~Answered(req[c].key), KeyFree(c, req[c].key),
           rev'[r].key = req[c].key, attempt' = attempt,
           \A s \in Revisions \ {r} : rev'[s].key = rev[s].key,
           Finish(c)
    PROVE  OneOutcomePerKey' /\ KeysHeld'
  <1>1. TypeInv /\ OneOutcomePerKey /\ KeysHeld
    BY DEF KeysInv, IInv
  <1>2. req'[c] = Idle /\ \A d \in Clients \ {c} : req'[d] = req[d]
    BY <1>1 DEF Finish, TypeInv, TypeOK
  <1> DEFINE k == req[c].key
  <1>3. OneOutcomePerKey' /\ \A h \in Keys \ {k} : ~Answered(h) => ~Answered(h)'
    BY <1>1, NewRevisionAnswers
  <1>4. ASSUME NEW d \in Clients \ {c}, req[d].pc = "creating" PROVE ~Answered(req[d].key)'
    <2>1. req[d].key \in Keys \ {k} /\ ~Answered(req[d].key) /\ req'[d] = req[d]
      BY <1>1, <1>2, <1>4 DEF TypeInv, RequestsKnown, KnownRequest, SubmitEvents, KeysHeld, KeyFree
    <2> QED
      BY <1>3, <2>1
  <1>5. req'[c].pc # "creating"
    BY <1>2 DEF Idle
  <1> QED
    BY <1>1, <1>2, <1>3, <1>4, <1>5, KeysKept

LEMMA KeysStep == KeysInv /\ [Next]_vars => KeysInv'
  <1> SUFFICES ASSUME KeysInv, [Next]_vars PROVE OneOutcomePerKey' /\ KeysHeld'
    BY IInvStep DEF KeysInv
  <1>0. IInv /\ TypeInv /\ OneOutcomePerKey /\ KeysHeld /\ StoredInv
    BY DEF KeysInv, IInv
  <1>t. /\ req \in [Clients -> Requests] /\ rev \in [Revisions -> RevisionRecords]
        /\ attempt \in SUBSET Keys /\ Idle.pc # "creating"
    BY <1>0 DEF TypeInv, TypeOK, Idle
  <1>1. CASE UNCHANGED vars
    BY <1>0, <1>1 DEF vars, stored, OneOutcomePerKey, KeysHeld, Answered, KeyFree
  <1>2. ASSUME NEW c \in Clients, NEW p \in Items \cup {NoItem}, NEW k \in Keys,
               NEW a \in PublishingActions \cup {"block"}, StartSubmit(c, p, k, a)
        PROVE  OneOutcomePerKey' /\ KeysHeld'
    <2>1. /\ UNCHANGED <<attempt, rev>> /\ \A d \in Clients \ {c} : req'[d] = req[d]
          /\ req'[c].pc # "creating"
      BY <1>2, <1>t DEF StartSubmit, stored, Idle
    <2> QED
      BY <2>1, KeysQuiet
  <1>3. ASSUME NEW c \in Clients, NEW i \in Items, NEW k \in Keys, StartEdit(c, i, k)
        PROVE  OneOutcomePerKey' /\ KeysHeld'
    <2>1. /\ UNCHANGED <<attempt, rev>> /\ \A d \in Clients \ {c} : req'[d] = req[d]
          /\ req'[c].pc # "creating"
      BY <1>3, <1>t DEF StartEdit, stored, Idle
    <2> QED
      BY <2>1, KeysQuiet
  <1>4. ASSUME NEW c \in Clients, NEW a \in PublishingActions \cup {"block"}, PlanEdit(c, a)
        PROVE  OneOutcomePerKey' /\ KeysHeld'
    <2>1. /\ UNCHANGED <<attempt, rev>> /\ \A d \in Clients \ {c} : req'[d] = req[d]
          /\ req'[c].pc # "creating"
      BY <1>4, <1>t DEF PlanEdit, stored, Requests
    <2> QED
      BY <2>1, KeysQuiet
  <1>5. ASSUME NEW c \in Clients, RecordBlock(c)
        PROVE  OneOutcomePerKey' /\ KeysHeld'
    <2> DEFINE k == req[c].key
    <2>1. /\ k \in Keys /\ KeyFree(c, k) /\ Finish(c) /\ rev' = rev
          /\ attempt' = IF Answered(k) THEN attempt ELSE attempt \cup {k}
      BY <1>0, <1>5 DEF RecordBlock, TypeInv, RequestsKnown, KnownRequest
    <2>2. req'[c] = Idle /\ \A d \in Clients \ {c} : req'[d] = req[d]
      BY <1>t, <2>1 DEF Finish
    <2>3. CASE Answered(k)
      BY <1>t, <2>1, <2>2, <2>3, KeysQuiet
    <2>4. CASE ~Answered(k)
      <3>1. attempt' = attempt \cup {k}
        BY <2>1, <2>4
      <3>2. OneOutcomePerKey'
        BY <1>0, <2>1, <2>4, <3>1 DEF OneOutcomePerKey, Answered
      <3>3. ASSUME NEW d \in Clients \ {c}, req[d].pc = "creating" PROVE ~Answered(req[d].key)'
        <4>1. req[d].key # k /\ ~Answered(req[d].key) /\ req'[d] = req[d]
          BY <1>0, <2>1, <2>2, <3>3 DEF KeysHeld, KeyFree
        <4> QED
          BY <2>1, <3>1, <4>1 DEF Answered
      <3> QED
        BY <1>0, <1>t, <2>2, <3>2, <3>3, KeysKept
    <2> QED
      BY <2>3, <2>4
  <1>6. ASSUME NEW c \in Clients, BeginCreate(c)
        PROVE  OneOutcomePerKey' /\ KeysHeld'
    <2> DEFINE k == req[c].key
    <2>1. /\ UNCHANGED <<attempt, rev>> /\ KeyFree(c, k) /\ ~Answered(k)
          /\ req'[c] = [req[c] EXCEPT !.pc = "creating"] /\ \A d \in Clients \ {c} : req'[d] = req[d]
      BY <1>6, <1>t DEF BeginCreate, stored
    <2>2. req'[c].pc = "creating" /\ req'[c].key = k
      BY <1>t, <2>1 DEF Requests
    <2>3. OneOutcomePerKey' /\ \A h : Answered(h)' <=> Answered(h)
      BY <1>0, <2>1 DEF OneOutcomePerKey, Answered
    <2>4. ASSUME NEW d \in Clients, req'[d].pc = "creating"
          PROVE  /\ ~Answered(req'[d].key)
                 /\ \A e \in Clients \ {d} : ~(req'[e].pc = "creating" /\ req'[e].key = req'[d].key)
      <3>1. CASE d = c
        BY <2>1, <2>2, <3>1 DEF KeyFree
      <3>2. CASE d # c
        <4>1. /\ req'[d] = req[d] /\ ~Answered(req[d].key) /\ req[d].key # k
              /\ \A e \in Clients \ {d} : ~(req[e].pc = "creating" /\ req[e].key = req[d].key)
          BY <1>0, <2>1, <2>4, <3>2 DEF KeysHeld, KeyFree
        <4>2. ASSUME NEW e \in Clients \ {d}
              PROVE  ~(req'[e].pc = "creating" /\ req'[e].key = req'[d].key)
          <5>1. CASE e = c
            BY <2>2, <4>1, <5>1
          <5>2. CASE e # c
            BY <2>1, <4>1, <5>2
          <5> QED
            BY <5>1, <5>2
        <4> QED
          BY <4>1, <4>2
      <3> QED
        BY <3>1, <3>2
    <2>5. KeysHeld'
      BY <2>1, <2>4 DEF KeysHeld, KeyFree, Answered
    <2> QED
      BY <2>3, <2>5
  <1>7. ASSUME NEW c \in Clients, NEW i \in Items, CommitCreate(c, i)
        PROVE  OneOutcomePerKey' /\ KeysHeld'
    <2> DEFINE q == req[c]
               r == last + 1
    <2>1. /\ q.pc = "creating" /\ q.key \in Keys /\ Finish(c) /\ attempt' = attempt
          /\ last < MaxRevision /\ rev' = [rev EXCEPT ![r] = Created(i, q.key, q.action)]
      BY <1>0, <1>7 DEF CommitCreate, TypeInv, RequestsKnown, KnownRequest, SubmitEvents
    <2>2. ~Answered(q.key) /\ KeyFree(c, q.key)
      BY <1>0, <2>1 DEF KeysHeld
    <2>3. r \in Revisions /\ rev[r] = NoRevision
      BY <1>0, <2>1, NextRevisionIsFresh
    <2> HIDE DEF r
    <2>4. rev'[r].key = q.key /\ \A s \in Revisions \ {r} : rev'[s].key = rev[s].key
      BY <1>t, <2>1, <2>3 DEF Created
    <2> QED
      BY <2>1, <2>2, <2>3, <2>4, KeysAnswered
  <1>8. ASSUME NEW c \in Clients, CommitEdit(c)
        PROVE  OneOutcomePerKey' /\ KeysHeld'
    <2> DEFINE q == req[c]
               i == q.target
               r == last + 1
               old == SupersededBy("resubmit", q.snap)
    <2>1. /\ i \in Items /\ q.key \in Keys /\ Finish(c) /\ attempt' = attempt /\ last < MaxRevision
          /\ ~Answered(q.key) /\ KeyFree(c, q.key)
          /\ rev' = [Superseded(rev, old) EXCEPT ![r] = Created(i, q.key, q.action)]
      BY <1>0, <1>8 DEF CommitEdit, TypeInv, RequestsKnown, KnownRequest, SubmitEvents
    <2>2. r \in Revisions /\ rev[r] = NoRevision
      BY <1>0, <2>1, NextRevisionIsFresh
    <2> HIDE DEF r, old
    <2>3. /\ rev'[r] = Created(i, q.key, q.action)
          /\ \A s \in Revisions \ {r} :
                rev'[s] = IF s = old THEN [rev[s] EXCEPT !.status = "superseded"] ELSE rev[s]
      BY <1>t, <2>1, <2>2 DEF Superseded
    <2>4. rev'[r].key = q.key
      BY <2>3 DEF Created
    <2>5. \A s \in Revisions \ {r} : rev'[s].key = rev[s].key
      BY <1>t, <2>3 DEF RevisionRecords
    <2> QED
      BY <2>1, <2>2, <2>4, <2>5, KeysAnswered
  <1>9. ASSUME NEW c \in Clients, NEW i \in Items, NEW e \in ReviewEvents, PlanReview(c, i, e)
        PROVE  OneOutcomePerKey' /\ KeysHeld'
    <2>1. /\ UNCHANGED <<attempt, rev>> /\ \A d \in Clients \ {c} : req'[d] = req[d]
          /\ req'[c].pc # "creating"
      BY <1>9, <1>t DEF PlanReview, stored, PlannedOn, Idle
    <2> QED
      BY <2>1, KeysQuiet
  <1>10. ASSUME NEW c \in Clients, CommitReview(c)
         PROVE  OneOutcomePerKey' /\ KeysHeld'
    <2> DEFINE r == req[c].snap.pend
    <2>1. /\ attempt' = attempt /\ Finish(c) /\ rev' = Reviewed(rev, r, req[c].event)
      BY <1>10 DEF CommitReview
    <2>2. /\ req'[c].pc # "creating" /\ \A d \in Clients \ {c} : req'[d] = req[d]
      BY <1>t, <2>1 DEF Finish
    <2>3. \A s \in Revisions : rev'[s].key = rev[s].key
      BY <1>t, <2>1 DEF Reviewed, RevisionRecords
    <2> QED
      BY <2>1, <2>2, <2>3, KeysQuiet
  <1>11. ASSUME NEW c \in Clients, NEW i \in Items, PlanDelete(c, i)
         PROVE  OneOutcomePerKey' /\ KeysHeld'
    <2>1. /\ UNCHANGED <<attempt, rev>> /\ \A d \in Clients \ {c} : req'[d] = req[d]
          /\ req'[c].pc # "creating"
      BY <1>11, <1>t DEF PlanDelete, stored, PlannedOn, Idle
    <2> QED
      BY <2>1, KeysQuiet
  <1>12. ASSUME NEW c \in Clients, BeginDelete(c)
         PROVE  OneOutcomePerKey' /\ KeysHeld'
    <2>1. /\ UNCHANGED <<attempt, rev>> /\ \A d \in Clients \ {c} : req'[d] = req[d]
          /\ req'[c].pc # "creating"
      BY <1>12, <1>t DEF BeginDelete, stored, Requests
    <2> QED
      BY <2>1, KeysQuiet
  <1>13. ASSUME NEW c \in Clients, CommitDelete(c)
         PROVE  OneOutcomePerKey' /\ KeysHeld'
    <2>1. /\ attempt' = attempt /\ Finish(c)
          /\ rev' = [r \in Revisions |-> IF r \in Withdrawn(req[c])
                                         THEN [rev[r] EXCEPT !.status = "superseded"] ELSE rev[r]]
      BY <1>13 DEF CommitDelete
    <2>2. /\ req'[c].pc # "creating" /\ \A d \in Clients \ {c} : req'[d] = req[d]
      BY <1>t, <2>1 DEF Finish
    <2>3. \A s \in Revisions : rev'[s].key = rev[s].key
      BY <1>t, <2>1 DEF RevisionRecords
    <2> QED
      BY <2>1, <2>2, <2>3, KeysQuiet
  <1>14. ASSUME NEW c \in Clients, NEW i \in Items, NEW e \in EmergencyEvents, PlanEmergency(c, i, e)
         PROVE  OneOutcomePerKey' /\ KeysHeld'
    <2>1. /\ UNCHANGED <<attempt, rev>> /\ \A d \in Clients \ {c} : req'[d] = req[d]
          /\ req'[c].pc # "creating"
      BY <1>14, <1>t DEF PlanEmergency, stored, PlannedOn, Idle
    <2> QED
      BY <2>1, KeysQuiet
  <1>15. ASSUME NEW c \in Clients, CommitEmergency(c)
         PROVE  OneOutcomePerKey' /\ KeysHeld'
    <2>1. /\ UNCHANGED <<attempt, rev>> /\ \A d \in Clients \ {c} : req'[d] = req[d]
          /\ req'[c].pc # "creating"
      BY <1>15, <1>t DEF CommitEmergency, Finish
    <2> QED
      BY <2>1, KeysQuiet
  <1>16. ASSUME NEW S \in SUBSET Items, BatchHide(S) \/ BatchRestore(S)
         PROVE  OneOutcomePerKey' /\ KeysHeld'
    <2>1. UNCHANGED <<attempt, rev, req>>
      BY <1>16 DEF BatchHide, BatchRestore
    <2> QED
      BY <1>0, <2>1 DEF OneOutcomePerKey, KeysHeld, Answered, KeyFree
  <1>17. ASSUME NEW c \in Clients, Abandon(c)
         PROVE  OneOutcomePerKey' /\ KeysHeld'
    <2>1. /\ UNCHANGED <<attempt, rev>> /\ \A d \in Clients \ {c} : req'[d] = req[d]
          /\ req'[c].pc # "creating"
      BY <1>17, <1>t DEF Abandon, stored, Finish
    <2> QED
      BY <2>1, KeysQuiet
  <1> QED
    BY <1>1, <1>2, <1>3, <1>4, <1>5, <1>6, <1>7, <1>8, <1>9, <1>10, <1>11, <1>12, <1>13,
       <1>14, <1>15, <1>16, <1>17 DEF Next, Author, Reviewer, Remover, Operator

\* A request sent any number of times, by any number of clients at once, is
\* answered once: with one revision or with one recorded block.
THEOREM OneOutcome == Spec => []OneOutcomePerKey
  <1>1. Init => KeysInv
    <2> SUFFICES ASSUME Init PROVE OneOutcomePerKey /\ KeysHeld
      BY IInvInit DEF KeysInv
    <2> QED
      BY KeysAssumption DEF Init, OneOutcomePerKey, KeysHeld, Idle, NoRevision
  <1>2. KeysInv => OneOutcomePerKey
    BY DEF KeysInv
  <1> QED
    BY <1>1, <1>2, KeysStep, PTL DEF Spec

(***************************************************************************)
(* Decisions.                                                              *)
(***************************************************************************)
Decided(r) == rev[r].status \in {"approved", "rejected", "superseded"}

DecisionsKept ==
    /\ \A r \in Revisions : Decided(r) => rev'[r] = rev[r]
    /\ \A i \in Items : item[i].lifecycle = "deleted" => item'[i] = item[i] /\ ~row'[i].alive

\* A step that writes live or new items, and undecided revisions, only.
LEMMA DecisionsUntouched ==
    ASSUME IInv, NEW S \in SUBSET Items, \A x \in S : item[x].lifecycle # "deleted",
           \A x \in Items \ S : item'[x] = item[x] /\ row'[x].alive = row[x].alive,
           \A r \in Revisions : rev'[r] = rev[r] \/ ~Decided(r)
    PROVE  DecisionsKept
  <1>1. \A i \in Items : item[i].lifecycle = "deleted" => ~row[i].alive
    BY DEF IInv, StoredInv, RowsFollowLifecycle
  <1> QED
    BY <1>1 DEF DecisionsKept

LEMMA DecisionStep == IInv /\ [Next]_vars => DecisionsKept
  <1> SUFFICES ASSUME IInv, [Next]_vars PROVE DecisionsKept
    OBVIOUS
  <1>0. TypeInv /\ StoredInv
    BY DEF IInv
  <1>t. /\ item \in [Items -> ItemRecords(Pointers)] /\ rev \in [Revisions -> RevisionRecords]
        /\ row \in [Items -> RowRecords] /\ {} \in SUBSET Items
    BY <1>0 DEF TypeInv, TypeOK
  <1>1. ASSUME UNCHANGED <<item, row, rev>> PROVE DecisionsKept
    BY <1>1, <1>0 DEF DecisionsKept, StoredInv, RowsFollowLifecycle
  <1>2. ASSUME NEW c \in Clients, NEW i \in Items, CommitCreate(c, i)
        PROVE  DecisionsKept
    <2> DEFINE r == last + 1
    <2>1. /\ ~Exists(i) /\ last < MaxRevision
          /\ rev' = [rev EXCEPT ![r] = Created(i, req[c].key, req[c].action)]
      BY <1>2 DEF CommitCreate
    <2>2. r \in Revisions /\ rev[r] = NoRevision
      BY <1>0, <2>1, NextRevisionIsFresh
    <2> HIDE DEF r
    <2>3. \A x \in Revisions : rev'[x] = rev[x] \/ ~Decided(x)
      BY <1>t, <2>1, <2>2 DEF Decided, NoRevision
    <2>4. \A x \in Items \ {i} : item'[x] = item[x] /\ row'[x].alive = row[x].alive
      BY <1>2, <1>t DEF CommitCreate
    <2>5. {i} \in SUBSET Items /\ \A x \in {i} : item[x].lifecycle # "deleted"
      BY <2>1 DEF Exists
    <2> QED
      BY <2>3, <2>4, <2>5, DecisionsUntouched
  <1>3. ASSUME NEW c \in Clients, CommitEdit(c)
        PROVE  DecisionsKept
    <2> DEFINE q == req[c]
               i == q.target
               r == last + 1
               old == SupersededBy("resubmit", q.snap)
    <2>1. /\ i \in Items /\ LockedAsPlanned(q) /\ last < MaxRevision /\ StillPending(old)
          /\ rev' = [Superseded(rev, old) EXCEPT ![r] = Created(i, q.key, q.action)]
      BY <1>0, <1>3 DEF CommitEdit, TypeInv, RequestsKnown, KnownRequest
    <2>2. r \in Revisions /\ rev[r] = NoRevision /\ item[i].lifecycle = "active"
      BY <1>0, <2>1, NextRevisionIsFresh, LockedItem
    <2> HIDE DEF r, old
    <2>3. \A s \in Revisions \ {r} :
             rev'[s] = IF s = old THEN [rev[s] EXCEPT !.status = "superseded"] ELSE rev[s]
      BY <1>t, <2>1, <2>2 DEF Superseded
    <2>4. \A s \in Revisions : s = r \/ s = old => ~Decided(s)
      BY <2>1, <2>2 DEF Decided, NoRevision, StillPending, Revisions, NoRev
    <2>5. \A s \in Revisions : rev'[s] = rev[s] \/ ~Decided(s)
      BY <2>3, <2>4
    <2>6. \A x \in Items \ {i} : item'[x] = item[x] /\ row'[x].alive = row[x].alive
      BY <1>3, <1>t DEF CommitEdit, Materialized
    <2>7. {i} \in SUBSET Items /\ \A x \in {i} : item[x].lifecycle # "deleted"
      BY <2>1, <2>2
    <2> QED
      BY <2>5, <2>6, <2>7, DecisionsUntouched
  <1>4. ASSUME NEW c \in Clients, CommitReview(c)
        PROVE  DecisionsKept
    <2> DEFINE q == req[c]
               i == q.target
               r == q.snap.pend
    <2>1. /\ i \in Items /\ LockedAsPlanned(q) /\ StillPending(r)
          /\ rev' = Reviewed(rev, r, q.event)
      BY <1>0, <1>4 DEF CommitReview, TypeInv, RequestsKnown, KnownRequest, ReviewEvents
    <2>2. item[i].lifecycle = "active"
      BY <2>1, LockedItem
    <2> HIDE DEF r
    <2>3. \A s \in Revisions \ {r} : rev'[s] = rev[s]
      BY <1>t, <2>1 DEF Reviewed
    <2>4. \A s \in Revisions : s = r => ~Decided(s)
      BY <2>1 DEF Decided, StillPending, Revisions, NoRev
    <2>5. \A x \in Items \ {i} : item'[x] = item[x] /\ row'[x].alive = row[x].alive
      BY <1>4, <1>t DEF CommitReview, Materialized
    <2>6. {i} \in SUBSET Items /\ \A x \in {i} : item[x].lifecycle # "deleted"
      BY <2>1, <2>2
    <2> QED
      BY <2>3, <2>4, <2>5, <2>6, DecisionsUntouched
  <1>5. ASSUME NEW c \in Clients, CommitDelete(c)
        PROVE  DecisionsKept
    <2> DEFINE q == req[c]
               i == q.target
               S == q.tree \cup {i}
    <2>1. i \in Items /\ S \in SUBSET Items /\ q.pc = "deleting"
      BY <1>0, <1>5 DEF CommitDelete, TypeInv, TypeOK, RequestsKnown, KnownRequest, Requests
    <2>2. row[i].alive /\ lock[i] = q.lock /\ item[i] = q.snap
      BY <2>1 DEF IInv, DeletionsHold, PlansHold, PlanHolds
    <2>3. /\ \A d \in q.tree : row[d].alive
          /\ row' = Removed(S)
          /\ \A x \in Items \ S : item'[x] = item[x]
          /\ rev' = [r \in Revisions |-> IF r \in Withdrawn(q)
                                         THEN [rev[r] EXCEPT !.status = "superseded"] ELSE rev[r]]
      BY <1>5 DEF CommitDelete
    <2>4. \A r \in Withdrawn(q) : rev[r].status = "pending"
      <3>1. Withdrawn(q) \subseteq {item[x].pend : x \in S} \ {NoRev}
        BY <2>2 DEF Withdrawn, SupersededBy
      <3> QED
        BY <1>0, <2>1, <3>1 DEF StoredInv, PointersMatchRevisions
    <2>5. \A r \in Revisions : rev'[r] = rev[r] \/ ~Decided(r)
      BY <2>3, <2>4 DEF Decided
    <2>6. \A x \in S : item[x].lifecycle # "deleted"
      BY <1>0, <2>1, <2>2, <2>3 DEF StoredInv, RowsFollowLifecycle
    <2>7. \A x \in Items \ S : row'[x].alive = row[x].alive
      BY <2>3 DEF Removed
    <2> HIDE DEF S
    <2> QED
      BY <2>1, <2>3, <2>5, <2>6, <2>7, DecisionsUntouched
  <1>6. ASSUME NEW c \in Clients, CommitEmergency(c)
        PROVE  DecisionsKept
    <2> DEFINE q == req[c]
               i == q.target
    <2>1. i \in Items /\ LockedAsPlanned(q) /\ UNCHANGED <<row, rev>>
      BY <1>0, <1>6 DEF CommitEmergency, TypeInv, RequestsKnown, KnownRequest, EmergencyEvents
    <2>2. item[i].lifecycle = "active"
      BY <2>1, LockedItem
    <2>3. \A x \in Items \ {i} : item'[x] = item[x] /\ row'[x].alive = row[x].alive
      BY <1>6, <1>t, <2>1 DEF CommitEmergency
    <2>4. {i} \in SUBSET Items /\ \A x \in {i} : item[x].lifecycle # "deleted"
      BY <2>1, <2>2
    <2> QED
      BY <2>1, <2>3, <2>4, DecisionsUntouched
  <1>7. ASSUME NEW S \in SUBSET Items, BatchHide(S) \/ BatchRestore(S)
        PROVE  DecisionsKept
    <2>1. /\ UNCHANGED <<row, rev>>
          /\ \A x \in Items \ S : item'[x] = item[x]
      BY <1>7 DEF BatchHide, BatchRestore
    <2>2. \A x \in S : item[x].lifecycle # "deleted"
      BY <1>7 DEF BatchHide, BatchRestore, HideCandidate, Allowed, RestoreCandidate,
                  SubmitEvents, ReviewEvents
    <2> QED
      BY <2>1, <2>2, DecisionsUntouched
  <1>8. ASSUME NEW c \in Clients, RecordBlock(c) \/ Abandon(c) PROVE DecisionsKept
    BY <1>1, <1>8 DEF RecordBlock, Abandon, stored
  <1>9. ASSUME UNCHANGED stored PROVE DecisionsKept
    BY <1>1, <1>9 DEF stored
  <1>10. CASE UNCHANGED vars
    BY <1>9, <1>10 DEF vars
  <1>11. ASSUME NEW c \in Clients, Author(c) PROVE DecisionsKept
    BY <1>2, <1>3, <1>8, <1>9, <1>11 DEF Author, StartSubmit, StartEdit, PlanEdit, BeginCreate
  <1>12. ASSUME NEW c \in Clients, Reviewer(c) PROVE DecisionsKept
    BY <1>4, <1>9, <1>12 DEF Reviewer, PlanReview
  <1>13. ASSUME NEW c \in Clients, Remover(c) PROVE DecisionsKept
    BY <1>5, <1>9, <1>13 DEF Remover, PlanDelete, BeginDelete
  <1>14. ASSUME NEW c \in Clients, Operator(c) PROVE DecisionsKept
    BY <1>6, <1>9, <1>14 DEF Operator, PlanEmergency
  <1> QED
    BY <1>7, <1>8, <1>10, <1>11, <1>12, <1>13, <1>14 DEF Next

\* An approved, rejected or superseded revision keeps its outcome, and a deleted
\* item its columns, whatever request was planned on them before the decision.
THEOREM DecisionsStayFinal == Spec => DecisionsAreFinal
  <1>1. IInv /\ [Next]_vars => [DecisionsKept]_vars
    BY DecisionStep
  <1>2. DecisionsAreFinal <=> [][DecisionsKept]_vars
    BY PTL DEF DecisionsAreFinal, DecisionsKept, Decided
  <1> QED
    BY <1>1, <1>2, Invariance, PTL DEF Spec

(***************************************************************************)
(* Scores.                                                                 *)
(***************************************************************************)
\* A revision nobody has decided carries no decision.
OpenUndecided ==
    \A r \in Revisions : rev[r].status \in {"unused", "pending"} => rev[r].decision = "none"

ScoreInv == OpenUndecided /\ IsFiniteSet(attempt) /\ ViolationsScoredOnce

\* A commit that scores nothing and decides nothing as a violation.
LEMMA ScoresKept ==
    ASSUME ScoreInv, profile' = profile, attempt' = attempt, OpenUndecided',
           \A s \in Revisions : \/ rev'[s].decision = rev[s].decision
                                \/ {rev'[s].decision, rev[s].decision} \subseteq {"none", "approved"}
    PROVE  ScoreInv'
  <1>1. DecidedAs("corrected")' = DecidedAs("corrected")
    BY DEF DecidedAs
  <1>2. DecidedAs("rejected")' = DecidedAs("rejected")
    BY DEF DecidedAs
  <1> QED
    BY <1>1, <1>2 DEF ScoreInv, ViolationsScoredOnce

LEMMA RevisionsFinite == \A d : IsFiniteSet(DecidedAs(d))
  <1>1. IsFiniteSet(Revisions)
    BY FS_Interval, BoundsAssumption DEF Revisions
  <1>2. \A d : DecidedAs(d) \in SUBSET Revisions
    BY DEF DecidedAs
  <1> QED
    BY <1>1, <1>2, FS_Subset

\* A review adds the revision it decides to one of the two sets, or to neither.
LEMMA ScoresReviewed ==
    ASSUME TypeInv, ScoreInv, NEW e \in ReviewEvents, NEW r \in Revisions,
           rev[r].status = "pending", rev' = Reviewed(rev, r, e),
           profile' = Scored(e), attempt' = attempt
    PROVE  ScoreInv'
  <1>t. profile \in Counters /\ rev \in [Revisions -> RevisionRecords]
    BY DEF TypeInv, TypeOK
  <1> DEFINE d == CASE e = "approve" -> "approved"
                    [] e = "correct_and_approve" -> "corrected"
                    [] OTHER -> "rejected"
  <1>1. /\ rev'[r].decision = d /\ rev'[r].status \in {"approved", "rejected"}
        /\ \A s \in Revisions \ {r} : rev'[s] = rev[s]
    BY <1>t DEF Reviewed, RevisionRecords
  <1>2. OpenUndecided'
    BY <1>1 DEF OpenUndecided, ScoreInv
  <1>3. rev[r].decision = "none"
    BY DEF ScoreInv, OpenUndecided
  <1>4. r \notin DecidedAs("corrected") /\ r \notin DecidedAs("rejected")
    BY <1>3 DEF DecidedAs
  <1>5. CASE e = "approve"
    <2>1. profile' = profile /\ d = "approved"
      BY <1>5 DEF Scored
    <2> QED
      BY <1>1, <1>2, <1>3, <2>1, ScoresKept
  <1>6. CASE e = "correct_and_approve"
    <2>1. /\ profile'.corrected = profile.corrected + 1
          /\ profile'.rejected = profile.rejected /\ profile'.highRisk = profile.highRisk
      BY <1>t, <1>6 DEF Scored, Counters
    <2>2. DecidedAs("corrected")' = DecidedAs("corrected") \cup {r}
      BY <1>1, <1>6 DEF DecidedAs
    <2>3. DecidedAs("rejected")' = DecidedAs("rejected")
      BY <1>1, <1>3, <1>6 DEF DecidedAs
    <2>4. Cardinality(DecidedAs("corrected") \cup {r}) = Cardinality(DecidedAs("corrected")) + 1
      BY <1>4, RevisionsFinite, FS_AddElement
    <2> QED
      BY <1>2, <2>1, <2>2, <2>3, <2>4 DEF ScoreInv, ViolationsScoredOnce
  <1>7. CASE e = "reject"
    <2>1. /\ profile'.rejected = profile.rejected + 1
          /\ profile'.corrected = profile.corrected /\ profile'.highRisk = profile.highRisk
      BY <1>t, <1>7 DEF Scored, Counters
    <2>2. DecidedAs("rejected")' = DecidedAs("rejected") \cup {r}
      BY <1>1, <1>7 DEF DecidedAs
    <2>3. DecidedAs("corrected")' = DecidedAs("corrected")
      BY <1>1, <1>3, <1>7 DEF DecidedAs
    <2>4. Cardinality(DecidedAs("rejected") \cup {r}) = Cardinality(DecidedAs("rejected")) + 1
      BY <1>4, RevisionsFinite, FS_AddElement
    <2> QED
      BY <1>2, <2>1, <2>2, <2>3, <2>4 DEF ScoreInv, ViolationsScoredOnce
  <1> QED
    BY <1>5, <1>6, <1>7 DEF ReviewEvents

\* A block adds its key to the attempts, unless the key is answered.
LEMMA ScoresBlocked ==
    ASSUME TypeInv, ScoreInv, NEW c \in Clients, RecordBlock(c)
    PROVE  ScoreInv'
  <1> DEFINE k == req[c].key
  <1>t. profile \in Counters
    BY DEF TypeInv, TypeOK
  <1>1. CASE Answered(k)
    BY <1>1, ScoresKept DEF RecordBlock, ScoredBlock, ScoreInv, OpenUndecided
  <1>2. CASE ~Answered(k)
    <2>1. /\ attempt' = attempt \cup {k} /\ k \notin attempt /\ rev' = rev
          /\ profile' = [profile EXCEPT !.highRisk = @ + 1]
      BY <1>2 DEF RecordBlock, ScoredBlock, Answered
    <2>2. /\ profile'.highRisk = profile.highRisk + 1
          /\ profile'.corrected = profile.corrected /\ profile'.rejected = profile.rejected
      BY <1>t, <2>1 DEF Counters
    <2>3. IsFiniteSet(attempt \cup {k}) /\ Cardinality(attempt \cup {k}) = Cardinality(attempt) + 1
      BY <2>1, FS_AddElement DEF ScoreInv
    <2>4. OpenUndecided'
      BY <2>1 DEF ScoreInv, OpenUndecided
    <2>5. DecidedAs("corrected")' = DecidedAs("corrected") /\ DecidedAs("rejected")' = DecidedAs("rejected")
      BY <2>1 DEF DecidedAs
    <2> QED
      BY <2>1, <2>2, <2>3, <2>4, <2>5 DEF ScoreInv, ViolationsScoredOnce
  <1> QED
    BY <1>1, <1>2

LEMMA ScoreStep == IInv /\ ScoreInv /\ [Next]_vars => ScoreInv'
  <1> SUFFICES ASSUME IInv, ScoreInv, [Next]_vars PROVE ScoreInv'
    OBVIOUS
  <1>0. TypeInv /\ StoredInv /\ OpenUndecided
    BY DEF IInv, ScoreInv
  <1>t. rev \in [Revisions -> RevisionRecords] /\ req \in [Clients -> Requests]
    BY <1>0 DEF TypeInv, TypeOK
  <1>1. ASSUME UNCHANGED <<rev, attempt, profile>> PROVE ScoreInv'
    BY <1>1, <1>0, ScoresKept DEF OpenUndecided
  <1>c. \A i, k, a : LET n == Created(i, k, a)
                     IN  /\ n.decision \in {"none", "approved"}
                         /\ n.status \in {"unused", "pending"} => n.decision = "none"
    BY DEF Created
  <1>2. ASSUME NEW c \in Clients, NEW i \in Items, CommitCreate(c, i) PROVE ScoreInv'
    <2> DEFINE r == last + 1
               n == Created(i, req[c].key, req[c].action)
    <2>1. last < MaxRevision /\ rev' = [rev EXCEPT ![r] = n] /\ UNCHANGED <<attempt, profile>>
      BY <1>2 DEF CommitCreate
    <2>2. r \in Revisions /\ rev[r] = NoRevision
      BY <1>0, <1>2, <2>1, NextRevisionIsFresh
    <2>3. n.decision \in {"none", "approved"} /\ (n.status \in {"unused", "pending"} => n.decision = "none")
      BY <1>c
    <2> HIDE DEF r, n
    <2>4. rev'[r] = n /\ \A s \in Revisions \ {r} : rev'[s] = rev[s]
      BY <1>t, <2>1, <2>2
    <2>5. OpenUndecided'
      BY <1>0, <2>3, <2>4 DEF OpenUndecided
    <2> QED
      BY <2>1, <2>2, <2>3, <2>4, <2>5, ScoresKept DEF NoRevision
  <1>3. ASSUME NEW c \in Clients, CommitEdit(c) PROVE ScoreInv'
    <2> DEFINE q == req[c]
               i == q.target
               r == last + 1
               old == SupersededBy("resubmit", q.snap)
               n == Created(i, q.key, q.action)
    <2>1. /\ i \in Items /\ last < MaxRevision /\ UNCHANGED <<attempt, profile>>
          /\ rev' = [Superseded(rev, old) EXCEPT ![r] = n]
      BY <1>0, <1>3 DEF CommitEdit, TypeInv, RequestsKnown, KnownRequest
    <2>2. r \in Revisions /\ rev[r] = NoRevision
      BY <1>0, <2>1, NextRevisionIsFresh
    <2>3. n.decision \in {"none", "approved"} /\ (n.status \in {"unused", "pending"} => n.decision = "none")
      BY <1>c
    <2> HIDE DEF r, old, n
    <2>4. /\ rev'[r] = n
          /\ \A s \in Revisions \ {r} :
                rev'[s] = IF s = old THEN [rev[s] EXCEPT !.status = "superseded"] ELSE rev[s]
      BY <1>t, <2>1, <2>2 DEF Superseded
    <2>5. \A s \in Revisions \ {r} : /\ rev'[s].decision = rev[s].decision
                                     /\ rev'[s].status \in {rev[s].status, "superseded"}
      BY <1>t, <2>4 DEF RevisionRecords
    <2>6. OpenUndecided'
      BY <1>0, <2>3, <2>4, <2>5 DEF OpenUndecided
    <2> QED
      BY <2>1, <2>2, <2>3, <2>4, <2>5, <2>6, ScoresKept DEF NoRevision
  <1>4. ASSUME NEW c \in Clients, CommitReview(c) PROVE ScoreInv'
    <2> DEFINE q == req[c]
               r == q.snap.pend
    <2>1. /\ q.event \in ReviewEvents /\ StillPending(r) /\ LockedAsPlanned(q) /\ q.target \in Items
          /\ rev' = Reviewed(rev, r, q.event) /\ profile' = Scored(q.event) /\ attempt' = attempt
      BY <1>0, <1>4 DEF CommitReview, TypeInv, RequestsKnown, KnownRequest, ReviewEvents
    <2>2. item[q.target] = q.snap /\ Accepts(q.event, q.snap, q.action, RevisionOf(q))
      BY <2>1, LockedItem
    <2>3. r # NoRev
      BY <2>1, <2>2 DEF Accepts, Allowed, RevisionOf, ReviewEvents, SubmitEvents, SameRevision,
                         IsIdempotent
    <2>4. r \in Revisions /\ rev[r].status = "pending"
      BY <2>1, <2>3 DEF StillPending
    <2> HIDE DEF r
    <2> QED
      BY <1>0, <2>1, <2>4, ScoresReviewed
  <1>5. ASSUME NEW c \in Clients, CommitDelete(c) PROVE ScoreInv'
    <2>1. /\ UNCHANGED <<attempt, profile>>
          /\ rev' = [r \in Revisions |-> IF r \in Withdrawn(req[c])
                                         THEN [rev[r] EXCEPT !.status = "superseded"] ELSE rev[r]]
      BY <1>5 DEF CommitDelete
    <2>2. \A s \in Revisions : /\ rev'[s].decision = rev[s].decision
                               /\ rev'[s].status \in {rev[s].status, "superseded"}
      BY <1>t, <2>1 DEF RevisionRecords
    <2>3. OpenUndecided'
      BY <1>0, <2>2 DEF OpenUndecided
    <2> QED
      BY <2>1, <2>2, <2>3, ScoresKept
  <1>6. ASSUME NEW S \in SUBSET Items, BatchHide(S) \/ BatchRestore(S) PROVE ScoreInv'
    BY <1>1, <1>6 DEF BatchHide, BatchRestore, Batch
  <1>7. ASSUME UNCHANGED stored PROVE ScoreInv'
    BY <1>1, <1>7 DEF stored
  <1>8. CASE UNCHANGED vars
    BY <1>7, <1>8 DEF vars
  <1>9. ASSUME NEW c \in Clients, Author(c) PROVE ScoreInv'
    BY <1>0, <1>2, <1>3, <1>7, <1>9, ScoresBlocked DEF Author, StartSubmit, StartEdit, PlanEdit, BeginCreate
  <1>10. ASSUME NEW c \in Clients, Reviewer(c) PROVE ScoreInv'
    BY <1>4, <1>7, <1>10 DEF Reviewer, PlanReview
  <1>11. ASSUME NEW c \in Clients, Remover(c) PROVE ScoreInv'
    BY <1>5, <1>7, <1>11 DEF Remover, PlanDelete, BeginDelete
  <1>12. ASSUME NEW c \in Clients, Operator(c) \/ Abandon(c) PROVE ScoreInv'
    BY <1>1, <1>7, <1>12 DEF Operator, PlanEmergency, CommitEmergency, Abandon
  <1> QED
    BY <1>6, <1>8, <1>9, <1>10, <1>11, <1>12 DEF Next

\* A violation is scored once: the profile counts a correction or a rejection
\* per revision decided that way, and a high risk block per key, whatever is
\* sent again or planned twice.
THEOREM ViolationsScored == Spec => []ViolationsScoredOnce
  <1>1. Init => IInv /\ ScoreInv
    <2> SUFFICES ASSUME Init PROVE ScoreInv
      BY IInvInit
    <2>1. OpenUndecided
      BY DEF Init, OpenUndecided, NoRevision
    <2>2. DecidedAs("corrected") = {} /\ DecidedAs("rejected") = {} /\ attempt = {}
      BY DEF Init, DecidedAs, NoRevision
    <2>3. profile.corrected = 0 /\ profile.rejected = 0 /\ profile.highRisk = 0
      BY DEF Init
    <2> QED
      BY <2>1, <2>2, <2>3, FS_EmptySet DEF ScoreInv, ViolationsScoredOnce
  <1>2. IInv /\ ScoreInv /\ [Next]_vars => (IInv /\ ScoreInv)'
    BY IInvStep, ScoreStep
  <1>3. ScoreInv => ViolationsScoredOnce
    BY DEF ScoreInv
  <1> QED
    BY <1>1, <1>2, <1>3, PTL DEF Spec

(***************************************************************************)
(* What a step does to the items, whatever request makes it.               *)
(***************************************************************************)
\* New content is written to an item, under a revision nobody has named.
Writes(i, a, r) ==
    /\ i \in Items /\ a \in PublishingActions /\ r \in Revisions
    /\ item[i].lifecycle # "deleted" /\ item[i].public # "emergency_hidden"
    /\ rev[r] = NoRevision
    /\ item' = [item EXCEPT ![i] = Submitted(item[i], a, r)]
    /\ announced' = Announcement(i, "submit", item[i], Submitted(item[i], a, r))

\* The pending revision of an item is decided.
Decides(i, e) ==
    /\ i \in Items /\ e \in ReviewEvents
    /\ Accepts(e, item[i], "none", item[i].pend)
    /\ item' = [item EXCEPT ![i] = After(e, item[i], "none", item[i].pend)]
    /\ announced' = Announcement(i, e, item[i], After(e, item[i], "none", item[i].pend))

Buries(S) ==
    /\ S \in SUBSET Items /\ \A x \in S : item[x].lifecycle = "active"
    /\ item' = [x \in Items |-> IF x \in S THEN Tombstone(item[x]) ELSE item[x]]
    /\ announced' = announced

Hides(i) ==
    /\ i \in Items /\ Accepts("emergency_hide", item[i], "none", NoRev)
    /\ item' = [item EXCEPT ![i] = After("emergency_hide", item[i], "none", NoRev)]
    /\ announced' = announced

BringsBack(S) ==
    /\ S \in SUBSET Items /\ \A x \in S : RestoreCandidate(x)
    /\ item' = [x \in Items |-> IF x \in S THEN Restored(item[x]) ELSE item[x]]
    /\ announced' = announced

KnownEffect ==
    \/ UNCHANGED <<item, announced>>
    \/ \E i \in Items, a \in PublishingActions, r \in Revisions : Writes(i, a, r)
    \/ \E i \in Items, e \in ReviewEvents : Decides(i, e)
    \/ \E i \in Items : Hides(i)
    \/ \E S \in SUBSET Items : Buries(S) \/ BringsBack(S)

\* What is announced depends on the state before and after, not on the event.
LEMMA AnnouncementOfState ==
    ASSUME NEW i, NEW e, NEW f, NEW b, NEW n
    PROVE  Announcement(i, e, b, n) = Announcement(i, f, b, n)
  BY DEF Announcement

LEMMA StepEffect == IInv /\ [Next]_vars => KnownEffect
  <1> SUFFICES ASSUME IInv, [Next]_vars PROVE KnownEffect
    OBVIOUS
  <1>0. TypeInv /\ StoredInv /\ PlansHold /\ DeletionsHold
    BY DEF IInv
  <1>t. /\ item \in [Items -> ItemRecords(Pointers)] /\ req \in [Clients -> Requests]
    BY <1>0 DEF TypeInv, TypeOK
  <1>1. ASSUME NEW c \in Clients, NEW i \in Items, CommitCreate(c, i)
        PROVE  KnownEffect
    <2> DEFINE a == req[c].action
               r == last + 1
    <2>1. a \in PublishingActions /\ last < MaxRevision
      BY <1>0, <1>1 DEF CommitCreate, TypeInv, RequestsKnown, KnownRequest, SubmitEvents
    <2>2. item[i] = EmptyItem
      BY <1>0, <1>1 DEF CommitCreate, Exists, StoredInv, StateMatrix, ValidItem
    <2>3. After("submit", EmptyItem, a, r) = Submitted(item[i], a, r)
      BY <2>2 DEF After, IsIdempotent, SubmitEvents
    <2>4. r \in Revisions /\ rev[r] = NoRevision
      BY <1>0, <2>1, NextRevisionIsFresh
    <2>5. /\ item' = [item EXCEPT ![i] = Submitted(item[i], a, r)]
          /\ announced' = Announcement(i, "submit", item[i], Submitted(item[i], a, r))
      BY <1>1, <2>2, <2>3 DEF CommitCreate
    <2> HIDE DEF a, r
    <2>6. Writes(i, a, r)
      BY <2>1, <2>2, <2>4, <2>5 DEF Writes, EmptyItem
    <2> QED
      BY <2>1, <2>4, <2>6 DEF KnownEffect
  <1>2. ASSUME NEW c \in Clients, CommitEdit(c)
        PROVE  KnownEffect
    <2> DEFINE q == req[c]
               i == q.target
               a == q.action
               r == last + 1
    <2>1. i \in Items /\ a \in PublishingActions /\ q.event = "resubmit"
      BY <1>0, <1>2 DEF CommitEdit, TypeInv, RequestsKnown, KnownRequest, SubmitEvents
    <2>2. LockedAsPlanned(q) /\ last < MaxRevision
      BY <1>2 DEF CommitEdit
    <2>3. item[i] = q.snap /\ item[i].lifecycle = "active" /\ item[i].public # "emergency_hidden"
      BY <2>1, <2>2, LockedItem, AcceptedEdit DEF RevisionOf
    <2>4. After("resubmit", item[i], a, r) = Submitted(item[i], a, r)
      BY DEF After, IsIdempotent, SubmitEvents
    <2>5. r \in Revisions /\ rev[r] = NoRevision
      BY <1>0, <2>1, <2>2, NextRevisionIsFresh
    <2>6. /\ item' = [item EXCEPT ![i] = Submitted(item[i], a, r)]
          /\ announced' = Announcement(i, "resubmit", item[i], Submitted(item[i], a, r))
      BY <1>2, <2>3, <2>4 DEF CommitEdit
    <2> HIDE DEF q, i, a, r
    <2>7. Writes(i, a, r)
      BY <2>1, <2>3, <2>5, <2>6, AnnouncementOfState DEF Writes
    <2> QED
      BY <2>1, <2>5, <2>7 DEF KnownEffect
  <1>3. ASSUME NEW c \in Clients, CommitReview(c)
        PROVE  KnownEffect
    <2> DEFINE q == req[c]
               i == q.target
               e == q.event
               r == q.snap.pend
    <2>1. i \in Items /\ e \in ReviewEvents /\ LockedAsPlanned(q)
      BY <1>0, <1>3 DEF CommitReview, TypeInv, RequestsKnown, KnownRequest, ReviewEvents
    <2>2. item[i] = q.snap /\ Accepts(e, item[i], q.action, r)
      BY <2>1, LockedItem DEF RevisionOf, ReviewEvents
    <2>3. /\ After(e, item[i], q.action, r) = After(e, item[i], "none", r)
          /\ Allowed(e, item[i], q.action, r) <=> Allowed(e, item[i], "none", r)
      BY <2>1 DEF After, Allowed, ReviewEvents, SubmitEvents
    <2>4. Accepts(e, item[i], "none", item[i].pend)
      BY <2>2, <2>3 DEF Accepts
    <2>5. /\ item' = [item EXCEPT ![i] = After(e, item[i], "none", item[i].pend)]
          /\ announced' = Announcement(i, e, item[i], After(e, item[i], "none", item[i].pend))
      BY <1>3, <2>2 DEF CommitReview
    <2> HIDE DEF q, i, e, r
    <2>6. Decides(i, e)
      BY <2>1, <2>4, <2>5 DEF Decides
    <2> QED
      BY <2>1, <2>6 DEF KnownEffect
  <1>4. ASSUME NEW c \in Clients, CommitDelete(c)
        PROVE  KnownEffect
    <2> DEFINE q == req[c]
               i == q.target
               S == q.tree \cup {i}
    <2>1. i \in Items /\ S \in SUBSET Items /\ q.pc = "deleting" /\ q.event = "delete"
      BY <1>0, <1>4, <1>t DEF CommitDelete, TypeInv, RequestsKnown, KnownRequest, Requests
    <2>2. q.lock # 0 /\ row[i].alive /\ item[i] = q.snap /\ q.snap.lifecycle = "active"
      BY <1>0, <2>1 DEF DeletionsHold, PlansHold, PlanHolds
    <2>3. \A x \in S : item[x].lifecycle = "active"
      BY <1>0, <1>4, <2>1, <2>2 DEF CommitDelete, StoredInv, RowsFollowLifecycle
    <2>4. After("delete", q.snap, "none", NoRev) = Tombstone(item[i])
      BY <2>2, DeletionEffect
    <2>5. /\ item' = [x \in Items |-> IF x \in S THEN Tombstone(item[x]) ELSE item[x]]
          /\ announced' = announced
      BY <1>4, <2>2, <2>4 DEF CommitDelete
    <2> HIDE DEF S
    <2>6. Buries(S)
      BY <2>1, <2>3, <2>5 DEF Buries
    <2> QED
      BY <2>1, <2>6 DEF KnownEffect
  <1>5. ASSUME NEW c \in Clients, CommitEmergency(c)
        PROVE  KnownEffect
    <2> DEFINE q == req[c]
               i == q.target
    <2>1. i \in Items /\ q.event \in EmergencyEvents /\ LockedAsPlanned(q)
      BY <1>0, <1>5 DEF CommitEmergency, TypeInv, RequestsKnown, KnownRequest, EmergencyEvents
    <2>2. item[i] = q.snap /\ Accepts(q.event, item[i], q.action, RevisionOf(q))
      BY <2>1, LockedItem
    <2>3. /\ item' = [item EXCEPT ![i] = After(q.event, item[i], "none", NoRev)]
          /\ announced' = announced
      BY <1>5, <2>2 DEF CommitEmergency
    <2>4. Accepts(q.event, item[i], "none", NoRev)
      <3>1. /\ After(q.event, item[i], q.action, RevisionOf(q)) = After(q.event, item[i], "none", NoRev)
            /\ Allowed(q.event, item[i], q.action, RevisionOf(q)) <=> Allowed(q.event, item[i], "none", NoRev)
        BY <2>1 DEF After, Allowed, EmergencyEvents, ReviewEvents, SubmitEvents
      <3> QED
        BY <2>2, <3>1 DEF Accepts
    <2>5. CASE q.event = "emergency_hide"
      <3>1. Hides(i)
        BY <2>1, <2>3, <2>4, <2>5 DEF Hides
      <3> QED
        BY <2>1, <3>1 DEF KnownEffect
    <2>6. CASE q.event = "restore"
      <3>1. Allowed("restore", item[i], "none", NoRev)
        BY <2>4, <2>6 DEF Accepts, IsIdempotent
      <3>2. RestoreCandidate(i)
        BY <3>1 DEF Allowed, RestoreCandidate, SubmitEvents, ReviewEvents
      <3>3. After("restore", item[i], "none", NoRev) = Restored(item[i])
        BY DEF After, IsIdempotent, SubmitEvents
      <3>4. item' = [x \in Items |-> IF x \in {i} THEN Restored(item[x]) ELSE item[x]]
        BY <1>t, <2>1, <2>3, <2>6, <3>3
      <3>5. {i} \in SUBSET Items /\ BringsBack({i})
        BY <2>1, <2>3, <3>2, <3>4 DEF BringsBack
      <3> QED
        BY <3>5 DEF KnownEffect
    <2> QED
      BY <2>1, <2>5, <2>6 DEF EmergencyEvents
  <1>6. ASSUME NEW S \in SUBSET Items, BatchHide(S)
        PROVE  KnownEffect
    <2>1. \A i \in S : HideInColumnOrder(item[i]).before = "emergency_hidden"
      BY <1>t DEF HideInColumnOrder, ItemRecords
    <2>2. \A i \in S : ~PreviousStateCheck(HideInColumnOrder(item[i]))
      BY <2>1 DEF PreviousStateCheck, BeforeStates
    <2>3. UNCHANGED <<item, announced>>
      BY <1>6, <2>2 DEF BatchHide, Batch
    <2> QED
      BY <2>3 DEF KnownEffect
  <1>7. ASSUME NEW S \in SUBSET Items, BatchRestore(S)
        PROVE  KnownEffect
    <2>1. BringsBack(S)
      BY <1>7 DEF BatchRestore, BringsBack
    <2> QED
      BY <2>1 DEF KnownEffect
  <1>8. ASSUME UNCHANGED <<item, announced>> PROVE KnownEffect
    BY <1>8 DEF KnownEffect
  <1>9. CASE UNCHANGED vars
    BY <1>8, <1>9 DEF vars, stored
  <1>10. ASSUME NEW c \in Clients, Author(c) PROVE KnownEffect
    BY <1>1, <1>2, <1>8, <1>10 DEF Author, StartSubmit, StartEdit, PlanEdit, RecordBlock, BeginCreate, stored
  <1>11. ASSUME NEW c \in Clients, Reviewer(c) PROVE KnownEffect
    BY <1>3, <1>8, <1>11 DEF Reviewer, PlanReview, stored
  <1>12. ASSUME NEW c \in Clients, Remover(c) PROVE KnownEffect
    BY <1>4, <1>8, <1>12 DEF Remover, PlanDelete, BeginDelete, stored
  <1>13. ASSUME NEW c \in Clients, Operator(c) \/ Abandon(c) PROVE KnownEffect
    BY <1>5, <1>8, <1>13 DEF Operator, PlanEmergency, Abandon, stored
  <1> QED
    BY <1>6, <1>7, <1>9, <1>10, <1>11, <1>12, <1>13 DEF Next

(***************************************************************************)
(* Announcements.                                                          *)
(***************************************************************************)
\* The columns of an item after an accepted hide.
LEMMA HidingKeeps ==
    ASSUME NEW i \in ItemRecords(Pointers), Accepts("emergency_hide", i, "none", NoRev),
           NEW n, n = After("emergency_hide", i, "none", NoRev)
    PROVE  n.app = i.app
  BY EmergencyEffect DEF EmergencyEvents

LEMMA AnnouncedStep == IInv /\ TypeInv' /\ AnnouncedWithFirstApproval /\ KnownEffect => AnnouncedWithFirstApproval'
  <1> SUFFICES ASSUME IInv, TypeInv', AnnouncedWithFirstApproval, KnownEffect
               PROVE  AnnouncedWithFirstApproval'
    OBVIOUS
  <1>t. /\ item \in [Items -> ItemRecords(Pointers)] /\ announced \in [Items -> Nat]
        /\ \A x \in Items : ValidItem(item[x])
    BY DEF IInv, TypeInv, TypeOK, StoredInv, StateMatrix
  \* One item changes; an approval of the old state stays one.
  <1>1. ASSUME NEW i \in Items, NEW e, NEW n, item' = [item EXCEPT ![i] = n],
               announced' = Announcement(i, e, item[i], n),
               item[i].app # NoRev => n.app # NoRev
        PROVE  AnnouncedWithFirstApproval'
    <2>1. item'[i] = n /\ \A x \in Items \ {i} : item'[x] = item[x] /\ announced'[x] = announced[x]
      BY <1>t, <1>1 DEF Announcement
    <2>2. i \notin Moments => announced'[i] = IF n.app = NoRev THEN 0 ELSE 1
      BY <1>t, <1>1 DEF Announcement, AnnouncedWithFirstApproval
    <2> QED
      BY <2>1, <2>2 DEF AnnouncedWithFirstApproval
  <1>2. ASSUME announced' = announced, \A x \in Items : item'[x].app = item[x].app
        PROVE  AnnouncedWithFirstApproval'
    BY <1>2 DEF AnnouncedWithFirstApproval
  <1>3. ASSUME NEW i \in Items, NEW a \in PublishingActions, NEW r \in Revisions, Writes(i, a, r)
        PROVE  AnnouncedWithFirstApproval'
    <2>1. Submitted(item[i], a, r).app = IF a = "auto_approve" THEN r ELSE item[i].app
      BY <1>t DEF Submitted, SubmitBase, ApprovedSubmission, PostReviewSubmission, PreReviewSubmission,
                  EmptyItem, ItemRecords, ValidItem
    <2>2. item[i].app # NoRev => Submitted(item[i], a, r).app # NoRev
      BY <2>1 DEF Revisions, NoRev
    <2> QED
      BY <1>1, <1>3, <2>2 DEF Writes
  <1>4. ASSUME NEW i \in Items, NEW e \in ReviewEvents, Decides(i, e)
        PROVE  AnnouncedWithFirstApproval'
    <2> DEFINE n == After(e, item[i], "none", item[i].pend)
    <2>1. item[i].app # NoRev => n.app # NoRev
      BY <1>t, <1>4, ReviewEffect DEF Decides
    <2> QED
      BY <1>1, <1>4, <2>1 DEF Decides
  <1>5. ASSUME NEW i \in Items, Hides(i) PROVE AnnouncedWithFirstApproval'
    <2>1. After("emergency_hide", item[i], "none", NoRev).app = item[i].app
      BY <1>t, <1>5, HidingKeeps DEF Hides
    <2> QED
      BY <1>t, <1>2, <1>5, <2>1 DEF Hides
  <1>6. ASSUME NEW S \in SUBSET Items, Buries(S) \/ BringsBack(S) PROVE AnnouncedWithFirstApproval'
    <2>1. \A x \in Items : Tombstone(item[x]).app = item[x].app /\ Restored(item[x]).app = item[x].app
      BY <1>t DEF Tombstone, Restored, ItemRecords
    <2> QED
      BY <1>2, <1>6, <2>1 DEF Buries, BringsBack
  <1>7. CASE UNCHANGED <<item, announced>>
    BY <1>2, <1>7
  <1> QED
    BY <1>3, <1>4, <1>5, <1>6, <1>7 DEF KnownEffect

\* Whatever is commented, answered or written is announced to its recipients
\* exactly once, by the commit that first approves it.
THEOREM AnnouncedOnce == Spec => []AnnouncedWithFirstApproval
  <1> DEFINE AInv == IInv /\ AnnouncedWithFirstApproval
  <1>1. Init => AInv
    <2> SUFFICES ASSUME Init PROVE AnnouncedWithFirstApproval
      BY IInvInit
    <2> QED
      BY DEF Init, AnnouncedWithFirstApproval, EmptyItem
  <1>2. AInv /\ [Next]_vars => AInv'
    BY IInvStep, StepEffect, AnnouncedStep DEF IInv
  <1>3. AInv => AnnouncedWithFirstApproval
    OBVIOUS
  <1> HIDE DEF AInv
  <1> QED
    BY <1>1, <1>2, <1>3, PTL DEF Spec

(***************************************************************************)
(* The reader's view.                                                      *)
(***************************************************************************)
Open == {"none", "waiting", "unreviewed", "reviewed", "refused"}

\* An edit or a creation as the reader sees it.
LEMMA WrittenView ==
    ASSUME NEW i \in ItemRecords(Pointers), ValidItem(i), i.lifecycle # "deleted",
           i.public # "emergency_hidden", NEW a \in PublishingActions, NEW r \in Revisions,
           ~HasRevision(i, r), NEW n, n = Submitted(i, a, r)
    PROVE  /\ PhaseOf(i) \in Open
           /\ a = "auto_approve" => PhaseOf(n) = "reviewed" /\ ShownOf(n) = r /\ n.app = r
           /\ a = "post_review" => PhaseOf(n) = "unreviewed" /\ ShownOf(n) = r /\ n.app = i.app
           /\ a = "pre_review" /\ i.app = NoRev =>
                 PhaseOf(i) # "reviewed" /\ PhaseOf(n) = "waiting" /\ ShownOf(n) = NoRev /\ n.app = NoRev
           /\ a = "pre_review" /\ i.app # NoRev =>
                 /\ PhaseOf(n) = "reviewed" /\ ShownOf(n) = i.app /\ n.app = i.app
                 /\ PhaseOf(i) = "unreviewed" \/ (PhaseOf(i) = "reviewed" /\ ShownOf(i) = i.app)
  <1> DEFINE b == SubmitBase(i)
  <1>1. r # NoRev
    BY DEF Revisions, NoRev
  <1>2. /\ b \in ItemRecords(Pointers) /\ b.lifecycle = "active" /\ b.before = "none"
        /\ b.app = i.app /\ b.mat = i.mat /\ b.pend = i.pend
        /\ i.lifecycle = "active" => b = i
        /\ i.lifecycle = "absent" => i = EmptyItem
    BY NoRevIsPointer DEF SubmitBase, ValidItem, ValidActive, EmptyItem, ItemRecords, Lifecycles, PublicStates, BeforeStates
  <1>3. i.lifecycle \in {"absent", "active"} /\ i.public \in PublicStates
    BY DEF ItemRecords, Lifecycles
  <1>4. i.lifecycle = "active" =>
            \/ i.public = "visible" /\ ValidVisiblePointers(i)
            \/ i.public = "placeholder" /\ i.mat = NoRev /\ i.app = NoRev
            \/ i.public = "hidden" /\ i.mat = NoRev /\ i.app = NoRev
    BY DEF ValidItem, ValidActive, EmptyItem
  <1>5. r # b.app
    BY <1>2 DEF HasRevision
  <1> HIDE DEF b
  <1>6. PhaseOf(i) \in Open
    BY <1>3, <1>4 DEF PhaseOf, Open
  <1>7. CASE a = "auto_approve"
    <2>1. n = ApprovedSubmission(b, r)
      BY <1>7 DEF Submitted, b
    <2>2. n.lifecycle = "active" /\ n.public = "visible" /\ n.mat = r /\ n.app = r
      BY <1>2, <2>1 DEF ApprovedSubmission, ItemRecords
    <2> QED
      BY <1>6, <1>7, <2>2 DEF PhaseOf, ShownOf
  <1>8. CASE a = "post_review"
    <2>1. n = PostReviewSubmission(b, r)
      BY <1>8 DEF Submitted, b
    <2>2. n.lifecycle = "active" /\ n.public = "visible" /\ n.mat = r /\ n.app = i.app
      BY <1>2, <2>1 DEF PostReviewSubmission, ItemRecords
    <2> QED
      BY <1>2, <1>5, <1>6, <1>8, <2>2 DEF PhaseOf, ShownOf
  <1>9. CASE a = "pre_review"
    <2>1. n = PreReviewSubmission(b, r)
      BY <1>9 DEF Submitted, b
    <2>2. CASE i.app = NoRev
      <3>1. n.lifecycle = "active" /\ n.public = "placeholder" /\ n.app = NoRev
        BY <1>2, <2>1, <2>2 DEF PreReviewSubmission, ItemRecords
      <3>2. PhaseOf(i) # "reviewed"
        BY <1>3, <1>4, <2>2 DEF PhaseOf, ValidVisiblePointers, SameRevision
      <3> QED
        BY <1>6, <1>9, <2>2, <3>1, <3>2 DEF PhaseOf, ShownOf
    <2>3. CASE i.app # NoRev
      <3>1. n.lifecycle = "active" /\ n.public = "visible" /\ n.mat = i.app /\ n.app = i.app
        BY <1>2, <2>1, <2>3 DEF PreReviewSubmission, ItemRecords
      <3>2. i.lifecycle = "active" /\ i.public = "visible"
        BY <1>2, <1>3, <1>4, <2>3 DEF EmptyItem
      <3> QED
        BY <1>6, <1>9, <2>3, <3>1, <3>2 DEF PhaseOf, ShownOf
    <2> QED
      BY <2>2, <2>3
  <1> QED
    BY <1>7, <1>8, <1>9 DEF PublishingActions

\* A review as the reader sees it.
LEMMA DecidedView ==
    ASSUME NEW i \in ItemRecords(Pointers), NEW e \in ReviewEvents,
           Accepts(e, i, "none", i.pend), NEW n, n = After(e, i, "none", i.pend)
    PROVE  /\ PhaseOf(i) \in {"waiting", "unreviewed", "reviewed"} /\ i.pend # NoRev
           /\ ShownOf(i) = i.pend => PhaseOf(i) = "unreviewed"
           /\ e # "reject" => PhaseOf(n) = "reviewed" /\ ShownOf(n) = i.pend /\ n.app = i.pend
           /\ e = "reject" => n.app = i.app
           /\ e = "reject" /\ i.app = NoRev =>
                 PhaseOf(i) # "reviewed" /\ PhaseOf(n) = "refused" /\ ShownOf(n) = NoRev
           /\ e = "reject" /\ i.app # NoRev =>
                 /\ PhaseOf(n) = "reviewed" /\ ShownOf(n) = i.app
                 /\ PhaseOf(i) = "unreviewed" \/ (PhaseOf(i) = "reviewed" /\ ShownOf(i) = i.app)
  <1>1. /\ i.lifecycle = "active" /\ i.pend # NoRev /\ n.lifecycle = "active"
    BY ReviewEffect
  <1>2. ValidActive(i)
    BY <1>1 DEF Accepts, ValidItem, EmptyItem
  <1>3. /\ i.app # i.pend
        /\ \/ i.public = "visible" /\ i.mat # NoRev /\ (i.mat = i.pend \/ i.mat = i.app)
           \/ i.public = "placeholder" /\ i.mat = NoRev /\ i.app = NoRev
    BY <1>1, <1>2 DEF ValidActive, ValidVisiblePointers, SameRevision
  <1>4. n = IF e = "reject" THEN ReviewRejection(i) ELSE ReviewApproval(i, i.pend)
    BY DEF After, IsIdempotent, ReviewEvents, SubmitEvents
  <1>5. CASE e # "reject"
    <2>1. n.public = "visible" /\ n.mat = i.pend /\ n.app = i.pend
      BY <1>4, <1>5 DEF ReviewApproval, ItemRecords
    <2> QED
      BY <1>1, <1>3, <1>5, <2>1 DEF PhaseOf, ShownOf
  <1>6. CASE e = "reject" /\ i.app = NoRev
    <2>1. n.public = "hidden" /\ n.app = i.app
      BY <1>4, <1>6 DEF ReviewRejection, ItemRecords
    <2> QED
      BY <1>1, <1>3, <1>6, <2>1 DEF PhaseOf, ShownOf
  <1>7. CASE e = "reject" /\ i.app # NoRev
    <2>1. n.public = "visible" /\ n.mat = i.app /\ n.app = i.app
      BY <1>4, <1>7 DEF ReviewRejection, ItemRecords
    <2> QED
      BY <1>1, <1>3, <1>7, <2>1 DEF PhaseOf, ShownOf
  <1> QED
    BY <1>5, <1>6, <1>7

LEMMA HiddenView ==
    ASSUME NEW i \in ItemRecords(Pointers), Accepts("emergency_hide", i, "none", NoRev),
           NEW n, n = After("emergency_hide", i, "none", NoRev)
    PROVE  \/ n = i
           \/ /\ PhaseOf(i) = "reviewed"
              /\ PhaseOf(n) = "withheld" /\ ShownOf(n) = NoRev /\ n.app = i.app
  <1>1. CASE IsIdempotent("emergency_hide", i)
    BY <1>1 DEF After
  <1>2. CASE ~IsIdempotent("emergency_hide", i)
    <2>1. n = EmergencyHidden(i) /\ Allowed("emergency_hide", i, "none", NoRev)
      BY <1>2 DEF After, Accepts, SubmitEvents
    <2>2. i.lifecycle = "active" /\ i.public = "visible" /\ i.mat = i.app
      BY <2>1 DEF Allowed, SubmitEvents, ReviewEvents, SameRevision
    <2>3. n.lifecycle = "active" /\ n.public = "emergency_hidden" /\ n.app = i.app
      BY <2>1, <2>2 DEF EmergencyHidden, ItemRecords
    <2> QED
      BY <2>2, <2>3 DEF PhaseOf, ShownOf
  <1> QED
    BY <1>1, <1>2

LEMMA RestoredView ==
    ASSUME NEW i \in ItemRecords(Pointers), ValidItem(i), i.lifecycle = "active",
           i.public = "emergency_hidden", NEW n, n = Restored(i)
    PROVE  /\ PhaseOf(i) = "withheld"
           /\ PhaseOf(n) = "reviewed" /\ ShownOf(n) = i.app /\ n.app = i.app
  <1>1. i.before = "visible" /\ i.mat = i.app
    BY DEF ValidItem, ValidActive, SameRevision, EmptyItem
  <1>2. n.lifecycle = "active" /\ n.public = "visible" /\ n.mat = i.mat /\ n.app = i.app
    BY <1>1 DEF Restored, ItemRecords
  <1> QED
    BY <1>1, <1>2 DEF PhaseOf, ShownOf

LEMMA BuriedView ==
    ASSUME NEW i \in ItemRecords(Pointers), i.lifecycle = "active", NEW n, n = Tombstone(i)
    PROVE  /\ PhaseOf(i) \notin {"none", "gone"}
           /\ PhaseOf(n) = "gone" /\ ShownOf(n) = NoRev /\ n.app = i.app
  <1>1. n.lifecycle = "deleted" /\ n.public = "hidden" /\ n.app = i.app
    BY DEF Tombstone, ItemRecords
  <1> QED
    BY <1>1 DEF PhaseOf, ShownOf

Phase == [i \in Items |-> PhaseOf(item[i])]
Shown == [i \in Items |-> ShownOf(item[i])]
Endorsed == [i \in Items |-> item[i].app]

\* The view of one item changes.
LEMMA OneItemSeen ==
    ASSUME NEW i \in Items, NEW n, item \in [Items -> ItemRecords(Pointers)],
           item' = [item EXCEPT ![i] = n]
    PROVE  /\ Phase' = [Phase EXCEPT ![i] = PhaseOf(n)]
           /\ Shown' = [Shown EXCEPT ![i] = ShownOf(n)]
           /\ Endorsed' = [Endorsed EXCEPT ![i] = n.app]
           /\ Phase[i] = PhaseOf(item[i]) /\ Shown[i] = ShownOf(item[i]) /\ Endorsed[i] = item[i].app
  <1>1. \A x \in Items : item'[x] = IF x = i THEN n ELSE item[x]
    OBVIOUS
  <1> QED
    BY <1>1 DEF Phase, Shown, Endorsed

\* The views of several change.
LEMMA ManyItemsSeen ==
    ASSUME NEW S \in SUBSET Items, NEW p,
           \A x \in Items \ S : item'[x] = item[x],
           \A x \in S : PhaseOf(item'[x]) = p /\ item'[x].app = item[x].app
    PROVE  /\ Phase' = [x \in Items |-> IF x \in S THEN p ELSE Phase[x]]
           /\ Shown' = [x \in Items |-> IF x \in S THEN ShownOf(item'[x]) ELSE Shown[x]]
           /\ Endorsed' = Endorsed
  BY DEF Phase, Shown, Endorsed

\* A revision that is pending or new is neither shown nor endorsed, but for the
\* page of the item it is pending of.
LEMMA NobodyShows ==
    ASSUME IInv, NEW r \in Revisions, rev[r] = NoRevision \/ rev[r].status = "pending"
    PROVE  \A x \in Items : /\ r # item[x].app
                            /\ r = ShownOf(item[x]) => rev[r].status = "pending" /\ rev[r].owner = x
  <1> SUFFICES ASSUME NEW x \in Items
               PROVE  /\ r # item[x].app
                      /\ r = ShownOf(item[x]) => rev[r].status = "pending" /\ rev[r].owner = x
    OBVIOUS
  <1>1. ValidItem(item[x]) /\ PointersMatchRevisions /\ r # NoRev
    BY DEF IInv, StoredInv, StateMatrix, Revisions, NoRev
  <1>2. r # item[x].app
    BY <1>1 DEF PointersMatchRevisions, NoRevision
  <1>3. r = item[x].mat => r = item[x].pend
    BY <1>1, <1>2, ShownPointer
  <1>4. r = item[x].pend => rev[r].status = "pending" /\ rev[r].owner = x
    BY <1>1 DEF PointersMatchRevisions
  <1> QED
    BY <1>1, <1>2, <1>3, <1>4 DEF ShownOf

LEMMA ReaderSeesWrite ==
    ASSUME IInv, NEW i \in Items, NEW a \in PublishingActions, NEW r \in Revisions, Writes(i, a, r)
    PROVE  [Reader!Next]_(Reader!view)
  <1> DEFINE n == Submitted(item[i], a, r)
  <1>1. /\ item \in [Items -> ItemRecords(Pointers)] /\ item[i] \in ItemRecords(Pointers)
        /\ ValidItem(item[i])
    BY DEF IInv, TypeInv, TypeOK, StoredInv, StateMatrix
  <1>2. \A x \in Items : r # ShownOf(item[x]) /\ r # item[x].app
    BY NobodyShows DEF Writes, NoRevision
  <1>3. ~HasRevision(item[i], r)
    <2>1. r # NoRev /\ rev[r].status = "unused"
      BY DEF Writes, NoRevision, Revisions, NoRev
    <2>2. r # item[i].app /\ r # item[i].pend
      BY <2>1 DEF IInv, StoredInv, PointersMatchRevisions
    <2> QED
      BY <1>1, <2>1, <2>2, ShownPointer DEF HasRevision
  <1>4. /\ Phase' = [Phase EXCEPT ![i] = PhaseOf(n)]
        /\ Shown' = [Shown EXCEPT ![i] = ShownOf(n)]
        /\ Endorsed' = [Endorsed EXCEPT ![i] = n.app]
        /\ Phase[i] = PhaseOf(item[i]) /\ Shown[i] = ShownOf(item[i]) /\ Endorsed[i] = item[i].app
    BY <1>1, OneItemSeen DEF Writes
  <1>5. /\ Phase[i] \in Open
        /\ a = "auto_approve" => PhaseOf(n) = "reviewed" /\ ShownOf(n) = r /\ n.app = r
        /\ a = "post_review" => PhaseOf(n) = "unreviewed" /\ ShownOf(n) = r /\ n.app = Endorsed[i]
        /\ a = "pre_review" /\ Endorsed[i] = NoRev =>
              Phase[i] # "reviewed" /\ PhaseOf(n) = "waiting" /\ ShownOf(n) = NoRev /\ n.app = Endorsed[i]
        /\ a = "pre_review" /\ Endorsed[i] # NoRev =>
              /\ PhaseOf(n) = "reviewed" /\ ShownOf(n) = Endorsed[i] /\ n.app = Endorsed[i]
              /\ Phase[i] = "unreviewed" \/ (Phase[i] = "reviewed" /\ Shown[i] = Endorsed[i])
    BY <1>1, <1>3, <1>4, WrittenView DEF Writes
  <1> HIDE DEF n
  <1>6. Reader!Fresh(r)
    BY <1>2 DEF Reader!Fresh
  <1>7. [Endorsed EXCEPT ![i] = Endorsed[i]] = Endorsed /\ [Phase EXCEPT ![i] = Phase[i]] = Phase
        /\ [Shown EXCEPT ![i] = Shown[i]] = Shown
    BY DEF Endorsed, Phase, Shown
  <1>8. CASE a = "auto_approve"
    <2>1. Reader!Endorse(i, r)
      BY <1>4, <1>5, <1>6, <1>8 DEF Reader!Endorse, Reader!Show, Open, Phase, Shown, Endorsed
    <2> QED
      BY <2>1 DEF Reader!Next
  <1>9. CASE a = "post_review"
    <2>1. Reader!Publish(i, r)
      BY <1>4, <1>5, <1>6, <1>7, <1>9 DEF Reader!Publish, Reader!Show, Open, Phase, Shown, Endorsed
    <2> QED
      BY <2>1 DEF Reader!Next
  <1>10. CASE a = "pre_review" /\ Endorsed[i] = NoRev
    <2>1. Reader!Await(i)
      BY <1>4, <1>5, <1>7, <1>10 DEF Reader!Await, Reader!Show, Open, Phase, Shown, Endorsed
    <2> QED
      BY <2>1 DEF Reader!Next
  <1>11. CASE a = "pre_review" /\ Endorsed[i] # NoRev /\ Phase[i] = "unreviewed"
    <2>1. Reader!FallBack(i)
      BY <1>4, <1>5, <1>7, <1>11 DEF Reader!FallBack, Reader!Show, Phase, Shown, Endorsed
    <2> QED
      BY <2>1 DEF Reader!Next
  <1>12. CASE a = "pre_review" /\ Endorsed[i] # NoRev /\ Phase[i] # "unreviewed"
    BY <1>4, <1>5, <1>7, <1>12 DEF Reader!view, Phase, Shown, Endorsed
  <1> QED
    BY <1>8, <1>9, <1>10, <1>11, <1>12 DEF PublishingActions

LEMMA ReaderSeesDecision ==
    ASSUME IInv, NEW i \in Items, NEW e \in ReviewEvents, Decides(i, e)
    PROVE  [Reader!Next]_(Reader!view)
  <1>1. /\ item \in [Items -> ItemRecords(Pointers)] /\ item[i] \in ItemRecords(Pointers)
    BY DEF IInv, TypeInv, TypeOK
  <1>2. item[i].pend \in Revisions
    <2>1. item[i].pend # NoRev
      BY <1>1, DecidedView DEF Decides
    <2> QED
      BY <1>1, <2>1 DEF ItemRecords, Pointers, Revisions, NoRev
  <1> SUFFICES ASSUME NEW r \in Revisions, r = item[i].pend PROVE [Reader!Next]_(Reader!view)
    BY <1>2
  <1> DEFINE n == After(e, item[i], "none", r)
  <1>3. /\ Phase' = [Phase EXCEPT ![i] = PhaseOf(n)]
        /\ Shown' = [Shown EXCEPT ![i] = ShownOf(n)]
        /\ Endorsed' = [Endorsed EXCEPT ![i] = n.app]
        /\ Phase[i] = PhaseOf(item[i]) /\ Shown[i] = ShownOf(item[i]) /\ Endorsed[i] = item[i].app
    BY <1>1, OneItemSeen DEF Decides
  <1>4. /\ Phase[i] \in {"waiting", "unreviewed", "reviewed"} /\ r # NoRev
        /\ Shown[i] = r => Phase[i] = "unreviewed"
        /\ e # "reject" => PhaseOf(n) = "reviewed" /\ ShownOf(n) = r /\ n.app = r
        /\ e = "reject" => n.app = Endorsed[i]
        /\ e = "reject" /\ Endorsed[i] = NoRev =>
              Phase[i] # "reviewed" /\ PhaseOf(n) = "refused" /\ ShownOf(n) = NoRev
        /\ e = "reject" /\ Endorsed[i] # NoRev =>
              /\ PhaseOf(n) = "reviewed" /\ ShownOf(n) = Endorsed[i]
              /\ Phase[i] = "unreviewed" \/ (Phase[i] = "reviewed" /\ Shown[i] = Endorsed[i])
    BY <1>1, <1>3, DecidedView DEF Decides
  <1>5. rev[r].status = "pending" /\ rev[r].owner = i
    BY <1>4 DEF IInv, StoredInv, PointersMatchRevisions
  <1>6. \A x \in Items : r # item[x].app /\ (r = ShownOf(item[x]) => x = i)
    BY <1>5, NobodyShows
  <1> HIDE DEF n
  <1>7. Reader!Fresh(r) \/ (Phase[i] = "unreviewed" /\ Shown[i] = r)
    BY <1>3, <1>4, <1>6 DEF Reader!Fresh
  <1>8. [Endorsed EXCEPT ![i] = Endorsed[i]] = Endorsed /\ [Phase EXCEPT ![i] = Phase[i]] = Phase
        /\ [Shown EXCEPT ![i] = Shown[i]] = Shown
    BY DEF Endorsed, Phase, Shown
  <1>9. CASE e # "reject"
    <2>1. Reader!Endorse(i, r)
      BY <1>3, <1>4, <1>7, <1>9 DEF Reader!Endorse, Reader!Show, Phase, Shown, Endorsed
    <2> QED
      BY <2>1 DEF Reader!Next
  <1>10. CASE e = "reject" /\ Endorsed[i] = NoRev
    <2>1. Reader!Refuse(i)
      BY <1>3, <1>4, <1>8, <1>10 DEF Reader!Refuse, Reader!Show, Phase, Shown, Endorsed
    <2> QED
      BY <2>1 DEF Reader!Next
  <1>11. CASE e = "reject" /\ Endorsed[i] # NoRev /\ Phase[i] = "unreviewed"
    <2>1. Reader!FallBack(i)
      BY <1>3, <1>4, <1>8, <1>11 DEF Reader!FallBack, Reader!Show, Phase, Shown, Endorsed
    <2> QED
      BY <2>1 DEF Reader!Next
  <1>12. CASE e = "reject" /\ Endorsed[i] # NoRev /\ Phase[i] # "unreviewed"
    BY <1>3, <1>4, <1>8, <1>12 DEF Reader!view, Phase, Shown, Endorsed
  <1> QED
    BY <1>9, <1>10, <1>11, <1>12

LEMMA ReaderSeesIsolation ==
    ASSUME IInv, NEW S \in SUBSET Items, Buries(S) \/ BringsBack(S) \/ (\E i \in Items : S = {i} /\ Hides(i))
    PROVE  [Reader!Next]_(Reader!view)
  <1>1. /\ item \in [Items -> ItemRecords(Pointers)] /\ \A x \in Items : item[x] \in ItemRecords(Pointers)
        /\ \A x \in Items : ValidItem(item[x])
    BY DEF IInv, TypeInv, TypeOK, StoredInv, StateMatrix
  <1>2. Reader!Nothing = [x \in Items |-> NoRev]
    BY DEF Reader!Nothing
  <1>3. CASE Buries(S)
    <2>1. \A x \in S : PhaseOf(item[x]) \notin {"none", "gone"}
      BY <1>1, <1>3, BuriedView DEF Buries
    <2>2. \A x \in S : PhaseOf(item'[x]) = "gone" /\ ShownOf(item'[x]) = Reader!Nothing[x]
                       /\ item'[x].app = item[x].app
      BY <1>1, <1>2, <1>3, BuriedView DEF Buries
    <2>3. \A x \in Items \ S : item'[x] = item[x]
      BY <1>3 DEF Buries
    <2>4. Reader!Remove(S)
      <3>1. /\ Phase' = [x \in Items |-> IF x \in S THEN "gone" ELSE Phase[x]]
            /\ Shown' = [x \in Items |-> IF x \in S THEN Reader!Nothing[x] ELSE Shown[x]]
            /\ Endorsed' = Endorsed
        BY <2>2, <2>3, ManyItemsSeen
      <3> QED
        BY <2>1, <3>1 DEF Reader!Remove, Reader!Each, Phase, Shown, Endorsed
    <2> QED
      BY <2>4 DEF Reader!Next
  <1>4. CASE BringsBack(S)
    <2>1. \A x \in S : PhaseOf(item[x]) = "withheld"
      BY <1>1, <1>4, RestoredView DEF BringsBack, RestoreCandidate
    <2>2. \A x \in S : PhaseOf(item'[x]) = "reviewed" /\ ShownOf(item'[x]) = Endorsed[x]
                       /\ item'[x].app = item[x].app
      BY <1>1, <1>4, RestoredView DEF BringsBack, RestoreCandidate, Endorsed
    <2>3. \A x \in Items \ S : item'[x] = item[x]
      BY <1>4 DEF BringsBack
    <2>4. Reader!Restore(S)
      <3>1. /\ Phase' = [x \in Items |-> IF x \in S THEN "reviewed" ELSE Phase[x]]
            /\ Shown' = [x \in Items |-> IF x \in S THEN Endorsed[x] ELSE Shown[x]]
            /\ Endorsed' = Endorsed
        BY <2>2, <2>3, ManyItemsSeen
      <3> QED
        BY <2>1, <3>1 DEF Reader!Restore, Reader!Each, Phase, Shown, Endorsed
    <2> QED
      BY <2>4 DEF Reader!Next
  <1>5. ASSUME NEW i \in Items, S = {i}, Hides(i)
        PROVE  [Reader!Next]_(Reader!view)
    <2> DEFINE n == After("emergency_hide", item[i], "none", NoRev)
    <2>1. item'[i] = n /\ \A x \in Items \ S : item'[x] = item[x]
      BY <1>1, <1>5 DEF Hides
    <2>2. \/ n = item[i]
          \/ /\ PhaseOf(item[i]) = "reviewed"
             /\ PhaseOf(n) = "withheld" /\ ShownOf(n) = NoRev /\ n.app = item[i].app
      BY <1>1, <1>5, HiddenView DEF Hides
    <2> HIDE DEF n
    <2>3. CASE n = item[i]
      <3>1. \A x \in Items : item'[x] = item[x]
        BY <1>5, <2>1, <2>3
      <3> QED
        BY <3>1 DEF Reader!view
    <2>4. CASE n # item[i]
      <3>1. \A x \in S : PhaseOf(item'[x]) = "withheld" /\ ShownOf(item'[x]) = Reader!Nothing[x]
                         /\ item'[x].app = item[x].app
        BY <1>2, <1>5, <2>1, <2>2, <2>4
      <3>2. /\ Phase' = [x \in Items |-> IF x \in S THEN "withheld" ELSE Phase[x]]
            /\ Shown' = [x \in Items |-> IF x \in S THEN Reader!Nothing[x] ELSE Shown[x]]
            /\ Endorsed' = Endorsed
        BY <1>5, <2>1, <3>1, ManyItemsSeen
      <3>3. Reader!Withhold(S)
        BY <1>5, <2>2, <2>4, <3>2 DEF Reader!Withhold, Reader!Each, Phase, Shown, Endorsed
      <3> QED
        BY <3>3 DEF Reader!Next
    <2> QED
      BY <2>3, <2>4
  <1> QED
    BY <1>3, <1>4, <1>5

LEMMA ReaderStep == IInv /\ [Next]_vars => [Reader!Next]_(Reader!view)
  <1> SUFFICES ASSUME IInv, KnownEffect PROVE [Reader!Next]_(Reader!view)
    BY StepEffect
  <1>1. CASE UNCHANGED <<item, announced>>
    BY <1>1 DEF Reader!view
  <1>2. ASSUME NEW i \in Items, Hides(i) PROVE [Reader!Next]_(Reader!view)
    <2>1. {i} \in SUBSET Items
      OBVIOUS
    <2> QED
      BY <1>2, <2>1, ReaderSeesIsolation
  <1> QED
    BY <1>1, <1>2, ReaderSeesWrite, ReaderSeesDecision, ReaderSeesIsolation DEF KnownEffect

LEMMA ReaderInit == Init => Reader!Init
  BY DEF Init, Reader!Init, EmptyItem, PhaseOf, ShownOf

\* The moderated content keeps the promise to the reader: every step of every
\* request, on whatever it planned, is a step of PublicView or changes nothing
\* a reader sees.
THEOREM ReaderPromiseKept == Spec => ReaderView
  BY ReaderInit, ReaderStep, Invariance, PTL DEF Spec, ReaderView, Reader!Spec
=============================================================================
