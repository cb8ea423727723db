----------------------------- MODULE Moderation -----------------------------
(***************************************************************************)
(* The moderated content of the blog: the requests of authors, reviewers   *)
(* and administrators (internal/service/moderation), each of which reads   *)
(* an item, plans a transition on what it read and commits the plan in one *)
(* database transaction (internal/repository/moderation).                  *)
(*                                                                         *)
(* A request is a client with a program counter.  Whatever a client reads  *)
(* outside its transaction is kept in its record and may be stale when the *)
(* transaction runs.  A transaction is one step, except for the two that   *)
(* read a snapshot other transactions may have outdated when they write:   *)
(* the creation of an item below a parent and the deletion of a tree.      *)
(***************************************************************************)
EXTENDS ModerationTransition, FiniteSets

CONSTANTS
    Items,        \* moderated subjects, created or not yet: moments, comments, replies, messages
    NoItem,
    Parent,       \* Parent[i]: the moderated subject i is written below, or NoItem
    Moments,      \* the subjects that announce no interaction when first approved
    Keys,         \* idempotency scopes: one (submitter, Idempotency-Key) pair each
    NoKey,
    Clients,      \* requests in flight at the same time
    MaxRevision,  \* bound on the revisions ever created
    MaxLock       \* bound on lock_version

ASSUME ItemsAssumption == NoItem \notin Items /\ Parent \in [Items -> Items \cup {NoItem}]
ASSUME KeysAssumption == NoKey \notin Keys
ASSUME MomentsAssumption == Moments \subseteq Items
ASSUME BoundsAssumption == MaxRevision \in Nat \ {0} /\ MaxLock \in Nat \ {0}

VARIABLES
    item,      \* moderation_item: the columns of the state machine
    lock,      \* moderation_item.lock_version
    row,       \* the business table: is the row there, and which revision is in its content
    rev,       \* moderation_revision
    last,      \* the last revision id handed out
    attempt,   \* moderation_attempt: the keys of recorded high risk blocks
    profile,   \* the violation counters of user_moderation_profile, summed over the users
    announced, \* notification_event: interaction events, per item
    req        \* the requests in flight

stored == <<item, lock, row, rev, last, attempt, profile, announced>>
vars == <<stored, req>>

Revisions == 1 .. MaxRevision
Pointers == 0 .. MaxRevision
NewRevision == MaxRevision + 1     \* newRevisionSentinel

Statuses == {"unused", "pending", "approved", "rejected", "superseded"}
Decisions == {"none", "approved", "corrected", "rejected"}

NoRevision == [status |-> "unused", owner |-> NoItem, key |-> NoKey,
               action |-> "none", decision |-> "none"]

RevisionRecords ==
    [status: Statuses, owner: Items \cup {NoItem}, key: Keys \cup {NoKey},
     action: PublishingActions \cup {"none"}, decision: Decisions]

Idle == [pc |-> "idle", event |-> "none", target |-> NoItem, key |-> NoKey,
         action |-> "none", snap |-> EmptyItem, lock |-> 0, tree |-> {}]

Requests ==
    [pc: {"idle", "checked", "blocked", "planned", "creating", "deleting"},
     event: Events \cup {"none"}, target: Items \cup {NoItem}, key: Keys \cup {NoKey},
     action: PublishingActions \cup {"none"}, snap: ItemRecords(Pointers),
     lock: 0 .. MaxLock, tree: SUBSET Items]

RowRecords == [alive: BOOLEAN, shows: Pointers]

Counters == [corrected: Nat, rejected: Nat, highRisk: Nat]

TypeOK ==
    /\ item \in [Items -> ItemRecords(Pointers)]
    /\ lock \in [Items -> 0 .. MaxLock]
    /\ row \in [Items -> RowRecords]
    /\ rev \in [Revisions -> RevisionRecords]
    /\ last \in Pointers
    /\ attempt \in SUBSET Keys
    /\ profile \in Counters
    /\ announced \in [Items -> Nat]
    /\ req \in [Clients -> Requests]

Init ==
    /\ item = [i \in Items |-> EmptyItem]
    /\ lock = [i \in Items |-> 0]
    /\ row = [i \in Items |-> [alive |-> FALSE, shows |-> NoRev]]
    /\ rev = [r \in Revisions |-> NoRevision]
    /\ last = 0
    /\ attempt = {}
    /\ profile = [corrected |-> 0, rejected |-> 0, highRisk |-> 0]
    /\ announced = [i \in Items |-> 0]
    /\ req = [c \in Clients |-> Idle]

----------------------------------------------------------------------------
(* What the requests ask of the database.                                   *)

Exists(i) == item[i].lifecycle # "absent"

\* Mutation of Answered: the query forgets the blocked attempts.
AnsweredByRevision(k) == \E r \in Revisions : rev[r].key = k

\* findResultByIdempotencyKey: a revision or a blocked attempt carries the key.
Answered(k) == k \in attempt \/ \E r \in Revisions : rev[r].key = k

\* lockIdempotencyScope: the profile row of the submitter is locked until the
\* creation that holds it commits.
KeyFree(c, k) == \A d \in Clients \ {c} : ~(req[d].pc = "creating" /\ req[d].key = k)

\* lockItem: a deletion in progress holds the row of its root.
HoldsRow(d, i) == req[d].pc = "deleting" /\ req[d].target = i
RowFree(c, i) == \A d \in Clients \ {c} : ~HoldsRow(d, i)

\* AssertCanInteract on the parent, with its business row loaded.
MayWriteBelow(p) == p # NoItem => CanInteract(item[p]) /\ row[p].alive

\* Mutation of LockedAsPlanned: neither the version nor the business row is checked.
LockedWithPending(q) == item[q.target].pend = q.snap.pend

\* lockItem, validateLockedItem and adapter.Lock against what the request planned on.
LockedAsPlanned(q) ==
    /\ lock[q.target] = q.lock
    /\ item[q.target].pend = q.snap.pend
    /\ row[q.target].alive

\* validateRevisionOwnership: every revision the command names belongs to the item.
OwnRevisions(i, refs) == \A r \in refs \cap Revisions : rev[r].owner = i

PointersOf(i) == {i.mat, i.app, i.pend}

\* supersedeRevision and reviewRevision only touch a pending revision.
StillPending(r) == r = NoRev \/ (r \in Revisions /\ rev[r].status = "pending")

\* createRevision: approved at once, or pending for a reviewer.
Created(i, k, action) ==
    [status |-> IF action = "auto_approve" THEN "approved" ELSE "pending",
     owner |-> i, key |-> k, action |-> action,
     decision |-> IF action = "auto_approve" THEN "approved" ELSE "none"]

\* Mutation of Superseded: the replaced revision stays pending.
SupersededNothing(rv, r) == rv

Superseded(rv, r) ==
    [x \in Revisions |-> IF x = r THEN [rv[x] EXCEPT !.status = "superseded"] ELSE rv[x]]

Reviewed(rv, r, event) ==
    [rv EXCEPT ![r] = [@ EXCEPT
        !.status = IF event = "reject" THEN "rejected" ELSE "approved",
        !.decision = CASE event = "approve" -> "approved"
                       [] event = "correct_and_approve" -> "corrected"
                       [] OTHER -> "rejected"]]

\* applyProfileChange with the deltas of reviewProfileChange.
Scored(event) ==
    CASE event = "approve" -> profile
      [] event = "correct_and_approve" -> [profile EXCEPT !.corrected = @ + 1]
      [] OTHER -> [profile EXCEPT !.rejected = @ + 1]

\* Mutation of ScoredBlock: a repeated block is scored again.
ScoredEveryBlock(k) == [profile EXCEPT !.highRisk = @ + 1]

\* RecordBlockedAttempt scores a key it has not answered yet.
ScoredBlock(k) == IF Answered(k) THEN profile ELSE [profile EXCEPT !.highRisk = @ + 1]

\* materialize: the content column of the business row, when the plan writes it.
Materialized(i, r) ==
    IF r = NoRev THEN row ELSE [row EXCEPT ![i].shows = r]

\* Mutation of Announcement: every approval is announced.
AnnouncementPerApproval(i, event, snap, next) ==
    IF i \notin Moments /\ next.app # NoRev /\ next.pend = NoRev
    THEN [announced EXCEPT ![i] = @ + 1]
    ELSE announced

\* appendInteractionNotification: the first approval of a subject with a
\* recipient to tell, judged on the state the request planned on.
Announcement(i, event, snap, next) ==
    IF i \notin Moments /\ snap.app = NoRev /\ next.app # NoRev
    THEN [announced EXCEPT ![i] = @ + 1]
    ELSE announced

\* Mutation of Bumped: a bulk update forgets lock_version + 1.
BumpedNothing(S) == lock

Bumped(S) == [x \in Items |-> IF x \in S THEN lock[x] + 1 ELSE lock[x]]

\* Mutation of Removed: the rows below the root stay.
RemovedRootOnly(S) ==
    [x \in Items |-> IF x \in S /\ Parent[x] \notin S THEN [row[x] EXCEPT !.alive = FALSE] ELSE row[x]]

\* adapter.Delete on every subject of S.
Removed(S) == [x \in Items |-> IF x \in S THEN [row[x] EXCEPT !.alive = FALSE] ELSE row[x]]

\* Mutation of Withdrawn: only the root's pending revision is superseded.
WithdrawnAtRoot(q) == {SupersededBy("delete", q.snap)} \ {NoRev}

\* The pending revisions a deletion supersedes: the planned one of the root,
\* and whatever the listed descendants have pending when they are locked.
Withdrawn(q) ==
    ({SupersededBy("delete", q.snap)} \cup {item[x].pend : x \in q.tree}) \ {NoRev}

\* adapter.Descendants: the rows below i that are alive, down alive rows only.
Closed(S) == \A x \in Items : (Parent[x] \in S /\ row[x].alive) => x \in S
Descendants(i) ==
    {d \in Items \ {i} : row[d].alive /\ \A S \in SUBSET Items : i \in S /\ Closed(S) => d \in S}

\* A request planned on the item as it stands, to be committed against lock_version.
PlannedOn(event, i) ==
    [Idle EXCEPT !.pc = "planned", !.event = event, !.target = i, !.snap = item[i], !.lock = lock[i]]

Finish(c) == req' = [req EXCEPT ![c] = Idle]

----------------------------------------------------------------------------
(* Authors: Submit and Resubmit (service_write.go).                         *)

\* AssertCanInteract, then the lookup of the key and the policy of write; the
\* verdict "block" is recorded and nothing else is done.
StartSubmit(c, p, k, action) ==
    /\ req[c].pc = "idle"
    /\ MayWriteBelow(p)
    /\ ~Answered(k)
    /\ action = "block" \/ Accepts("submit", EmptyItem, action, NewRevision)
    /\ req' = [req EXCEPT ![c] =
           [Idle EXCEPT !.pc = IF action = "block" THEN "blocked" ELSE "planned",
                        !.event = "submit", !.target = p, !.key = k,
                        !.action = IF action = "block" THEN "none" ELSE action]]
    /\ UNCHANGED stored

\* An edit looks up its key before it reads the item.
StartEdit(c, i, k) ==
    /\ req[c].pc = "idle"
    /\ Exists(i)
    /\ ~Answered(k)
    /\ req' = [req EXCEPT ![c] =
           [Idle EXCEPT !.pc = "checked", !.event = "resubmit", !.target = i, !.key = k]]
    /\ UNCHANGED stored

PlanEdit(c, action) ==
    LET q == req[c]
        i == q.target
    IN  /\ q.pc = "checked"
        /\ item[i].lifecycle # "deleted" /\ row[i].alive
        /\ \/ /\ action = "block"
              /\ req' = [req EXCEPT ![c] = [q EXCEPT !.pc = "blocked"]]
           \/ /\ action # "block"
              /\ Accepts("resubmit", item[i], action, NewRevision)
              /\ req' = [req EXCEPT ![c] = [q EXCEPT !.pc = "planned", !.action = action,
                                                     !.snap = item[i], !.lock = lock[i]]]
        /\ UNCHANGED stored

\* RecordBlockedAttempt: a new key is scored, an answered one is not.
RecordBlock(c) ==
    /\ req[c].pc = "blocked"
    /\ KeyFree(c, req[c].key)
    /\ profile' = ScoredBlock(req[c].key)
    /\ attempt' = IF Answered(req[c].key) THEN attempt ELSE attempt \cup {req[c].key}
    /\ Finish(c)
    /\ UNCHANGED <<item, lock, row, rev, last, announced>>

\* The creating transaction up to its first consistent read: the key is looked
\* up again under the profile lock and the parent is read in the same snapshot.
BeginCreate(c) ==
    /\ req[c].pc = "planned" /\ req[c].event = "submit"
    /\ KeyFree(c, req[c].key)
    /\ ~Answered(req[c].key)
    /\ req[c].target # NoItem => row[req[c].target].alive
    /\ req' = [req EXCEPT ![c] = [@ EXCEPT !.pc = "creating"]]
    /\ UNCHANGED stored

\* The rest of it: the business row, the item with lock_version 1, its revision
\* and the item's new state with lock_version 2.
CommitCreate(c, i) ==
    LET q == req[c]
        r == last + 1
        next == After("submit", EmptyItem, q.action, r)
    IN  /\ q.pc = "creating"
        /\ ~Exists(i) /\ Parent[i] = q.target
        /\ last < MaxRevision /\ MaxLock >= 2
        /\ item' = [item EXCEPT ![i] = next]
        /\ lock' = [lock EXCEPT ![i] = 2]
        /\ row' = [row EXCEPT ![i] = [alive |-> TRUE,
                       shows |-> MaterializedBy("submit", EmptyItem, q.action, r)]]
        /\ rev' = [rev EXCEPT ![r] = Created(i, q.key, q.action)]
        /\ last' = r
        /\ announced' = Announcement(i, "submit", EmptyItem, next)
        /\ Finish(c)
        /\ UNCHANGED <<attempt, profile>>

\* ApplyTransition for an edit, under the profile lock and the row lock.
CommitEdit(c) ==
    LET q == req[c]
        i == q.target
        r == last + 1
        next == After("resubmit", q.snap, q.action, r)
        old == SupersededBy("resubmit", q.snap)
    IN  /\ q.pc = "planned" /\ q.event = "resubmit"
        /\ KeyFree(c, q.key) /\ RowFree(c, i)
        /\ ~Answered(q.key)
        /\ LockedAsPlanned(q)
        /\ OwnRevisions(i, (PointersOf(next) \ {r}) \cup {old})
        /\ StillPending(old)
        /\ last < MaxRevision /\ lock[i] < MaxLock
        /\ item' = [item EXCEPT ![i] = next]
        /\ lock' = [lock EXCEPT ![i] = @ + 1]
        /\ row' = Materialized(i, MaterializedBy("resubmit", q.snap, q.action, r))
        /\ rev' = [Superseded(rev, old) EXCEPT ![r] = Created(i, q.key, q.action)]
        /\ last' = r
        /\ announced' = Announcement(i, "resubmit", q.snap, next)
        /\ Finish(c)
        /\ UNCHANGED <<attempt, profile>>

----------------------------------------------------------------------------
(* Reviewers: Approve, Correct and Reject (review.go).                      *)

\* The pending revision of an item is read with the item and the lock_version.
PlanReview(c, i, event) ==
    /\ req[c].pc = "idle"
    /\ item[i].pend # NoRev /\ rev[item[i].pend].status = "pending"
    /\ row[i].alive
    /\ Accepts(event, item[i], "none", item[i].pend)
    /\ req' = [req EXCEPT ![c] = PlannedOn(event, i)]
    /\ UNCHANGED stored

CommitReview(c) ==
    LET q == req[c]
        i == q.target
        r == q.snap.pend
        next == After(q.event, q.snap, "none", r)
    IN  /\ q.pc = "planned" /\ q.event \in ReviewEvents
        /\ RowFree(c, i)
        /\ LockedAsPlanned(q)
        /\ OwnRevisions(i, PointersOf(next) \cup {r})
        /\ StillPending(r)
        /\ lock[i] < MaxLock
        /\ item' = [item EXCEPT ![i] = next]
        /\ lock' = [lock EXCEPT ![i] = @ + 1]
        /\ row' = Materialized(i, MaterializedBy(q.event, q.snap, "none", r))
        /\ rev' = Reviewed(rev, r, q.event)
        /\ profile' = Scored(q.event)
        /\ announced' = Announcement(i, q.event, q.snap, next)
        /\ Finish(c)
        /\ UNCHANGED <<last, attempt>>

----------------------------------------------------------------------------
(* Deletion of an item and of the tree below it (service_read.go).          *)

\* A deletion of a deleted item answers at once and is not planned.
PlanDelete(c, i) ==
    /\ req[c].pc = "idle"
    /\ row[i].alive
    /\ Accepts("delete", item[i], "none", NoRev) /\ ~IsIdempotent("delete", item[i])
    /\ req' = [req EXCEPT ![c] = PlannedOn("delete", i)]
    /\ UNCHANGED stored

\* The transaction locks the root, checks the plan and lists the rows below it.
BeginDelete(c) ==
    LET q == req[c]
    IN  /\ q.pc = "planned" /\ q.event = "delete"
        /\ RowFree(c, q.target)
        /\ LockedAsPlanned(q)
        /\ OwnRevisions(q.target, {q.snap.app, q.snap.pend})
        /\ StillPending(SupersededBy("delete", q.snap))
        /\ req' = [req EXCEPT ![c] = [q EXCEPT !.pc = "deleting", !.tree = Descendants(q.target)]]
        /\ UNCHANGED stored

\* deleteSubjectTree: the root takes the planned state, every listed row that
\* still lives is tombstoned; a listed row that is gone fails the transaction.
CommitDelete(c) ==
    LET q == req[c]
        i == q.target
        old == Withdrawn(q)
    IN  /\ q.pc = "deleting"
        /\ \A d \in q.tree : RowFree(c, d) /\ row[d].alive
        /\ \A d \in q.tree \cup {i} : lock[d] < MaxLock
        /\ item' = [x \in Items |->
                       IF x = i THEN After("delete", q.snap, "none", NoRev)
                       ELSE IF x \in q.tree THEN Tombstone(item[x]) ELSE item[x]]
        /\ lock' = Bumped(q.tree \cup {i})
        /\ row' = Removed(q.tree \cup {i})
        /\ rev' = [r \in Revisions |->
                      IF r \in old THEN [rev[r] EXCEPT !.status = "superseded"] ELSE rev[r]]
        /\ Finish(c)
        /\ UNCHANGED <<last, attempt, profile, announced>>

----------------------------------------------------------------------------
(* Emergency isolation of one item or of a user's content (operations.go).  *)

\* HideItem and RestoreItem also persist the plan of a repeated hide.
PlanEmergency(c, i, event) ==
    /\ req[c].pc = "idle"
    /\ row[i].alive
    /\ Accepts(event, item[i], "none", NoRev)
    /\ req' = [req EXCEPT ![c] = PlannedOn(event, i)]
    /\ UNCHANGED stored

CommitEmergency(c) ==
    LET q == req[c]
        i == q.target
        next == After(q.event, q.snap, "none", NoRev)
    IN  /\ q.pc = "planned" /\ q.event \in EmergencyEvents
        /\ RowFree(c, i)
        /\ LockedAsPlanned(q)
        /\ OwnRevisions(i, PointersOf(next))
        /\ lock[i] < MaxLock
        /\ item' = [item EXCEPT ![i] = next]
        /\ lock' = [lock EXCEPT ![i] = @ + 1]
        /\ Finish(c)
        /\ UNCHANGED <<row, rev, last, attempt, profile, announced>>

\* lockEmergencyCandidates: one batch of a user's items, each row locked.
HideCandidate(i) == Allowed("emergency_hide", item[i], "none", NoRev)

RestoreCandidate(i) ==
    /\ item[i].lifecycle = "active" /\ item[i].public = "emergency_hidden"
    /\ item[i].before # "none"

Batch(S) ==
    /\ S # {}
    /\ \A i \in S : lock[i] < MaxLock /\ \A d \in Clients : ~HoldsRow(d, i)

\* The columns of a batch hide are assigned in the order of their names, which
\* is the order GORM writes a map in and the order MySQL evaluates: the new
\* public_state is what state_before_emergency is set from.
HideInColumnOrder(i) ==
    LET hidden == [i EXCEPT !.public = "emergency_hidden"]
    IN  [hidden EXCEPT !.before = hidden.public]

\* Mutation of PreviousStateCheck: the table has no such constraint.
NoPreviousStateCheck(i) == TRUE

\* chk_moderation_item_previous_state.
PreviousStateCheck(i) == i.before \in BeforeStates

BatchHide(S) ==
    /\ Batch(S) /\ \A i \in S : HideCandidate(i)
    /\ IF \A i \in S : PreviousStateCheck(HideInColumnOrder(item[i]))
       THEN /\ item' = [i \in Items |-> IF i \in S THEN HideInColumnOrder(item[i]) ELSE item[i]]
            /\ lock' = Bumped(S)
       ELSE UNCHANGED <<item, lock>>
    /\ UNCHANGED <<row, rev, last, attempt, profile, announced, req>>

BatchRestore(S) ==
    /\ Batch(S) /\ \A i \in S : RestoreCandidate(i)
    /\ item' = [i \in Items |-> IF i \in S THEN Restored(item[i]) ELSE item[i]]
    /\ lock' = Bumped(S)
    /\ UNCHANGED <<row, rev, last, attempt, profile, announced, req>>

----------------------------------------------------------------------------
(* A request that ends without a commit: a replayed key, a conflict, a      *)
(* lost row, a cancelled context, a failed statement or a crashed process.  *)
Abandon(c) ==
    /\ req[c].pc # "idle"
    /\ Finish(c)
    /\ UNCHANGED stored

Author(c) ==
    \/ \E p \in Items \cup {NoItem}, k \in Keys, a \in PublishingActions \cup {"block"} :
           StartSubmit(c, p, k, a)
    \/ \E i \in Items, k \in Keys : StartEdit(c, i, k)
    \/ \E a \in PublishingActions \cup {"block"} : PlanEdit(c, a)
    \/ RecordBlock(c)
    \/ BeginCreate(c)
    \/ \E i \in Items : CommitCreate(c, i)
    \/ CommitEdit(c)

Reviewer(c) ==
    \/ \E i \in Items, e \in ReviewEvents : PlanReview(c, i, e)
    \/ CommitReview(c)

Remover(c) ==
    \/ \E i \in Items : PlanDelete(c, i)
    \/ BeginDelete(c)
    \/ CommitDelete(c)

Operator(c) ==
    \/ \E i \in Items, e \in EmergencyEvents : PlanEmergency(c, i, e)
    \/ CommitEmergency(c)

Next ==
    \/ \E c \in Clients : Author(c) \/ Reviewer(c) \/ Remover(c) \/ Operator(c) \/ Abandon(c)
    \/ \E S \in SUBSET Items : BatchHide(S) \/ BatchRestore(S)

Spec == Init /\ [][Next]_vars
----------------------------------------------------------------------------
(* What must hold of the stored state, whatever requests interleave.        *)

\* Every stored item satisfies the state matrix its next transition demands
\* (validateItemSnapshot): no commit leaves an item no request can move.
StateMatrix == \A i \in Items : ValidItem(item[i])

\* The revision pointers of an item and the review_status of the revisions tell
\* the same story: approved_revision_id is an approved revision of the item,
\* pending_revision_id a pending one, and no pending revision is left that no
\* item points to (it would stay in the review queue for ever).
PointersMatchRevisions ==
    /\ \A i \in Items :
        /\ item[i].app # NoRev => rev[item[i].app].status = "approved" /\ rev[item[i].app].owner = i
        /\ item[i].pend # NoRev => rev[item[i].pend].status = "pending" /\ rev[item[i].pend].owner = i
    /\ \A i \in Items, r \in Revisions :
        rev[r].status = "pending" /\ rev[r].owner = i => item[i].pend = r

\* The page only ever shows an approved revision, or a pending one the policy
\* let through for review afterwards: never one that waits for review first,
\* was rejected or was replaced.
OnlyReleasedContentShown ==
    \A i \in Items : item[i].public = "visible" =>
        LET r == item[i].mat
        IN  /\ r # NoRev /\ rev[r].owner = i
            /\ \/ rev[r].status = "approved"
               \/ rev[r].status = "pending" /\ rev[r].action = "post_review"

\* One idempotency key has one outcome: at most one revision or one blocked
\* attempt, never both, however many times and however concurrently it is sent.
OneOutcomePerKey ==
    /\ \A r, s \in Revisions : rev[r].key # NoKey /\ rev[r].key = rev[s].key => r = s
    /\ \A r \in Revisions : rev[r].key \notin attempt

\* A violation is scored once: a correction and a rejection per revision decided
\* that way, a high risk block per key.
DecidedAs(d) == {r \in Revisions : rev[r].decision = d}
ViolationsScoredOnce ==
    /\ profile.corrected = Cardinality(DecidedAs("corrected"))
    /\ profile.rejected = Cardinality(DecidedAs("rejected"))
    /\ profile.highRisk = Cardinality(attempt)

\* The people a comment, reply or message is addressed to are told of it once,
\* in the transaction that first approves it: not before, not again after an
\* edit, and not never.
AnnouncedWithFirstApproval ==
    \A i \in Items \ Moments : announced[i] = IF item[i].app = NoRev THEN 0 ELSE 1

\* A request that finds the lock_version it planned on finds the item it
\* planned on: every writer of moderation_item moves the version.
PlansAreCurrent ==
    \A c \in Clients :
        (req[c].lock # 0 /\ lock[req[c].target] = req[c].lock) => item[req[c].target] = req[c].snap

\* The business row of a subject lives exactly as long as its item is active.
RowsFollowLifecycle == \A i \in Items : row[i].alive <=> item[i].lifecycle = "active"

\* A decision is final: a revision that was approved, rejected or superseded
\* keeps its outcome, a deleted item keeps its columns and its row stays dead.
DecisionsAreFinal ==
    [][/\ \A r \in Revisions : rev[r].status \in {"approved", "rejected", "superseded"} => rev'[r] = rev[r]
       /\ \A i \in Items : item[i].lifecycle = "deleted" =>
              item'[i] = item[i] /\ ~row'[i].alive]_vars

----------------------------------------------------------------------------
(* What the reader sees of the stored state, and that it is PublicView.     *)

PhaseOf(i) ==
    IF i.lifecycle = "absent" THEN "none"
    ELSE IF i.lifecycle = "deleted" THEN "gone"
    ELSE CASE i.public = "placeholder" -> "waiting"
           [] i.public = "hidden" -> "refused"
           [] i.public = "emergency_hidden" -> "withheld"
           [] OTHER -> IF i.mat = i.app THEN "reviewed" ELSE "unreviewed"

ShownOf(i) == IF i.public = "visible" THEN i.mat ELSE NoRev

Reader == INSTANCE PublicView WITH
    Contents <- Revisions, None <- NoRev,
    phase <- [i \in Items |-> PhaseOf(item[i])],
    shown <- [i \in Items |-> ShownOf(item[i])],
    endorsed <- [i \in Items |-> item[i].app]

\* Every step of every request is a step of the reader's view, or none.
ReaderView == Reader!Spec

----------------------------------------------------------------------------
(* What the documents of the repository say and the code does not do.       *)

\* The columns a batch hide writes for a candidate satisfy the constraints of
\* its table: hiding a user's content takes effect.
BatchHideIsAccepted ==
    \A i \in Items : HideCandidate(i) => PreviousStateCheck(HideInColumnOrder(item[i]))

\* Deleting a parent deletes everything written below it.
NothingActiveBelowDeleted ==
    \A i \in Items : Parent[i] # NoItem /\ item[Parent[i]].lifecycle = "deleted" =>
                         item[i].lifecycle # "active"
=============================================================================
