------------------------ MODULE ModerationTransition ------------------------
(***************************************************************************)
(* The moderation state machine as a pure function: what Transition(input) *)
(* of internal/service/moderation/transition.go plans for one item.  A     *)
(* revision pointer is a number and NoRev is the nil pointer.  The three   *)
(* emergency columns are set and cleared together and are represented by   *)
(* "before" (state_before_emergency); deleted_at is set exactly with the   *)
(* lifecycle "deleted".                                                    *)
(***************************************************************************)
EXTENDS Naturals

NoRev == 0

Lifecycles == {"absent", "active", "deleted"}

PublicStates == {"none", "visible", "placeholder", "hidden", "emergency_hidden"}

BeforeStates == {"none", "visible", "placeholder", "hidden"}

PublishingActions == {"auto_approve", "post_review", "pre_review"}

SubmitEvents == {"submit", "resubmit"}

ReviewEvents == {"approve", "correct_and_approve", "reject"}

EmergencyEvents == {"emergency_hide", "restore"}

Events == SubmitEvents \cup ReviewEvents \cup EmergencyEvents \cup {"delete"}

\* The columns of moderation_item that the state machine reads and writes.
ItemRecords(Refs) ==
    [lifecycle: Lifecycles, public: PublicStates, mat: Refs, app: Refs,
     pend: Refs, before: BeforeStates]

\* The zero ItemSnapshot: what a first submission starts from.
EmptyItem == [lifecycle |-> "absent", public |-> "none", mat |-> NoRev,
              app |-> NoRev, pend |-> NoRev, before |-> "none"]

SameRevision(a, b) == a # NoRev /\ a = b

----------------------------------------------------------------------------
(* validateItemSnapshot: the state matrix every stored item must satisfy.   *)

ValidVisiblePointers(i) ==
    IF i.pend = NoRev THEN SameRevision(i.mat, i.app)
    ELSE \/ SameRevision(i.mat, i.pend)
         \/ i.app # NoRev /\ SameRevision(i.mat, i.app)

ValidActive(i) ==
    /\ ~SameRevision(i.app, i.pend)
    /\ IF i.public = "emergency_hidden"
       THEN i.pend = NoRev /\ i.before = "visible" /\ SameRevision(i.mat, i.app)
       ELSE /\ i.before = "none"
            /\ \/ i.public = "visible" /\ ValidVisiblePointers(i)
               \/ i.public = "placeholder" /\ i.mat = NoRev /\ i.app = NoRev /\ i.pend # NoRev
               \/ i.public = "hidden" /\ i.mat = NoRev /\ i.app = NoRev /\ i.pend = NoRev

ValidItem(i) ==
    \/ i = EmptyItem
    \/ i.lifecycle = "active" /\ ValidActive(i)
    \/ /\ i.lifecycle = "deleted"
       /\ i.public = "hidden" /\ i.mat = NoRev /\ i.pend = NoRev /\ i.before = "none"

----------------------------------------------------------------------------
(* What each accepted event makes of the item.                              *)

\* A new item starts active with no pointer; an edited one keeps its columns.
SubmitBase(i) == IF i.lifecycle = "absent" THEN [EmptyItem EXCEPT !.lifecycle = "active"] ELSE i

ApprovedSubmission(i, r) ==
    [i EXCEPT !.public = "visible", !.mat = r, !.app = r, !.pend = NoRev]

\* Mutation of PostReviewSubmission: the approved version is forgotten.
PostReviewForgettingApproved(i, r) ==
    [i EXCEPT !.public = "visible", !.mat = r, !.app = NoRev, !.pend = r]

PostReviewSubmission(i, r) == [i EXCEPT !.public = "visible", !.mat = r, !.pend = r]

\* Mutation of PreReviewSubmission: the new version is shown while it waits.
PreReviewShown(i, r) == [i EXCEPT !.public = "visible", !.mat = r, !.pend = r]

PreReviewSubmission(i, r) ==
    IF i.app = NoRev
    THEN [i EXCEPT !.public = "placeholder", !.mat = NoRev, !.pend = r]
    ELSE [i EXCEPT !.public = "visible", !.mat = i.app, !.pend = r]

Submitted(i, action, r) ==
    CASE action = "auto_approve" -> ApprovedSubmission(SubmitBase(i), r)
      [] action = "post_review"  -> PostReviewSubmission(SubmitBase(i), r)
      [] OTHER                   -> PreReviewSubmission(SubmitBase(i), r)

ReviewApproval(i, r) == [i EXCEPT !.public = "visible", !.mat = r, !.app = r, !.pend = NoRev]

ReviewRejection(i) ==
    IF i.app = NoRev
    THEN [i EXCEPT !.public = "hidden", !.mat = NoRev, !.pend = NoRev]
    ELSE [i EXCEPT !.public = "visible", !.mat = i.app, !.pend = NoRev]

\* Also the row a parent's deletion leaves behind (tombstoneDescendant).
Tombstone(i) ==
    [i EXCEPT !.lifecycle = "deleted", !.public = "hidden", !.mat = NoRev,
              !.pend = NoRev, !.before = "none"]

EmergencyHidden(i) == [i EXCEPT !.public = "emergency_hidden", !.before = "visible"]

\* Mutation of Restored: the emergency snapshot is kept.
RestoredKeepingSnapshot(i) == [i EXCEPT !.public = i.before]

Restored(i) == [i EXCEPT !.public = i.before, !.before = "none"]

----------------------------------------------------------------------------
(* Transition: the verdict on an event, and the plan of an accepted one.    *)

\* A repeated deletion, or a repeated emergency hide, keeps the item as it is.
IsIdempotent(event, i) ==
    \/ event = "delete" /\ i.lifecycle = "deleted"
    \/ event = "emergency_hide" /\ i.lifecycle = "active" /\ i.public = "emergency_hidden"

HasRevision(i, r) == r \in {i.mat, i.app, i.pend}

\* "action" is read by the submissions only, "r" by submissions and reviews.
Allowed(event, i, action, r) ==
    CASE event \in SubmitEvents ->
           /\ i.public # "emergency_hidden"
           /\ action \in PublishingActions
           /\ r # NoRev /\ ~HasRevision(i, r)
           /\ i.lifecycle = IF event = "submit" THEN "absent" ELSE "active"
      [] event \in ReviewEvents -> i.lifecycle = "active" /\ SameRevision(i.pend, r)
      [] event = "delete" -> i.lifecycle = "active"
      [] event = "emergency_hide" ->
           /\ i.lifecycle = "active" /\ i.public = "visible"
           /\ i.pend = NoRev /\ SameRevision(i.mat, i.app)
      [] OTHER -> /\ i.lifecycle = "active" /\ i.public = "emergency_hidden"
                  /\ i.before = "visible"

After(event, i, action, r) ==
    IF IsIdempotent(event, i) THEN i ELSE
    CASE event \in SubmitEvents -> Submitted(i, action, r)
      [] event \in {"approve", "correct_and_approve"} -> ReviewApproval(i, r)
      [] event = "reject" -> ReviewRejection(i)
      [] event = "delete" -> Tombstone(i)
      [] event = "emergency_hide" -> EmergencyHidden(i)
      [] OTHER -> Restored(i)

\* Transition checks the snapshot it is given and the one it is about to return.
Accepts(event, i, action, r) ==
    /\ ValidItem(i)
    /\ \/ IsIdempotent(event, i)
       \/ /\ Allowed(event, i, action, r)
          /\ ValidItem(After(event, i, action, r))

\* plan.MaterializeRevision: the revision whose text the business row receives,
\* NoRev when the row is left as it is.
MaterializedBy(event, i, action, r) ==
    CASE event \in SubmitEvents -> IF action = "pre_review" THEN NoRev ELSE r
      [] event \in {"approve", "correct_and_approve"} -> r
      [] event = "reject" -> i.app
      [] OTHER -> NoRev

\* plan.SupersedeRevision: the pending revision an edit or a deletion replaces.
SupersededBy(event, i) == IF event \in SubmitEvents \cup {"delete"} THEN i.pend ELSE NoRev

\* CanInteract: replies and likes are accepted on this item.
CanInteract(i) ==
    /\ i.lifecycle = "active" /\ i.public = "visible"
    /\ i.pend = NoRev /\ i.app # NoRev
=============================================================================
