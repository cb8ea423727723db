---------------------------- MODULE MomentImages ----------------------------
(***************************************************************************)
(* The pictures of one moment, between the database and the object store,  *)
(* which share no transaction.  A save uploads staging objects, commits a  *)
(* revision that names them, and, when the revision is approved, publishes *)
(* it: copy the pictures to their public keys and those it drops to audit  *)
(* keys, store the new keys in one transaction, delete the sources.  A     *)
(* failed publication takes the moment back to a placeholder and leaves it *)
(* to the recovery worker; the cleanup worker deletes what nothing names.  *)
(*                                                                         *)
(* Requests are handlers (saves of the author and reviews of an admin),    *)
(* Recoverers the recovery worker of each server process.  Every call to   *)
(* the store or the database is a step that others may come between.       *)
(***************************************************************************)
EXTENDS ModerationTransition, FiniteSets, Sequences

CONSTANTS
    Pictures,       \* contents of pictures, named by their hash
    Requests,       \* handlers that may be at work at the same time
    Recoverers,     \* recovery workers
    MaxRevisions,   \* bound on the saves that upload, hence on the revisions
    MaxCommits,     \* bound on the lock version
    MaxFaults       \* bound on store errors, database errors and stops

ASSUME ImageConstants ==
    /\ Requests \cap Recoverers = {}
    /\ MaxRevisions \in Nat /\ MaxCommits \in Nat /\ MaxFaults \in Nat

VARIABLES
    item,           \* the moderation_item row of the moment
    lockVersion,    \* its lock_version, 0 while there is no row
    revisions,      \* the revisions by version: status and image rows
    media,          \* the urls in moment_media
    objects,        \* the keys in the object store
    uploads,        \* batch directories used so far
    doomed,         \* keys the cleanup worker has listed and will delete
    faults,         \* faults so far
    proc            \* what each handler and worker is doing

vars == <<item, lockVersion, revisions, media, objects, uploads, doomed, faults, proc>>

Procs == Requests \cup Recoverers

----------------------------------------------------------------------------
(* Keys.  The staging directory of a save is derived from its idempotency   *)
(* key: one batch number for each save.                                     *)

Staged(b, h) == <<"staging", b, h>>
Public(h) == <<"moments", 0, h>>
Audit(h) == <<"history", 0, h>>

StagedKeys == {Staged(b, h) : b \in 1..MaxRevisions, h \in Pictures}
PublicKeys == {Public(h) : h \in Pictures}
AuditKeys == {Audit(h) : h \in Pictures}
Keys == StagedKeys \cup PublicKeys \cup AuditKeys

\* The image rows of a revision: the key of each of its pictures.
ImageRows == UNION {[hs -> Keys] : hs \in SUBSET Pictures}
NoRows == [h \in {} |-> Public(h)]
KeysOf(rows) == {rows[h] : h \in DOMAIN rows}

Revs == 1..Len(revisions)
RowsOf(r) == IF r = NoRev THEN NoRows ELSE revisions[r].rows

\* Mutation of Referenced: the image rows are not asked.
ReferencedByMedia == media

\* ReferencedObjectKeys: what an image row or moment_media names.
Referenced == media \cup UNION {KeysOf(revisions[r].rows) : r \in Revs}

\* computePublishPlan: the public objects that a revision no longer shows.
Dropped(current, previous) ==
    {h \in DOMAIN previous \ DOMAIN current : previous[h] \in PublicKeys}

\* The objects a publication has to make.
Targets(current, previous) ==
    {Public(h) : h \in {x \in DOMAIN current : current[x] # Public(x)}}
    \cup {Audit(h) : h \in Dropped(current, previous)}

----------------------------------------------------------------------------

Idle == [pc |-> "idle", kind |-> "none", item |-> EmptyItem, lock |-> 0, rev |-> NoRev,
         current |-> NoRows, previous |-> NoRows, uploaded |-> {}, todo |-> {}, made |-> {}]

ProcStates ==
    [pc: {"idle", "prepared", "loaded", "committed", "copying", "cleaning", "failed", "rollback"},
     kind: {"none", "save", "review", "recovery"},
     item: ItemRecords(0..MaxRevisions), lock: 0..MaxCommits, rev: 0..MaxRevisions,
     current: ImageRows, previous: ImageRows,
     uploaded: SUBSET StagedKeys, todo: SUBSET Keys, made: SUBSET Keys]

Init ==
    /\ item = EmptyItem /\ lockVersion = 0 /\ revisions = <<>> /\ media = {}
    /\ objects = {} /\ uploads = 0 /\ doomed = {} /\ faults = 0
    /\ proc = [p \in Procs |-> Idle]

At(p, pc) == proc[p].pc = pc
AllIdle == \A p \in Procs : At(p, "idle")
Become(p, state) == proc' = [proc EXCEPT ![p] = state]
Fault == faults < MaxFaults /\ faults' = faults + 1
DatabaseKept == UNCHANGED <<item, lockVersion, revisions, media>>
WorldKept == DatabaseKept /\ UNCHANGED <<objects, uploads, doomed, faults>>

----------------------------------------------------------------------------
(* A save, up to its commit.                                                *)

\* prepareModerationMomentImages: kept pictures must have their public object,
\* the others are put into the staging directory of this save.
Prepare(p) ==
    /\ At(p, "idle") /\ uploads < MaxRevisions
    /\ item.lifecycle = "absent" => AllIdle
    /\ \E new \in SUBSET Pictures, kept \in SUBSET {h \in Pictures : Public(h) \in objects} :
         /\ new \cap kept = {}
         /\ LET put == {Staged(uploads + 1, h) : h \in new}
            IN  /\ objects' = objects \cup put
                /\ Become(p, [Idle EXCEPT !.pc = "prepared", !.kind = "save", !.uploaded = put,
                                !.current = [h \in new \cup kept |->
                                    IF h \in new THEN Staged(uploads + 1, h) ELSE Public(h)]])
    /\ uploads' = uploads + 1
    /\ DatabaseKept /\ UNCHANGED <<doomed, faults>>

\* media.Prepare reads every picture; then LoadItemState, without a lock.
LoadItem(p) ==
    /\ At(p, "prepared") /\ KeysOf(proc[p].current) \subseteq objects
    /\ item.lifecycle # "deleted"
    /\ Become(p, [proc[p] EXCEPT !.pc = "loaded", !.item = item, !.lock = lockVersion])
    /\ WorldKept

\* Save's deferred cleanup after an error: the staging objects it has put.
Rollback(p) ==
    /\ proc[p].kind = "save" /\ proc[p].pc \in {"prepared", "loaded", "rollback"}
    /\ objects' = objects \ proc[p].uploaded
    /\ Become(p, Idle)
    /\ DatabaseKept /\ UNCHANGED <<uploads, doomed, faults>>

----------------------------------------------------------------------------
(* ApplyTransition: the commit of a save or a review, planned for the item  *)
(* that was read and refused when the lock version has moved.               *)

Superseded(revs, r) ==
    IF r = NoRev THEN revs ELSE [revs EXCEPT ![r].status = "superseded"]

\* syncMaterializedImages: moment_media becomes the rows of the shown revision.
ApplyTransition(p, event, action, r, revs) ==
    /\ proc[p].lock = lockVersion /\ lockVersion < MaxCommits
    /\ Accepts(event, proc[p].item, action, r)
    /\ item' = After(event, proc[p].item, action, r)
    /\ lockVersion' = lockVersion + 1
    /\ revisions' = revs
    /\ LET shown == MaterializedBy(event, proc[p].item, action, r)
       IN  media' = IF shown = NoRev THEN media ELSE KeysOf(revs[shown].rows)

\* Mutation of CommitSave: what is shown before its review is published too.
CommitSavePublishingAll(p) ==
    /\ At(p, "loaded") /\ proc[p].kind = "save"
    /\ \E action \in PublishingActions :
         LET read == proc[p].item
             event == IF read.lifecycle = "absent" THEN "submit" ELSE "resubmit"
             r    == Len(revisions) + 1
             new  == [status |-> IF action = "auto_approve" THEN "approved" ELSE "pending",
                      rows |-> proc[p].current]
         IN  /\ ApplyTransition(p, event, action, r,
                    Append(Superseded(revisions, SupersededBy(event, read)), new))
             /\ Become(p, IF action # "pre_review"
                          THEN [proc[p] EXCEPT !.pc = "committed", !.rev = r] ELSE Idle)
    /\ UNCHANGED <<objects, uploads, doomed, faults>>

CommitSave(p) ==
    /\ At(p, "loaded") /\ proc[p].kind = "save"
    /\ \E action \in PublishingActions :
         LET read  == proc[p].item
             event == IF read.lifecycle = "absent" THEN "submit" ELSE "resubmit"
             r     == Len(revisions) + 1
             auto  == action = "auto_approve"
             new   == [status |-> IF auto THEN "approved" ELSE "pending", rows |-> proc[p].current]
         IN  /\ ApplyTransition(p, event, action, r,
                    Append(Superseded(revisions, SupersededBy(event, read)), new))
             /\ Become(p, IF auto THEN [proc[p] EXCEPT !.pc = "committed", !.rev = r] ELSE Idle)
    /\ UNCHANGED <<objects, uploads, doomed, faults>>

\* Publish is called when the revision or the one it replaces has pictures.
StartPublish(p, current, previous) ==
    Become(p, IF current = NoRows /\ previous = NoRows THEN Idle
              ELSE [proc[p] EXCEPT !.pc = "copying", !.current = current,
                      !.previous = previous, !.todo = Targets(current, previous)])

\* publishApprovedMomentImages reads the rows after the commit; an error here
\* is returned at once, without taking the moment back.
LoadImages(p) ==
    /\ At(p, "committed")
    /\ StartPublish(p, RowsOf(proc[p].rev), RowsOf(proc[p].item.mat))
    /\ WorldKept

LoadImagesFails(p) ==
    /\ At(p, "committed") /\ Fault
    /\ Become(p, [proc[p] EXCEPT !.pc = "rollback"])
    /\ DatabaseKept /\ UNCHANGED <<objects, uploads, doomed>>

\* A review reads the record and both sets of rows before its transaction.  One
\* that reads a row Transition refuses ends without an effect.
LoadReview(p) ==
    /\ At(p, "idle") /\ item.lifecycle = "active" /\ item.pend # NoRev
    /\ ValidItem(item) /\ lockVersion < MaxCommits
    /\ Become(p, [Idle EXCEPT !.pc = "loaded", !.kind = "review", !.item = item,
                    !.lock = lockVersion, !.rev = item.pend,
                    !.current = RowsOf(item.pend), !.previous = RowsOf(item.mat)])
    /\ WorldKept

CommitReview(p) ==
    /\ At(p, "loaded") /\ proc[p].kind = "review"
    /\ \/ /\ ApplyTransition(p, "approve", "none", proc[p].rev,
                [revisions EXCEPT ![proc[p].rev].status = "approved"])
          /\ StartPublish(p, proc[p].current, proc[p].previous)
       \/ /\ ApplyTransition(p, "reject", "none", proc[p].rev,
                [revisions EXCEPT ![proc[p].rev].status = "rejected"])
          /\ Become(p, Idle)
    /\ UNCHANGED <<objects, uploads, doomed, faults>>

RefuseReview(p) ==
    /\ At(p, "loaded") /\ proc[p].kind = "review" /\ proc[p].lock # lockVersion
    /\ Become(p, Idle) /\ WorldKept

\* Delete by the author or an admin, isolation and restoration by an admin.
Administer(event) ==
    /\ item.lifecycle = "active" /\ lockVersion < MaxCommits
    /\ Accepts(event, item, "none", NoRev) /\ ~IsIdempotent(event, item)
    /\ item' = After(event, item, "none", NoRev)
    /\ lockVersion' = lockVersion + 1
    /\ revisions' = Superseded(revisions, SupersededBy(event, item))
    /\ media' = IF event = "delete" THEN {} ELSE media
    /\ UNCHANGED <<objects, uploads, doomed, faults, proc>>

----------------------------------------------------------------------------
(* Publish.                                                                 *)

Candidate == item.lifecycle = "active" /\ item.public = "placeholder" /\ item.app # NoRev

\* The latest other approved revision.
LatestApprovedBut(r) ==
    LET older == {x \in Revs \ {r} : revisions[x].status = "approved"}
    IN  IF older = {} THEN NoRev ELSE CHOOSE x \in older : \A y \in older : y <= x

\* ListPublishRecoveryCandidates and the rows of both revisions.
Recover(p) ==
    /\ At(p, "idle") /\ Candidate
    /\ LET current == RowsOf(item.app)
           previous == RowsOf(LatestApprovedBut(item.app))
       IN  Become(p, [Idle EXCEPT !.pc = "copying", !.kind = "recovery", !.rev = item.app,
                        !.current = current, !.previous = previous,
                        !.todo = Targets(current, previous)])
    /\ WorldKept

SourceOf(p, key) == IF key \in PublicKeys THEN proc[p].current[key[3]] ELSE Public(key[3])

\* Public copies first, audit copies when all of them are made.
NextToCopy(p) ==
    LET public == proc[p].todo \cap PublicKeys
    IN  IF public = {} THEN proc[p].todo ELSE public

\* An object that is there is left alone, and is not counted as this run's.
Copy(p) ==
    /\ At(p, "copying")
    /\ \E key \in NextToCopy(p) :
         /\ key \in objects \/ SourceOf(p, key) \in objects
         /\ objects' = objects \cup {key}
         /\ Become(p, [proc[p] EXCEPT !.todo = @ \ {key},
                         !.made = IF key \in objects THEN @ ELSE @ \cup {key}])
    /\ DatabaseKept /\ UNCHANGED <<uploads, doomed, faults>>

Failed(p) ==
    IF proc[p].kind = "recovery" THEN Idle ELSE [proc[p] EXCEPT !.pc = "failed", !.todo = {}, !.made = {}]

\* A missing source or a store error.  What was copied is deleted only when
\* the error comes at an audit copy, and then the public copies alone.
CopyFails(p) ==
    /\ At(p, "copying")
    /\ \E key \in NextToCopy(p) :
         /\ \/ key \notin objects /\ SourceOf(p, key) \notin objects /\ UNCHANGED faults
            \/ Fault
         /\ objects' = IF key \in AuditKeys THEN objects \ (proc[p].made \cap PublicKeys) ELSE objects
    /\ Become(p, Failed(p))
    /\ DatabaseKept /\ UNCHANGED <<uploads, doomed>>

\* Mutation of RevisionIsCurrent: only the shown revision counts.
RevisionIsShown(r) == r = item.mat

RevisionIsCurrent(r) == r \in {item.mat, item.app}

\* The rows after a publication: public keys for the pictures shown, audit
\* keys wherever a revision named a public object that is dropped.
PublishedRows(p, r) ==
    LET audited == {Public(h) : h \in Dropped(proc[p].current, proc[p].previous)}
        rows == IF r = proc[p].rev
                THEN [h \in DOMAIN proc[p].current |-> Public(h)] ELSE revisions[r].rows
    IN  [h \in DOMAIN rows |-> IF rows[h] \in audited THEN Audit(h) ELSE rows[h]]

CanApply(p) == RevisionIsCurrent(proc[p].rev) /\ item.lifecycle = "active"

\* ApplyPublishedImageKeys: one transaction, which leaves lock_version alone.
Apply(p) ==
    /\ At(p, "copying") /\ proc[p].todo = {} /\ CanApply(p)
    /\ revisions' = [r \in Revs |-> [revisions[r] EXCEPT !.rows = PublishedRows(p, r)]]
    /\ item' = IF item.public = "placeholder" THEN [item EXCEPT !.public = "visible"] ELSE item
    /\ media' = {Public(h) : h \in DOMAIN proc[p].current}
    /\ Become(p, [proc[p] EXCEPT !.pc = "cleaning", !.made = {}])
    /\ UNCHANGED <<lockVersion, objects, uploads, doomed, faults>>

\* The revision is no longer current, or a database error: compensateCopies.
ApplyFails(p) ==
    /\ At(p, "copying") /\ proc[p].todo = {}
    /\ \/ ~CanApply(p) /\ UNCHANGED faults
       \/ Fault
    /\ objects' = objects \ proc[p].made
    /\ Become(p, Failed(p))
    /\ DatabaseKept /\ UNCHANGED <<uploads, doomed>>

\* cleanupSourceObjects.
Clean(p) ==
    /\ At(p, "cleaning")
    /\ objects' = objects \ ((KeysOf(proc[p].current) \cap StagedKeys)
                   \cup {Public(h) : h \in Dropped(proc[p].current, proc[p].previous)})
    /\ Become(p, Idle)
    /\ DatabaseKept /\ UNCHANGED <<uploads, doomed, faults>>

\* Mutation of Reverted: whatever the public state is.
RevertedAlways == item' = [item EXCEPT !.public = "placeholder"] /\ media' = {}

\* RevertPublicProjection, whose own error is only logged; a save then deletes
\* what it had uploaded.
Reverted ==
    IF item.public \in {"visible", "placeholder"}
    THEN item' = [item EXCEPT !.public = "placeholder"] /\ media' = {}
    ELSE UNCHANGED <<item, media>>

Revert(p) ==
    /\ At(p, "failed")
    /\ \/ Reverted /\ UNCHANGED faults
       \/ Fault /\ UNCHANGED <<item, media>>
    /\ Become(p, IF proc[p].kind = "save" THEN [proc[p] EXCEPT !.pc = "rollback"] ELSE Idle)
    /\ UNCHANGED <<lockVersion, revisions, objects, uploads, doomed>>

----------------------------------------------------------------------------
(* The cleanup worker, and stops.                                           *)

\* Mutation of CleanupList: the prefix of the public pictures is left out.
CleanupListPrivate ==
    /\ AllIdle /\ doomed = {} /\ objects \ (Referenced \cup PublicKeys) # {}
    /\ doomed' = objects \ (Referenced \cup PublicKeys)
    /\ DatabaseKept /\ UNCHANGED <<objects, uploads, faults, proc>>

\* The objects of a page that nothing names; they are older than any request
\* still at work.
CleanupList ==
    /\ AllIdle /\ doomed = {} /\ objects \ Referenced # {}
    /\ doomed' = objects \ Referenced
    /\ DatabaseKept /\ UNCHANGED <<objects, uploads, faults, proc>>

CleanupDelete ==
    /\ \E key \in doomed : objects' = objects \ {key} /\ doomed' = doomed \ {key}
    /\ DatabaseKept /\ UNCHANGED <<uploads, faults, proc>>

\* CleanupAudit: a decided revision that nothing points to loses its rows.
CleanupAudit(r) ==
    /\ AllIdle /\ r \in Revs /\ ~HasRevision(item, r)
    /\ revisions[r].status \notin {"pending", "removed"}
    /\ revisions' = [revisions EXCEPT ![r] = [status |-> "removed", rows |-> NoRows]]
    /\ UNCHANGED <<item, lockVersion, media, objects, uploads, doomed, faults, proc>>

Stop(p) ==
    /\ ~At(p, "idle") /\ Fault
    /\ Become(p, Idle)
    /\ DatabaseKept /\ UNCHANGED <<objects, uploads, doomed>>

\* What a handler does from its commit on, and a recovery worker throughout.
Publishing(p) ==
    \/ LoadImages(p) \/ LoadImagesFails(p) \/ Copy(p) \/ CopyFails(p)
    \/ Apply(p) \/ ApplyFails(p) \/ Clean(p) \/ Revert(p)

Handling(p) ==
    \/ LoadItem(p) \/ Rollback(p) \/ CommitSave(p) \/ CommitReview(p) \/ RefuseReview(p)

Next ==
    \/ \E p \in Requests : Prepare(p) \/ LoadReview(p) \/ Handling(p)
    \/ \E p \in Recoverers : Recover(p)
    \/ \E p \in Procs : Publishing(p) \/ Stop(p)
    \/ \E event \in {"delete", "emergency_hide", "restore"} : Administer(event)
    \/ CleanupList \/ CleanupDelete
    \/ \E r \in 1..MaxRevisions : CleanupAudit(r)

\* A handler that was reached runs to its end and the workers run for ever
\* (their tickers), but no request has to come.  The cleanup worker sees an
\* old object on every round; it is AllIdle, a bound on ages, that comes and
\* goes, hence strong fairness.
Fairness ==
    /\ \A p \in Procs : WF_vars(Publishing(p))
    /\ \A p \in Requests : WF_vars(Handling(p))
    /\ \A p \in Recoverers : WF_vars(Recover(p))
    /\ SF_vars(CleanupList) /\ WF_vars(CleanupDelete)

Spec == Init /\ [][Next]_vars

LiveSpec == Spec /\ Fairness

----------------------------------------------------------------------------
(* Properties.                                                              *)

\* The variables have the values the columns and the buckets can hold.
TypeOK ==
    /\ item \in ItemRecords(0..MaxRevisions) /\ lockVersion \in 0..MaxCommits
    /\ revisions \in Seq([status: {"pending", "approved", "rejected", "superseded", "removed"},
                          rows: ImageRows])
    /\ Len(revisions) <= MaxRevisions
    /\ media \subseteq Keys /\ objects \subseteq Keys /\ doomed \subseteq Keys
    /\ uploads \in 0..MaxRevisions /\ faults \in 0..MaxFaults
    /\ proc \in [Procs -> ProcStates]

\* The state machine refuses every event on a row outside its matrix, and a
\* publication writes the row without it: whenever the row is outside, the
\* recovery worker must be the one who can bring it back.
AwaitingIsRecoverable == ValidItem(item) \/ Candidate

\* A picture of a revision that waits for review keeps the staging object its
\* row names, whatever saves, publications and cleanups of others do.
PendingPicturesKept ==
    \A r \in Revs : revisions[r].status = "pending" =>
        KeysOf(revisions[r].rows) \cap StagedKeys \subseteq objects

\* A public object is only ever made for a picture of an approved revision.
OnlyApprovedPicturesPublic ==
    [][\A h \in Pictures : Public(h) \in objects' \ objects =>
          \E r \in Revs : revisions[r].status = "approved" /\ h \in DOMAIN revisions[r].rows]_vars

\* Every object a publication of the approved revision has still to copy.
SourcesKept ==
    LET rows == RowsOf(item.app)
        gone == Dropped(rows, RowsOf(LatestApprovedBut(item.app)))
    IN  /\ \A h \in DOMAIN rows : {rows[h], Public(h)} \cap objects # {}
        /\ \A h \in gone : {Public(h), Audit(h)} \cap objects # {}

\* A placeholder that awaits its pictures becomes visible, unless a source of
\* its publication is gone: faults delay the recovery and do not end it.
RecoveredUnlessLost == <>[]Candidate => <>[]~SourcesKept

\* Once no publication is stuck, everything nothing names (partial copies,
\* staging objects of failed saves, sources a stop left behind) goes away.
StoreIsCleaned == <>[]~Candidate => <>[](objects \subseteq Referenced)

\* What a shared object's deletion must check: a picture of the approved
\* revision of an active moment is in the store, at its row's key or public.
ApprovedPicturesKept ==
    item.lifecycle = "active" =>
        LET rows == RowsOf(item.app)
        IN  \A h \in DOMAIN rows : {rows[h], Public(h)} \cap objects # {}
=============================================================================
