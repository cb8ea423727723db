------------------------- MODULE MomentImagesProofs -------------------------
(* The safety of the publication of a moment's pictures, for every set of   *)
(* pictures, requests and recovery workers and any number of saves, commits *)
(* and faults: the inductive invariant ImageInv, one lemma for each step    *)
(* that keeps it, and the properties that follow from it.                   *)
EXTENDS MomentImages, SequenceTheorems, WellFoundedInduction, TLAPS

(***************************************************************************)
(* What a revision row is, with the positions of revisions as numbers.     *)
(***************************************************************************)
RevisionRow ==
    [status: {"pending", "approved", "rejected", "superseded", "removed"}, rows: ImageRows]

ProcRecords ==
    [pc: {"idle", "prepared", "loaded", "committed", "copying", "cleaning", "failed", "rollback"},
     kind: {"none", "save", "review", "recovery"},
     item: ItemRecords(Nat), lock: Nat, rev: Nat, current: ImageRows, previous: ImageRows,
     uploaded: SUBSET StagedKeys, todo: SUBSET Keys, made: SUBSET Keys]

ImageTypes ==
    /\ item \in ItemRecords(Nat) /\ lockVersion \in Nat
    /\ revisions \in Seq(RevisionRow)
    /\ uploads \in 0 .. MaxRevisions
    /\ proc \in [Procs -> ProcRecords]

\* The staging objects that saves have used, and those a set of keys names.
UsedKeys == {Staged(b, h) : b \in 1 .. uploads, h \in Pictures}
StagedIn(keys) == keys \cap StagedKeys
NamedBy(r) == StagedIn(KeysOf(revisions[r].rows))
Holds(p) == proc[p].uploaded \cup StagedIn(KeysOf(proc[p].current))

\* A row outside the matrix is one a failed publication has taken back: it is inside again
\* as soon as it is visible.
ItemHolds ==
    \/ ValidItem(item)
    \/ Candidate /\ ValidItem([item EXCEPT !.public = "visible"])

PointersHold ==
    /\ item.mat \in Revs \cup {NoRev}
    /\ item.pend # NoRev => item.pend \in Revs /\ revisions[item.pend].status = "pending"
    /\ item.app # NoRev => item.app \in Revs /\ revisions[item.app].status = "approved"

\* A staging object belongs to one save, and so to one revision.
KeysHold ==
    /\ StagedIn(objects) \subseteq UsedKeys /\ StagedIn(doomed) \subseteq UsedKeys
    /\ \A r \in Revs : /\ NamedBy(r) \subseteq UsedKeys /\ NamedBy(r) \cap doomed = {}
                       /\ revisions[r].status = "pending" => NamedBy(r) \subseteq objects
    /\ \A r, s \in Revs : r # s => NamedBy(r) \cap NamedBy(s) = {}

\* A save that has not committed: what it has put is its own.
Uncommitted(p) == proc[p].kind = "save" /\ proc[p].pc \in {"prepared", "loaded"}

UploadsHold(p) ==
    /\ proc[p].pc = "idle" => Holds(p) = {}
    /\ proc[p].pc = "prepared" => proc[p].kind = "save"
    /\ Holds(p) \subseteq UsedKeys
    /\ \A r \in Revs : revisions[r].status = "pending" => proc[p].uploaded \cap NamedBy(r) = {}
    /\ Uncommitted(p) =>
         /\ StagedIn(KeysOf(proc[p].current)) \subseteq proc[p].uploaded
         /\ proc[p].uploaded \subseteq objects /\ proc[p].uploaded \cap doomed = {}
         /\ \A r \in Revs : proc[p].uploaded \cap NamedBy(r) = {}
         /\ \A q \in Procs \ {p} : proc[p].uploaded \cap Holds(q) = {}

\* What was read of the item is what it is, but for its public state, while no commit came.
ReadHolds(p) ==
    /\ proc[p].item.mat \in Revs \cup {NoRev}
    /\ proc[p].pc = "loaded" =>
         /\ proc[p].lock <= lockVersion
         /\ proc[p].lock = lockVersion =>
              /\ proc[p].item.app = item.app /\ proc[p].item.pend = item.pend

RowsRead(p) == proc[p].rev \in Revs /\ DOMAIN proc[p].current = DOMAIN revisions[proc[p].rev].rows

ReviewHolds(p) ==
    proc[p].pc = "loaded" /\ proc[p].kind = "review" =>
        /\ RowsRead(p)
        /\ \A r \in Revs \ {proc[p].rev} : KeysOf(proc[p].current) \cap NamedBy(r) = {}

PublishHolds(p) ==
    /\ proc[p].made \cap StagedKeys = {}
    /\ proc[p].pc \in {"committed", "copying", "failed"} => item.app # NoRev
    /\ proc[p].pc \in {"committed", "copying"} =>
         proc[p].rev \in Revs /\ revisions[proc[p].rev].status = "approved"
    /\ proc[p].pc = "copying" =>
         /\ RowsRead(p)
         /\ proc[p].todo \cap PublicKeys \subseteq {Public(h) : h \in DOMAIN proc[p].current}
         /\ proc[p].todo \cap StagedKeys = {}
    /\ proc[p].pc \in {"copying", "cleaning"} =>
         \A r \in Revs : revisions[r].status = "pending" => KeysOf(proc[p].current) \cap NamedBy(r) = {}

ProcHolds(p) == UploadsHold(p) /\ ReadHolds(p) /\ ReviewHolds(p) /\ PublishHolds(p)

ImageInv ==
    /\ ImageTypes /\ ItemHolds /\ PointersHold /\ KeysHold
    /\ \A p \in Procs : ProcHolds(p)

-----------------------------------------------------------------------------
(* Keys, image rows, revisions and the records of processes.               *)

LEMMA KeyKinds ==
    /\ StagedKeys \cap PublicKeys = {} /\ StagedKeys \cap AuditKeys = {}
    /\ \A h \in Pictures : Public(h) \notin AuditKeys
    /\ \A h, g \in Pictures : Public(h) = Public(g) => h = g
    /\ \A h \in Pictures : /\ Public(h) \in Keys /\ Audit(h) \in Keys
                           /\ Public(h) \in PublicKeys /\ Audit(h) \in AuditKeys
    /\ StagedKeys \subseteq Keys /\ PublicKeys \subseteq Keys /\ AuditKeys \subseteq Keys
  <1>1. StagedKeys \cap PublicKeys = {}
    BY DEF StagedKeys, PublicKeys, Staged, Public
  <1>2. StagedKeys \cap AuditKeys = {}
    BY DEF StagedKeys, AuditKeys, Staged, Audit
  <1>3. \A h \in Pictures : Public(h) \notin AuditKeys
    BY DEF AuditKeys, Public, Audit
  <1>4. \A h, g \in Pictures : Public(h) = Public(g) => h = g
    BY DEF Public
  <1> QED
    BY <1>1, <1>2, <1>3, <1>4 DEF PublicKeys, AuditKeys, Keys

LEMMA RowsAre ==
    ASSUME NEW D \in SUBSET Pictures, NEW f \in [D -> Keys]
    PROVE  f \in ImageRows /\ DOMAIN f = D
  BY DEF ImageRows

LEMMA RowsHave ==
    ASSUME NEW f \in ImageRows
    PROVE  /\ DOMAIN f \subseteq Pictures /\ f = [h \in DOMAIN f |-> f[h]]
           /\ \A h \in DOMAIN f : f[h] \in Keys
           /\ KeysOf(f) \subseteq Keys
  BY DEF ImageRows, KeysOf

LEMMA NoRowsAre == NoRows \in ImageRows /\ DOMAIN NoRows = {} /\ KeysOf(NoRows) = {}
  <1>1. NoRows \in [{} -> Keys] /\ DOMAIN NoRows = {}
    BY DEF NoRows
  <1>2. {} \in SUBSET Pictures
    OBVIOUS
  <1>3. NoRows \in ImageRows
    BY <1>1, <1>2, RowsAre
  <1>4. KeysOf(NoRows) = {}
    BY <1>1 DEF KeysOf
  <1> QED
    BY <1>1, <1>3, <1>4

LEMMA RevisionsAre ==
    ImageTypes => /\ Len(revisions) \in Nat /\ Revs = 1 .. Len(revisions) /\ Revs \subseteq Nat
                  /\ NoRev \notin Revs
                  /\ \A r \in Revs : /\ revisions[r] \in RevisionRow
                                     /\ revisions[r].rows \in ImageRows
  <1> SUFFICES ASSUME ImageTypes
               PROVE  /\ Len(revisions) \in Nat /\ Revs = 1 .. Len(revisions) /\ Revs \subseteq Nat
                      /\ NoRev \notin Revs
                      /\ \A r \in Revs : /\ revisions[r] \in RevisionRow
                                         /\ revisions[r].rows \in ImageRows
    OBVIOUS
  <1>1. revisions \in Seq(RevisionRow)
    BY DEF ImageTypes
  <1>2. Len(revisions) \in Nat
    BY <1>1, LenProperties
  <1>3. Revs = 1 .. Len(revisions) /\ Revs \subseteq Nat /\ NoRev \notin Revs
    BY <1>2 DEF Revs, NoRev
  <1>4. \A r \in Revs : revisions[r] \in RevisionRow
    BY <1>1, <1>3, ElementOfSeq
  <1> QED
    BY <1>2, <1>3, <1>4 DEF RevisionRow

\* A set of revisions has a last one: Revs is finite.
LEMMA GreatestIsThere ==
    ASSUME NEW n \in Nat, NEW S \in SUBSET (1 .. n), S # {}
    PROVE  \E x \in S : \A y \in S : y <= x
  <1> DEFINE R == OpToRel(<, Nat)
             Back == {n - x : x \in S}
  <1>1. IsWellFoundedOn(R, Nat)
    BY NatLessThanWellFounded DEF R
  <1> HIDE DEF R
  <1>2. Back \in SUBSET Nat /\ Back # {}
    <2>1. \A x \in S : n - x \in Nat
      OBVIOUS
    <2>2. PICK x \in S : TRUE
      OBVIOUS
    <2>3. n - x \in Back
      OBVIOUS
    <2> QED
      BY <2>1, <2>3
  <1>3. PICK v \in Back : \A w \in Back : ~(<<w, v>> \in R)
    BY <1>1, <1>2, WFMin
  <1>4. PICK x \in S : v = n - x
    OBVIOUS
  <1>5. ASSUME NEW y \in S PROVE y <= x
    <2>1. n - y \in Back /\ n - y \in Nat /\ v \in Nat
      BY <1>2
    <2>2. ~(n - y < v)
      BY <1>3, <2>1 DEF R, OpToRel
    <2> QED
      BY <1>4, <2>1, <2>2
  <1> QED
    BY <1>5

LEMMA RowsOfAre ==
    ASSUME ImageTypes, NEW r \in Revs \cup {NoRev}
    PROVE  RowsOf(r) \in ImageRows /\ (r \in Revs => RowsOf(r) = revisions[r].rows)
  BY RevisionsAre, NoRowsAre DEF RowsOf

LEMMA EmptyItemIs == EmptyItem \in ItemRecords(Nat) /\ ValidItem(EmptyItem)
  BY DEF EmptyItem, ItemRecords, ValidItem, Lifecycles, PublicStates, BeforeStates, NoRev

LEMMA IdleIs ==
    /\ Idle \in ProcRecords /\ Idle.pc = "idle" /\ Idle.kind = "none" /\ Idle.item = EmptyItem
    /\ Idle.lock = 0 /\ Idle.rev = NoRev /\ Idle.current = NoRows /\ Idle.previous = NoRows
    /\ Idle.uploaded = {} /\ Idle.todo = {} /\ Idle.made = {} /\ Idle.item.mat = NoRev
  <1>1. EmptyItem.mat = NoRev
    BY DEF EmptyItem
  <1> QED
    BY <1>1, EmptyItemIs, NoRowsAre DEF Idle, ProcRecords, NoRev

LEMMA Becomes ==
    ASSUME ImageTypes, NEW p \in Procs, NEW state \in ProcRecords, Become(p, state)
    PROVE  /\ proc' \in [Procs -> ProcRecords] /\ proc'[p] = state
           /\ \A q \in Procs \ {p} : proc'[q] = proc[q]
  BY DEF ImageTypes, Become

LEMMA UsedGrows ==
    ASSUME ImageTypes, uploads' \in Nat, uploads <= uploads' PROVE UsedKeys \subseteq UsedKeys'
  BY DEF ImageTypes, UsedKeys

LEMMA UsedAreStaged == ImageTypes => UsedKeys \subseteq StagedKeys
  <1> SUFFICES ASSUME ImageTypes PROVE UsedKeys \subseteq StagedKeys
    OBVIOUS
  <1>1. MaxRevisions \in Nat /\ uploads \in 0 .. MaxRevisions
    BY ImageConstants DEF ImageTypes
  <1>2. \A b \in 1 .. uploads : b \in 1 .. MaxRevisions
    BY <1>1
  <1> QED
    BY <1>2 DEF UsedKeys, StagedKeys

-----------------------------------------------------------------------------
(* What the steps of others may do while a process does not move.          *)

RevisionsKept ==
    /\ Revs \subseteq Revs'
    /\ \A r \in Revs :
         /\ revisions[r].status = "approved" => revisions'[r].status = "approved"
         /\ revisions'[r].status = "pending" => revisions[r].status = "pending"
         /\ DOMAIN revisions'[r].rows = DOMAIN revisions[r].rows
         /\ NamedBy(r)' \subseteq NamedBy(r)

ItemKept ==
    /\ \/ lockVersion' = lockVersion /\ item'.app = item.app /\ item'.pend = item.pend
       \/ lockVersion' > lockVersion
    /\ item.app # NoRev => item'.app # NoRev

OwnKept(q) ==
    /\ \A r \in Revs' \ Revs : NamedBy(r)' \cap Holds(q) = {}
    /\ Uncommitted(q) =>
         /\ proc[q].uploaded \subseteq objects' /\ proc[q].uploaded \cap doomed' = {}
         /\ \A s \in Procs \ {q} : proc[q].uploaded \cap Holds(s)' = {}

LEMMA OtherHolds ==
    ASSUME NEW q \in Procs, ImageTypes, ProcHolds(q), proc'[q] = proc[q], lockVersion' \in Nat,
           UsedKeys \subseteq UsedKeys', RevisionsKept, ItemKept, OwnKept(q)
    PROVE  ProcHolds(q)'
  <1>0. /\ proc[q].uploaded \subseteq Holds(q)
        /\ StagedIn(KeysOf(proc[q].current)) \subseteq Holds(q)
        /\ Holds(q)' = Holds(q) /\ Uncommitted(q)' = Uncommitted(q)
        /\ proc[q].lock \in Nat /\ lockVersion \in Nat
    BY DEF Holds, Uncommitted, ImageTypes, ProcRecords, KeysOf, StagedIn
  <1>1. \A r \in Revs' : NamedBy(r)' \subseteq StagedKeys
    BY DEF NamedBy, StagedIn
  <1>2. \A r \in Revs' : r \in Revs \/ NamedBy(r)' \cap KeysOf(proc[q].current) = {}
    BY <1>0, <1>1 DEF OwnKept, StagedIn
  <1>3. UploadsHold(q)'
    <2>1. \A r \in Revs' : revisions'[r].status = "pending" => proc[q].uploaded \cap NamedBy(r)' = {}
      BY <1>0 DEF ProcHolds, UploadsHold, RevisionsKept, OwnKept
    <2>2. Uncommitted(q) => \A r \in Revs' : proc[q].uploaded \cap NamedBy(r)' = {}
      BY <1>0 DEF ProcHolds, UploadsHold, RevisionsKept, OwnKept
    <2> QED
      BY <1>0, <2>1, <2>2 DEF ProcHolds, UploadsHold, OwnKept
  <1>4. ReadHolds(q)'
    BY <1>0 DEF ProcHolds, ReadHolds, RevisionsKept, ItemKept
  <1>5. RowsRead(q) => RowsRead(q)'
    BY DEF RowsRead, RevisionsKept
  <1>6. ReviewHolds(q)'
    BY <1>2, <1>5 DEF ProcHolds, ReviewHolds, RevisionsKept
  <1>7. PublishHolds(q)'
    <2>1. \A r \in Revs' : proc[q].pc \in {"copying", "cleaning"} /\ revisions'[r].status = "pending"
             => KeysOf(proc[q].current) \cap NamedBy(r)' = {}
      BY <1>2 DEF ProcHolds, PublishHolds, RevisionsKept
    <2> QED
      BY <1>5, <2>1 DEF ProcHolds, PublishHolds, RevisionsKept, ItemKept
  <1> QED
    BY <1>3, <1>4, <1>6, <1>7 DEF ProcHolds

LEMMA IdleHolds ==
    ASSUME NEW p \in Procs, proc'[p] = Idle PROVE ProcHolds(p)'
  <1>1. /\ proc'[p].pc = "idle" /\ proc'[p].kind = "none" /\ proc'[p].item.mat = NoRev
        /\ proc'[p].uploaded = {} /\ proc'[p].made = {} /\ KeysOf(proc'[p].current) = {}
    BY IdleIs, NoRowsAre
  <1>2. Holds(p)' = {}
    BY <1>1 DEF Holds, StagedIn
  <1> QED
    BY <1>1, <1>2 DEF ProcHolds, UploadsHold, ReadHolds, ReviewHolds, PublishHolds, Uncommitted

-----------------------------------------------------------------------------
(* Steps that leave the database alone: requests and workers at the store. *)

LEMMA StoreStep ==
    ASSUME ImageInv, NEW p \in Procs, NEW state \in ProcRecords, Become(p, state), DatabaseKept,
           uploads' \in 0 .. MaxRevisions, uploads <= uploads', doomed' = doomed,
           StagedIn(objects') \subseteq UsedKeys',
           \A r \in Revs : revisions[r].status = "pending" =>
              NamedBy(r) \cap (objects \ objects') = {},
           \A q \in Procs \ {p} : Uncommitted(q) =>
              /\ proc[q].uploaded \cap (objects \ objects') = {}
              /\ proc[q].uploaded \cap Holds(p)' = {},
           ProcHolds(p)'
    PROVE  ImageInv'
  <1>1. /\ ImageTypes /\ ItemHolds /\ PointersHold /\ KeysHold
        /\ \A q \in Procs : ProcHolds(q)
    BY DEF ImageInv
  <1>2. /\ item' = item /\ lockVersion' = lockVersion /\ revisions' = revisions
        /\ Revs' = Revs /\ \A r \in Revs : NamedBy(r)' = NamedBy(r)
    BY DEF DatabaseKept, Revs, NamedBy, KeysOf, StagedIn
  <1>3. proc' \in [Procs -> ProcRecords] /\ \A q \in Procs \ {p} : proc'[q] = proc[q]
    BY <1>1, Becomes
  <1>4. ImageTypes'
    BY <1>1, <1>2, <1>3 DEF ImageTypes, StagedKeys
  <1>5. UsedKeys \subseteq UsedKeys'
    BY <1>1, UsedGrows
  <1>6. RevisionsKept /\ ItemKept
    BY <1>2 DEF RevisionsKept, ItemKept
  <1>7. ASSUME NEW q \in Procs \ {p} PROVE ProcHolds(q)'
    <2>1. /\ ProcHolds(q) /\ proc'[q] = proc[q] /\ lockVersion' \in Nat
      BY <1>1, <1>2, <1>3 DEF ImageTypes
    <2>2. \A s \in Procs \ {q} : s = p \/ Holds(s)' = Holds(s)
      BY <1>3 DEF Holds, StagedIn, KeysOf
    <2>3. Uncommitted(q) =>
            /\ proc[q].uploaded \subseteq objects /\ proc[q].uploaded \cap doomed = {}
            /\ \A s \in Procs \ {q} : proc[q].uploaded \cap Holds(s) = {}
      BY <2>1 DEF ProcHolds, UploadsHold
    <2>4. OwnKept(q)
      BY <1>2, <2>2, <2>3 DEF OwnKept
    <2> QED
      BY <1>1, <1>5, <1>6, <2>1, <2>4, OtherHolds
  <1>8. ItemHolds'
    BY <1>1, <1>2 DEF ItemHolds, Candidate
  <1>9. PointersHold'
    BY <1>1, <1>2 DEF PointersHold
  <1>10. KeysHold'
    <2>1. StagedIn(doomed') \subseteq UsedKeys'
      BY <1>1, <1>5 DEF KeysHold
    <2>2. \A r \in Revs : /\ NamedBy(r) \subseteq UsedKeys' /\ NamedBy(r) \cap doomed' = {}
                          /\ revisions[r].status = "pending" => NamedBy(r) \subseteq objects'
      BY <1>1, <1>5 DEF KeysHold
    <2> QED
      BY <1>1, <1>2, <2>1, <2>2 DEF KeysHold
  <1> QED
    BY <1>4, <1>7, <1>8, <1>9, <1>10 DEF ImageInv

\* ... that free no staging object, and name none they did not name before.
LEMMA LightStep ==
    ASSUME ImageInv, NEW p \in Procs, NEW state \in ProcRecords, Become(p, state), DatabaseKept,
           uploads' = uploads, doomed' = doomed,
           StagedIn(objects \ objects') = {}, StagedIn(objects') \subseteq UsedKeys,
           state.uploaded \subseteq proc[p].uploaded, state.current = proc[p].current,
           ProcHolds(p)'
    PROVE  ImageInv'
  <1>1. ImageTypes /\ KeysHold /\ \A q \in Procs : ProcHolds(q)
    BY DEF ImageInv
  <1>2. /\ uploads' \in 0 .. MaxRevisions /\ uploads <= uploads' /\ UsedKeys' = UsedKeys
    BY <1>1 DEF ImageTypes, UsedKeys
  <1>3. \A r \in Revs : NamedBy(r) \cap (objects \ objects') = {}
    BY DEF NamedBy, StagedIn
  <1>4. Holds(p)' \subseteq Holds(p)
    BY <1>1, Becomes DEF Holds
  <1>5. \A q \in Procs : proc[q].uploaded \subseteq StagedKeys
    BY <1>1 DEF ImageTypes, ProcRecords
  <1>6. \A q \in Procs \ {p} : Uncommitted(q) =>
              /\ proc[q].uploaded \cap (objects \ objects') = {}
              /\ proc[q].uploaded \cap Holds(p)' = {}
    BY <1>1, <1>4, <1>5 DEF ProcHolds, UploadsHold, StagedIn
  <1> QED
    BY <1>2, <1>3, <1>6, StoreStep

\* A process that stops working, whatever it leaves behind.
LEMMA RestStep ==
    ASSUME ImageInv, NEW p \in Procs, Become(p, Idle), DatabaseKept,
           uploads' = uploads, doomed' = doomed, objects' \subseteq objects,
           \A r \in Revs : revisions[r].status = "pending" =>
              NamedBy(r) \cap (objects \ objects') = {},
           \A q \in Procs \ {p} : Uncommitted(q) =>
              proc[q].uploaded \cap (objects \ objects') = {}
    PROVE  ImageInv'
  <1>1. ImageTypes /\ KeysHold
    BY DEF ImageInv
  <1>2. /\ uploads' \in 0 .. MaxRevisions /\ uploads <= uploads' /\ UsedKeys' = UsedKeys
    BY <1>1 DEF ImageTypes, UsedKeys
  <1>3. Idle \in ProcRecords /\ proc'[p] = Idle
    BY <1>1, IdleIs, Becomes
  <1>4. ProcHolds(p)'
    BY <1>3, IdleHolds
  <1>5. Holds(p)' = {}
    BY <1>3, IdleIs, NoRowsAre DEF Holds, StagedIn
  <1>6. StagedIn(objects') \subseteq UsedKeys'
    BY <1>1, <1>2 DEF KeysHold, StagedIn
  <1> QED
    BY <1>2, <1>3, <1>4, <1>5, <1>6, StoreStep

LEMMA UploadsStay ==
    ASSUME ImageInv, NEW p \in Procs, NEW state \in ProcRecords, Become(p, state), DatabaseKept,
           UNCHANGED <<uploads, doomed>>,
           state.uploaded = proc[p].uploaded, state.current = proc[p].current,
           state.kind = proc[p].kind, state.pc \notin {"idle", "prepared"},
           state.pc = "loaded" => proc[p].pc = "prepared" /\ objects' = objects
    PROVE  UploadsHold(p)'
  <1>1. /\ ImageTypes /\ UploadsHold(p) /\ proc'[p] = state
        /\ \A q \in Procs \ {p} : proc'[q] = proc[q]
    BY Becomes DEF ImageInv, ProcHolds
  <1>2. /\ Revs' = Revs /\ revisions' = revisions /\ UsedKeys' = UsedKeys
        /\ \A r \in Revs : NamedBy(r)' = NamedBy(r)
        /\ Holds(p)' = Holds(p) /\ \A q \in Procs \ {p} : Holds(q)' = Holds(q)
    BY <1>1 DEF DatabaseKept, Revs, NamedBy, StagedIn, KeysOf, Holds, UsedKeys
  <1>3. Uncommitted(p)' => Uncommitted(p) /\ objects' = objects
    BY <1>1 DEF Uncommitted
  <1> QED
    BY <1>1, <1>2, <1>3 DEF UploadsHold

LEMMA LoadItemStep == ASSUME ImageInv, NEW p \in Requests, LoadItem(p) PROVE ImageInv'
  <1> DEFINE state == [[[proc[p] EXCEPT !.pc = "loaded"] EXCEPT !.item = item] EXCEPT !.lock = lockVersion]
  <1>1. /\ p \in Procs /\ proc[p].pc = "prepared" /\ WorldKept
        /\ ImageTypes /\ KeysHold /\ PointersHold /\ UploadsHold(p) /\ PublishHolds(p)
    BY DEF Procs, LoadItem, At, ImageInv, ProcHolds
  <1>2. proc[p] \in ProcRecords /\ item \in ItemRecords(Nat) /\ lockVersion \in Nat
    BY <1>1 DEF ImageTypes
  <1>3. Become(p, state)
    BY <1>2 DEF LoadItem, ProcRecords
  <1>4. /\ state \in ProcRecords /\ state.pc = "loaded" /\ state.kind = proc[p].kind
        /\ state.item = item /\ state.lock = lockVersion /\ state.made = proc[p].made
        /\ state.uploaded = proc[p].uploaded /\ state.current = proc[p].current
    BY <1>2 DEF ProcRecords
  <1> HIDE DEF state
  <1>5. UNCHANGED <<item, lockVersion, revisions, objects, uploads, doomed>> /\ DatabaseKept
    BY <1>1 DEF WorldKept, DatabaseKept
  <1>6. UploadsHold(p)'
    BY <1>1, <1>3, <1>4, <1>5, UploadsStay
  <1>7. proc'[p] = state /\ proc[p].kind = "save" /\ Revs' = Revs
    BY <1>1, <1>3, <1>4, <1>5, Becomes DEF UploadsHold, Revs
  <1>8. ReadHolds(p)' /\ ReviewHolds(p)' /\ PublishHolds(p)'
    BY <1>1, <1>2, <1>4, <1>5, <1>7 DEF ReadHolds, ReviewHolds, PublishHolds, PointersHold
  <1> QED
    BY <1>1, <1>3, <1>4, <1>5, <1>6, <1>8, LightStep DEF ProcHolds, KeysHold, StagedIn

LEMMA RollbackStep == ASSUME ImageInv, NEW p \in Requests, Rollback(p) PROVE ImageInv'
  <1>1. /\ p \in Procs /\ objects' = objects \ proc[p].uploaded /\ Become(p, Idle)
        /\ DatabaseKept /\ UNCHANGED <<uploads, doomed>>
        /\ ImageTypes /\ \A q \in Procs : UploadsHold(q)
    BY DEF Procs, Rollback, ImageInv, ProcHolds
  <1>2. \A r \in Revs : revisions[r].status = "pending" => NamedBy(r) \cap (objects \ objects') = {}
    BY <1>1 DEF UploadsHold
  <1>3. \A q \in Procs \ {p} : Uncommitted(q) => proc[q].uploaded \cap (objects \ objects') = {}
    BY <1>1 DEF UploadsHold, Holds
  <1> QED
    BY <1>1, <1>2, <1>3, RestStep

\* Handlers that end, and stops.
LEMMA EndStep ==
    ASSUME ImageInv, NEW p \in Procs, Become(p, Idle), DatabaseKept,
           UNCHANGED <<objects, uploads, doomed>>
    PROVE  ImageInv'
  <1>1. objects' \subseteq objects /\ objects \ objects' = {}
    OBVIOUS
  <1> QED
    BY <1>1, RestStep

LEMMA CleanStep == ASSUME ImageInv, NEW p \in Procs, Clean(p) PROVE ImageInv'
  <1> DEFINE gone == (KeysOf(proc[p].current) \cap StagedKeys)
                     \cup {Public(h) : h \in Dropped(proc[p].current, proc[p].previous)}
  <1>1. /\ proc[p].pc = "cleaning" /\ objects' = objects \ gone /\ Become(p, Idle)
        /\ DatabaseKept /\ UNCHANGED <<uploads, doomed>>
        /\ ImageTypes /\ (\A q \in Procs : UploadsHold(q)) /\ PublishHolds(p)
    BY DEF Clean, At, ImageInv, ProcHolds
  <1>2. /\ proc[p].current \in ImageRows /\ proc[p].previous \in ImageRows
        /\ \A q \in Procs : proc[q].uploaded \subseteq StagedKeys
    BY <1>1 DEF ImageTypes, ProcRecords
  <1>3. Dropped(proc[p].current, proc[p].previous) \subseteq Pictures
    BY <1>2, RowsHave DEF Dropped
  <1>4. gone \cap StagedKeys = StagedIn(KeysOf(proc[p].current))
    BY <1>3, KeyKinds DEF StagedIn
  <1> HIDE DEF gone
  <1>5. \A r \in Revs : revisions[r].status = "pending" => NamedBy(r) \cap (objects \ objects') = {}
    BY <1>1, <1>4 DEF PublishHolds, NamedBy, StagedIn
  <1>6. \A q \in Procs \ {p} : Uncommitted(q) => proc[q].uploaded \cap (objects \ objects') = {}
    BY <1>1, <1>2, <1>4 DEF UploadsHold, Holds, StagedIn
  <1> QED
    BY <1>1, <1>5, <1>6, RestStep

LEMMA PrepareStep == ASSUME ImageInv, NEW p \in Requests, Prepare(p) PROVE ImageInv'
  <1>1. /\ p \in Procs /\ ImageTypes /\ KeysHold /\ \A q \in Procs : UploadsHold(q)
        /\ uploads < MaxRevisions /\ uploads' = uploads + 1 /\ DatabaseKept /\ doomed' = doomed
    BY DEF Procs, Prepare, ImageInv, ProcHolds
  <1> DEFINE b == uploads + 1
             Put(new) == {Staged(b, h) : h \in new}
             Rows(new, kept) == [h \in new \cup kept |-> IF h \in new THEN Staged(b, h) ELSE Public(h)]
             State(new, kept) == [Idle EXCEPT !.pc = "prepared", !.kind = "save",
                                    !.uploaded = Put(new), !.current = Rows(new, kept)]
  <1>2. PICK new \in SUBSET Pictures, kept \in SUBSET {h \in Pictures : Public(h) \in objects} :
          /\ new \cap kept = {}
          /\ objects' = objects \cup Put(new)
          /\ Become(p, State(new, kept))
    BY DEF Prepare
  <1> DEFINE put == Put(new)
             rows == Rows(new, kept)
             state == State(new, kept)
  <1>3. b \in 1 .. MaxRevisions /\ uploads \in Nat /\ MaxRevisions \in Nat
    BY <1>1, ImageConstants DEF ImageTypes
  <1>4. put \subseteq StagedKeys /\ put \cap UsedKeys = {} /\ put \subseteq UsedKeys'
    <2>1. put \subseteq StagedKeys
      BY <1>3 DEF StagedKeys
    <2>2. \A c \in 1 .. uploads : c # b
      BY <1>3
    <2>3. put \cap UsedKeys = {}
      BY <2>2 DEF UsedKeys, Staged
    <2>4. b \in 1 .. uploads'
      BY <1>1, <1>3
    <2> QED
      BY <2>1, <2>3, <2>4 DEF UsedKeys
  <1>5. /\ rows \in ImageRows /\ StagedIn(KeysOf(rows)) \subseteq put
    <2>1. new \cup kept \in SUBSET Pictures
      OBVIOUS
    <2>2. \A h \in new : Staged(b, h) \in put
      OBVIOUS
    <2>3. rows \in [new \cup kept -> Keys]
      BY <1>4, <2>1, <2>2, KeyKinds
    <2>4. rows \in ImageRows
      BY <2>1, <2>3, RowsAre
    <2>5. \A h \in new \cup kept : rows[h] \in put \/ rows[h] \notin StagedKeys
      BY <2>1, <2>2, KeyKinds
    <2> HIDE DEF rows
    <2> QED
      BY <2>3, <2>4, <2>5 DEF KeysOf, StagedIn
  <1> HIDE DEF put, rows
  <1>6. /\ state \in ProcRecords /\ state.pc = "prepared" /\ state.kind = "save"
        /\ state.uploaded = put /\ state.current = rows /\ state.item.mat = NoRev
        /\ state.made = {}
    <2>1. state = [[[[Idle EXCEPT !.pc = "prepared"] EXCEPT !.kind = "save"]
                     EXCEPT !.uploaded = put] EXCEPT !.current = rows]
      BY DEF put, rows
    <2> HIDE DEF state
    <2> QED
      BY <1>4, <1>5, <2>1, IdleIs DEF ProcRecords
  <1>7. Become(p, state) /\ objects' = objects \cup put
    BY <1>2 DEF put
  <1> HIDE DEF state, Put, Rows, State
  <1>8. /\ proc'[p] = state /\ \A q \in Procs \ {p} : proc'[q] = proc[q]
    BY <1>1, <1>6, <1>7, Becomes
  <1>9. /\ revisions' = revisions /\ Revs' = Revs /\ UsedKeys \subseteq UsedKeys'
        /\ \A r \in Revs : NamedBy(r)' = NamedBy(r) /\ NamedBy(r) \subseteq UsedKeys
        /\ \A q \in Procs \ {p} : Holds(q)' = Holds(q) /\ Holds(q) \subseteq UsedKeys
        /\ Holds(p)' = put
    <2>1. revisions' = revisions /\ Revs' = Revs /\ \A r \in Revs : NamedBy(r)' = NamedBy(r)
      BY <1>1 DEF DatabaseKept, Revs, NamedBy, StagedIn, KeysOf
    <2>2. UsedKeys \subseteq UsedKeys'
      BY <1>1, <1>3, UsedGrows
    <2>3. \A q \in Procs \ {p} : Holds(q)' = Holds(q)
      BY <1>8 DEF Holds, StagedIn, KeysOf
    <2>4. Holds(p)' = put
      BY <1>5, <1>6, <1>8 DEF Holds
    <2> QED
      BY <1>1, <2>1, <2>2, <2>3, <2>4 DEF KeysHold, UploadsHold
  <1>10. put \cap doomed = {}
    BY <1>1, <1>4 DEF KeysHold, StagedIn
  <1>11. UploadsHold(p)'
    BY <1>1, <1>4, <1>5, <1>6, <1>7, <1>8, <1>9, <1>10 DEF UploadsHold, Uncommitted
  <1>12. ReadHolds(p)' /\ ReviewHolds(p)' /\ PublishHolds(p)'
    BY <1>6, <1>8 DEF ReadHolds, ReviewHolds, PublishHolds
  <1>13. StagedIn(objects') \subseteq UsedKeys' /\ objects \ objects' = {}
    BY <1>1, <1>4, <1>7, <1>9 DEF KeysHold, StagedIn
  <1>14. \A q \in Procs \ {p} : Uncommitted(q) => proc[q].uploaded \cap Holds(p)' = {}
    BY <1>4, <1>9 DEF Holds
  <1>15. uploads' \in 0 .. MaxRevisions /\ uploads <= uploads'
    BY <1>1, <1>3
  <1> QED
    BY <1>1, <1>6, <1>7, <1>11, <1>12, <1>13, <1>14, <1>15, StoreStep DEF ProcHolds

LEMMA Targeted ==
    ASSUME NEW current \in ImageRows, NEW previous \in ImageRows
    PROVE  /\ Targets(current, previous) \subseteq Keys
           /\ Targets(current, previous) \cap StagedKeys = {}
           /\ Targets(current, previous) \cap PublicKeys \subseteq {Public(h) : h \in DOMAIN current}
  <1>1. DOMAIN current \subseteq Pictures /\ Dropped(current, previous) \subseteq Pictures
    BY RowsHave DEF Dropped
  <1>2. \A key \in Targets(current, previous) :
          \/ \E h \in DOMAIN current : key = Public(h)
          \/ \E h \in Dropped(current, previous) : key = Audit(h)
    BY DEF Targets
  <1>3. \A h \in Pictures : /\ Public(h) \in Keys \ StagedKeys
                            /\ Audit(h) \in Keys \ StagedKeys /\ Audit(h) \notin PublicKeys
    <2>1. \A h \in Pictures : Audit(h) \notin PublicKeys
      BY DEF Audit, PublicKeys, Public
    <2> QED
      BY <2>1, KeyKinds
  <1> QED
    BY <1>1, <1>2, <1>3

\* What one revision names is apart from what the others do.
LEMMA RowsApart ==
    ASSUME ImageInv, NEW r \in Revs, NEW rows, rows = revisions[r].rows
    PROVE  /\ StagedIn(KeysOf(rows)) = NamedBy(r) /\ NamedBy(r) \subseteq UsedKeys
           /\ \A s \in Revs \ {r} : KeysOf(rows) \cap NamedBy(s) = {}
           /\ \A q \in Procs : Uncommitted(q) => proc[q].uploaded \cap NamedBy(r) = {}
  BY DEF ImageInv, KeysHold, ProcHolds, UploadsHold, NamedBy, StagedIn

\* A publication begins: with the rows of an approved revision.
LEMMA BeginsCopying ==
    ASSUME ImageInv, NEW p \in Procs, NEW state \in ProcRecords, Become(p, state),
           WorldKept, NEW r \in Revs, revisions[r].status = "approved", item.app # NoRev,
           state.pc = "copying", state.rev = r, state.current = revisions[r].rows,
           state.previous \in ImageRows,
           state.todo = Targets(state.current, state.previous),
           state.uploaded = proc[p].uploaded \/ state.uploaded = {},
           state.item.mat \in Revs \cup {NoRev}, state.made \cap StagedKeys = {}
    PROVE  ImageInv'
  <1>1. /\ ImageTypes /\ KeysHold /\ (\A q \in Procs : ProcHolds(q))
        /\ DatabaseKept /\ UNCHANGED <<item, lockVersion, revisions, objects, uploads, doomed>>
    BY DEF ImageInv, WorldKept, DatabaseKept
  <1>2. proc'[p] = state /\ \A q \in Procs \ {p} : proc'[q] = proc[q]
    BY <1>1, Becomes
  <1>3. /\ Revs' = Revs /\ UsedKeys' = UsedKeys /\ \A s \in Revs : NamedBy(s)' = NamedBy(s)
    BY <1>1 DEF Revs, UsedKeys, NamedBy, StagedIn, KeysOf
  <1>4. /\ StagedIn(KeysOf(state.current)) = NamedBy(r) /\ NamedBy(r) \subseteq UsedKeys
        /\ \A s \in Revs \ {r} : KeysOf(state.current) \cap NamedBy(s) = {}
        /\ \A q \in Procs : Uncommitted(q) => proc[q].uploaded \cap NamedBy(r) = {}
    BY RowsApart
  <1>5. Holds(p)' \subseteq proc[p].uploaded \cup NamedBy(r)
    BY <1>2, <1>4 DEF Holds
  <1>6. /\ proc[p].uploaded \subseteq Holds(p) /\ Holds(p) \subseteq UsedKeys
        /\ \A q \in Procs \ {p} : Uncommitted(q) => proc[q].uploaded \cap Holds(p) = {}
    BY <1>1 DEF ProcHolds, UploadsHold, Holds
  <1>7. \A s \in Revs : revisions[s].status = "pending" => state.uploaded \cap NamedBy(s) = {}
    BY <1>1 DEF ProcHolds, UploadsHold
  <1>8. UploadsHold(p)'
    BY <1>1, <1>2, <1>3, <1>4, <1>5, <1>6, <1>7 DEF UploadsHold, Uncommitted
  <1>9. ReadHolds(p)' /\ ReviewHolds(p)'
    BY <1>2, <1>3 DEF ReadHolds, ReviewHolds
  <1>10. PublishHolds(p)'
    <2>1. /\ state.todo \cap StagedKeys = {} /\ state.current \in ImageRows
          /\ state.todo \cap PublicKeys \subseteq {Public(h) : h \in DOMAIN state.current}
      BY Targeted DEF ProcRecords
    <2>2. \A s \in Revs : revisions[s].status = "pending" => KeysOf(state.current) \cap NamedBy(s) = {}
      BY <1>4
    <2> QED
      BY <1>1, <1>2, <1>3, <2>1, <2>2 DEF PublishHolds, RowsRead
  <1>11. /\ uploads' \in 0 .. MaxRevisions /\ uploads <= uploads' /\ objects \ objects' = {}
         /\ StagedIn(objects') \subseteq UsedKeys'
    BY <1>1, <1>3 DEF ImageTypes, KeysHold
  <1>12. \A q \in Procs \ {p} : Uncommitted(q) => proc[q].uploaded \cap Holds(p)' = {}
    BY <1>4, <1>5, <1>6
  <1> QED
    BY <1>1, <1>8, <1>9, <1>10, <1>11, <1>12, StoreStep DEF ProcHolds

LEMMA LoadImagesStep == ASSUME ImageInv, NEW p \in Procs, LoadImages(p) PROVE ImageInv'
  <1> DEFINE r == proc[p].rev
             m == proc[p].item.mat
  <1>1. /\ proc[p].pc = "committed" /\ WorldKept
        /\ StartPublish(p, RowsOf(r), RowsOf(m))
        /\ ImageTypes /\ ReadHolds(p) /\ PublishHolds(p)
    BY DEF LoadImages, At, ImageInv, ProcHolds
  <1>2. /\ r \in Revs /\ revisions[r].status = "approved" /\ item.app # NoRev
        /\ m \in Revs \cup {NoRev} /\ proc[p].made \cap StagedKeys = {}
    BY <1>1 DEF PublishHolds, ReadHolds
  <1>3. RowsOf(r) = revisions[r].rows /\ RowsOf(r) \in ImageRows /\ RowsOf(m) \in ImageRows
    BY <1>1, <1>2, RowsOfAre
  <1>4. CASE Become(p, Idle)
    BY <1>1, <1>4, EndStep DEF WorldKept, DatabaseKept
  <1>5. CASE ~Become(p, Idle)
    <2> DEFINE state == [[[[proc[p] EXCEPT !.pc = "copying"] EXCEPT !.current = RowsOf(r)]
                          EXCEPT !.previous = RowsOf(m)] EXCEPT !.todo = Targets(RowsOf(r), RowsOf(m))]
    <2>1. proc[p] \in ProcRecords /\ Targets(RowsOf(r), RowsOf(m)) \subseteq Keys
      BY <1>1, <1>3, Targeted DEF ImageTypes
    <2>2. Become(p, state)
      BY <1>1, <1>5 DEF StartPublish
    <2>3. /\ state \in ProcRecords /\ state.pc = "copying" /\ state.rev = r
          /\ state.current = RowsOf(r) /\ state.previous = RowsOf(m)
          /\ state.todo = Targets(RowsOf(r), RowsOf(m)) /\ state.uploaded = proc[p].uploaded
          /\ state.item = proc[p].item /\ state.made = proc[p].made
      BY <1>3, <2>1 DEF ProcRecords
    <2> HIDE DEF state
    <2> QED
      BY <1>1, <1>2, <1>3, <2>2, <2>3, BeginsCopying
  <1> QED
    BY <1>4, <1>5

LEMMA RecoverStep == ASSUME ImageInv, NEW p \in Recoverers, Recover(p) PROVE ImageInv'
  <1> DEFINE r == item.app
             m == LatestApprovedBut(item.app)
  <1>1. /\ p \in Procs /\ proc[p].pc = "idle" /\ item.app # NoRev /\ WorldKept
        /\ Become(p, [Idle EXCEPT !.pc = "copying", !.kind = "recovery", !.rev = r,
                        !.current = RowsOf(r), !.previous = RowsOf(m),
                        !.todo = Targets(RowsOf(r), RowsOf(m))])
        /\ ImageTypes /\ PointersHold
    BY DEF Procs, Recover, At, Candidate, ImageInv
  <1>2. r \in Revs /\ revisions[r].status = "approved" /\ r \in Nat
    BY <1>1, RevisionsAre DEF PointersHold
  <1>3. m \in Revs \cup {NoRev}
    <2> DEFINE older == {x \in Revs \ {r} : revisions[x].status = "approved"}
    <2>1. CASE older = {}
      BY <2>1 DEF LatestApprovedBut
    <2>2. CASE older # {}
      <3>1. older \in SUBSET (1 .. Len(revisions)) /\ Len(revisions) \in Nat
        BY <1>1, RevisionsAre
      <3>2. \E x \in older : \A y \in older : y <= x
        BY <2>2, <3>1, GreatestIsThere
      <3>3. m \in older
        BY <2>2, <3>2 DEF LatestApprovedBut
      <3> QED
        BY <3>3
    <2> QED
      BY <2>1, <2>2
  <1> HIDE DEF m
  <1>4. RowsOf(r) = revisions[r].rows /\ RowsOf(r) \in ImageRows /\ RowsOf(m) \in ImageRows
    BY <1>1, <1>2, <1>3, RowsOfAre
  <1> DEFINE state == [[[[[[Idle EXCEPT !.pc = "copying"] EXCEPT !.kind = "recovery"] EXCEPT !.rev = r]
                          EXCEPT !.current = RowsOf(r)] EXCEPT !.previous = RowsOf(m)]
                          EXCEPT !.todo = Targets(RowsOf(r), RowsOf(m))]
  <1>5. Become(p, state)
    BY <1>1
  <1>6. Targets(RowsOf(r), RowsOf(m)) \subseteq Keys
    BY <1>4, Targeted
  <1>7. /\ state \in ProcRecords /\ state.pc = "copying" /\ state.rev = r
        /\ state.current = RowsOf(r) /\ state.previous = RowsOf(m)
        /\ state.todo = Targets(RowsOf(r), RowsOf(m)) /\ state.uploaded = {}
        /\ state.item = Idle.item /\ state.made = {}
    BY <1>2, <1>4, <1>6, IdleIs DEF ProcRecords
  <1> HIDE DEF state
  <1> QED
    BY <1>1, <1>2, <1>4, <1>5, <1>7, IdleIs, BeginsCopying

LEMMA LoadImagesFailsStep == ASSUME ImageInv, NEW p \in Procs, LoadImagesFails(p) PROVE ImageInv'
  <1> DEFINE state == [proc[p] EXCEPT !.pc = "rollback"]
  <1>1. /\ proc[p].pc = "committed" /\ Become(p, state) /\ DatabaseKept
        /\ UNCHANGED <<objects, uploads, doomed>>
        /\ ImageTypes /\ KeysHold /\ ReadHolds(p) /\ PublishHolds(p)
    BY DEF LoadImagesFails, At, ImageInv, ProcHolds
  <1>2. proc[p] \in ProcRecords
    BY <1>1 DEF ImageTypes
  <1>3. /\ state \in ProcRecords /\ state.pc = "rollback" /\ state.kind = proc[p].kind
        /\ state.uploaded = proc[p].uploaded /\ state.current = proc[p].current
        /\ state.item = proc[p].item /\ state.made = proc[p].made
    BY <1>2 DEF ProcRecords
  <1> HIDE DEF state
  <1>4. proc'[p] = state /\ Revs' = Revs /\ UploadsHold(p)'
    BY <1>1, <1>3, Becomes, UploadsStay DEF DatabaseKept, Revs
  <1>5. ReadHolds(p)' /\ ReviewHolds(p)' /\ PublishHolds(p)'
    BY <1>1, <1>3, <1>4 DEF ReadHolds, ReviewHolds, PublishHolds
  <1> QED
    BY <1>1, <1>3, <1>4, <1>5, LightStep DEF ProcHolds, KeysHold, StagedIn

\* An error on the way takes the publication to "failed", or ends a recovery.
LEMMA FailedStep ==
    ASSUME ImageInv, NEW p \in Procs, proc[p].pc = "copying", Become(p, Failed(p)), DatabaseKept,
           UNCHANGED <<uploads, doomed>>, objects' \subseteq objects,
           StagedIn(objects \ objects') = {}
    PROVE  ImageInv'
  <1>1. /\ ImageTypes /\ KeysHold /\ ReadHolds(p) /\ PublishHolds(p) /\ proc[p] \in ProcRecords
        /\ \A q \in Procs : proc[q].uploaded \subseteq StagedKeys
    BY DEF ImageInv, ProcHolds, ImageTypes, ProcRecords
  <1>2. CASE proc[p].kind = "recovery"
    <2>1. Become(p, Idle)
      BY <1>2 DEF Failed
    <2>2. /\ \A r \in Revs : NamedBy(r) \cap (objects \ objects') = {}
          /\ \A q \in Procs : proc[q].uploaded \cap (objects \ objects') = {}
      BY <1>1 DEF NamedBy, StagedIn
    <2> QED
      BY <2>1, <2>2, RestStep
  <1>3. CASE proc[p].kind # "recovery"
    <2> DEFINE state == [[[proc[p] EXCEPT !.pc = "failed"] EXCEPT !.todo = {}] EXCEPT !.made = {}]
    <2>1. Become(p, state)
      BY <1>3 DEF Failed
    <2>2. /\ state \in ProcRecords /\ state.pc = "failed" /\ state.kind = proc[p].kind
          /\ state.uploaded = proc[p].uploaded /\ state.current = proc[p].current
          /\ state.item = proc[p].item /\ state.made = {}
      BY <1>1 DEF ProcRecords
    <2> HIDE DEF state
    <2>3. proc'[p] = state /\ Revs' = Revs /\ item' = item /\ UploadsHold(p)'
      BY <1>1, <2>1, <2>2, Becomes, UploadsStay DEF DatabaseKept, Revs
    <2>4. ReadHolds(p)' /\ ReviewHolds(p)' /\ PublishHolds(p)'
      BY <1>1, <2>2, <2>3 DEF ReadHolds, ReviewHolds, PublishHolds
    <2> QED
      BY <1>1, <2>1, <2>2, <2>3, <2>4, LightStep DEF ProcHolds, KeysHold, StagedIn
  <1> QED
    BY <1>2, <1>3

LEMMA CopyFailsStep == ASSUME ImageInv, NEW p \in Procs, CopyFails(p) PROVE ImageInv'
  <1>1. /\ proc[p].pc = "copying" /\ Become(p, Failed(p)) /\ DatabaseKept
        /\ UNCHANGED <<uploads, doomed>>
        /\ objects' = objects \/ objects' = objects \ (proc[p].made \cap PublicKeys)
    BY DEF CopyFails, At
  <1>2. objects' \subseteq objects /\ StagedIn(objects \ objects') = {}
    BY <1>1, KeyKinds DEF StagedIn
  <1> QED
    BY <1>1, <1>2, FailedStep

LEMMA ApplyFailsStep == ASSUME ImageInv, NEW p \in Procs, ApplyFails(p) PROVE ImageInv'
  <1>1. /\ proc[p].pc = "copying" /\ Become(p, Failed(p)) /\ DatabaseKept
        /\ UNCHANGED <<uploads, doomed>> /\ objects' = objects \ proc[p].made
        /\ PublishHolds(p)
    BY DEF ApplyFails, At, ImageInv, ProcHolds
  <1>2. objects' \subseteq objects /\ StagedIn(objects \ objects') = {}
    BY <1>1 DEF PublishHolds, StagedIn
  <1> QED
    BY <1>1, <1>2, FailedStep

\* What a copy makes is a target: never a staging object, and public only for a picture of
\* the revision, which is approved.
LEMMA CopyStep ==
    ASSUME ImageInv, NEW p \in Procs, Copy(p)
    PROVE  /\ ImageInv'
           /\ \A h \in Pictures : Public(h) \in objects' \ objects =>
                \E r \in Revs : revisions[r].status = "approved" /\ h \in DOMAIN revisions[r].rows
  <1>1. /\ proc[p].pc = "copying" /\ DatabaseKept /\ UNCHANGED <<uploads, doomed>>
        /\ ImageTypes /\ KeysHold /\ PointersHold /\ ReadHolds(p) /\ PublishHolds(p)
        /\ proc[p] \in ProcRecords
    BY DEF Copy, At, ImageInv, ProcHolds, ImageTypes
  <1>2. PICK key \in NextToCopy(p) :
          /\ objects' = objects \cup {key}
          /\ Become(p, [proc[p] EXCEPT !.todo = @ \ {key},
                          !.made = IF key \in objects THEN @ ELSE @ \cup {key}])
    BY DEF Copy
  <1>3. key \in proc[p].todo /\ key \in Keys /\ key \notin StagedKeys
    BY <1>1 DEF NextToCopy, PublishHolds, ProcRecords
  <1> DEFINE made == IF key \in objects THEN proc[p].made ELSE proc[p].made \cup {key}
             state == [[proc[p] EXCEPT !.todo = proc[p].todo \ {key}] EXCEPT !.made = made]
  <1>4. made \subseteq Keys /\ made \cap StagedKeys = {}
    BY <1>1, <1>3 DEF PublishHolds, ProcRecords
  <1>5. Become(p, state)
    BY <1>1, <1>2 DEF ProcRecords
  <1> HIDE DEF made
  <1>6. /\ state \in ProcRecords /\ state.pc = "copying" /\ state.kind = proc[p].kind
        /\ state.uploaded = proc[p].uploaded /\ state.current = proc[p].current
        /\ state.item = proc[p].item /\ state.made = made /\ state.rev = proc[p].rev
        /\ state.todo = proc[p].todo \ {key}
    BY <1>1, <1>4 DEF ProcRecords
  <1> HIDE DEF state
  <1>7. /\ proc'[p] = state /\ Revs' = Revs /\ UploadsHold(p)' /\ revisions' = revisions /\ item' = item
        /\ \A r \in Revs : NamedBy(r)' = NamedBy(r)
    BY <1>1, <1>5, <1>6, Becomes, UploadsStay DEF DatabaseKept, Revs, NamedBy, StagedIn, KeysOf
  <1>8. ReadHolds(p)' /\ ReviewHolds(p)'
    BY <1>1, <1>6, <1>7 DEF ReadHolds, ReviewHolds
  <1>9. PublishHolds(p)'
    BY <1>1, <1>4, <1>6, <1>7 DEF PublishHolds, RowsRead
  <1>10. StagedIn(objects') \subseteq UsedKeys /\ StagedIn(objects \ objects') = {}
    BY <1>1, <1>2, <1>3 DEF KeysHold, StagedIn
  <1>11. ImageInv'
    BY <1>1, <1>5, <1>6, <1>7, <1>8, <1>9, <1>10, LightStep DEF ProcHolds
  <1>12. ASSUME NEW h \in Pictures, Public(h) \in objects' \ objects
         PROVE  \E r \in Revs : revisions[r].status = "approved" /\ h \in DOMAIN revisions[r].rows
    <2>1. Public(h) \in proc[p].todo \cap PublicKeys
      BY <1>2, <1>3, <1>12, KeyKinds
    <2>2. proc[p].current \in ImageRows
      BY <1>1 DEF ProcRecords
    <2>3. h \in DOMAIN proc[p].current
      BY <1>1, <2>1, <2>2, KeyKinds, RowsHave DEF PublishHolds
    <2> QED
      BY <1>1, <2>3 DEF PublishHolds, RowsRead
  <1> QED
    BY <1>11, <1>12

LEMMA LoadReviewStep == ASSUME ImageInv, NEW p \in Requests, LoadReview(p) PROVE ImageInv'
  <1> DEFINE r == item.pend
             state == [[[[[[[Idle EXCEPT !.pc = "loaded"] EXCEPT !.kind = "review"] EXCEPT !.item = item]
                          EXCEPT !.lock = lockVersion] EXCEPT !.rev = r]
                          EXCEPT !.current = RowsOf(r)] EXCEPT !.previous = RowsOf(item.mat)]
  <1>1. /\ p \in Procs /\ proc[p].pc = "idle" /\ item.pend # NoRev /\ WorldKept
        /\ Become(p, state)
        /\ ImageTypes /\ KeysHold /\ PointersHold /\ (\A q \in Procs : ProcHolds(q))
    BY DEF Procs, LoadReview, At, ImageInv
  <1>2. /\ r \in Revs /\ revisions[r].status = "pending" /\ r \in Nat
        /\ item.mat \in Revs \cup {NoRev} /\ item \in ItemRecords(Nat) /\ lockVersion \in Nat
    BY <1>1, RevisionsAre DEF PointersHold, ImageTypes
  <1>3. RowsOf(r) = revisions[r].rows /\ RowsOf(r) \in ImageRows /\ RowsOf(item.mat) \in ImageRows
    BY <1>1, <1>2, RowsOfAre
  <1>4. /\ state \in ProcRecords /\ state.pc = "loaded" /\ state.kind = "review"
        /\ state.item = item /\ state.lock = lockVersion /\ state.rev = r
        /\ state.current = RowsOf(r) /\ state.uploaded = {} /\ state.made = {}
    BY <1>2, <1>3, IdleIs DEF ProcRecords
  <1> HIDE DEF state
  <1>5. /\ UNCHANGED <<item, lockVersion, revisions, objects, uploads, doomed>> /\ DatabaseKept
        /\ proc'[p] = state /\ \A q \in Procs \ {p} : proc'[q] = proc[q]
    BY <1>1, <1>4, Becomes DEF WorldKept, DatabaseKept
  <1>6. /\ Revs' = Revs /\ UsedKeys' = UsedKeys /\ \A s \in Revs : NamedBy(s)' = NamedBy(s)
    BY <1>5 DEF Revs, UsedKeys, NamedBy, StagedIn, KeysOf
  <1>7. /\ StagedIn(KeysOf(state.current)) = NamedBy(r) /\ NamedBy(r) \subseteq UsedKeys
        /\ \A s \in Revs \ {r} : KeysOf(state.current) \cap NamedBy(s) = {}
        /\ \A q \in Procs : Uncommitted(q) => proc[q].uploaded \cap NamedBy(r) = {}
    BY <1>2, <1>3, <1>4, RowsApart
  <1>8. Holds(p)' = NamedBy(r)
    BY <1>4, <1>5, <1>7 DEF Holds
  <1>9. UploadsHold(p)'
    BY <1>4, <1>5, <1>6, <1>7, <1>8 DEF UploadsHold, Uncommitted
  <1>10. ReadHolds(p)' /\ PublishHolds(p)'
    BY <1>2, <1>4, <1>5, <1>6 DEF ReadHolds, PublishHolds
  <1>11. ReviewHolds(p)'
    BY <1>2, <1>3, <1>4, <1>5, <1>6, <1>7 DEF ReviewHolds, RowsRead
  <1>12. /\ uploads' \in 0 .. MaxRevisions /\ uploads <= uploads' /\ objects \ objects' = {}
         /\ StagedIn(objects') \subseteq UsedKeys'
    BY <1>1, <1>5, <1>6 DEF ImageTypes, KeysHold
  <1>13. \A q \in Procs \ {p} : Uncommitted(q) => proc[q].uploaded \cap Holds(p)' = {}
    BY <1>7, <1>8
  <1> QED
    BY <1>1, <1>4, <1>5, <1>9, <1>10, <1>11, <1>12, <1>13, StoreStep DEF ProcHolds

-----------------------------------------------------------------------------
(* What an accepted event makes of the columns of the item.                *)

LEMMA AfterIsItem ==
    ASSUME NEW i \in ItemRecords(Nat), NEW r \in Nat, NEW e, NEW a
    PROVE  After(e, i, a, r) \in ItemRecords(Nat)
  <1>1. \A b \in ItemRecords(Nat) :
          /\ ApprovedSubmission(b, r) \in ItemRecords(Nat)
          /\ PostReviewSubmission(b, r) \in ItemRecords(Nat)
          /\ ReviewApproval(b, r) \in ItemRecords(Nat)
    BY DEF ApprovedSubmission, PostReviewSubmission, ReviewApproval, ItemRecords, PublicStates, NoRev
  <1>2. \A b \in ItemRecords(Nat) : PreReviewSubmission(b, r) \in ItemRecords(Nat)
    BY DEF PreReviewSubmission, ItemRecords, PublicStates, NoRev
  <1>3. \A b \in ItemRecords(Nat) : ReviewRejection(b) \in ItemRecords(Nat)
    BY DEF ReviewRejection, ItemRecords, PublicStates, NoRev
  <1>4. Tombstone(i) \in ItemRecords(Nat)
    BY DEF Tombstone, ItemRecords, PublicStates, Lifecycles, BeforeStates, NoRev
  <1>5. EmergencyHidden(i) \in ItemRecords(Nat) /\ Restored(i) \in ItemRecords(Nat)
    BY DEF EmergencyHidden, Restored, ItemRecords, PublicStates, BeforeStates
  <1>6. SubmitBase(i) \in ItemRecords(Nat)
    BY EmptyItemIs DEF SubmitBase, ItemRecords, Lifecycles
  <1>7. Submitted(i, a, r) \in ItemRecords(Nat)
    BY <1>1, <1>2, <1>6 DEF Submitted
  <1> QED
    BY <1>1, <1>3, <1>4, <1>5, <1>7 DEF After

LEMMA SubmissionMakes ==
    ASSUME NEW i \in ItemRecords(Nat), NEW r \in Nat, NEW e \in SubmitEvents, NEW a,
           Accepts(e, i, a, r), NEW n, n = After(e, i, a, r)
    PROVE  /\ ValidItem(n) /\ n.mat \in {NoRev, r, i.mat, i.app}
           /\ a = "auto_approve" => n.app = r /\ n.pend = NoRev
           /\ a # "auto_approve" => n.app = i.app /\ n.pend = r
  <1>1. ~IsIdempotent(e, i)
    BY DEF IsIdempotent, SubmitEvents
  <1>2. Allowed(e, i, a, r) /\ ValidItem(n) /\ ValidItem(i)
    BY <1>1 DEF Accepts
  <1>3. a \in PublishingActions
    BY <1>2 DEF Allowed, SubmitEvents, ReviewEvents
  <1>4. n = Submitted(i, a, r)
    BY <1>1 DEF After, SubmitEvents
  <1> DEFINE b == SubmitBase(i)
  <1>5. b \in ItemRecords(Nat) /\ b.app = i.app /\ b.mat = i.mat
    <2>1. i.lifecycle = "absent" => i = EmptyItem
      BY <1>2 DEF ValidItem
    <2> QED
      BY <2>1, EmptyItemIs DEF SubmitBase, ItemRecords, Lifecycles, EmptyItem
  <1> HIDE DEF b
  <1>6. CASE a = "auto_approve"
    <2>1. n = ApprovedSubmission(b, r)
      BY <1>4, <1>6 DEF Submitted, b
    <2> QED
      BY <1>2, <1>5, <1>6, <2>1 DEF ApprovedSubmission, ItemRecords
  <1>7. CASE a = "post_review"
    <2>1. n = PostReviewSubmission(b, r)
      BY <1>4, <1>7 DEF Submitted, b
    <2> QED
      BY <1>2, <1>5, <1>7, <2>1 DEF PostReviewSubmission, ItemRecords
  <1>8. CASE a = "pre_review"
    <2>1. n = PreReviewSubmission(b, r)
      BY <1>4, <1>8 DEF Submitted, b
    <2> QED
      BY <1>2, <1>5, <1>8, <2>1 DEF PreReviewSubmission, ItemRecords
  <1> QED
    BY <1>3, <1>6, <1>7, <1>8 DEF PublishingActions

LEMMA ReviewMakes ==
    ASSUME NEW i \in ItemRecords(Nat), NEW r \in Nat, NEW e \in {"approve", "reject"}, NEW a,
           Accepts(e, i, a, r), NEW n, n = After(e, i, a, r)
    PROVE  /\ ValidItem(n) /\ i.pend = r /\ r # NoRev /\ n.pend = NoRev
           /\ e = "approve" => n.mat = r /\ n.app = r
           /\ e = "reject" => n.app = i.app /\ n.mat \in {NoRev, i.app}
  <1>1. ~IsIdempotent(e, i) /\ e \notin SubmitEvents /\ e \in ReviewEvents
    BY DEF IsIdempotent, SubmitEvents, ReviewEvents
  <1>2. Allowed(e, i, a, r) /\ ValidItem(n)
    BY <1>1 DEF Accepts
  <1>3. i.pend = r /\ r # NoRev
    BY <1>1, <1>2 DEF Allowed, SameRevision
  <1>4. CASE e = "approve"
    <2>1. n = ReviewApproval(i, r)
      BY <1>1, <1>4 DEF After
    <2> QED
      BY <1>2, <1>3, <1>4, <2>1 DEF ReviewApproval, ItemRecords
  <1>5. CASE e = "reject"
    <2>1. n = ReviewRejection(i)
      BY <1>1, <1>5 DEF After
    <2> QED
      BY <1>2, <1>3, <1>5, <2>1 DEF ReviewRejection, ItemRecords
  <1> QED
    BY <1>4, <1>5

LEMMA AdministrationMakes ==
    ASSUME NEW i \in ItemRecords(Nat), NEW e \in {"delete", "emergency_hide", "restore"}, NEW a,
           Accepts(e, i, a, NoRev), ~IsIdempotent(e, i), NEW n, n = After(e, i, a, NoRev)
    PROVE  /\ ValidItem(n) /\ n.app = i.app /\ n.mat \in {NoRev, i.mat}
           /\ n.pend = IF e = "delete" THEN NoRev ELSE i.pend
  <1>1. ValidItem(n) /\ e \notin SubmitEvents /\ e \notin {"approve", "correct_and_approve", "reject"}
    BY DEF Accepts, SubmitEvents
  <1>2. CASE e = "delete"
    <2>1. n = Tombstone(i)
      BY <1>1, <1>2 DEF After
    <2> QED
      BY <1>1, <1>2, <2>1 DEF Tombstone, ItemRecords
  <1>3. CASE e = "emergency_hide"
    <2>1. n = EmergencyHidden(i)
      BY <1>1, <1>3 DEF After
    <2> QED
      BY <1>1, <1>3, <2>1 DEF EmergencyHidden, ItemRecords
  <1>4. CASE e = "restore"
    <2>1. n = Restored(i)
      BY <1>1, <1>4 DEF After
    <2> QED
      BY <1>1, <1>4, <2>1 DEF Restored, ItemRecords
  <1> QED
    BY <1>2, <1>3, <1>4

-----------------------------------------------------------------------------
(* Steps at the database.                                                  *)

\* What a new revision names was put by the save that commits it.
LEMMA KeysStay ==
    ASSUME ImageInv, UNCHANGED <<objects, uploads, doomed>>, Revs \subseteq Revs',
           \A r \in Revs : /\ NamedBy(r)' \subseteq NamedBy(r)
                           /\ revisions'[r].status = "pending" => revisions[r].status = "pending",
           \A r \in Revs' \ Revs :
              \E p \in Procs : Uncommitted(p) /\ NamedBy(r)' \subseteq proc[p].uploaded,
           \A r, s \in Revs' \ Revs : r = s
    PROVE  KeysHold'
  <1>1. KeysHold /\ \A p \in Procs : UploadsHold(p) /\ proc[p].uploaded \subseteq Holds(p)
    BY DEF ImageInv, ProcHolds, Holds
  <1>2. UsedKeys' = UsedKeys
    BY DEF UsedKeys
  <1>3. \A r \in Revs' \ Revs :
          /\ NamedBy(r)' \subseteq UsedKeys /\ NamedBy(r)' \cap doomed = {}
          /\ NamedBy(r)' \subseteq objects
          /\ \A s \in Revs : NamedBy(r)' \cap NamedBy(s) = {}
    BY <1>1 DEF UploadsHold
  <1>4. \A r \in Revs' : /\ NamedBy(r)' \subseteq UsedKeys' /\ NamedBy(r)' \cap doomed' = {}
                         /\ revisions'[r].status = "pending" => NamedBy(r)' \subseteq objects'
    BY <1>1, <1>2, <1>3 DEF KeysHold
  <1>5. \A r, s \in Revs' : r # s => NamedBy(r)' \cap NamedBy(s)' = {}
    BY <1>1, <1>3 DEF KeysHold
  <1>6. StagedIn(objects') \subseteq UsedKeys' /\ StagedIn(doomed') \subseteq UsedKeys'
    BY <1>1, <1>2 DEF KeysHold
  <1> QED
    BY <1>4, <1>5, <1>6 DEF KeysHold

\* The processes of P move: one, or none when an admin acts.
LEMMA DatabaseStep ==
    ASSUME ImageInv, NEW P \in SUBSET Procs, proc' \in [Procs -> ProcRecords],
           \A q \in Procs \ P : proc'[q] = proc[q],
           \A q \in P : ProcHolds(q)' /\ Holds(q)' \subseteq Holds(q),
           UNCHANGED <<objects, uploads, doomed>>,
           item' \in ItemRecords(Nat), lockVersion' \in Nat, revisions' \in Seq(RevisionRow),
           RevisionsKept, ItemKept, ItemHolds', PointersHold',
           \A r \in Revs' \ Revs :
              \E p \in P : Uncommitted(p) /\ NamedBy(r)' \subseteq proc[p].uploaded,
           \A r, s \in Revs' \ Revs : r = s
    PROVE  ImageInv'
  <1>1. ImageTypes /\ \A q \in Procs : ProcHolds(q) /\ UploadsHold(q)
    BY DEF ImageInv, ProcHolds
  <1>2. ImageTypes' /\ UsedKeys' = UsedKeys
    BY <1>1 DEF ImageTypes, UsedKeys
  <1>3. KeysHold'
    BY KeysStay DEF RevisionsKept
  <1>4. \A s \in Procs : Holds(s)' \subseteq Holds(s)
    BY DEF Holds, StagedIn, KeysOf
  <1>5. ASSUME NEW q \in Procs \ P PROVE ProcHolds(q)'
    <2>1. \A r \in Revs' \ Revs : NamedBy(r)' \cap Holds(q) = {}
      BY <1>1 DEF UploadsHold
    <2>2. Uncommitted(q) =>
            /\ proc[q].uploaded \subseteq objects' /\ proc[q].uploaded \cap doomed' = {}
            /\ \A s \in Procs \ {q} : proc[q].uploaded \cap Holds(s)' = {}
      BY <1>1, <1>4 DEF UploadsHold
    <2> QED
      BY <1>1, <1>2, <2>1, <2>2, OtherHolds DEF OwnKept
  <1> QED
    BY <1>2, <1>3, <1>5 DEF ImageInv

LEMMA SupersededAre ==
    ASSUME ImageTypes, NEW x \in Revs \cup {NoRev}, x # NoRev => revisions[x].status = "pending",
           NEW revs, revs = Superseded(revisions, x)
    PROVE  /\ revs \in Seq(RevisionRow) /\ Len(revs) = Len(revisions)
           /\ \A s \in Revs : /\ revs[s].rows = revisions[s].rows
                              /\ revs[s].status = "pending" => s # x
                              /\ s # x => revs[s] = revisions[s]
                              /\ revs[s].status = "pending" => revisions[s].status = "pending"
                              /\ revisions[s].status = "approved" => revs[s].status = "approved"
  <1>1. /\ revisions \in Seq(RevisionRow) /\ Len(revisions) \in Nat /\ Revs = 1 .. Len(revisions)
        /\ NoRev \notin Revs /\ \A s \in Revs : revisions[s] \in RevisionRow
    BY RevisionsAre DEF ImageTypes
  <1>2. CASE x = NoRev
    BY <1>1, <1>2 DEF Superseded
  <1>3. CASE x # NoRev
    <2> DEFINE row == [revisions[x] EXCEPT !.status = "superseded"]
    <2>1. revs = [revisions EXCEPT ![x] = row]
      BY <1>3 DEF Superseded
    <2>2. row \in RevisionRow /\ row.status = "superseded" /\ row.rows = revisions[x].rows
      BY <1>1, <1>3 DEF RevisionRow
    <2> HIDE DEF row
    <2>3. revs \in Seq(RevisionRow) /\ Len(revs) = Len(revisions)
      BY <1>1, <1>3, <2>1, <2>2, ExceptSeq
    <2>4. \A s \in Revs : revs[s] = IF s = x THEN row ELSE revisions[s]
      BY <1>1, <2>1
    <2> QED
      BY <1>3, <2>2, <2>3, <2>4
  <1> QED
    BY <1>2, <1>3

\* A row outside the matrix is no row a commit reads, and what it writes is inside.
LEMMA CommitSaveStep == ASSUME ImageInv, NEW p \in Requests, CommitSave(p) PROVE ImageInv'
  <1>0. PICK r : r = Len(revisions) + 1
    OBVIOUS
  <1> DEFINE read == proc[p].item
             event == IF read.lifecycle = "absent" THEN "submit" ELSE "resubmit"
             x == SupersededBy(event, read)
             revs == Superseded(revisions, x)
  <1>1. PICK action \in PublishingActions :
          /\ ApplyTransition(p, event, action, r,
                Append(revs, [status |-> IF action = "auto_approve" THEN "approved" ELSE "pending",
                              rows |-> proc[p].current]))
          /\ Become(p, IF action = "auto_approve"
                       THEN [proc[p] EXCEPT !.pc = "committed", !.rev = r] ELSE Idle)
    BY <1>0 DEF CommitSave
  <1> DEFINE new == [status |-> IF action = "auto_approve" THEN "approved" ELSE "pending",
                     rows |-> proc[p].current]
  <1>2. /\ p \in Procs /\ proc[p].pc = "loaded" /\ proc[p].kind = "save" /\ Uncommitted(p)
        /\ UNCHANGED <<objects, uploads, doomed>>
        /\ ImageTypes /\ PointersHold /\ KeysHold
        /\ UploadsHold(p) /\ ReadHolds(p) /\ PublishHolds(p)
    BY DEF Procs, CommitSave, At, Uncommitted, ImageInv, ProcHolds
  <1>3. /\ proc[p].lock = lockVersion /\ Accepts(event, read, action, r)
        /\ item' = After(event, read, action, r) /\ lockVersion' = lockVersion + 1
        /\ revisions' = Append(revs, new)
    BY <1>1 DEF ApplyTransition
  <1>4. /\ proc[p] \in ProcRecords /\ read \in ItemRecords(Nat) /\ item \in ItemRecords(Nat)
        /\ lockVersion \in Nat /\ proc[p].current \in ImageRows
        /\ read.app = item.app /\ read.pend = item.pend /\ read.mat \in Revs \cup {NoRev}
    BY <1>2, <1>3 DEF ImageTypes, ProcRecords, ReadHolds
  <1>5. /\ Len(revisions) \in Nat /\ r \in Nat /\ Revs = 1 .. Len(revisions)
        /\ NoRev \notin Revs /\ r \notin Revs /\ r # NoRev /\ event \in SubmitEvents
    <2>1. Len(revisions) \in Nat /\ Revs = 1 .. Len(revisions) /\ NoRev \notin Revs
      BY <1>2, RevisionsAre
    <2> QED
      BY <1>0, <2>1 DEF NoRev, SubmitEvents
  <1>6. x = item.pend /\ x \in Revs \cup {NoRev} /\ (x # NoRev => revisions[x].status = "pending")
    BY <1>2, <1>4, <1>5 DEF SupersededBy, PointersHold
  <1> HIDE DEF event, read, x
  <1>7. /\ revs \in Seq(RevisionRow) /\ Len(revs) = Len(revisions)
        /\ \A s \in Revs : /\ revs[s].rows = revisions[s].rows
                           /\ revs[s].status = "pending" => revisions[s].status = "pending"
                           /\ revisions[s].status = "approved" => revs[s].status = "approved"
    BY <1>2, <1>6, SupersededAre
  <1> HIDE DEF revs
  <1>8. new \in RevisionRow /\ new.rows = proc[p].current
        /\ new.status = IF action = "auto_approve" THEN "approved" ELSE "pending"
    BY <1>4 DEF RevisionRow
  <1> HIDE DEF new
  <1>9. /\ revisions' \in Seq(RevisionRow) /\ Revs' = Revs \cup {r} /\ revisions'[r] = new
        /\ \A s \in Revs : revisions'[s] = revs[s]
    <2>1. /\ revisions' \in Seq(RevisionRow) /\ Len(revisions') = Len(revs) + 1
          /\ \A s \in 1 .. Len(revs) : revisions'[s] = revs[s]
          /\ revisions'[Len(revs) + 1] = new
      BY <1>3, <1>7, <1>8, AppendProperties
    <2>2. Revs' = 1 .. (Len(revisions) + 1)
      BY <1>7, <2>1 DEF Revs
    <2>3. Revs' = Revs \cup {r}
      BY <1>0, <1>5, <2>2
    <2> QED
      BY <1>0, <1>5, <1>7, <2>1, <2>3
  <1>10. /\ \A s \in Revs : NamedBy(s)' = NamedBy(s)
         /\ NamedBy(r)' = StagedIn(KeysOf(proc[p].current))
    BY <1>7, <1>8, <1>9 DEF NamedBy
  <1>11. NamedBy(r)' \subseteq proc[p].uploaded
    BY <1>2, <1>10 DEF UploadsHold
  <1>12. RevisionsKept
    BY <1>7, <1>9, <1>10 DEF RevisionsKept
  <1>13. /\ item' \in ItemRecords(Nat) /\ ValidItem(item') /\ item'.mat \in {NoRev, r, read.mat, item.app}
         /\ action = "auto_approve" => item'.app = r /\ item'.pend = NoRev
         /\ action # "auto_approve" => item'.app = item.app /\ item'.pend = r
    BY <1>3, <1>4, <1>5, AfterIsItem, SubmissionMakes
  <1>14. PointersHold'
    BY <1>2, <1>4, <1>7, <1>8, <1>9, <1>13 DEF PointersHold
  <1>15. ItemKept /\ ItemHolds' /\ lockVersion' \in Nat
    BY <1>3, <1>4, <1>5, <1>13 DEF ItemKept, ItemHolds
  <1>16. UsedKeys' = UsedKeys
    BY <1>2 DEF UsedKeys
  <1>17. proc' \in [Procs -> ProcRecords] /\ (\A q \in Procs \ {p} : proc'[q] = proc[q])
         /\ ProcHolds(p)' /\ Holds(p)' \subseteq Holds(p)
    <2>1. CASE action # "auto_approve"
      <3>1. Become(p, Idle)
        BY <1>1, <2>1
      <3>2. /\ proc' \in [Procs -> ProcRecords] /\ proc'[p] = Idle
            /\ \A q \in Procs \ {p} : proc'[q] = proc[q]
        BY <1>2, <3>1, IdleIs, Becomes
      <3>3. Holds(p)' = {}
        BY <3>2, IdleIs, NoRowsAre DEF Holds, StagedIn
      <3> QED
        BY <3>2, <3>3, <1>2, IdleHolds
    <2>2. CASE action = "auto_approve"
      <3> DEFINE state == [[proc[p] EXCEPT !.pc = "committed"] EXCEPT !.rev = r]
      <3>1. Become(p, state)
        BY <1>1, <2>2
      <3>2. /\ state \in ProcRecords /\ state.pc = "committed" /\ state.kind = "save"
            /\ state.rev = r /\ state.uploaded = proc[p].uploaded /\ state.made = proc[p].made
            /\ state.current = proc[p].current /\ state.item = proc[p].item
        BY <1>2, <1>4, <1>5 DEF ProcRecords
      <3> HIDE DEF state
      <3>3. /\ proc' \in [Procs -> ProcRecords] /\ proc'[p] = state
            /\ \A q \in Procs \ {p} : proc'[q] = proc[q]
        BY <1>2, <3>1, <3>2, Becomes
      <3>4. Holds(p)' = Holds(p)
        BY <3>2, <3>3 DEF Holds
      <3>5. \A s \in Revs' : revisions'[s].status = "pending" => proc[p].uploaded \cap NamedBy(s)' = {}
        BY <1>2, <1>8, <1>9, <1>10, <2>2 DEF UploadsHold
      <3>6. UploadsHold(p)'
        BY <1>2, <1>16, <3>2, <3>3, <3>4, <3>5 DEF UploadsHold, Uncommitted
      <3>7. ReadHolds(p)' /\ ReviewHolds(p)'
        BY <1>4, <1>9, <3>2, <3>3 DEF ReadHolds, ReviewHolds, read
      <3>8. PublishHolds(p)'
        BY <1>2, <1>5, <1>8, <1>9, <1>13, <2>2, <3>2, <3>3 DEF PublishHolds
      <3> QED
        BY <3>3, <3>4, <3>6, <3>7, <3>8 DEF ProcHolds
    <2> QED
      BY <2>1, <2>2
  <1>18. \A s \in Revs' \ Revs : s = r
    BY <1>9
  <1>19. {p} \in SUBSET Procs
    BY <1>2
  <1> QED
    BY <1>2, <1>9, <1>11, <1>12, <1>13, <1>14, <1>15, <1>17, <1>18, <1>19, DatabaseStep

\* The revision r is decided, and nothing else of the revisions changes.
LEMMA DecidedAre ==
    ASSUME ImageTypes, NEW r \in Revs, NEW status \in {"approved", "rejected"},
           revisions' = [revisions EXCEPT ![r].status = status], revisions[r].status = "pending"
    PROVE  /\ revisions' \in Seq(RevisionRow) /\ Revs' = Revs /\ revisions'[r].status = status
           /\ \A s \in Revs : /\ revisions'[s].rows = revisions[s].rows
                              /\ s # r => revisions'[s] = revisions[s]
                              /\ NamedBy(s)' = NamedBy(s)
           /\ RevisionsKept
  <1>1. /\ revisions \in Seq(RevisionRow) /\ Len(revisions) \in Nat /\ Revs = 1 .. Len(revisions)
        /\ \A s \in Revs : revisions[s] \in RevisionRow
    BY RevisionsAre DEF ImageTypes
  <1> DEFINE row == [revisions[r] EXCEPT !.status = status]
  <1>2. revisions' = [revisions EXCEPT ![r] = row]
    OBVIOUS
  <1>3. row \in RevisionRow /\ row.status = status /\ row.rows = revisions[r].rows
    BY <1>1 DEF RevisionRow
  <1> HIDE DEF row
  <1>4. revisions' \in Seq(RevisionRow) /\ Len(revisions') = Len(revisions)
    BY <1>1, <1>2, <1>3, ExceptSeq
  <1>5. \A s \in Revs : revisions'[s] = IF s = r THEN row ELSE revisions[s]
    BY <1>1, <1>2
  <1>6. Revs' = Revs
    BY <1>4 DEF Revs
  <1>7. \A s \in Revs : revisions'[s].rows = revisions[s].rows /\ NamedBy(s)' = NamedBy(s)
    BY <1>3, <1>5 DEF NamedBy
  <1> QED
    BY <1>3, <1>4, <1>5, <1>6, <1>7 DEF RevisionsKept

LEMMA CommitReviewStep == ASSUME ImageInv, NEW p \in Requests, CommitReview(p) PROVE ImageInv'
  <1>0. PICK r : r = proc[p].rev
    OBVIOUS
  <1> DEFINE read == proc[p].item
  <1>1. PICK e \in {"approve", "reject"} :
          /\ ApplyTransition(p, e, "none", r,
                [revisions EXCEPT ![r].status = IF e = "approve" THEN "approved" ELSE "rejected"])
          /\ e = "approve" => StartPublish(p, proc[p].current, proc[p].previous)
          /\ e = "reject" => Become(p, Idle)
    BY <1>0 DEF CommitReview
  <1>2. /\ p \in Procs /\ proc[p].pc = "loaded" /\ proc[p].kind = "review"
        /\ UNCHANGED <<objects, uploads, doomed>>
        /\ ImageTypes /\ PointersHold /\ KeysHold
        /\ UploadsHold(p) /\ ReadHolds(p) /\ ReviewHolds(p) /\ PublishHolds(p)
    BY DEF Procs, CommitReview, At, ImageInv, ProcHolds
  <1> DEFINE status == IF e = "approve" THEN "approved" ELSE "rejected"
  <1>3. /\ proc[p].lock = lockVersion /\ Accepts(e, read, "none", r)
        /\ item' = After(e, read, "none", r) /\ lockVersion' = lockVersion + 1
        /\ revisions' = [revisions EXCEPT ![r].status = status]
    BY <1>1 DEF ApplyTransition
  <1>4. /\ proc[p] \in ProcRecords /\ read \in ItemRecords(Nat) /\ item \in ItemRecords(Nat)
        /\ lockVersion \in Nat /\ proc[p].current \in ImageRows /\ proc[p].previous \in ImageRows
        /\ read.app = item.app /\ read.pend = item.pend /\ read.mat \in Revs \cup {NoRev}
    BY <1>2, <1>3 DEF ImageTypes, ProcRecords, ReadHolds
  <1>5. r \in Nat /\ r \in Revs /\ RowsRead(p)
    BY <1>0, <1>2, <1>4 DEF ReviewHolds, RowsRead, ProcRecords
  <1>6. /\ item' \in ItemRecords(Nat) /\ ValidItem(item') /\ read.pend = r /\ r # NoRev
        /\ item'.pend = NoRev
        /\ e = "approve" => item'.mat = r /\ item'.app = r
        /\ e = "reject" => item'.app = item.app /\ item'.mat \in {NoRev, item.app}
    BY <1>3, <1>4, <1>5, AfterIsItem, ReviewMakes
  <1> HIDE DEF read
  <1>7. revisions[r].status = "pending"
    BY <1>2, <1>4, <1>6 DEF PointersHold
  <1>8. status \in {"approved", "rejected"} /\ (e = "approve" => status = "approved")
    OBVIOUS
  <1> HIDE DEF status
  <1>9. /\ revisions' \in Seq(RevisionRow) /\ Revs' = Revs /\ revisions'[r].status = status
        /\ \A s \in Revs : /\ revisions'[s].rows = revisions[s].rows
                           /\ s # r => revisions'[s] = revisions[s]
                           /\ NamedBy(s)' = NamedBy(s)
        /\ RevisionsKept
    BY <1>2, <1>3, <1>5, <1>7, <1>8, DecidedAre
  <1>10. PointersHold'
    BY <1>2, <1>5, <1>6, <1>7, <1>8, <1>9 DEF PointersHold
  <1>11. ItemKept /\ ItemHolds' /\ lockVersion' \in Nat
    BY <1>3, <1>4, <1>6 DEF ItemKept, ItemHolds
  <1>12. UsedKeys' = UsedKeys
    BY <1>2 DEF UsedKeys
  <1>13. proc' \in [Procs -> ProcRecords] /\ (\A q \in Procs \ {p} : proc'[q] = proc[q])
         /\ ProcHolds(p)' /\ Holds(p)' \subseteq Holds(p)
    <2>1. CASE Become(p, Idle)
      <3>1. /\ proc' \in [Procs -> ProcRecords] /\ proc'[p] = Idle
            /\ \A q \in Procs \ {p} : proc'[q] = proc[q]
        BY <1>2, <2>1, IdleIs, Becomes
      <3>2. Holds(p)' = {}
        BY <3>1, IdleIs, NoRowsAre DEF Holds, StagedIn
      <3> QED
        BY <1>2, <3>1, <3>2, IdleHolds
    <2>2. CASE ~Become(p, Idle)
      <3> DEFINE state == [[[[proc[p] EXCEPT !.pc = "copying"] EXCEPT !.current = proc[p].current]
                            EXCEPT !.previous = proc[p].previous]
                            EXCEPT !.todo = Targets(proc[p].current, proc[p].previous)]
      <3>1. e = "approve" /\ Become(p, state)
        BY <1>1, <2>2 DEF StartPublish
      <3>2. /\ Targets(proc[p].current, proc[p].previous) \subseteq Keys
            /\ Targets(proc[p].current, proc[p].previous) \cap StagedKeys = {}
            /\ Targets(proc[p].current, proc[p].previous) \cap PublicKeys
                 \subseteq {Public(h) : h \in DOMAIN proc[p].current}
        BY <1>4, Targeted
      <3>3. /\ state \in ProcRecords /\ state.pc = "copying" /\ state.kind = "review"
            /\ state.rev = r /\ state.uploaded = proc[p].uploaded /\ state.made = proc[p].made
            /\ state.current = proc[p].current /\ state.item = proc[p].item
            /\ state.todo = Targets(proc[p].current, proc[p].previous)
        BY <1>0, <1>2, <1>4, <3>2 DEF ProcRecords
      <3> HIDE DEF state
      <3>4. /\ proc' \in [Procs -> ProcRecords] /\ proc'[p] = state
            /\ \A q \in Procs \ {p} : proc'[q] = proc[q]
        BY <1>2, <3>1, <3>3, Becomes
      <3>5. Holds(p)' = Holds(p)
        BY <3>3, <3>4 DEF Holds
      <3>6. \A s \in Revs' : revisions'[s].status = "pending" =>
              s # r /\ proc[p].uploaded \cap NamedBy(s)' = {}
        BY <1>2, <1>8, <1>9, <3>1 DEF UploadsHold
      <3>7. UploadsHold(p)'
        BY <1>2, <1>12, <3>3, <3>4, <3>5, <3>6 DEF UploadsHold, Uncommitted
      <3>8. ReadHolds(p)' /\ ReviewHolds(p)'
        BY <1>4, <1>9, <3>3, <3>4 DEF ReadHolds, ReviewHolds, read
      <3>9. RowsRead(p)'
        BY <1>5, <1>9, <1>0, <3>3, <3>4 DEF RowsRead
      <3>10. \A s \in Revs' : revisions'[s].status = "pending" =>
               KeysOf(proc[p].current) \cap NamedBy(s)' = {}
        BY <1>0, <1>2, <1>9, <3>6 DEF ReviewHolds
      <3>11. item'.app # NoRev /\ revisions'[r].status = "approved"
        BY <1>6, <1>8, <1>9, <3>1
      <3>12. PublishHolds(p)'
        BY <1>2, <1>5, <1>9, <3>2, <3>3, <3>4, <3>9, <3>10, <3>11 DEF PublishHolds
      <3> QED
        BY <3>4, <3>5, <3>7, <3>8, <3>12 DEF ProcHolds
    <2> QED
      BY <2>1, <2>2
  <1>14. Revs' \ Revs = {} /\ {p} \in SUBSET Procs
    BY <1>2, <1>9
  <1> QED
    BY <1>2, <1>6, <1>9, <1>10, <1>11, <1>13, <1>14, DatabaseStep

LEMMA AdministerStep ==
    ASSUME ImageInv, NEW event \in {"delete", "emergency_hide", "restore"}, Administer(event)
    PROVE  ImageInv'
  <1>0. PICK x : x = SupersededBy(event, item)
    OBVIOUS
  <1>1. /\ Accepts(event, item, "none", NoRev) /\ ~IsIdempotent(event, item)
        /\ item' = After(event, item, "none", NoRev) /\ lockVersion' = lockVersion + 1
        /\ revisions' = Superseded(revisions, x)
        /\ UNCHANGED <<objects, uploads, doomed>> /\ proc' = proc
        /\ ImageTypes /\ PointersHold
    BY <1>0 DEF Administer, ImageInv
  <1>2. item \in ItemRecords(Nat) /\ lockVersion \in Nat /\ proc \in [Procs -> ProcRecords]
    BY <1>1 DEF ImageTypes
  <1>3. NoRev \in Nat
    BY DEF NoRev
  <1>4. /\ item' \in ItemRecords(Nat) /\ ValidItem(item') /\ item'.app = item.app
        /\ item'.mat \in {NoRev, item.mat}
        /\ item'.pend = IF event = "delete" THEN NoRev ELSE item.pend
    BY <1>1, <1>2, <1>3, AfterIsItem, AdministrationMakes
  <1>5. /\ x = IF event = "delete" THEN item.pend ELSE NoRev
        /\ x \in Revs \cup {NoRev} /\ (x # NoRev => revisions[x].status = "pending")
    BY <1>0, <1>1 DEF SupersededBy, SubmitEvents, PointersHold
  <1>6. /\ revisions' \in Seq(RevisionRow) /\ Len(revisions') = Len(revisions)
        /\ \A s \in Revs : /\ revisions'[s].rows = revisions[s].rows
                           /\ s # x => revisions'[s] = revisions[s]
                           /\ revisions'[s].status = "pending" => revisions[s].status = "pending"
                           /\ revisions[s].status = "approved" => revisions'[s].status = "approved"
    BY <1>1, <1>5, SupersededAre
  <1>7. Revs' = Revs /\ \A s \in Revs : NamedBy(s)' = NamedBy(s)
    BY <1>6 DEF Revs, NamedBy
  <1>8. RevisionsKept
    BY <1>6, <1>7 DEF RevisionsKept
  <1>9. NoRev \notin Revs
    BY <1>1, RevisionsAre
  <1>10. PointersHold'
    BY <1>1, <1>4, <1>5, <1>6, <1>7, <1>9 DEF PointersHold
  <1>11. ItemKept /\ ItemHolds' /\ lockVersion' \in Nat
    BY <1>1, <1>2, <1>4 DEF ItemKept, ItemHolds
  <1>12. {} \in SUBSET Procs /\ Revs' \ Revs = {} /\ \A q \in Procs \ {} : proc'[q] = proc[q]
    BY <1>1, <1>7
  <1>13. proc' \in [Procs -> ProcRecords] /\ \A q \in {} : ProcHolds(q)' /\ Holds(q)' \subseteq Holds(q)
    BY <1>1, <1>2
  <1> QED
    BY <1>1, <1>4, <1>6, <1>8, <1>10, <1>11, <1>12, <1>13, DatabaseStep

\* The keys a publication writes are public and audit keys, and a row keeps its pictures.
LEMMA PublishedAre ==
    ASSUME ImageTypes, NEW p \in Procs, RowsRead(p), NEW r \in Revs
    PROVE  /\ PublishedRows(p, r) \in ImageRows
           /\ DOMAIN PublishedRows(p, r) = DOMAIN revisions[r].rows
           /\ StagedIn(KeysOf(PublishedRows(p, r))) \subseteq NamedBy(r)
  <1> DEFINE audited == {Public(h) : h \in Dropped(proc[p].current, proc[p].previous)}
             rows == IF r = proc[p].rev
                     THEN [h \in DOMAIN proc[p].current |-> Public(h)] ELSE revisions[r].rows
             written == [h \in DOMAIN rows |-> IF rows[h] \in audited THEN Audit(h) ELSE rows[h]]
  <1>1. PublishedRows(p, r) = written
    BY DEF PublishedRows
  <1>2. proc[p].current \in ImageRows /\ revisions[r].rows \in ImageRows
    BY RevisionsAre DEF ImageTypes, ProcRecords
  <1>3. /\ DOMAIN rows = DOMAIN revisions[r].rows /\ DOMAIN rows \subseteq Pictures
        /\ \A h \in DOMAIN rows : rows[h] = Public(h) \/ rows[h] = revisions[r].rows[h]
    BY <1>2, RowsHave DEF RowsRead
  <1>4. \A h \in DOMAIN rows : /\ rows[h] \in Keys
                               /\ rows[h] \in StagedKeys => rows[h] \in NamedBy(r)
    <2>1. \A h \in Pictures : Public(h) \in Keys \ StagedKeys
      BY KeyKinds
    <2>2. \A h \in DOMAIN revisions[r].rows :
            /\ revisions[r].rows[h] \in Keys
            /\ revisions[r].rows[h] \in StagedKeys => revisions[r].rows[h] \in NamedBy(r)
      BY <1>2, RowsHave DEF NamedBy, StagedIn, KeysOf
    <2> HIDE DEF rows
    <2> QED
      BY <1>3, <2>1, <2>2
  <1> HIDE DEF rows, audited
  <1>5. \A h \in DOMAIN rows : /\ written[h] \in Keys
                               /\ written[h] \in StagedKeys => written[h] \in NamedBy(r)
    <2>1. \A h \in Pictures : Audit(h) \in Keys \ StagedKeys
      BY KeyKinds
    <2> QED
      BY <1>3, <1>4, <2>1
  <1>6. DOMAIN rows \in SUBSET Pictures /\ written \in [DOMAIN rows -> Keys] /\ DOMAIN written = DOMAIN rows
    BY <1>3, <1>5
  <1> HIDE DEF written
  <1>7. written \in ImageRows
    BY <1>6, RowsAre
  <1>8. StagedIn(KeysOf(written)) \subseteq NamedBy(r)
    BY <1>5, <1>6 DEF StagedIn, KeysOf
  <1> QED
    BY <1>1, <1>3, <1>6, <1>7, <1>8

LEMMA ApplyStep == ASSUME ImageInv, NEW p \in Procs, Apply(p) PROVE ImageInv'
  <1> DEFINE state == [[proc[p] EXCEPT !.pc = "cleaning"] EXCEPT !.made = {}]
  <1>1. /\ proc[p].pc = "copying" /\ CanApply(p) /\ Become(p, state)
        /\ revisions' = [r \in Revs |-> [revisions[r] EXCEPT !.rows = PublishedRows(p, r)]]
        /\ item' = IF item.public = "placeholder" THEN [item EXCEPT !.public = "visible"] ELSE item
        /\ UNCHANGED <<lockVersion, objects, uploads, doomed>>
        /\ ImageTypes /\ ItemHolds /\ PointersHold
        /\ UploadsHold(p) /\ ReadHolds(p) /\ PublishHolds(p)
    BY DEF Apply, At, ImageInv, ProcHolds
  <1>2. /\ proc[p] \in ProcRecords /\ item \in ItemRecords(Nat) /\ lockVersion \in Nat
        /\ RowsRead(p) /\ item.app # NoRev
    BY <1>1 DEF ImageTypes, PublishHolds
  <1>3. /\ Len(revisions) \in Nat /\ Revs = 1 .. Len(revisions) /\ NoRev \notin Revs
        /\ \A r \in Revs : revisions[r] \in RevisionRow
    BY <1>1, RevisionsAre
  <1>4. ASSUME NEW r \in Revs
        PROVE  /\ revisions'[r] \in RevisionRow /\ revisions'[r].status = revisions[r].status
               /\ DOMAIN revisions'[r].rows = DOMAIN revisions[r].rows
               /\ NamedBy(r)' \subseteq NamedBy(r)
    <2>1. /\ PublishedRows(p, r) \in ImageRows
          /\ DOMAIN PublishedRows(p, r) = DOMAIN revisions[r].rows
          /\ StagedIn(KeysOf(PublishedRows(p, r))) \subseteq NamedBy(r)
      BY <1>1, <1>2, PublishedAre
    <2>2. revisions'[r] = [revisions[r] EXCEPT !.rows = PublishedRows(p, r)]
      BY <1>1
    <2>3. /\ revisions'[r].status = revisions[r].status
          /\ revisions'[r].rows = PublishedRows(p, r) /\ revisions'[r] \in RevisionRow
      BY <1>3, <2>1, <2>2 DEF RevisionRow
    <2>4. NamedBy(r)' = StagedIn(KeysOf(PublishedRows(p, r)))
      BY <2>3 DEF NamedBy
    <2> QED
      BY <2>1, <2>3, <2>4
  <1>5. revisions' \in Seq(RevisionRow) /\ Revs' = Revs
    <2>1. revisions' \in [1 .. Len(revisions) -> RevisionRow]
      BY <1>1, <1>3, <1>4
    <2>2. DOMAIN revisions' = 1 .. Len(revisions)
      BY <1>1, <1>3
    <2>3. revisions' \in Seq(RevisionRow)
      BY <1>3, <2>1, SeqDef
    <2>4. Len(revisions') = Len(revisions)
      BY <1>3, <2>2, <2>3, LenProperties
    <2> QED
      BY <2>3, <2>4 DEF Revs
  <1>6. RevisionsKept
    BY <1>4, <1>5 DEF RevisionsKept
  <1>7. /\ item' \in ItemRecords(Nat) /\ item'.app = item.app /\ item'.pend = item.pend
        /\ item'.mat = item.mat
    BY <1>1, <1>2 DEF ItemRecords, PublicStates
  <1>8. ItemKept /\ lockVersion' \in Nat
    BY <1>1, <1>2, <1>7 DEF ItemKept
  <1>9. PointersHold'
    BY <1>1, <1>4, <1>5, <1>7 DEF PointersHold
  <1>10. ItemHolds'
    <2>1. CASE item.public # "placeholder"
      BY <1>1, <2>1 DEF ItemHolds, Candidate
    <2>2. CASE item.public = "placeholder" /\ ValidItem(item)
      <3>1. item.lifecycle = "active"
        BY <1>1 DEF CanApply
      <3>2. ValidActive(item)
        BY <2>2, <3>1 DEF ValidItem, EmptyItem
      <3>3. item.app = NoRev
        BY <2>2, <3>2 DEF ValidActive
      <3> QED
        BY <1>2, <3>3
    <2>3. CASE item.public = "placeholder" /\ ~ValidItem(item)
      BY <1>1, <2>3 DEF ItemHolds
    <2> QED
      BY <2>1, <2>2, <2>3
  <1>11. /\ state \in ProcRecords /\ state.pc = "cleaning" /\ state.kind = proc[p].kind
         /\ state.uploaded = proc[p].uploaded /\ state.current = proc[p].current
         /\ state.item = proc[p].item /\ state.made = {}
    BY <1>2 DEF ProcRecords
  <1> HIDE DEF state
  <1>12. /\ proc' \in [Procs -> ProcRecords] /\ proc'[p] = state
         /\ \A q \in Procs \ {p} : proc'[q] = proc[q]
    BY <1>1, <1>11, Becomes
  <1>13. Holds(p)' = Holds(p) /\ UsedKeys' = UsedKeys
    BY <1>1, <1>11, <1>12 DEF Holds, UsedKeys
  <1>14. \A r \in Revs' : revisions'[r].status = "pending" =>
           /\ proc[p].uploaded \cap NamedBy(r)' = {}
           /\ KeysOf(proc[p].current) \cap NamedBy(r)' = {}
    BY <1>1, <1>4, <1>5 DEF UploadsHold, PublishHolds
  <1>15. UploadsHold(p)'
    BY <1>1, <1>11, <1>12, <1>13, <1>14 DEF UploadsHold, Uncommitted
  <1>16. ReadHolds(p)' /\ ReviewHolds(p)'
    BY <1>1, <1>5, <1>11, <1>12 DEF ReadHolds, ReviewHolds
  <1>17. PublishHolds(p)'
    BY <1>11, <1>12, <1>14 DEF PublishHolds
  <1>18. Revs' \ Revs = {} /\ {p} \in SUBSET Procs
    BY <1>5
  <1>19. ProcHolds(p)' /\ Holds(p)' \subseteq Holds(p)
    BY <1>13, <1>15, <1>16, <1>17 DEF ProcHolds
  <1> QED
    BY <1>1, <1>5, <1>6, <1>7, <1>8, <1>9, <1>10, <1>12, <1>18, <1>19, DatabaseStep

\* What is taken back becomes a row the recovery worker can bring back.
LEMMA RevertStep == ASSUME ImageInv, NEW p \in Procs, Revert(p) PROVE ImageInv'
  <1>1. /\ proc[p].pc = "failed" /\ (Reverted \/ UNCHANGED <<item, media>>)
        /\ Become(p, IF proc[p].kind = "save" THEN [proc[p] EXCEPT !.pc = "rollback"] ELSE Idle)
        /\ UNCHANGED <<lockVersion, revisions, objects, uploads, doomed>>
        /\ ImageTypes /\ ItemHolds /\ PointersHold
        /\ UploadsHold(p) /\ ReadHolds(p) /\ PublishHolds(p)
    BY DEF Revert, At, ImageInv, ProcHolds
  <1>2. /\ proc[p] \in ProcRecords /\ item \in ItemRecords(Nat) /\ lockVersion \in Nat
        /\ revisions \in Seq(RevisionRow) /\ item.app # NoRev
    BY <1>1 DEF ImageTypes, PublishHolds
  <1>3. \/ item' = item
        \/ item.public \in {"visible", "placeholder"} /\ item' = [item EXCEPT !.public = "placeholder"]
    BY <1>1 DEF Reverted
  <1>4. /\ item' \in ItemRecords(Nat) /\ item'.app = item.app /\ item'.pend = item.pend
        /\ item'.mat = item.mat
    BY <1>2, <1>3 DEF ItemRecords, PublicStates
  <1>5. ItemHolds'
    <2>1. CASE item' = item
      BY <1>1, <2>1 DEF ItemHolds, Candidate
    <2>2. CASE item.public = "placeholder" /\ item' = [item EXCEPT !.public = "placeholder"]
      <3>1. item' = item
        BY <1>2, <2>2 DEF ItemRecords
      <3> QED
        BY <2>1, <3>1
    <2>3. CASE item.public = "visible" /\ item' = [item EXCEPT !.public = "placeholder"]
      <3>1. ValidItem(item)
        BY <1>1, <2>3 DEF ItemHolds, Candidate
      <3>2. item.lifecycle = "active"
        BY <2>3, <3>1 DEF ValidItem, EmptyItem
      <3>3. [item' EXCEPT !.public = "visible"] = item
        BY <1>2, <2>3 DEF ItemRecords
      <3>4. item'.lifecycle = "active" /\ item'.public = "placeholder"
        BY <1>2, <2>3, <3>2 DEF ItemRecords
      <3> QED
        BY <1>2, <1>4, <3>1, <3>3, <3>4 DEF ItemHolds, Candidate
    <2> QED
      BY <1>3, <2>1, <2>2, <2>3
  <1>6. /\ Revs' = Revs /\ UsedKeys' = UsedKeys /\ \A r \in Revs : NamedBy(r)' = NamedBy(r)
    BY <1>1 DEF Revs, UsedKeys, NamedBy
  <1>7. RevisionsKept /\ ItemKept /\ PointersHold'
    BY <1>1, <1>4, <1>6 DEF RevisionsKept, ItemKept, PointersHold
  <1>8. proc' \in [Procs -> ProcRecords] /\ (\A q \in Procs \ {p} : proc'[q] = proc[q])
        /\ ProcHolds(p)' /\ Holds(p)' \subseteq Holds(p)
    <2>1. CASE proc[p].kind # "save"
      <3>1. /\ proc' \in [Procs -> ProcRecords] /\ proc'[p] = Idle
            /\ \A q \in Procs \ {p} : proc'[q] = proc[q]
        BY <1>1, <2>1, IdleIs, Becomes
      <3>2. Holds(p)' = {}
        BY <3>1, IdleIs, NoRowsAre DEF Holds, StagedIn
      <3> QED
        BY <3>1, <3>2, IdleHolds
    <2>2. CASE proc[p].kind = "save"
      <3> DEFINE state == [proc[p] EXCEPT !.pc = "rollback"]
      <3>1. Become(p, state)
        BY <1>1, <2>2
      <3>2. /\ state \in ProcRecords /\ state.pc = "rollback" /\ state.kind = "save"
            /\ state.uploaded = proc[p].uploaded /\ state.current = proc[p].current
            /\ state.item = proc[p].item /\ state.made = proc[p].made
        BY <1>2, <2>2 DEF ProcRecords
      <3> HIDE DEF state
      <3>3. /\ proc' \in [Procs -> ProcRecords] /\ proc'[p] = state
            /\ \A q \in Procs \ {p} : proc'[q] = proc[q]
        BY <1>1, <3>1, <3>2, Becomes
      <3>4. Holds(p)' = Holds(p)
        BY <3>2, <3>3 DEF Holds
      <3>5. UploadsHold(p)'
        BY <1>1, <1>6, <3>2, <3>3, <3>4 DEF UploadsHold, Uncommitted
      <3>6. ReadHolds(p)' /\ ReviewHolds(p)' /\ PublishHolds(p)'
        BY <1>1, <1>6, <3>2, <3>3 DEF ReadHolds, ReviewHolds, PublishHolds
      <3> QED
        BY <3>3, <3>4, <3>5, <3>6 DEF ProcHolds
    <2> QED
      BY <2>1, <2>2
  <1>9. Revs' \ Revs = {} /\ {p} \in SUBSET Procs
    BY <1>6
  <1> QED
    BY <1>1, <1>2, <1>4, <1>5, <1>7, <1>8, <1>9, DatabaseStep

-----------------------------------------------------------------------------
(* The cleanup worker.                                                     *)

LEMMA CleanupStep ==
    ASSUME ImageInv, DatabaseKept, UNCHANGED <<uploads, proc>>, objects' \subseteq objects,
           StagedIn(doomed') \subseteq UsedKeys,
           \A r \in Revs : NamedBy(r) \cap doomed' = {},
           \A r \in Revs : NamedBy(r) \cap (objects \ objects') = {},
           \A p \in Procs : Uncommitted(p) =>
              /\ proc[p].uploaded \cap (objects \ objects') = {}
              /\ proc[p].uploaded \cap doomed' = {}
    PROVE  ImageInv'
  <1>1. /\ ImageTypes /\ ItemHolds /\ PointersHold /\ KeysHold
        /\ \A q \in Procs : ProcHolds(q) /\ UploadsHold(q)
    BY DEF ImageInv, ProcHolds
  <1>2. /\ UNCHANGED <<item, lockVersion, revisions, uploads, proc>> /\ Revs' = Revs
        /\ UsedKeys' = UsedKeys /\ (\A r \in Revs : NamedBy(r)' = NamedBy(r))
        /\ \A p \in Procs : Holds(p)' = Holds(p)
    BY DEF DatabaseKept, Revs, UsedKeys, NamedBy, Holds
  <1>3. ImageTypes' /\ ItemHolds' /\ PointersHold'
    BY <1>1, <1>2 DEF ImageTypes, ItemHolds, Candidate, PointersHold
  <1>4. KeysHold'
    <2>1. StagedIn(objects') \subseteq UsedKeys'
      BY <1>1, <1>2 DEF KeysHold, StagedIn
    <2> QED
      BY <1>1, <1>2, <2>1 DEF KeysHold
  <1>5. RevisionsKept /\ ItemKept
    BY <1>2 DEF RevisionsKept, ItemKept
  <1>6. ASSUME NEW p \in Procs PROVE ProcHolds(p)'
    <2>1. OwnKept(p)
      BY <1>1, <1>2 DEF OwnKept, UploadsHold
    <2> QED
      BY <1>1, <1>2, <1>5, <2>1, OtherHolds DEF ImageTypes
  <1> QED
    BY <1>3, <1>4, <1>6 DEF ImageInv

LEMMA CleanupListStep == ASSUME ImageInv, CleanupList PROVE ImageInv'
  <1>1. /\ AllIdle /\ doomed' = objects \ Referenced /\ DatabaseKept
        /\ UNCHANGED <<objects, uploads, proc>> /\ KeysHold
    BY DEF CleanupList, ImageInv
  <1>2. \A p \in Procs : ~Uncommitted(p)
    BY <1>1 DEF AllIdle, At, Uncommitted
  <1>3. \A r \in Revs : NamedBy(r) \cap doomed' = {}
    BY <1>1 DEF Referenced, NamedBy, StagedIn
  <1>4. StagedIn(doomed') \subseteq UsedKeys /\ objects' \subseteq objects /\ objects \ objects' = {}
    BY <1>1 DEF KeysHold, StagedIn
  <1> QED
    BY <1>1, <1>2, <1>3, <1>4, CleanupStep

LEMMA CleanupDeleteStep == ASSUME ImageInv, CleanupDelete PROVE ImageInv'
  <1>1. PICK key \in doomed : objects' = objects \ {key} /\ doomed' = doomed \ {key}
    BY DEF CleanupDelete
  <1>2. /\ DatabaseKept /\ UNCHANGED <<uploads, proc>> /\ KeysHold
        /\ \A p \in Procs : UploadsHold(p)
    BY DEF CleanupDelete, ImageInv, ProcHolds
  <1>3. /\ StagedIn(doomed') \subseteq UsedKeys /\ objects' \subseteq objects
        /\ \A r \in Revs : NamedBy(r) \cap doomed' = {}
        /\ \A r \in Revs : NamedBy(r) \cap (objects \ objects') = {}
    BY <1>1, <1>2 DEF KeysHold, StagedIn
  <1>4. \A p \in Procs : Uncommitted(p) =>
          /\ proc[p].uploaded \cap (objects \ objects') = {}
          /\ proc[p].uploaded \cap doomed' = {}
    BY <1>1, <1>2 DEF UploadsHold
  <1> QED
    BY <1>2, <1>3, <1>4, CleanupStep

LEMMA CleanupAuditStep == ASSUME ImageInv, NEW r, CleanupAudit(r) PROVE ImageInv'
  <1> DEFINE row == [status |-> "removed", rows |-> NoRows]
  <1>1. /\ AllIdle /\ r \in Revs /\ ~HasRevision(item, r)
        /\ revisions' = [revisions EXCEPT ![r] = row]
        /\ UNCHANGED <<item, lockVersion, objects, uploads, doomed, proc>>
        /\ ImageTypes /\ ItemHolds /\ PointersHold
        /\ \A q \in Procs : UploadsHold(q) /\ ReadHolds(q) /\ PublishHolds(q)
    BY DEF CleanupAudit, ImageInv, ProcHolds
  <1>2. row \in RevisionRow /\ row.status = "removed" /\ KeysOf(row.rows) = {}
    BY NoRowsAre DEF RevisionRow
  <1> HIDE DEF row
  <1>3. /\ revisions' \in Seq(RevisionRow) /\ Revs' = Revs
        /\ \A s \in Revs : revisions'[s] = IF s = r THEN row ELSE revisions[s]
    <2>1. revisions \in Seq(RevisionRow) /\ Len(revisions) \in Nat /\ Revs = 1 .. Len(revisions)
      BY <1>1, RevisionsAre DEF ImageTypes
    <2>2. revisions' \in Seq(RevisionRow) /\ Len(revisions') = Len(revisions)
      BY <1>1, <1>2, <2>1, ExceptSeq
    <2> QED
      BY <1>1, <2>1, <2>2 DEF Revs
  <1>4. \A s \in Revs : NamedBy(s)' = IF s = r THEN {} ELSE NamedBy(s)
    BY <1>2, <1>3 DEF NamedBy, StagedIn
  <1>5. KeysHold'
    <2>1. \A s \in Revs : /\ NamedBy(s)' \subseteq NamedBy(s)
                          /\ revisions'[s].status = "pending" => revisions[s].status = "pending"
      BY <1>2, <1>3, <1>4
    <2> QED
      BY <1>1, <1>3, <2>1, KeysStay
  <1>6. PointersHold' /\ ItemHolds' /\ ImageTypes'
    BY <1>1, <1>3 DEF PointersHold, HasRevision, ItemHolds, Candidate, ImageTypes
  <1>7. ASSUME NEW p \in Procs PROVE ProcHolds(p)'
    <2>1. proc[p].pc = "idle" /\ proc'[p] = proc[p] /\ UsedKeys' = UsedKeys
      BY <1>1 DEF AllIdle, At, UsedKeys
    <2>2. Holds(p) = {} /\ Holds(p)' = {} /\ proc[p].uploaded = {}
      BY <1>1, <2>1 DEF UploadsHold, Holds
    <2>3. UploadsHold(p)'
      BY <2>1, <2>2 DEF UploadsHold, Uncommitted
    <2>4. ReadHolds(p)' /\ ReviewHolds(p)' /\ PublishHolds(p)'
      BY <1>1, <1>3, <2>1 DEF ReadHolds, ReviewHolds, PublishHolds
    <2> QED
      BY <2>3, <2>4 DEF ProcHolds
  <1> QED
    BY <1>5, <1>6, <1>7 DEF ImageInv

-----------------------------------------------------------------------------
(* Every step.                                                             *)

LEMMA InitHolds == Init => ImageInv
  <1> SUFFICES ASSUME Init PROVE ImageInv
    OBVIOUS
  <1>1. /\ item = EmptyItem /\ lockVersion = 0 /\ revisions = <<>> /\ objects = {} /\ uploads = 0
        /\ doomed = {} /\ proc = [p \in Procs |-> Idle]
    BY DEF Init
  <1>2. Revs = {}
    BY <1>1 DEF Revs
  <1>3. ImageTypes
    BY <1>1, IdleIs, EmptyItemIs, ImageConstants DEF ImageTypes
  <1>4. ItemHolds /\ PointersHold
    BY <1>1, EmptyItemIs DEF ItemHolds, PointersHold, EmptyItem
  <1>5. KeysHold
    BY <1>1, <1>2 DEF KeysHold, StagedIn
  <1>6. ASSUME NEW p \in Procs PROVE ProcHolds(p)
    <2>1. proc[p] = Idle
      BY <1>1
    <2>2. Holds(p) = {}
      BY <2>1, IdleIs, NoRowsAre DEF Holds, StagedIn
    <2> QED
      BY <2>1, <2>2, IdleIs DEF ProcHolds, UploadsHold, ReadHolds, ReviewHolds, PublishHolds,
         Uncommitted
  <1> QED
    BY <1>3, <1>4, <1>5, <1>6 DEF ImageInv

\* Every step keeps the invariant, and no step but a copy makes a public object.
LEMMA EveryStep ==
    ImageInv /\ [Next]_vars =>
        /\ ImageInv'
        /\ \A h \in Pictures : Public(h) \in objects' \ objects =>
             \E r \in Revs : revisions[r].status = "approved" /\ h \in DOMAIN revisions[r].rows
  <1> DEFINE Fresh == \A h \in Pictures : Public(h) \in objects' \ objects =>
                        \E r \in Revs : revisions[r].status = "approved" /\ h \in DOMAIN revisions[r].rows
  <1> SUFFICES ASSUME ImageInv, [Next]_vars PROVE ImageInv' /\ Fresh
    OBVIOUS
  <1>1. objects' \subseteq objects => Fresh
    OBVIOUS
  <1> HIDE DEF Fresh
  <1>2. ASSUME NEW p \in Requests, Prepare(p) PROVE ImageInv' /\ Fresh
    <2>1. \E new \in SUBSET Pictures : objects' = objects \cup {Staged(uploads + 1, h) : h \in new}
      BY <1>2 DEF Prepare
    <2>2. \A h \in Pictures : Public(h) \in objects' => Public(h) \in objects
      BY <2>1 DEF Public, Staged
    <2> QED
      BY <1>2, <2>2, PrepareStep DEF Fresh
  <1>3. ASSUME NEW p \in Requests, LoadReview(p) PROVE ImageInv' /\ Fresh
    BY <1>1, <1>3, LoadReviewStep DEF LoadReview, WorldKept
  <1>4. ASSUME NEW p \in Requests, Handling(p) PROVE ImageInv' /\ Fresh
    <2>1. p \in Procs
      BY DEF Procs
    <2>2. CASE LoadItem(p)
      BY <1>1, <2>2, LoadItemStep DEF LoadItem, WorldKept
    <2>3. CASE Rollback(p)
      BY <1>1, <2>3, RollbackStep DEF Rollback
    <2>4. CASE CommitSave(p)
      BY <1>1, <2>4, CommitSaveStep DEF CommitSave
    <2>5. CASE CommitReview(p)
      BY <1>1, <2>5, CommitReviewStep DEF CommitReview
    <2>6. CASE RefuseReview(p)
      BY <1>1, <2>1, <2>6, EndStep DEF RefuseReview, WorldKept
    <2> QED
      BY <1>4, <2>2, <2>3, <2>4, <2>5, <2>6 DEF Handling
  <1>5. ASSUME NEW p \in Recoverers, Recover(p) PROVE ImageInv' /\ Fresh
    BY <1>1, <1>5, RecoverStep DEF Recover, WorldKept
  <1>6. ASSUME NEW p \in Procs, Publishing(p) PROVE ImageInv' /\ Fresh
    <2>1. CASE LoadImages(p)
      BY <1>1, <2>1, LoadImagesStep DEF LoadImages, WorldKept
    <2>2. CASE LoadImagesFails(p)
      BY <1>1, <2>2, LoadImagesFailsStep DEF LoadImagesFails
    <2>3. CASE Copy(p)
      BY <2>3, CopyStep DEF Fresh
    <2>4. CASE CopyFails(p)
      <3>1. objects' \subseteq objects
        BY <2>4 DEF CopyFails
      <3> QED
        BY <1>1, <2>4, <3>1, CopyFailsStep
    <2>5. CASE Apply(p)
      BY <1>1, <2>5, ApplyStep DEF Apply
    <2>6. CASE ApplyFails(p)
      BY <1>1, <2>6, ApplyFailsStep DEF ApplyFails
    <2>7. CASE Clean(p)
      BY <1>1, <2>7, CleanStep DEF Clean
    <2>8. CASE Revert(p)
      BY <1>1, <2>8, RevertStep DEF Revert
    <2> QED
      BY <1>6, <2>1, <2>2, <2>3, <2>4, <2>5, <2>6, <2>7, <2>8 DEF Publishing
  <1>7. ASSUME NEW p \in Procs, Stop(p) PROVE ImageInv' /\ Fresh
    BY <1>1, <1>7, EndStep DEF Stop
  <1>8. ASSUME NEW event \in {"delete", "emergency_hide", "restore"}, Administer(event)
        PROVE  ImageInv' /\ Fresh
    BY <1>1, <1>8, AdministerStep DEF Administer
  <1>9. ASSUME CleanupList PROVE ImageInv' /\ Fresh
    BY <1>1, <1>9, CleanupListStep DEF CleanupList
  <1>10. ASSUME CleanupDelete PROVE ImageInv' /\ Fresh
    BY <1>1, <1>10, CleanupDeleteStep DEF CleanupDelete
  <1>11. ASSUME NEW r \in 1 .. MaxRevisions, CleanupAudit(r) PROVE ImageInv' /\ Fresh
    BY <1>1, <1>11, CleanupAuditStep DEF CleanupAudit
  <1>12. CASE UNCHANGED vars
    <2>1. /\ DatabaseKept /\ UNCHANGED <<uploads, proc, doomed, objects>> /\ KeysHold
          /\ \A p \in Procs : UploadsHold(p)
      BY <1>12 DEF vars, DatabaseKept, ImageInv, ProcHolds
    <2>2. /\ objects' \subseteq objects /\ objects \ objects' = {}
          /\ StagedIn(doomed') \subseteq UsedKeys
          /\ \A r \in Revs : NamedBy(r) \cap doomed' = {}
          /\ \A p \in Procs : Uncommitted(p) => proc[p].uploaded \cap doomed' = {}
      BY <2>1 DEF KeysHold, UploadsHold
    <2> QED
      BY <1>1, <2>1, <2>2, CleanupStep
  <1> QED
    BY <1>2, <1>3, <1>4, <1>5, <1>6, <1>7, <1>8, <1>9, <1>10, <1>11, <1>12 DEF Next

LEMMA ImageInvariant == Spec => []ImageInv
  <1>1. Init => ImageInv
    BY InitHolds
  <1>2. ImageInv /\ [Next]_vars => ImageInv'
    BY EveryStep
  <1> QED
    BY <1>1, <1>2, PTL DEF Spec

-----------------------------------------------------------------------------
(* What the publication of a moment's pictures promises.                   *)

\* A row outside the state matrix, which every later event would refuse, is always one the
\* recovery worker lists (ListPublishRecoveryCandidates): a failed publication takes the moment
\* back to a placeholder only where its approved revision is there to bring it back.
THEOREM MomentsAreRecoverable == Spec => []AwaitingIsRecoverable
  <1>1. ImageInv => AwaitingIsRecoverable
    BY DEF ImageInv, ItemHolds, AwaitingIsRecoverable
  <1> QED
    BY <1>1, ImageInvariant, PTL

\* Nothing deletes a staging object that a revision waiting for its review names: not the
\* rollback of another save, not the clean-up after a publication, not the cleanup worker, however
\* long ago it listed its page.
THEOREM PendingPicturesStay == Spec => []PendingPicturesKept
  <1>1. ImageInv => PendingPicturesKept
    BY DEF ImageInv, KeysHold, NamedBy, StagedIn, PendingPicturesKept
  <1> QED
    BY <1>1, ImageInvariant, PTL

\* A picture reaches its public key only as a picture of a revision that is approved at that
\* moment, whichever request or recovery worker copies it.
THEOREM OnlyApprovedReachPublic == Spec => OnlyApprovedPicturesPublic
  <1>1. ImageInv /\ [Next]_vars =>
          [\A h \in Pictures : Public(h) \in objects' \ objects =>
             \E r \in Revs : revisions[r].status = "approved" /\ h \in DOMAIN revisions[r].rows]_vars
    BY EveryStep
  <1> QED
    BY <1>1, ImageInvariant, PTL DEF Spec, OnlyApprovedPicturesPublic
=============================================================================
