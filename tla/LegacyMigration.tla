-------------------------- MODULE LegacyMigration --------------------------
(***************************************************************************)
(* Bringing content from before moderation under moderation: the command   *)
(* that gives every old row an approved item, in batches from a cursor,    *)
(* its read-only verification, and the operator who enables moderation     *)
(* after a verification that found nothing missing.                        *)
(*                                                                         *)
(* The command may stop at any point and be started again from any cursor, *)
(* also while moderation runs.  Nothing but the runbook keeps users from   *)
(* writing while it works.                                                 *)
(***************************************************************************)
EXTENDS Naturals, FiniteSets, FiniteSetsExt

CONSTANTS
    LegacyRows,     \* content: <<1, n>> are moments, <<2, n>> the six other types
    LegacyUsers,    \* <<3, n>>
    MigrationBatch  \* entries per transaction

ASSUME LegacyAssumption ==
    /\ \A r \in LegacyRows : r \in {1, 2} \X (Nat \ {0})
    /\ \A u \in LegacyUsers : u \in {3} \X (Nat \ {0})
    /\ MigrationBatch \in Nat \ {0}

Phase(e) == e[1]
Id(e) == e[2]
Moment == 1
UserPhase == 3
ControlPhase == 4
DonePhase == 5

VARIABLES
    legacyRow,      \* the business row
    legacyPicture,  \* what the row refers to in the object store
    legacyItem,     \* its moderation item, with the revisions it points to
    legacyProfile,  \* moderation profiles
    legacyControl,  \* the singleton of the site
    enabled,        \* moderation.enabled of the running service
    command,        \* the run of moderation-migrate
    verified,       \* the last verification found nothing missing
    strayed         \* history: rows written without moderation, and users registered,
                    \* after they had been dealt with

moderationVars == <<legacyItem, legacyProfile, legacyControl>>
legacyVars == <<legacyRow, legacyPicture, moderationVars, enabled, command, verified, strayed>>

\* A row may be missing because its id was never used, or because it was deleted for good.
Here(r) == legacyRow[r] \notin {"none", "gone"}
NoRecord == [life |-> "none"]
Recorded(r) == legacyItem[r] # NoRecord

Registered(u) == legacyProfile[u] # "absent"
Present(e) == IF Phase(e) = UserPhase THEN Registered(e) ELSE Here(e)
Assigned(e) == IF Phase(e) = UserPhase THEN Registered(e) ELSE legacyRow[e] # "none"

\* The verification is the same program, and the operator runs one at a time.
NoRun == [pc |-> "off", phase |-> 0, id |-> 0, batch |-> {}, seen |-> << >>, found |-> {}]

LegacyInit ==
    /\ legacyRow \in [LegacyRows -> {"none", "visible", "hidden", "deleted", "gone"}]
    /\ \A r \in LegacyRows : legacyRow[r] \in {"hidden", "gone"} => Phase(r) = Moment
    /\ legacyPicture \in [LegacyRows -> {"none", "stored", "lost"}]
    /\ \A r \in LegacyRows : legacyRow[r] \notin {"visible", "hidden"} => legacyPicture[r] = "none"
    /\ legacyItem = [r \in LegacyRows |-> NoRecord]
    /\ legacyProfile \in [LegacyUsers -> {"none", "absent"}]
    /\ \A e, f \in LegacyRows \cup LegacyUsers :
            Phase(e) = Phase(f) /\ Id(e) < Id(f) /\ Assigned(f) => Assigned(e)
    /\ legacyControl = "none"
    /\ enabled = FALSE
    /\ command = NoRun
    /\ verified = FALSE
    /\ strayed = {}

-----------------------------------------------------------------------------
(* The command.                                                            *)

StartRun(phase, id) ==
    /\ command.pc = "off"
    /\ command' = [NoRun EXCEPT !.pc = "list", !.phase = phase, !.id = id]
    /\ UNCHANGED <<legacyRow, legacyPicture, moderationVars, enabled, verified>>

\* The program ends, by an error of the database, a picture it cannot read, or a stop; the
\* cursor is printed, and all that is left of it.
StopCommand ==
    /\ command.pc # "off"
    /\ command' = NoRun
    /\ UNCHANGED <<legacyRow, legacyPicture, moderationVars, enabled, verified>>

\* The entries behind the cursor, in the order of their ids.
Behind == {e \in LegacyRows \cup LegacyUsers :
                Phase(e) = command.phase /\ Id(e) > command.id /\ Present(e)}
FirstOf(S) == {e \in S : Cardinality({f \in S : Id(f) < Id(e)}) < MigrationBatch}

ListBatch ==
    /\ command.pc = "list" /\ command.phase \in 1 .. UserPhase
    /\ LET batch == FirstOf(Behind) IN
       command' = IF batch = {} THEN [command EXCEPT !.phase = @ + 1, !.id = 0]
                  ELSE [command EXCEPT !.pc = IF command.phase = UserPhase THEN "persist"
                                                                           ELSE "prepare",
                                       !.batch = batch,
                                       !.seen = [r \in batch \cap LegacyRows |-> legacyRow[r]]]
    /\ UNCHANGED <<legacyRow, legacyPicture, moderationVars, enabled, verified>>

\* The pictures of the batch are read and hashed. One of a moment must be there; what a
\* comment embeds may be gone, or be elsewhere altogether.
PrepareRecords ==
    /\ command.pc = "prepare"
    /\ \A r \in command.batch : Phase(r) = Moment => legacyPicture[r] # "lost"
    /\ command' = [command EXCEPT !.pc = "persist",
                                  !.found = {r \in command.batch : legacyPicture[r] = "stored"}]
    /\ UNCHANGED <<legacyRow, legacyPicture, moderationVars, enabled, verified>>

\* An item as it is created from what the batch has read.
LegacyRecord(r) ==
    LET seen == command.seen[r] IN
    [life |-> IF seen = "deleted" THEN "deleted" ELSE "active",
     public |-> IF seen = "visible" THEN "visible" ELSE "hidden",
     approved |-> "legacy",
     materialized |-> IF seen = "deleted" THEN "none" ELSE "legacy",
     pending |-> FALSE,
     fingerprint |-> r \in command.found]

\* An item that has its first revision is left as it is.
PersistLegacyRecord(r) ==
    IF r \notin command.batch \/ Recorded(r) THEN legacyItem[r] ELSE LegacyRecord(r)

\* One transaction for the batch. On a conflict with another transaction it fails as a
\* whole, which is the end of the program.
PersistBatch ==
    /\ command.pc = "persist"
    /\ legacyItem' = [r \in LegacyRows |-> PersistLegacyRecord(r)]
    /\ legacyProfile' = [u \in LegacyUsers |->
            IF u \in command.batch /\ legacyProfile[u] = "none" THEN "trusted"
                                                              ELSE legacyProfile[u]]
    /\ command' = [NoRun EXCEPT !.pc = "list", !.phase = command.phase,
                               !.id = Max({Id(e) : e \in command.batch})]
    /\ UNCHANGED <<legacyRow, legacyPicture, legacyControl, enabled, verified>>

EnsureLegacyControl ==
    /\ command.pc = "list" /\ command.phase = ControlPhase
    /\ legacyControl' = IF legacyControl = "none" THEN "default" ELSE legacyControl
    /\ command' = [command EXCEPT !.phase = DonePhase]
    /\ UNCHANGED <<legacyRow, legacyPicture, legacyItem, legacyProfile, enabled, verified>>
-----------------------------------------------------------------------------
(* The verification: queries one after the other, outside a transaction.   *)

\* Mutation of MissingItem: an inner join, which finds no row that has no item.
MissingJoined(r) ==
    Recorded(r) /\ (legacyItem[r].pending \/ legacyItem[r].approved # "legacy")

MissingItem(r) ==
    \/ ~Recorded(r)
    \/ legacyItem[r].approved # "legacy"
    \/ legacyItem[r].pending
    \/ legacyItem[r].life = "active" /\ legacyItem[r].materialized # legacyItem[r].approved
    \/ legacyItem[r].life = "deleted" /\ legacyItem[r].materialized # "none"

VerifyBegin ==
    /\ command.pc = "off"
    /\ command' = [NoRun EXCEPT !.pc = "verify", !.phase = 1]
    /\ verified' = FALSE
    /\ UNCHANGED <<legacyRow, legacyPicture, moderationVars, enabled>>

\* A query that finds something missing ends the program (StopCommand). So may the one over
\* the images of revisions that have no approved fingerprint, which is left out here.
NothingMissing ==
    CASE command.phase \in {1, 2} ->
            \A r \in LegacyRows : Phase(r) = command.phase /\ Here(r) => ~MissingItem(r)
      [] command.phase = UserPhase ->
            \A u \in LegacyUsers : legacyProfile[u] \in {"absent", "trusted"}
      [] OTHER -> legacyControl # "none"

VerifyNext ==
    /\ command.pc = "verify"
    /\ NothingMissing
    /\ IF command.phase < ControlPhase
       THEN command' = [command EXCEPT !.phase = @ + 1] /\ UNCHANGED verified
       ELSE command' = NoRun /\ verified' = TRUE
    /\ UNCHANGED <<legacyRow, legacyPicture, moderationVars, enabled>>
-----------------------------------------------------------------------------
(* Deployments and what users do.                                          *)

\* The runbook's condition; the code has none.
Enable ==
    /\ ~enabled /\ verified
    /\ enabled' = TRUE
    /\ UNCHANGED <<legacyRow, legacyPicture, moderationVars, command, verified>>

Disable ==
    /\ enabled
    /\ enabled' = FALSE
    /\ verified' = FALSE
    /\ UNCHANGED <<legacyRow, legacyPicture, moderationVars, command>>

\* A new row has the highest id of its table.
Newest(e) ==
    /\ ~Assigned(e)
    /\ \A f \in LegacyRows \cup LegacyUsers : Phase(f) = Phase(e) /\ Id(f) < Id(e) => Assigned(f)

\* Without moderation rows are written alone. A moment may be kept to its author, and is deleted
\* for good; the other types are deleted softly.
Displays(r) == {"visible"} \cup {s \in {"hidden"} : Phase(r) = Moment}

PlainCreate(r) ==
    /\ ~enabled /\ Newest(r)
    /\ \E made \in Displays(r) : legacyRow' = [legacyRow EXCEPT ![r] = made]
    /\ \E pic \in {"none", "stored"} : legacyPicture' = [legacyPicture EXCEPT ![r] = pic]
    /\ UNCHANGED <<moderationVars, enabled, command, verified>>

PlainChange(r) ==
    /\ ~enabled /\ legacyRow[r] \in {"visible", "hidden"}
    /\ \E new \in Displays(r) \cup {IF Phase(r) = Moment THEN "gone" ELSE "deleted"} :
            new # legacyRow[r] /\ legacyRow' = [legacyRow EXCEPT ![r] = new]
    /\ UNCHANGED <<legacyPicture, moderationVars, enabled, command, verified>>

\* With moderation a new user is given a profile after the registration has committed, and
\* goes without when that fails: no profile counts as a new one.
RegisterUser(u) ==
    /\ Newest(u)
    /\ \E given \in {"none"} \cup {p \in {"new"} : enabled} :
            legacyProfile' = [legacyProfile EXCEPT ![u] = given]
    /\ UNCHANGED <<legacyRow, legacyPicture, legacyItem, legacyControl, enabled, command, verified>>

\* The lost object of a moment is put back by hand.
RepairPicture(r) ==
    /\ legacyPicture[r] = "lost"
    /\ legacyPicture' = [legacyPicture EXCEPT ![r] = "stored"]
    /\ UNCHANGED <<legacyRow, legacyItem, legacyProfile, legacyControl, enabled, command, verified>>

\* With moderation the row and its item change together. A new text is shown and approved,
\* shown and waiting for review, or waiting alone.
Displayed(approved, waits) ==
    [life |-> "active", public |-> "visible", approved |-> approved, materialized |-> "review",
     pending |-> waits, fingerprint |-> TRUE]
Withheld == [Displayed("none", TRUE) EXCEPT !.public = "placeholder", !.materialized = "none"]

Write(r, status, changed) ==
    /\ legacyRow' = [legacyRow EXCEPT ![r] = status]
    /\ legacyItem' = [legacyItem EXCEPT ![r] = changed]
    /\ UNCHANGED <<legacyPicture, legacyProfile, legacyControl, enabled, command, verified>>

SubmitModerated(r) ==
    /\ enabled /\ Newest(r)
    /\ \/ \E shown \in Displays(r) : \/ Write(r, shown, Displayed("review", FALSE))
                                    \/ Write(r, shown, Displayed("none", TRUE))
       \/ Write(r, "hidden", Withheld)

Active(r) == Recorded(r) /\ legacyItem[r].life = "active" /\ legacyRow[r] \in {"visible", "hidden"}

EditModerated(r) ==
    /\ enabled /\ Active(r)
    /\ \/ \E shown \in Displays(r) :
            \/ Write(r, shown, Displayed("review", FALSE))
            \/ Write(r, shown, Displayed(legacyItem[r].approved, TRUE))
       \/ Write(r, legacyRow[r], [legacyItem[r] EXCEPT !.pending = TRUE])

ApproveModerated(r) ==
    /\ enabled /\ Active(r) /\ legacyItem[r].pending
    /\ \E shown \in Displays(r) : Write(r, shown, Displayed("review", FALSE))

\* What was approved last is shown again, or nothing.
RejectModerated(r) ==
    /\ enabled /\ Active(r) /\ legacyItem[r].pending
    /\ IF legacyItem[r].approved = "none"
       THEN Write(r, "hidden", [Withheld EXCEPT !.pending = FALSE, !.public = "hidden"])
       ELSE Write(r, legacyRow[r], [legacyItem[r] EXCEPT !.pending = FALSE,
                                                   !.materialized = legacyItem[r].approved])

DeleteModerated(r) ==
    /\ enabled /\ Active(r)
    /\ Write(r, "deleted", [legacyItem[r] EXCEPT !.life = "deleted", !.public = "hidden",
                                                 !.materialized = "none", !.pending = FALSE])

Govern(u) ==
    /\ enabled /\ legacyProfile[u] \in {"trusted", "new"}
    /\ legacyProfile' = [legacyProfile EXCEPT ![u] = "restricted"]
    /\ UNCHANGED <<legacyRow, legacyPicture, legacyItem, legacyControl, enabled, command, verified>>

SetControl ==
    /\ enabled /\ legacyControl = "default"
    /\ legacyControl' = "set"
    /\ UNCHANGED <<legacyRow, legacyPicture, legacyItem, legacyProfile, enabled, command, verified>>
-----------------------------------------------------------------------------
\* The migration or the verification has passed this entry.
DealtWith(e) ==
    \/ e \in LegacyRows /\ Recorded(e)
    \/ e \in command.batch
    \/ command.pc = "verify" /\ command.phase > Phase(e)
    \/ verified \/ enabled

CommandStep ==
    \/ \E phase \in 1 .. ControlPhase, id \in {0} \cup {Id(r) : r \in LegacyRows} :
            StartRun(phase, id)
    \/ StopCommand \/ ListBatch \/ PrepareRecords \/ PersistBatch \/ EnsureLegacyControl
    \/ VerifyBegin \/ VerifyNext

UnmoderatedStep(e) ==
    \/ e \in LegacyRows /\ (PlainCreate(e) \/ PlainChange(e))
    \/ e \in LegacyUsers /\ RegisterUser(e)

ModeratedStep ==
    \/ \E r \in LegacyRows : \/ SubmitModerated(r) \/ EditModerated(r) \/ ApproveModerated(r)
                       \/ RejectModerated(r) \/ DeleteModerated(r)
    \/ \E u \in LegacyUsers : Govern(u)
    \/ SetControl

LegacyNext ==
    \/ (CommandStep \/ Enable \/ Disable \/ ModeratedStep \/ \E r \in LegacyRows : RepairPicture(r))
        /\ UNCHANGED strayed
    \/ \E e \in LegacyRows \cup LegacyUsers :
            /\ UnmoderatedStep(e)
            /\ strayed' = IF DealtWith(e) THEN strayed \cup {e} ELSE strayed

LegacySpec == LegacyInit /\ [][LegacyNext]_legacyVars
-----------------------------------------------------------------------------
\* A row and its item say the same of it.
Fits(r) ==
    /\ Recorded(r)
    /\ legacyRow[r] = "deleted" <=> legacyItem[r].life = "deleted"
    /\ legacyRow[r] = "visible" => /\ legacyItem[r].public = "visible"
                                  /\ legacyItem[r].materialized # "none"
    /\ Phase(r) = Moment /\ legacyPicture[r] # "none" => legacyItem[r].fingerprint

\* While moderation is on, every row has an item that agrees with it and knows the pictures
\* of a moment, every user of before has a profile and the site its control: however often
\* the migration stopped, from whichever cursor it was resumed and whenever it was run again.
\* Left out are users who registered and rows written without moderation after the migration
\* had passed them: nothing in the program stops such writes, and neither it nor the
\* verification compares them with what they recorded before.
LegacyComplete ==
    enabled =>
        /\ \A r \in LegacyRows \ strayed : Here(r) => Fits(r)
        /\ \A u \in LegacyUsers \ strayed : legacyProfile[u] # "none"
        /\ legacyControl # "none"

\* What moderation has come to hold, a run of the migration leaves as it is: only requests
\* served with moderation change an item, a profile or the control once it is there.
LegacyKept ==
    CommandStep =>
        /\ \A r \in LegacyRows : Recorded(r) => legacyItem'[r] = legacyItem[r]
        /\ \A u \in LegacyUsers : legacyProfile[u] # "none" => legacyProfile'[u] = legacyProfile[u]
        /\ legacyControl # "none" => legacyControl' = legacyControl
=============================================================================
