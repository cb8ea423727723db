------------------------------ MODULE Avatars -------------------------------
(***************************************************************************)
(* The pictures of the users.  A user's row names its avatar by key, the   *)
(* key of a new avatar is the hash of its content, and users who chose the *)
(* same picture share the object.  Whoever stops using an object deletes   *)
(* it, if by a count nobody else does.                                     *)
(*                                                                         *)
(* Requests register an account, change an avatar or clear one; an         *)
(* administrator has all avatars normalised, which recompresses them one   *)
(* by one and then deletes the objects nobody uses.  Row and object are    *)
(* not covered by one transaction, and any call may fail.                  *)
(***************************************************************************)
EXTENDS FiniteSets

CONSTANTS
    Users, Keys,
    NoKey,          \* a user without an avatar
    NoUser,         \* in the place of a user, for an object found in the store
    Changers,       \* the requests that change or clear one avatar
    Chosen,         \* the keys a new avatar may get
    NewKey,         \* the key of an avatar once it is recompressed: the extension may change
    Shown,          \* the avatars the users begin with
    Stored          \* what the objects are to begin with

\* none: no object; good: as the site wants it; raw: to be recompressed; bad: no picture.
Objects == {"none", "good", "raw", "bad"}

ASSUME AvatarsAssumption ==
    /\ IsFiniteSet(Users) /\ IsFiniteSet(Keys)
    /\ NoKey \notin Keys /\ NoUser \notin Users
    /\ Chosen \subseteq Keys
    /\ NewKey \in [Keys -> Keys] /\ \A k \in Keys : NewKey[NewKey[k]] = NewKey[k]
    /\ Shown \in [Users -> Keys \cup {NoKey}] /\ Stored \in [Keys -> Objects]
    /\ \A u \in Users : Shown[u] # NoKey => Stored[Shown[u]] # "none"

VARIABLES
    avatar,         \* users.avatar_url
    object,         \* what the object store has at a key
    change,         \* the requests of users, and the clearing of one avatar
    tidy,           \* the normalisation: its phase, what it has listed, the avatar in hand
    choice,         \* the avatar a user chose last
    contested,      \* keys two actors dealt with at the same time, or that a failure put at risk
    overtaken       \* users whose avatar was changed while a normalisation had it listed

avatarVars == <<avatar, object, change, tidy, choice, contested, overtaken>>

NoChange == [pc |-> "idle", user |-> NoUser, key |-> NoKey, old |-> NoKey, created |-> "no"]

NoTask == <<NoUser, NoKey>>
NoTidy == [pc |-> "idle", all |-> FALSE, clear |-> FALSE, tasks |-> {}, task |-> NoTask,
           step |-> "none", processed |-> {}, keys |-> {}]

Referenced == {avatar[u] : u \in Users} \ {NoKey}

AvatarInit ==
    /\ avatar = Shown /\ choice = Shown
    /\ object = Stored
    /\ change = [r \in Changers |-> NoChange]
    /\ tidy = NoTidy
    /\ contested = {} /\ overtaken = {}

ChangeTo(r, changes) == change' = [change EXCEPT ![r] = changes]
EndChange(r) == ChangeTo(r, NoChange)
-----------------------------------------------------------------------------
(* Requests.                                                               *)

\* Also a registration: the user then has no avatar, and the update creates the row.
ChangeAvatar(r, u) ==
    /\ change[r].pc = "idle"
    /\ ChangeTo(r, [NoChange EXCEPT !.pc = "save", !.user = u, !.old = avatar[u]])
    /\ UNCHANGED <<avatar, object, tidy, choice, overtaken>>

\* The object is put unless it is known to exist; an error of the question counts as a no.
SaveAvatar(r, k) ==
    /\ change[r].pc = "save"
    /\ \/ /\ object[k] # "none"
          /\ ChangeTo(r, [change[r] EXCEPT !.pc = "update", !.key = k])
       \/ \E known \in {"yes", "unsure"} :
            /\ known = "yes" => object[k] = "none"
            /\ ChangeTo(r, [change[r] EXCEPT !.pc = "put", !.key = k, !.created = known])
    /\ UNCHANGED <<avatar, object, tidy, choice, overtaken>>

PutAvatar(r) ==
    /\ change[r].pc = "put"
    /\ object' = [object EXCEPT ![change[r].key] = "good"]
    /\ ChangeTo(r, [change[r] EXCEPT !.pc = "update"])
    /\ UNCHANGED <<avatar, tidy, choice, overtaken>>

ClearUserAvatar(r, u) ==
    /\ change[r].pc = "idle"
    /\ avatar[u] # NoKey
    /\ ChangeTo(r, [NoChange EXCEPT !.pc = "update", !.user = u, !.old = avatar[u]])
    /\ UNCHANGED <<avatar, object, tidy, choice, overtaken>>

\* The normalisation has the user still to do, or in hand.
Listed(u) == \E x \in tidy.tasks \cup {tidy.task} : x[1] = u

UpdateAvatar(r) ==
    LET u == change[r].user IN
    /\ change[r].pc = "update"
    /\ avatar' = [avatar EXCEPT ![u] = change[r].key]
    /\ choice' = [choice EXCEPT ![u] = change[r].key]
    /\ overtaken' = overtaken \cup {v \in {u} : Listed(v)}
    /\ ChangeTo(r, [change[r] EXCEPT !.pc = IF change[r].old = NoKey THEN "done" ELSE "count"])
    /\ UNCHANGED <<object, tidy>>

\* Only an object this request has put is deleted again.
UpdateFails(r) ==
    /\ change[r].pc = "update"
    /\ IF change[r].created = "no" THEN EndChange(r)
       ELSE ChangeTo(r, [change[r] EXCEPT !.pc = "undo"])
    /\ UNCHANGED <<avatar, object, tidy, choice, overtaken>>

DeleteCreated(r) ==
    /\ change[r].pc = "undo"
    /\ object' = [object EXCEPT ![change[r].key] = "none"]
    /\ EndChange(r)
    /\ UNCHANGED <<avatar, tidy, choice, overtaken>>

\* Mutation of CountByAvatarURL: the old object is deleted without a count.
CountNothing(r) ==
    /\ change[r].pc = "count"
    /\ ChangeTo(r, [change[r] EXCEPT !.pc = "delete"])
    /\ UNCHANGED <<avatar, object, tidy, choice, overtaken>>

CountByAvatarURL(r) ==
    /\ change[r].pc = "count"
    /\ change[r].old \notin Referenced
    /\ ChangeTo(r, [change[r] EXCEPT !.pc = "delete"])
    /\ UNCHANGED <<avatar, object, tidy, choice, overtaken>>

DeleteUnused(r) ==
    /\ change[r].pc = "delete"
    /\ object' = [object EXCEPT ![change[r].old] = "none"]
    /\ EndChange(r)
    /\ UNCHANGED <<avatar, tidy, choice, overtaken>>

\* The answer, an avatar still in use, a failed call, a stop of the process.
StopChange(r) ==
    /\ change[r].pc # "idle"
    /\ EndChange(r)
    /\ UNCHANGED <<avatar, object, tidy, choice, overtaken>>
-----------------------------------------------------------------------------
(* The normalisation: the users that were listed, then the objects users    *)
(* have come to use meanwhile, then the objects nobody uses.               *)

TidyTo(changes) == tidy' = changes

\* Of all users or of one; the rows are read here, and not again.
NormalizeAvatars ==
    /\ tidy.pc = "idle"
    /\ \E users \in {Users} \cup {{u} : u \in Users}, clear \in BOOLEAN :
            TidyTo([NoTidy EXCEPT !.pc = "users", !.all = (users = Users), !.clear = clear,
                       !.tasks = {<<u, avatar[u]>> : u \in {v \in users : avatar[v] # NoKey}}])
    /\ UNCHANGED <<avatar, object, change, choice, overtaken>>

NextTask(x) ==
    /\ tidy.step = "none"
    /\ x \in tidy.tasks
    /\ TidyTo([tidy EXCEPT !.task = x, !.tasks = @ \ {x}, !.step = "inspect"])
    /\ UNCHANGED <<avatar, object, change, choice, overtaken>>

User == tidy.task[1]
Key == tidy.task[2]

TaskDone == [tidy EXCEPT !.task = NoTask, !.step = "none"]

\* What cannot be read, decoded, compressed or put is cleared if that was asked for; a
\* store that does not answer counts as an avatar that cannot be read.
Unusable ==
    TidyTo([(IF tidy.clear THEN [tidy EXCEPT !.step = "clear"] ELSE TaskDone)
           EXCEPT !.processed = @ \cup {Key}])

InspectStoredAvatar ==
    /\ tidy.step = "inspect"
    /\ \/ object[Key] = "good" /\ TidyTo([TaskDone EXCEPT !.processed = @ \cup {Key}])
       \/ object[Key] = "raw" /\ TidyTo([tidy EXCEPT !.step = "put"])
       \/ Unusable
    /\ UNCHANGED <<avatar, object, change, choice, overtaken>>

\* Whatever is there already is overwritten.
ReprocessStoredAvatar ==
    /\ tidy.step = "put"
    /\ \/ /\ object' = [object EXCEPT ![NewKey[Key]] = "good"]
          /\ TidyTo([tidy EXCEPT !.step = "persist"])
       \/ Unusable /\ UNCHANGED object
    /\ UNCHANGED <<avatar, change, choice, overtaken>>

\* A key that stays needs no update. The row of a listed user is given the new key whatever
\* avatar it has by now; for an object that users came to use, the rows that name it.
PersistKey ==
    /\ tidy.step = "persist"
    /\ \/ /\ NewKey[Key] = Key
          /\ TidyTo([TaskDone EXCEPT !.processed = @ \cup {Key}])
          /\ UNCHANGED avatar
       \/ /\ NewKey[Key] # Key
          /\ avatar' = IF User # NoUser THEN [avatar EXCEPT ![User] = NewKey[Key]]
                       ELSE [u \in Users |-> IF avatar[u] = Key THEN NewKey[Key] ELSE avatar[u]]
          /\ TidyTo([tidy EXCEPT !.step = "check", !.processed = @ \cup {NewKey[Key]}])
       \/ /\ NewKey[Key] # Key
          /\ TidyTo([tidy EXCEPT !.step = "undo", !.processed = @ \cup {Key}])
          /\ UNCHANGED avatar
    /\ UNCHANGED <<object, change, choice, overtaken>>

\* The object counts as created by this run, also if another user's avatar is in it.
DeleteReprocessed ==
    /\ tidy.step = "undo"
    /\ TidyTo(TaskDone)
    /\ object' \in {object, [object EXCEPT ![NewKey[Key]] = "none"]}
    /\ UNCHANGED <<avatar, change, choice, overtaken>>

ClearAvatar ==
    /\ tidy.step = "clear"
    /\ \/ /\ avatar' = IF User # NoUser THEN [avatar EXCEPT ![User] = NoKey] ELSE avatar
          /\ TidyTo([tidy EXCEPT !.step = "check"])
       \/ TidyTo(TaskDone) /\ UNCHANGED avatar
    /\ UNCHANGED <<object, change, choice, overtaken>>

CheckReferenced ==
    /\ tidy.step = "check"
    /\ TidyTo(IF Key \in Referenced THEN TaskDone ELSE [tidy EXCEPT !.step = "delete"])
    /\ UNCHANGED <<avatar, object, change, choice, overtaken>>

DeleteUnreferenced ==
    /\ tidy.step = "delete"
    /\ TidyTo(TaskDone)
    /\ object' \in {object, [object EXCEPT ![Key] = "none"]}
    /\ UNCHANGED <<avatar, change, choice, overtaken>>

TasksDone(phase) == tidy.pc = phase /\ tidy.step = "none" /\ tidy.tasks = {}

\* Objects in use that no user's turn has dealt with.
SweepStorage ==
    /\ TasksDone("users") /\ tidy.all
    /\ TidyTo([tidy EXCEPT !.pc = "storage", !.tasks = {NoUser} \X
                {k \in Referenced \ tidy.processed : object[k] # "none"}])
    /\ UNCHANGED <<avatar, object, change, choice, overtaken>>

\* The references are read first, and the objects listed after.
PurgeReferences ==
    /\ TasksDone(IF tidy.all THEN "storage" ELSE "users")
    /\ TidyTo([NoTidy EXCEPT !.pc = "list", !.keys = Referenced])
    /\ UNCHANGED <<avatar, object, change, choice, overtaken>>

PurgeList ==
    /\ tidy.pc = "list"
    /\ TidyTo([tidy EXCEPT !.pc = "purge", !.keys = {k \in Keys \ @ : object[k] # "none"}])
    /\ UNCHANGED <<avatar, object, change, choice, overtaken>>

PurgeUnreferenced(k) ==
    /\ tidy.pc = "purge"
    /\ k \in tidy.keys
    /\ TidyTo([tidy EXCEPT !.keys = @ \ {k}])
    /\ object' \in {object, [object EXCEPT ![k] = "none"]}
    /\ UNCHANGED <<avatar, change, choice, overtaken>>

\* The answer, an error, a stop of the process.
StopTidy ==
    /\ tidy.pc # "idle"
    /\ TidyTo(NoTidy)
    /\ UNCHANGED <<avatar, object, change, choice, overtaken>>
-----------------------------------------------------------------------------
\* The keys an actor has read, holds or is about to delete.
TouchedBy(r) == IF change[r].pc = "idle" THEN {} ELSE {change[r].key, change[r].old} \ {NoKey}

TouchedByTidy ==
    LET mine == {x[2] : x \in (tidy.tasks \cup {tidy.task}) \ {NoTask}} IN
    mine \cup {NewKey[k] : k \in mine}
    \cup (IF tidy.pc = "list" THEN Keys \ tidy.keys ELSE tidy.keys)

\* Besides: an object that was put without knowing whether there was one, and what the
\* normalisation takes back when it could not store the new key.
AtRisk ==
    {change[r].key : r \in {x \in Changers : change[x].created = "unsure"}}
    \cup (IF tidy.step = "undo" THEN {NewKey[Key]} ELSE {})

Contest ==
    AtRisk \cup (UNION {TouchedBy(r) \cap TouchedByTidy : r \in Changers})
    \cup {k \in Keys : \E r, s \in Changers : r # s /\ k \in TouchedBy(r) \cap TouchedBy(s)}

TidyStep ==
    \/ NormalizeAvatars \/ InspectStoredAvatar \/ ReprocessStoredAvatar \/ PersistKey
    \/ DeleteReprocessed \/ ClearAvatar \/ CheckReferenced \/ DeleteUnreferenced
    \/ SweepStorage \/ PurgeReferences \/ PurgeList \/ StopTidy
    \/ \E k \in Keys : PurgeUnreferenced(k)
    \/ \E x \in tidy.tasks : NextTask(x)

ChangerStep(r) ==
    \/ \E u \in Users : ChangeAvatar(r, u) \/ ClearUserAvatar(r, u)
    \/ \E k \in Chosen : SaveAvatar(r, k)
    \/ PutAvatar(r) \/ UpdateAvatar(r) \/ UpdateFails(r) \/ DeleteCreated(r)
    \/ CountByAvatarURL(r) \/ DeleteUnused(r) \/ StopChange(r)

AvatarNext ==
    /\ TidyStep \/ \E r \in Changers : ChangerStep(r)
    /\ contested' = contested \cup Contest'

AvatarSpec == AvatarInit /\ [][AvatarNext]_avatarVars
-----------------------------------------------------------------------------
\* Whose avatar shows what. An object a user's row names is there, though several users share
\* it and each deletes what it stops using, in whatever way calls fail or processes stop. The
\* exception are the keys that two actors dealt with at the same time, for nothing locks a
\* key; those of a failed update after an object was put over another one or recompressed.
\* And a user has the avatar last chosen, recompressed or cleared at most, unless it was
\* chosen while a normalisation still had the one before in its list.
AvatarsSound ==
    /\ \A u \in Users : avatar[u] \in Keys \ contested => object[avatar[u]] # "none"
    /\ \A u \in Users \ overtaken :
            \/ avatar[u] \in {choice[u], NoKey}
            \/ choice[u] # NoKey /\ avatar[u] = NewKey[choice[u]]
=============================================================================
