----------------------------- MODULE Governance -----------------------------
(***************************************************************************)
(* The moderation profile of one user and the site-wide control row:       *)
(* internal/service/moderation/governance.go and policy.go, and            *)
(* internal/repository/moderation/governance.go, operations.go, query.go.  *)
(*                                                                         *)
(* A write request reconciles the profile first (one transaction reads it  *)
(* and releases what has expired; the trust level is computed outside of   *)
(* any lock; a second statement stores it), then reads the policy context, *)
(* decides, and saves the content or records a blocked attempt.  A review  *)
(* changes the score and reconciles afterwards.  The second reconciliation *)
(* may fail: its error is only logged.  Administrators correct the trust   *)
(* level, set and release sanctions, and replace the control row from a    *)
(* page they loaded earlier.  Time is a counter; the account was created   *)
(* at time 0 and its profile row exists (EnsureNewProfile at               *)
(* registration).                                                          *)
(***************************************************************************)
EXTENDS Integers, FiniteSetsExt

CONSTANTS
    Callers,          \* requests that touch the profile: writes and reviews
    Operators,        \* administrators, each with one open control page
    TrustPolicy,      \* config policy: level -> signal -> action
    Promotion,        \* config new_to_normal, normal_to_trusted
    ScoreThreshold,   \* config restricted_score_threshold
    Duration,         \* config restricted_duration
    Weight,           \* config violation_weights: event -> points
    Decay,            \* config clean_approval_score_decay
    MaxTime,          \* bound: the clock
    MaxActs           \* bound: reviews, blocked attempts and administrators' changes

Levels == {"new", "normal", "trusted", "restricted"}
Signals == {"clean_low", "unapproved_image", "external_link", "medium"}
Risks == {"low", "medium", "high"}
PolicyActions == {"auto_approve", "post_review", "pre_review", "block"}
Modes == {"open", "pre_review_all", "closed"}
Violations == {"correct_and_approve", "reject", "high_risk_blocked"}

ASSUME CallersAssumption == Callers # {} /\ Operators # {}
ASSUME PolicyAssumption ==
    /\ TrustPolicy \in [Levels -> [Signals -> PolicyActions]]
    /\ Promotion \in [{"new", "normal"} -> [clean : Nat, age : Nat]]
ASSUME ScoreAssumption ==
    /\ ScoreThreshold \in Nat \ {0} /\ Duration \in Nat \ {0} /\ Decay \in Nat
    /\ Weight \in [Violations -> Nat]
ASSUME GovernanceBounds == MaxTime \in Nat /\ MaxActs \in Nat

VARIABLES
    profile,      \* the row of user_moderation_profile
    siteControl,  \* the row of moderation_control
    caller,       \* what each request has read and does next
    page,         \* the control row each administrator looks at
    clock,
    acts,         \* how many of MaxActs were used
    disturbed,    \* history: requests during which another actor changed the row
    barred        \* history: requests that could not publish since they began

governanceVars ==
    <<profile, siteControl, caller, page, clock, acts, disturbed, barred>>

Never == MaxTime + Duration + 1     \* a deadline column that is NULL
Unset == -1                         \* last_violation_at that is NULL

Deadlines == 0 .. Never
-----------------------------------------------------------------------------
(* Pure rules: the trust level and the decision.                           *)

Reached(until, now) == until # Never /\ until <= now

\* releaseExpiredProfile: sanctions and unlocked restrictions end lazily.
Released(p, now) ==
    LET unsanctioned ==
            IF p.sanction # "active" /\ Reached(p.sanctionUntil, now)
            THEN [p EXCEPT !.sanction = "active", !.sanctionUntil = Never]
            ELSE p
    IN  IF /\ unsanctioned.level = "restricted"
           /\ ~unsanctioned.locked
           /\ Reached(unsanctioned.until, now)
        THEN [unsanctioned EXCEPT !.level = "normal", !.until = Never, !.score = 0]
        ELSE unsanctioned

Promotes(p, now) ==
    /\ p.level \in DOMAIN Promotion
    /\ p.streak >= Promotion[p.level].clean
    /\ now >= Promotion[p.level].age

AboveThreshold(p) == p.score > ScoreThreshold

AtThreshold(p) == p.score >= ScoreThreshold

\* EvaluateTrust: a locked level stays; a score at the threshold restricts
\* until the last violation plus the duration, and never shortens a deadline;
\* a clean streak promotes by one level.
EvaluateTrust(p, now) ==
    LET until == (IF p.lastViolation = Unset THEN now ELSE p.lastViolation) + Duration
    IN  CASE p.locked -> p
          [] ~p.locked /\ AtThreshold(p) ->
                [p EXCEPT !.level = "restricted",
                          !.until = IF @ = Never \/ @ < until THEN until ELSE @]
          [] OTHER ->
                IF p.score = 0 /\ Promotes(p, now)
                THEN [p EXCEPT !.level = IF @ = "new" THEN "normal" ELSE "trusted"]
                ELSE p

\* applyProfileChange of a review or of a blocked attempt.
Scored(p, event, now) ==
    IF event = "approve"
    THEN [p EXCEPT !.streak = @ + 1,
                   !.score = IF @ > Decay THEN @ - Decay ELSE 0]
    ELSE [p EXCEPT !.streak = 0, !.score = @ + Weight[event],
                   !.lastViolation = now]

Rank == [a \in PolicyActions |->
            CASE a = "auto_approve" -> 0 [] a = "post_review" -> 1
              [] a = "pre_review" -> 2 [] a = "block" -> 3]

MostRestrictive(as) == CHOOSE a \in as : \A b \in as : Rank[b] <= Rank[a]

ActionForSignals(level, signals) ==
    MostRestrictive({TrustPolicy[level][s] : s \in signals})

RequirePreReview(action) ==
    IF action \in {"auto_approve", "post_review"} THEN "pre_review" ELSE action

PublishingBlocked(sanction, mode) == sanction # "active" \/ mode = "closed"

LimitedToPreReview(level, mode) == level = "restricted" \/ mode = "pre_review_all"

\* Decide for an ordinary user; administrators are always approved.
Decide(sanction, mode, level, risk, signals) ==
    IF PublishingBlocked(sanction, mode) \/ risk = "high"
    THEN "block"
    ELSE LET action == ActionForSignals(level,
                           IF risk = "medium" THEN {"medium"} ELSE signals)
         IN  IF LimitedToPreReview(level, mode) THEN RequirePreReview(action) ELSE action
-----------------------------------------------------------------------------
(* States.                                                                 *)

SignalSets == {{"clean_low"}, {"clean_low", "unapproved_image"},
               {"clean_low", "external_link"}}

Idle == [pc |-> "idle"]

Profile ==
    [level : Levels, locked : BOOLEAN, until : Deadlines,
     sanction : {"active", "muted", "banned"}, sanctionUntil : Deadlines,
     score : Nat, streak : Nat, lastViolation : Int]

NewProfile ==
    [level |-> "new", locked |-> FALSE, until |-> Never, sanction |-> "active",
     sanctionUntil |-> Never, score |-> 0, streak |-> 0, lastViolation |-> Unset]

Control == [registration : {"open", "closed"}, publishing : Modes, version : Nat]

\* store: the level computed from an earlier read waits to be stored; next is
\* where the request goes afterwards.  policy: the profile is reconciled.
\* save, block: decided.  refresh: the change is committed.
Request ==
    {Idle}
    \cup [pc : {"store"}, next : {"policy", "idle"}, level : Levels, until : Deadlines]
    \cup [pc : {"policy"}]
    \cup [pc : {"save"}, action : PolicyActions]
    \cup [pc : {"block"}]
    \cup [pc : {"refresh"}, now : 0 .. MaxTime]

GovernanceInit ==
    /\ profile = NewProfile
    /\ siteControl = [registration |-> "open", publishing |-> "open", version |-> 1]
    /\ page = [o \in Operators |-> siteControl]
    /\ caller = [c \in Callers |-> Idle]
    /\ clock = 0 /\ acts = 0
    /\ disturbed = {}
    /\ barred = {}

MayPublish ==
    /\ Released(profile, clock).sanction = "active"
    /\ siteControl.publishing # "closed"

\* Every step keeps the history variables: a change of the row disturbs the
\* requests of others; a request leaves barred once publishing is allowed.
Watch(actors) ==
    /\ disturbed' = {c \in Callers :
                        /\ caller'[c] # Idle
                        /\ \/ c \in disturbed
                           \/ profile' # profile /\ c \notin actors}
    /\ barred' = {c \in Callers :
                        /\ caller'[c] # Idle
                        /\ caller[c] = Idle \/ c \in barred
                        /\ ~MayPublish'}
-----------------------------------------------------------------------------
(* Requests of the user and reviews.                                       *)

Goto(c, next) == caller' = [caller EXCEPT ![c] = IF next = "idle" THEN Idle ELSE [pc |-> next]]

AwaitRefresh(c) == caller' = [caller EXCEPT ![c] = [pc |-> "refresh", now |-> clock]]

\* reconcileProfile up to the store: load and release in one transaction, then
\* compute the level outside of it; nothing is stored when nothing changes.
Reconcile(c, next, now) ==
    LET loaded == Released(profile, now)
        evaluated == EvaluateTrust(loaded, now)
    IN  /\ profile' = loaded
        /\ IF evaluated = loaded
           THEN Goto(c, next)
           ELSE caller' = [caller EXCEPT ![c] =
                    [pc |-> "store", next |-> next,
                     level |-> evaluated.level, until |-> evaluated.until]]

BeginWrite(c) == caller[c] = Idle /\ Reconcile(c, "policy", clock)

ReadProfile(c) == caller[c] = Idle /\ Reconcile(c, "idle", clock)

\* SetAutomaticTrust without its WHERE manual_trust_locked = 0.
StoreTrustAlways(c) ==
    /\ caller[c].pc = "store"
    /\ profile' = [profile EXCEPT !.level = caller[c].level, !.until = caller[c].until]
    /\ Goto(c, caller[c].next)

\* SetAutomaticTrust: the only guard is that no administrator locked the level
\* in the meantime; what else changed since the load is overwritten.
StoreTrust(c) ==
    /\ caller[c].pc = "store"
    /\ profile' = IF profile.locked THEN profile
                  ELSE [profile EXCEPT !.level = caller[c].level,
                                       !.until = caller[c].until]
    /\ Goto(c, caller[c].next)

\* LoadPolicyContext (expired states are released here too), the refusal, the
\* classification of the content and Decide.
ReadPolicy(c) ==
    /\ caller[c].pc = "policy"
    /\ profile' = Released(profile, clock)
    /\ IF PublishingBlocked(profile'.sanction, siteControl.publishing)
       THEN Goto(c, "idle")
       ELSE \E risk \in Risks, signals \in SignalSets :
                LET action == Decide(profile'.sanction, siteControl.publishing,
                                     profile'.level, risk, signals)
                IN  caller' = [caller EXCEPT ![c] =
                        IF action = "block" THEN [pc |-> "block"]
                        ELSE [pc |-> "save", action |-> action]]

\* The transaction that saves the content under the decided action.
SaveContent(c) == caller[c].pc = "save" /\ Goto(c, "idle") /\ UNCHANGED profile

\* RecordBlockedAttempt; its failure is logged and ends the request.
RecordBlocked(c) ==
    /\ caller[c].pc = "block"
    /\ \/ Goto(c, "idle") /\ UNCHANGED <<profile, acts>>
       \/ /\ acts < MaxActs
          /\ acts' = acts + 1
          /\ profile' = Scored(profile, "high_risk_blocked", clock)
          /\ AwaitRefresh(c)

\* The review transaction of one revision of this user.
CommitReviewOf(c) ==
    /\ caller[c] = Idle
    /\ acts < MaxActs
    /\ acts' = acts + 1
    /\ \E event \in {"approve", "correct_and_approve", "reject"} :
            profile' = Scored(profile, event, clock)
    /\ AwaitRefresh(c)

\* The reconciliation after a review or a blocked attempt, at the time that was
\* taken before the change.
Refresh(c) == caller[c].pc = "refresh" /\ Reconcile(c, "idle", caller[c].now)

\* It fails, or the process stops before it: nobody repeats it.
RefreshFails(c) ==
    /\ caller[c].pc = "refresh"
    /\ Goto(c, "idle")
    /\ UNCHANGED profile

\* PublishingAllowed, before an upload: it releases what has expired.
CheckUpload(c) ==
    /\ caller[c] = Idle
    /\ profile' = Released(profile, clock)
    /\ profile' # profile
    /\ UNCHANGED caller
-----------------------------------------------------------------------------
(* Administrators and time.                                                *)

FutureDeadlines == {Never, clock + 1}

SetTrust ==
    \E level \in Levels, locked \in BOOLEAN, until \in FutureDeadlines :
        profile' = [profile EXCEPT !.level = level, !.locked = locked,
                                   !.until = IF level = "restricted" THEN until
                                             ELSE Never]

SetSanction ==
    \E sanction \in {"muted", "banned"}, until \in FutureDeadlines :
        profile' = [profile EXCEPT !.sanction = sanction, !.sanctionUntil = until]

ReleaseSanction ==
    profile' = [profile EXCEPT !.sanction = "active", !.sanctionUntil = Never]

\* One transaction each, on the whole row of the user.
Correct ==
    /\ acts < MaxActs
    /\ acts' = acts + 1
    /\ SetTrust \/ SetSanction \/ ReleaseSanction
    /\ UNCHANGED <<siteControl, caller, page, clock>>
    /\ Watch({})

OpenPage(o) ==
    /\ page' = [page EXCEPT ![o] = siteControl]
    /\ UNCHANGED <<profile, siteControl, caller, clock, acts>>
    /\ Watch({})

\* UpdateControl: lock_version must still be the one of the administrator's page.
UpdateControl(o) ==
    /\ acts < MaxActs
    /\ acts' = acts + 1
    /\ siteControl.version = page[o].version
    /\ \E registration \in {"open", "closed"}, publishing \in Modes :
            siteControl' = [registration |-> registration, publishing |-> publishing,
                            version |-> siteControl.version + 1]
    /\ UNCHANGED <<profile, caller, page, clock>>
    /\ Watch({})

GovernanceTick ==
    /\ clock < MaxTime
    /\ clock' = clock + 1
    /\ UNCHANGED <<profile, siteControl, caller, page, acts>>
    /\ Watch({})

RequestStep(c) ==
    /\ \/ (BeginWrite(c) \/ ReadProfile(c) \/ StoreTrust(c) \/ ReadPolicy(c)
             \/ SaveContent(c) \/ Refresh(c) \/ RefreshFails(c) \/ CheckUpload(c))
          /\ UNCHANGED acts
       \/ RecordBlocked(c) \/ CommitReviewOf(c)
    /\ UNCHANGED <<siteControl, page, clock>>
    /\ Watch({c})

GovernanceNext ==
    \/ \E c \in Callers : RequestStep(c)
    \/ Correct
    \/ \E o \in Operators : OpenPage(o) \/ UpdateControl(o)
    \/ GovernanceTick

GovernanceSpec == GovernanceInit /\ [][GovernanceNext]_governanceVars
-----------------------------------------------------------------------------
(* Properties.                                                             *)

\* Every column has a legal value, and a deadline only where it means something.
GovernanceTypeOK ==
    /\ profile \in Profile
    /\ profile.sanction = "active" => profile.sanctionUntil = Never
    /\ profile.level # "restricted" => profile.until = Never
    /\ siteControl \in Control
    /\ page \in [Operators -> Control]
    /\ \A o \in Operators : page[o].version <= siteControl.version
    /\ caller \in [Callers -> Request]
    /\ clock \in 0 .. MaxTime /\ acts \in 0 .. MaxActs
    /\ disturbed \subseteq Callers /\ barred \subseteq Callers

\* A level an administrator locked is changed by administrators alone, also by
\* a request that computed another level before the lock.
LockedTrustKept ==
    [][(profile.locked /\ profile'.locked /\ profile'.level # profile.level) => Correct]_governanceVars

\* Content is saved only by a request during which the user could publish at
\* least once: a sanction or a closure that covers the whole request stops it.
SavedOnlyWhenAllowed == \A c \in Callers : caller[c].pc = "save" => c \notin barred

\* Whatever reviews, failed refreshes and earlier races left in the row, a write
\* that nobody else interferes with sees the restriction that the score calls
\* for: its content waits for a review, even under the laxest configuration.
ScoreLimitsUndisturbedWrite ==
    \A c \in Callers \ disturbed :
        /\ caller[c].pc = "save"
        /\ ~profile.locked
        /\ profile.score >= ScoreThreshold
        => caller[c].action = "pre_review"

\* The two together: what a user may publish while a request is under way, and how the score
\* limits what is saved (PublishingBlocked, applyScoreLimits).
GovernanceSound == SavedOnlyWhenAllowed /\ ScoreLimitsUndisturbedWrite
=============================================================================
