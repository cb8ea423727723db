------------------------------ MODULE MCServices ------------------------------
(***************************************************************************)
(* Components that share no state, checked side by side: each behaviour is *)
(* one of governance, of the schema migrations, of the analytics, of the   *)
(* avatars or of the migration of old content, and leaves the others in    *)
(* their initial state.                                                    *)
(***************************************************************************)
EXTENDS Governance, SchemaMigrations, Analytics, Avatars, LegacyMigration, TLC

CONSTANTS c1, c2, o1, o2, d1, d2, s1, s2, v1, v2, u1, u2, k1, k2, k3, a1, a2

VARIABLE part

servicesVars == <<part, governanceVars, migrationVars, analyticsVars, avatarVars, legacyVars>>

\* A policy the configuration allows: only the restricted level is treated better than it
\* should be, which the limits by score must undo.
LaxPolicy ==
    [l \in Levels |-> [s \in Signals |->
        IF l = "restricted" \/ s # "medium" THEN "auto_approve" ELSE "post_review"]]

Ladder == [new |-> [clean |-> 1, age |-> 1], normal |-> [clean |-> 2, age |-> 2]]

Weights == [v \in Violations |-> IF v = "high_risk_blocked" THEN 2 ELSE 1]

\* The second deployment and dbsetup carry one migration more than the first.
Catalogs == [r \in Runs |-> IF r = d1 THEN 3 ELSE 4]

\* Two users begin with one avatar, from before avatars were compressed; a user may choose
\* another. Recompressing changes its key, and leaves the other two.
FirstAvatar == [u \in Users |-> k1]
FirstObjects == (k1 :> "raw") @@ (k2 :> "none") @@ (k3 :> "none")
Recompressed == (k1 :> k2) @@ (k2 :> k2) @@ (k3 :> k3)

\* Requests, administrators, processes and users are alike; the deployments and
\* the keys of the avatars are not. Only one component moves, so that sets of different
\* components may be permuted together.
Swap(x, y) == (x :> y) @@ (y :> x)

Alike == {[x \in Callers |-> x]} \cup
         { Swap(c1, c2) @@ Swap(s1, s2) @@ Swap(u1, u2),
           Swap(o1, o2) @@ Swap(a1, a2) }

\* Bounds of the exploration: two actors at a time, and once two have met on a key, or a
\* user has overtaken the normalisation, those under way finish and no other begins.
AvatarActors == {r \in Changers : change[r].pc # "idle"} \cup {x \in {"tidy"} : tidy.pc # "idle"}

AvatarNextBounded ==
    /\ AvatarNext
    /\ Cardinality(AvatarActors') <= 2
    /\ contested \cup overtaken # {} => AvatarActors' \subseteq AvatarActors

\* Two moments and a comment of one user.
OldRows == {<<1, 1>>, <<1, 2>>, <<2, 1>>}
OldUsers == {<<3, 1>>}

OneOldState ==
    /\ legacyRow = [r \in OldRows |-> "none"] /\ legacyPicture = [r \in OldRows |-> "none"]
    /\ legacyProfile = [u \in OldUsers |-> "absent"]

Forgotten(r) == legacyRow[r] = "deleted" /\ legacyPicture[r] = "none"

\* Bounds of the exploration: one entry strays, or the comment or the user is decided by
\* moderation, and after that runs begin at the first id; the first moment is not written by
\* users, the second one without moderation is taken away only.
DecidedEntries ==
    {r \in OldRows : Recorded(r) /\ (legacyItem[r].approved # "legacy" \/ legacyItem[r].pending)}
        \cup {u \in OldUsers : legacyProfile[u] \in {"restricted", "new"}}

LegacyNextBounded ==
    /\ LegacyNext
    /\ Cardinality(strayed') + Cardinality(DecidedEntries') <= 1
    /\ (strayed \cup DecidedEntries # {} /\ command.pc = "off" /\ command'.pc = "list") =>
            command'.phase = 1 /\ command'.id = 0
    /\ \A r \in DecidedEntries' : Phase(r) # Moment
    /\ legacyPicture'[<<2, 1>>] = "none"
    /\ ~enabled /\ legacyRow' # legacyRow =>
            /\ strayed = {}
            /\ legacyRow'[<<1, 1>>] = legacyRow[<<1, 1>>]
            /\ legacyRow'[<<1, 2>>] # "visible"

ServicesInit ==
    /\ part \in {"governance", "migrations", "analytics", "avatars", "legacy"}
    /\ GovernanceInit /\ MigrationInit /\ AnalyticsInit /\ AvatarInit /\ LegacyInit
    \* One of the initial states will do of those that are not looked at.
    /\ part # "migrations" => schema[1] = "absent"
    /\ IF part # "legacy" THEN OneOldState
       ELSE /\ legacyPicture[<<1, 2>>] = "none" /\ legacyPicture[<<2, 1>>] = "none"
            /\ legacyPicture[<<1, 1>>] = IF legacyRow[<<1, 1>>] = "visible" THEN "lost" ELSE "none"
            /\ legacyRow[<<1, 1>>] # "hidden"
            /\ legacyRow[<<1, 2>>] = "visible"
            /\ ~Registered(<<3, 1>>) => \A r \in OldRows : r # <<1, 2>> => Forgotten(r)

ServicesNext ==
    /\ UNCHANGED part
    /\ \/ /\ part = "governance" /\ GovernanceNext
          /\ UNCHANGED <<migrationVars, analyticsVars, avatarVars, legacyVars>>
       \/ /\ part = "migrations" /\ MigrationNext
          /\ UNCHANGED <<governanceVars, analyticsVars, avatarVars, legacyVars>>
       \/ /\ part = "analytics" /\ AnalyticsNext
          /\ UNCHANGED <<governanceVars, migrationVars, avatarVars, legacyVars>>
       \/ /\ part = "avatars" /\ AvatarNextBounded
          /\ UNCHANGED <<governanceVars, migrationVars, analyticsVars, legacyVars>>
       \/ /\ part = "legacy" /\ LegacyNextBounded
          /\ UNCHANGED <<governanceVars, migrationVars, analyticsVars, avatarVars>>

ServicesSpec == ServicesInit /\ [][ServicesNext]_servicesVars
=============================================================================
