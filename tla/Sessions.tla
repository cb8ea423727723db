------------------------------- MODULE Sessions -------------------------------
(***************************************************************************)
(* Whether a request is served depends on a profile in Redis, which is a   *)
(* copy of the row of the user kept for seven days.  Whoever changes the   *)
(* row deletes the copy afterwards; whoever misses the copy reads the row  *)
(* and stores a new one with another call.  Administrators disable and     *)
(* enable accounts this way, being served by the same rule.  Tokens are    *)
(* not kept anywhere: a signed one is valid until it expires.              *)
(*                                                                         *)
(* A call is one request of a member in whatever process serves it.        *)
(***************************************************************************)
EXTENDS Naturals, FiniteSets

CONSTANTS
    Members,        \* the users; all are registered
    Admins,         \* those with the role of an administrator, which no request gives or takes
    Calls

ASSUME SessionsAssumption == Admins \subseteq Members /\ IsFiniteSet(Admins) /\ Admins # {}

VARIABLES
    enabled,        \* user.status: 1 or 0
    cached,         \* the status in the cached profile, "none" without one
    call,           \* where a request is, and what it has read
    overtaken,      \* users whose copy is wrong, and nobody who made it so will delete it
    ousted          \* has an administrator disabled another while disabled himself?

sessionVars == <<enabled, cached, call, overtaken, ousted>>

Operations == {"use", "disable", "enable"}

Status(on) == IF on THEN "enabled" ELSE "disabled"

\* The cached profile is not what the row says.
Wrong(m) == cached[m] \notin {"none", Status(enabled[m])}

\* A request by a member; the operations of an administrator have a target.
CallRecords == [pc: {"load", "fill", "status", "invalidate"}, member: Members,
                op: Operations, target: Members, loaded: BOOLEAN]
                \cup [pc: {"idle"}]

NoCall == [pc |-> "idle"]

At(pc, m, op, t) == [pc |-> pc, member |-> m, op |-> op, target |-> t, loaded |-> FALSE]

SessionInit ==
    /\ enabled = [m \in Members |-> TRUE]
    /\ cached = [m \in Members |-> "none"]
    /\ call = [c \in Calls |-> NoCall]
    /\ overtaken = {} /\ ousted = FALSE
-----------------------------------------------------------------------------
(* Serving a request.                                                      *)

\* RequireRole and the checks of DisableAccount: nobody disables himself or the only
\* administrator. What they read never changes.
MaySetStatus(m, op, t) ==
    /\ op # "use"
    /\ m \in Admins
    /\ op = "disable" => t # m /\ (t \in Admins => Cardinality(Admins) > 1)

\* Where a request goes on that was let in: what else it does leaves the status alone.
Served(m, op, t) == IF MaySetStatus(m, op, t) THEN At("status", m, op, t) ELSE NoCall

\* A request with a valid token, or one that exchanges a refresh token: by GETEX a hit decides
\* at once and a miss goes to the database. Refused without Redis, it changes nothing.
GetCached(c, m, op, t) ==
    /\ call[c].pc = "idle"
    /\ op = "use" => t = m
    /\ \/ /\ cached[m] = "none"
          /\ call' = [call EXCEPT ![c] = At("load", m, op, t)]
       \/ /\ cached[m] = "enabled"
          /\ call' = [call EXCEPT ![c] = Served(m, op, t)]
    /\ UNCHANGED <<enabled, cached, overtaken, ousted>>

FindDetailByID(c) ==
    /\ call[c].pc = "load"
    /\ call' = [call EXCEPT ![c].pc = "fill", ![c].loaded = enabled[call[c].member]]
    /\ UNCHANGED <<enabled, cached, overtaken, ousted>>

\* The request is served by what was loaded, whether or not it can be stored.
FillCache(c) ==
    LET r == call[c] IN
    /\ r.pc = "fill"
    /\ call' = [call EXCEPT ![c] = IF r.loaded THEN Served(r.member, r.op, r.target) ELSE NoCall]
    /\ \/ /\ cached' = [cached EXCEPT ![r.member] = Status(r.loaded)]
          /\ overtaken' = IF r.loaded # enabled[r.member] THEN overtaken \cup {r.member}
                                                         ELSE overtaken \ {r.member}
       \/ UNCHANGED <<cached, overtaken>>
    /\ UNCHANGED <<enabled, ousted>>

\* Mutation of SetStatus: the copy is forgotten.
SetStatusUncached(c) ==
    LET r == call[c] IN
    /\ r.pc = "status"
    /\ enabled' = [enabled EXCEPT ![r.target] = (r.op = "enable")]
    /\ call' = [call EXCEPT ![c] = NoCall]
    /\ ousted' = (ousted \/ (r.op = "disable" /\ ~enabled[r.member]))
    /\ UNCHANGED <<cached, overtaken>>

\* DisableAccount and EnableAccount write the row.
SetStatus(c) ==
    LET r == call[c] IN
    /\ r.pc = "status"
    /\ enabled' = [enabled EXCEPT ![r.target] = (r.op = "enable")]
    /\ call' = [call EXCEPT ![c].pc = "invalidate"]
    /\ ousted' = (ousted \/ (r.op = "disable" /\ ~enabled[r.member]))
    /\ UNCHANGED <<cached, overtaken>>

\* The copy is deleted.
Invalidate(c) ==
    /\ call[c].pc = "invalidate"
    /\ cached' = [cached EXCEPT ![call[c].target] = "none"]
    /\ call' = [call EXCEPT ![c] = NoCall]
    /\ overtaken' = overtaken \ {call[c].target}
    /\ UNCHANGED <<enabled, ousted>>

\* The error of the deletion is dropped, as is the deletion when the process stops before.
InvalidateLost(c) ==
    LET t == call[c].target IN
    /\ call[c].pc = "invalidate"
    /\ call' = [call EXCEPT ![c] = NoCall]
    /\ overtaken' = IF Wrong(t) THEN overtaken \cup {t} ELSE overtaken
    /\ UNCHANGED <<enabled, cached, ousted>>
-----------------------------------------------------------------------------
(* What deletes a copy without having asked for it.                        *)

\* A login by password or identity reads the row, and leaves by way of TouchLoginPresence.
Login(c, m) ==
    /\ call[c].pc = "idle"
    /\ enabled[m]
    /\ call' = [call EXCEPT ![c] = At("invalidate", m, "use", m)]
    /\ UNCHANGED <<enabled, cached, overtaken, ousted>>

\* A visit of a page by anyone with a token, at most one a minute, refreshes last_active_at;
\* an edit of the profile or a change of another role deletes the copy in the same way.
TouchActiveAt(c, m) ==
    /\ call[c].pc = "idle"
    /\ call' = [call EXCEPT ![c] = At("invalidate", m, "use", m)]
    /\ UNCHANGED <<enabled, cached, overtaken, ousted>>

\* Seven days without a request.
ProfileExpires(m) ==
    /\ cached[m] # "none"
    /\ cached' = [cached EXCEPT ![m] = "none"]
    /\ overtaken' = overtaken \ {m}
    /\ UNCHANGED <<enabled, call, ousted>>
-----------------------------------------------------------------------------
CallStep(c) ==
    FindDetailByID(c) \/ FillCache(c) \/ SetStatus(c) \/ Invalidate(c) \/ InvalidateLost(c)

SessionNext ==
    \/ \E c \in Calls :
        \/ CallStep(c)
        \/ \E m, t \in Members, op \in Operations : GetCached(c, m, op, t)
        \/ \E m \in Members : Login(c, m) \/ TouchActiveAt(c, m)
    \/ \E m \in Members : ProfileExpires(m)

SessionSpec == SessionInit /\ [][SessionNext]_sessionVars
-----------------------------------------------------------------------------
(* Properties.                                                             *)

SessionTypeOK ==
    /\ enabled \in [Members -> BOOLEAN]
    /\ cached \in [Members -> {"none", "enabled", "disabled"}]
    /\ call \in [Calls -> CallRecords]
    /\ overtaken \subseteq Members /\ ousted \in BOOLEAN

\* The cached profile of a user disagrees with his row only until the request
\* that changed the row deletes it, or because a request that loaded the row
\* before the change stored it after, or because a deletion was lost.
WrongProfileExplained ==
    \A m \in Members :
        Wrong(m) => m \in overtaken \/ \E c \in Calls : call[c].pc = "invalidate" /\ call[c].target = m

\* Disabling accounts, in whatever order, leaves an administrator enabled, unless
\* one who is disabled by then, and was let in before, disables another.
AdministratorRemains == ousted \/ \E a \in Admins : enabled[a]

\* What serving requests by a cached profile may promise: the copy errs only for
\* the two overlaps above, and the site keeps an administrator.
SessionsSound == WrongProfileExplained /\ AdministratorRemains
=============================================================================
