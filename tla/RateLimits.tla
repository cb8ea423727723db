------------------------------ MODULE RateLimits ------------------------------
(***************************************************************************)
(* The rate limit of one tier and one caller (an address or a user).       *)
(* Every route has a counter of its own in Redis, and they share one ban,  *)
(* whose length grows with the number of bans before it.  A request looks  *)
(* for the ban, counts itself, and if that is too much takes a claim of    *)
(* two seconds, counts the ban and places it: a call of Redis each, so     *)
(* that requests of several processes overlap between any two.             *)
(*                                                                         *)
(* Keys expire as time ticks.  A claim does not outlive a tick; how many   *)
(* make a window or a ban is a parameter, of which only the order matters. *)
(***************************************************************************)
EXTENDS Naturals, Sequences

CONSTANTS
    Visits,       \* what the caller may have under way at once
    Routes,         \* the routes of the tier
    HardLimit,      \* more hits than this in a window place a ban
    Window,         \* life of a counter after its last hit
    BanDurations,   \* escalatingBanDurations: the lengths, one per level
    BanCountWindow, \* life of the count of bans after the last
    MaxFaults

ASSUME RateLimitsAssumption ==
    /\ HardLimit \in Nat /\ Window \in Nat \ {0} /\ MaxFaults \in Nat
    /\ BanDurations \in Seq(Nat \ {0}) /\ BanDurations # <<>>
    /\ BanCountWindow \in Nat \ {0}

VARIABLES
    hits,           \* route: the counter, up to the first hit that is too much, and its life
    ban,            \* what is left of the ban, 0 without one
    claim,          \* is the claim taken?
    bans,           \* the bans counted, up to the highest level, and how long they are remembered
    request,        \* where each request is, and what it has read
    raised,         \* bans counted since one was last over, up to two
    overrun,        \* was a request under way when a claim ran out?
    faults          \* calls of Redis that failed, and processes that died

limitVars == <<hits, ban, claim, bans, request, raised, overrun, faults>>

Levels == Len(BanDurations)

TooMany == HardLimit + 1

AtMost(n, bound) == IF n > bound THEN bound ELSE n

Lived(n) == IF n = 0 THEN 0 ELSE n - 1

NotSent == [pc |-> "idle", route |-> "none", length |-> 0]

UnderWay(r) == request[r].pc # "idle"

Goes(r, pc) == request' = [request EXCEPT ![r].pc = pc]

Ends(r) == request' = [request EXCEPT ![r] = NotSent]

Fault == faults < MaxFaults /\ faults' = faults + 1

LimitInit ==
    /\ hits = [x \in Routes |-> [count |-> 0, left |-> 0]]
    /\ ban = 0 /\ claim = FALSE
    /\ bans = [count |-> 0, left |-> 0]
    /\ request = [r \in Visits |-> NotSent]
    /\ raised = 0 /\ overrun = FALSE /\ faults = 0
-----------------------------------------------------------------------------
(* One request.                                                            *)

\* A banned caller is refused and not counted. EXISTS that fails counts as no ban.
CheckBan(r, x) ==
    /\ ~UnderWay(r)
    /\ request' = [request EXCEPT ![r] = [pc |-> "count", route |-> x, length |-> 0]]
    /\ \/ ban = 0 /\ UNCHANGED faults
       \/ ban > 0 /\ Fault
    /\ UNCHANGED <<hits, ban, claim, bans, raised, overrun>>

\* Incr and Expire in one pipeline. Up to the limit the request is served, or asked to slow
\* down, which changes nothing; beyond it goes on to the claim.
CountHit(r) ==
    LET x == request[r].route
        n == AtMost(hits[x].count + 1, TooMany) IN
    /\ request[r].pc = "count"
    /\ hits' = [hits EXCEPT ![x] = [count |-> n, left |-> Window]]
    /\ IF n > HardLimit THEN Goes(r, "claim") ELSE Ends(r)
    /\ UNCHANGED <<ban, claim, bans, raised, overrun, faults>>

\* An error is dropped: the count reads as 0 and the request is served.
CountHitFails(r) ==
    /\ request[r].pc = "count"
    /\ Fault /\ Ends(r)
    /\ UNCHANGED <<hits, ban, claim, bans, raised, overrun>>

\* Mutation of ClaimBan: everybody beyond the limit counts the ban.
ClaimBanUnchecked(r) ==
    /\ request[r].pc = "claim"
    /\ claim' = TRUE
    /\ Goes(r, "escalate")
    /\ UNCHANGED <<hits, ban, bans, raised, overrun, faults>>

\* claimBanDuration: SETNX. Who finds the claim taken is refused with what the ban has left.
ClaimBan(r) ==
    /\ request[r].pc = "claim"
    /\ claim' = TRUE
    /\ IF claim THEN Ends(r) ELSE Goes(r, "escalate")
    /\ UNCHANGED <<hits, ban, bans, raised, overrun, faults>>

\* getEscalatedBanDuration: the ban is counted, and the count gives its length.
Escalate(r) ==
    LET n == AtMost(bans.count + 1, Levels) IN
    /\ request[r].pc = "escalate"
    /\ bans' = [count |-> n, left |-> BanCountWindow]
    /\ request' = [request EXCEPT ![r].pc = "place", ![r].length = BanDurations[n]]
    /\ raised' = AtMost(raised + 1, 2)
    /\ UNCHANGED <<hits, ban, claim, overrun, faults>>

\* An error makes it the shortest, and is not counted.
EscalateFails(r) ==
    /\ request[r].pc = "escalate"
    /\ Fault
    /\ request' = [request EXCEPT ![r].pc = "place", ![r].length = BanDurations[1]]
    /\ UNCHANGED <<hits, ban, claim, bans, raised, overrun>>

\* The ban is placed, over whatever ban is there.
PlaceBan(r) ==
    /\ request[r].pc = "place"
    /\ ban' = request[r].length
    /\ Ends(r)
    /\ UNCHANGED <<hits, claim, bans, raised, overrun, faults>>

\* SETNX or SET fails, or the process stops before it: the request ends, its claim stays.
RequestLost(r) ==
    /\ request[r].pc \in {"claim", "escalate", "place"}
    /\ Fault /\ Ends(r)
    /\ UNCHANGED <<hits, ban, claim, bans, raised, overrun>>
-----------------------------------------------------------------------------
\* Every key is a tick nearer its end, and a claim is over.
Tick ==
    /\ hits' = [x \in Routes |-> IF hits[x].left <= 1 THEN [count |-> 0, left |-> 0]
                                 ELSE [hits[x] EXCEPT !.left = @ - 1]]
    /\ ban' = Lived(ban)
    /\ claim' = FALSE
    /\ bans' = IF bans.left <= 1 THEN [count |-> 0, left |-> 0] ELSE [bans EXCEPT !.left = @ - 1]
    /\ raised' = IF ban = 1 THEN 0 ELSE raised
    /\ overrun' = (overrun \/ (claim /\ \E r \in Visits : UnderWay(r)))
    /\ UNCHANGED <<request, faults>>

LimitNext ==
    \/ \E r \in Visits :
        \/ \E x \in Routes : CheckBan(r, x)
        \/ CountHit(r) \/ CountHitFails(r) \/ ClaimBan(r)
        \/ Escalate(r) \/ EscalateFails(r) \/ PlaceBan(r) \/ RequestLost(r)
    \/ Tick

LimitSpec == LimitInit /\ [][LimitNext]_limitVars
-----------------------------------------------------------------------------
(* Properties.                                                             *)

LimitTypeOK ==
    /\ hits \in [Routes -> [count: 0 .. TooMany, left: 0 .. Window]]
    /\ ban \in Nat /\ claim \in BOOLEAN
    /\ bans \in [count: 0 .. Levels, left: 0 .. BanCountWindow]
    /\ request \in [Visits -> [pc: {"idle", "count", "claim", "escalate", "place"},
                                 route: Routes \cup {"none"}, length: Nat]]
    /\ raised \in 0 .. 2 /\ overrun \in BOOLEAN /\ faults \in 0 .. MaxFaults

\* Exceeding the limit, on however many routes and with however many requests at
\* once, is punished as one offence: the level rises by one and one ban follows.
\* That rests on requests being over when the claim of one of them is, and on Redis.
OneLevelPerExcess == overrun \/ faults > 0 \/ raised <= 1
=============================================================================
