------------------------------- MODULE Analytics -------------------------------
(***************************************************************************)
(* Page views on their way to the permanent daily numbers: the collector   *)
(* and the bounded channel (service/analytics/collect.go), the ingestor    *)
(* that writes batches and drains the channel at shutdown, the scheduler   *)
(* that rolls up yesterday under a Redis lease and deletes what is older   *)
(* than the retention (worker/analytics), and the administrator's backfill *)
(* (service/analytics/backfill.go).                                        *)
(*                                                                         *)
(* Time is the day and whether it is past 00:30. A view stands for one     *)
(* stored event; the order of events within a day plays no role.           *)
(***************************************************************************)
EXTENDS Integers, FiniteSets

CONSTANTS
    Views,              \* page views that may arrive
    Trusted,            \* those that are neither bots nor suspect
    Servers,            \* processes of the server
    Admin,              \* the administrator's request that backfills
    NoServer,
    LastDay,            \* bound: the days are 1 .. LastDay
    Retention,          \* days the raw events are kept
    ChannelBuffer,      \* capacity of the channel
    BatchSize,          \* events of one insert
    LastTable,          \* permanent tables of a roll-up (four in the code)
    MaxUpsets           \* bound: failed statements, stops and crashes

ASSUME AnalyticsAssumption ==
    /\ Trusted \subseteq Views
    /\ Admin \notin Servers /\ NoServer \notin Servers
    /\ LastDay \in Nat \ {0} /\ Retention \in Nat \ {0, 1}
    /\ LastTable \in Nat \ {0}
    /\ ChannelBuffer \in Nat \ {0} /\ BatchSize \in Nat \ {0}
    /\ MaxUpsets \in Nat

Days == 1 .. LastDay
Tables == 1 .. LastTable    \* daily, dimensions, pages, friend links: the order of the writes
Rollers == Servers \cup {Admin}

VARIABLES
    time,       \* the day, and whether it is past 00:30
    seen,       \* the day each view arrived (created_at), 0 for none
    server,     \* per process: stage, channel, buffer of the ingestor and lastRolled
    events,     \* analytics_events
    table,      \* table[t][d]: the views the permanent row of day d counts
    lease,      \* the holder of analytics:rollup:lock:<yesterday>; no other day is asked for
    roll,       \* a roll-up in progress: its day, the next table and what it read
    upsets,     \* failed statements, stops and crashes so far
    gone,       \* views that were dropped by a full channel or lost to a fault
    cut,        \* views whose batch an insert with the cancelled context lost
    spoilt      \* days whose roll-up failed, was missed, or was done again after the purge

analyticsVars == <<time, seen, server, events, table, lease, roll, upsets, gone, cut, spoilt>>

NotRolling == [day |-> 0, next |-> 0, read |-> {}]
Down == [stage |-> "down", channel |-> {}, buffer |-> {}, lastRolled |-> 0]
Started == [Down EXCEPT !.stage = "up"]

AnalyticsTypeOK ==
    /\ time \in [day: Days, late: BOOLEAN]
    /\ seen \in [Views -> 0 .. LastDay]
    /\ server \in [Servers -> [stage: {"down", "up", "stopping", "draining"}, channel: SUBSET Views,
                               buffer: SUBSET Views, lastRolled: 0 .. LastDay]]
    /\ \A s \in Servers : /\ Cardinality(server[s].channel) <= ChannelBuffer
                          /\ Cardinality(server[s].buffer) < BatchSize
    /\ events \in SUBSET Views
    /\ table \in [Tables -> [Days -> SUBSET Views]]
    /\ lease \in Servers \cup {NoServer}
    /\ roll \in [Rollers -> [day: 0 .. LastDay, next: 0 .. LastTable + 1, read: SUBSET Views]]
    /\ upsets \in 0 .. MaxUpsets
    /\ gone \in SUBSET Views /\ cut \in SUBSET Views /\ spoilt \in SUBSET Days

AnalyticsInit ==
    /\ time = [day |-> 1, late |-> FALSE]
    /\ seen = [v \in Views |-> 0]
    /\ server = [s \in Servers |-> Started]
    /\ events = {} /\ gone = {} /\ cut = {} /\ spoilt = {}
    /\ table = [t \in Tables |-> [d \in Days |-> {}]]
    /\ lease = NoServer
    /\ roll = [r \in Rollers |-> NotRolling]
    /\ upsets = 0

Rolling(r) == roll[r] # NotRolling
OfDay(d) == {v \in Views : seen[v] = d}
Yesterday == time.day - 1
Upset == upsets < MaxUpsets /\ upsets' = upsets + 1

-----------------------------------------------------------------------------
\* A page view that is no duplicate: Handle with Submit, which never waits.
Submit(s, v) ==
    /\ seen[v] = 0
    /\ seen' = [seen EXCEPT ![v] = time.day]
    /\ IF Cardinality(server[s].channel) < ChannelBuffer
       THEN server' = [server EXCEPT ![s].channel = @ \cup {v}] /\ UNCHANGED gone
       ELSE gone' = gone \cup {v} /\ UNCHANGED server

Collect(s, v) ==
    /\ server[s].stage = "up"
    /\ Submit(s, v)
    /\ UNCHANGED <<time, events, table, lease, roll, upsets, cut, spoilt>>

\* A request that outlived the shutdown of HTTP: its view may find no reader any more.
CollectLate(s, v) ==
    /\ server[s].stage \in {"stopping", "draining"}
    /\ \/ Submit(s, v)
       \/ /\ server[s].stage = "draining"
          /\ seen[v] = 0 /\ seen' = [seen EXCEPT ![v] = time.day]
          /\ gone' = gone \cup {v} /\ UNCHANGED server
    /\ UNCHANGED <<time, events, table, lease, roll, upsets, cut, spoilt>>

\* The caller empties the buffer whether or not this succeeds. Between the cancellation and
\* the choice of ctx.Done the context is the cancelled one, with which no statement succeeds;
\* the drain has a context of its own. A statement the cancellation interrupts is one that
\* begins after it.
InsertEvents(s, batch) ==
    \/ /\ server[s].stage # "stopping"
       /\ \/ events' = events \cup batch /\ UNCHANGED <<upsets, gone>>
          \/ batch # {} /\ Upset /\ gone' = gone \cup batch /\ UNCHANGED events
       /\ UNCHANGED cut
    \/ /\ server[s].stage = "stopping"
       /\ cut' = cut \cup batch
       /\ UNCHANGED <<events, upsets, gone>>

\* The ingestor takes one event, and writes the batch when that fills it. Until its select
\* chooses ctx.Done it may do so after the cancellation too.
Receive(s, v) ==
    LET batch == server[s].buffer \cup {v} IN
    /\ server[s].stage # "down" /\ v \in server[s].channel
    /\ IF Cardinality(batch) >= BatchSize
       THEN /\ server' = [server EXCEPT ![s].channel = @ \ {v}, ![s].buffer = {}]
            /\ InsertEvents(s, batch)
       ELSE /\ server' = [server EXCEPT ![s].channel = @ \ {v}, ![s].buffer = batch]
            /\ UNCHANGED <<events, upsets, gone, cut>>
    /\ UNCHANGED <<time, seen, table, lease, roll, spoilt>>

FlushByTimer(s) ==
    /\ server[s].stage \in {"up", "stopping"} /\ server[s].buffer # {}
    /\ InsertEvents(s, server[s].buffer)
    /\ server' = [server EXCEPT ![s].buffer = {}]
    /\ UNCHANGED <<time, seen, table, lease, roll, spoilt>>

-----------------------------------------------------------------------------
\* What AggregateDay counts: stored events of the day that are neither bots nor suspect.
AggregateDay(d) == events \cap OfDay(d) \cap Trusted

StartRollup(r, d) ==
    roll' = [roll EXCEPT ![r] = [day |-> d, next |-> 1, read |-> AggregateDay(d)]]

EndRollup(r) == roll' = [roll EXCEPT ![r] = NotRolling]

\* Mutation of Due: the roll-up does not wait for the last batches of the day.
DueAtMidnight(s) == server[s].lastRolled # Yesterday

Due(s) == time.late /\ server[s].lastRolled # Yesterday

\* tick: the process that takes the lease rolls up, the others take the day for done.
Tick(s) ==
    /\ server[s].stage = "up" /\ ~Rolling(s) /\ Due(s)
    /\ IF lease = NoServer
       THEN /\ lease' = s
            /\ StartRollup(s, Yesterday)
            /\ UNCHANGED server
       ELSE /\ server' = [server EXCEPT ![s].lastRolled = Yesterday]
            /\ UNCHANGED <<lease, roll>>
    /\ UNCHANGED <<time, seen, events, table, upsets, gone, cut, spoilt>>

\* One of the four tables: RollupDay. Each is replaced in a transaction of its own.
WriteTable(r) ==
    /\ roll[r].next \in Tables
    /\ table' = [table EXCEPT ![roll[r].next][roll[r].day] = roll[r].read]
    /\ IF r = Admin /\ roll[r].next = LastTable THEN EndRollup(r)
       ELSE roll' = [roll EXCEPT ![r].next = @ + 1]
    /\ UNCHANGED <<time, seen, server, events, lease, upsets, gone, cut, spoilt>>

\* Reading or writing fails; a scheduler keeps the lease and does not set lastRolled.
RollupFails(r) ==
    /\ roll[r].next \in Tables /\ Upset
    /\ spoilt' = spoilt \cup {roll[r].day}
    /\ EndRollup(r)
    /\ UNCHANGED <<time, seen, server, events, table, lease, gone, cut>>

\* Cleanup: the cutoff lies within a day, whose earlier events go.
Cleanup(s) ==
    LET cutoff == time.day - Retention IN
    /\ roll[s].next = LastTable + 1
    /\ \E old \in SUBSET OfDay(cutoff) :
          events' = {v \in events \ old : seen[v] >= cutoff}
    /\ server' = [server EXCEPT ![s].lastRolled = roll[s].day]
    /\ EndRollup(s)
    /\ UNCHANGED <<time, seen, table, lease, upsets, gone, cut, spoilt>>

\* DeleteEventsBefore fails: the day counts as done all the same.
CleanupFails(s) ==
    /\ roll[s].next = LastTable + 1 /\ Upset
    /\ server' = [server EXCEPT ![s].lastRolled = roll[s].day]
    /\ EndRollup(s)
    /\ UNCHANGED <<time, seen, events, table, lease, gone, cut, spoilt>>

\* A day of Backfill, which takes no lease and any day up to today.
Backfill(d) ==
    /\ ~Rolling(Admin) /\ d <= time.day
    /\ StartRollup(Admin, d)
    /\ spoilt' = IF d <= time.day - Retention THEN spoilt \cup {d} ELSE spoilt
    /\ UNCHANGED <<time, seen, server, events, table, lease, upsets, gone, cut>>

-----------------------------------------------------------------------------
\* What a process leaves behind in the middle of a roll-up.
Abandon(s) ==
    /\ roll' = [roll EXCEPT ![s] = NotRolling]
    /\ spoilt' = IF roll[s].next \in Tables THEN spoilt \cup {roll[s].day} ELSE spoilt

\* SIGTERM, and the requests are over; the context of the workers is cancelled. The ingestor
\* need not see that at once: a select with several ready cases takes any of them.
Stop(s) ==
    /\ server[s].stage = "up" /\ Upset
    /\ server' = [server EXCEPT ![s].stage = "stopping"]
    /\ Abandon(s)
    /\ UNCHANGED <<time, seen, events, table, lease, gone, cut>>

\* The select chooses ctx.Done.
Drain(s) ==
    /\ server[s].stage = "stopping"
    /\ server' = [server EXCEPT ![s].stage = "draining"]
    /\ UNCHANGED <<time, seen, events, table, lease, roll, upsets, gone, cut, spoilt>>

Drained(s) == server[s].stage = "draining" /\ server[s].channel = {}

Exit(s) ==
    /\ Drained(s)
    /\ InsertEvents(s, server[s].buffer)
    /\ server' = [server EXCEPT ![s] = Down]
    /\ UNCHANGED <<time, seen, table, lease, roll, spoilt>>

Crash(s) ==
    /\ server[s].stage # "down" /\ Upset
    /\ server' = [server EXCEPT ![s] = Down]
    /\ gone' = gone \cup server[s].channel \cup server[s].buffer
    /\ Abandon(s)
    /\ UNCHANGED <<time, seen, events, table, lease, cut>>

Start(s) ==
    /\ server[s].stage = "down"
    /\ server' = [server EXCEPT ![s] = Started]
    /\ UNCHANGED <<time, seen, events, table, lease, roll, upsets, gone, cut, spoilt>>

\* The lease ends two hours after it was taken, long after the roll-up.
LeaseEnds ==
    /\ lease # NoServer /\ ~Rolling(lease)
    /\ lease' = NoServer
    /\ UNCHANGED <<time, seen, server, events, table, roll, upsets, gone, cut, spoilt>>

-----------------------------------------------------------------------------
Pending == UNION {server[s].channel \cup server[s].buffer : s \in Servers}

\* 00:30: the ingestor writes every two seconds, and no request takes half an hour.
HalfPast ==
    /\ ~time.late
    /\ \A v \in Pending : seen[v] = time.day
    /\ \A s \in Servers : server[s].stage \in {"down", "up"}
    /\ ~Rolling(Admin)
    /\ time' = [time EXCEPT !.late = TRUE]
    /\ UNCHANGED <<seen, server, events, table, lease, roll, upsets, gone, cut, spoilt>>

\* Midnight: a process that was up has ticked since 00:30.
NextDay ==
    /\ time.late /\ time.day < LastDay
    /\ \A r \in Rollers : ~Rolling(r)
    /\ \A s \in Servers : server[s].stage = "down" \/ server[s].lastRolled = Yesterday
    /\ time' = [day |-> time.day + 1, late |-> FALSE]
    /\ spoilt' = IF Yesterday \in Days /\ \A s \in Servers : server[s].stage = "down"
                 THEN spoilt \cup {Yesterday} ELSE spoilt
    /\ lease' = NoServer
    /\ UNCHANGED <<seen, server, events, table, roll, upsets, gone, cut>>

AnalyticsNext ==
    \/ \E s \in Servers, v \in Views : Collect(s, v) \/ CollectLate(s, v) \/ Receive(s, v)
    \/ \E s \in Servers : \/ FlushByTimer(s) \/ Tick(s) \/ Cleanup(s) \/ CleanupFails(s)
                          \/ Stop(s) \/ Drain(s) \/ Exit(s) \/ Crash(s) \/ Start(s)
    \/ \E r \in Rollers : WriteTable(r) \/ RollupFails(r)
    \/ \E d \in Days : Backfill(d)
    \/ LeaseEnds \/ HalfPast \/ NextDay

AnalyticsSpec == AnalyticsInit /\ [][AnalyticsNext]_analyticsVars

-----------------------------------------------------------------------------
\* What the ingestor promises (ingest.go:65): no view is forgotten between the request and the
\* table of events. Until the retention takes it, it waits, is stored, or was dropped by a full
\* channel or lost to a fault. The code does not keep it: see cut.
ViewsAccountedFor ==
    \A v \in Views : seen[v] # 0 =>
        \/ v \in Pending \cup events \cup gone
        \/ seen[v] <= time.day - Retention

Lost == gone \cup cut

\* What the code does keep: no other view is forgotten than those it flushes between the
\* cancellation of the ingestor and its drain. The two hand-overs of a shutdown (HTTP, then the
\* workers), and requests that outlive the first, are where another could be.
OnlyCutIsForgotten ==
    \A v \in Views : seen[v] # 0 =>
        \/ v \in Pending \cup events \cup Lost
        \/ seen[v] <= time.day - Retention

\* The permanent numbers are complete: from the day after next on, each of the four tables
\* counts every trusted view of the day that was not lost, unless the roll-up of the day
\* failed or was missed, or a backfill ran after the retention had taken its events. Several
\* processes share the day by a lease that ends while their memory of it may be gone.
HistoryIsComplete ==
    \A d \in Days \ spoilt : d < Yesterday =>
        \A t \in Tables : table[t][d] = (OfDay(d) \cap Trusted) \ Lost

\* The two together: but for what the flush with the cancelled context loses, no view is
\* forgotten on its way into the table of events, nor on its way from there into the
\* permanent numbers.
AnalyticsSound == OnlyCutIsForgotten /\ HistoryIsComplete
=============================================================================
