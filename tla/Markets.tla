------------------------------ MODULE Markets -------------------------------
(***************************************************************************)
(* What the auto-market engine and the AI author share: the pools on chain *)
(* and the database rows of one fixture's markets, while the match is      *)
(* announced, moved, played and resolved.  A pool account is addressed by  *)
(* its terms and can be created once; a row is addressed by its slug.      *)
(*                                                                         *)
(* What Keeper and Pool say of one market in detail is here in brief: a    *)
(* row is Active (Open, Locked, InPlay or AwaitingRoot), Settled or Void;  *)
(* a pool is open, resolved or void, and only the pools of the catalog are *)
(* followed to their end.  Who won is Keeper's and Pool's matter: neither  *)
(* pools nor rows have a winner here, so that a superseding resolve and a  *)
(* backfilled receipt change nothing.  Times are minutes since a midnight  *)
(* (UTC).  refreshStaleFixtures, three hours after the start, is           *)
(* Indexer's: by then the fixture is no longer looked at.                  *)
(***************************************************************************)
EXTENDS Catalog, FiniteSets

CONSTANTS
    Defs,               \* the catalog, as the sequence of defs the tick visits
    StartTimes,         \* StartTime values the feed may give; the first is Kickoff
    Kickoff,
    Instants,           \* BOUND: the instants at which something is looked at
    Counted, MaxCount,  \* BOUND: which statistics move, and how far
    Shortfalls,         \* BOUND: what may be wrong with a record of the feed
    MaxFaults           \* BOUND on failed calls, crashes and database losses

ASSUME MarketsAssumption ==
    /\ Defs \in Seq(classAMarkets)
    /\ Kickoff \in StartTimes /\ StartTimes \subseteq Int /\ Instants \subseteq Int
    /\ Counted \subseteq 1..8 /\ MaxCount \in Nat /\ MaxFaults \in Nat
    /\ Shortfalls \subseteq {"status", "clock", "counts", "replayed"}

marketHorizon   == 20160          \* config.marketHorizonMs, 14 days
RECOVERY_WINDOW == 4320           \* 3 days
resolveDeadline == 720            \* config.resolveDeadlineMs, 12 hours
FullTimeAfter   == 107            \* external: a match lasts that long

VARIABLES
    now,                \* the time
    start,              \* external: StartTime in the feed
    stats,              \* external: the match's counts, by key
    pools,              \* chain: [terms -> pool], for the terms that have one
    rows,               \* markets: [id -> row], for the ids that have one
    fixture,            \* the fixtures row, or NoFixture
    faults

worldVars == <<now, start, stats>>
dbVars == <<rows, fixture>>
marketVars == <<worldVars, pools, dbVars, faults>>

CatalogTerms == {Defs[i].legs[1] : i \in {j \in 1..Len(Defs) : Len(Defs[j].legs) = 1}}

Put(f, k, v) == [x \in DOMAIN f \cup {k} |-> IF x = k THEN v ELSE f[x]]
PutNew(f, k, v) == IF k \in DOMAIN f THEN f ELSE Put(f, k, v)

NoStats == [k \in StatKeys |-> 0]
\* A champion market attached to the match: its team leads at the end.
ChampionLegs(team) == <<Lead(Goals[team], Goals[3 - team], "GreaterThan", 0)>>
ChampionTerms == {ChampionLegs(team)[1] : team \in 1..2}

Unknown == <<>>                   \* statsJson null
NoClock == -1                     \* clockSeconds null
\* told is history: the last record had a documented status.
NoFixture == [start |-> 0, status |-> 0, minute |-> NoClock, stats |-> Unknown,
              lastTs |-> -1, told |-> TRUE]
Known == fixture # NoFixture

\* madeAt and told are history: what an in-play pool was authored from.
Pool(lock, st, by, madeAt, told) ==
    [lock |-> lock, deadline |-> st + resolveDeadline, start |-> st,
     by |-> by, state |-> "open", madeAt |-> madeAt, told |-> told]
Row(legs, hasPool, lock, state, origin) ==
    [legs |-> legs, hasPool |-> hasPool, lock |-> lock, state |-> state, origin |-> origin]

MarketsInit(found) ==
    /\ now \in Instants /\ \A t \in Instants : now <= t
    /\ start = Kickoff
    /\ stats = NoStats
    /\ pools = <<>>
    /\ rows = found
    /\ fixture = NoFixture
    /\ faults = 0

-----------------------------------------------------------------------------
(***************************************************************************)
(* The world: time, the match, and the feed.                               *)
(***************************************************************************)
StatusAt(t) ==
    CASE t < start                      -> 1
      [] t \in start .. start + 46      -> 2
      [] t \in start + 47 .. start + 61 -> 3
      [] t \in start + 62 .. start + FullTimeAfter - 1 -> 4
      [] t >= start + FullTimeAfter     -> 5
MinuteAt(t) ==
    CASE StatusAt(t) = 1 -> 0
      [] StatusAt(t) = 2 -> t - start
      [] StatusAt(t) = 3 -> 45
      [] StatusAt(t) = 4 -> t - start - 17
      [] StatusAt(t) = 5 -> 90

\* fixturesSnapshot: the feed lists what starts from yesterday's day on.
Listed == start \div 1440 >= now \div 1440 - 1

\* Time moves on to the next instant.
Tick ==
    /\ \E t \in Instants : /\ t > now
                           /\ \A u \in Instants : u > now => t <= u
                           /\ now' = t
    /\ UNCHANGED <<start, stats, pools, dbVars, faults>>

Reschedule(s) ==
    /\ s # start /\ start = Kickoff /\ now < s /\ now < start
    /\ start' = s
    /\ UNCHANGED <<now, stats, pools, dbVars, faults>>

\* A goal, a card or a corner, counted for the match and for its half.
Count(base) ==
    /\ StatusAt(now) \in {2, 4}
    /\ stats[base] < MaxCount
    /\ stats' = [k \in StatKeys |->
                   IF k \in {base, Key(base, IF StatusAt(now) = 2 THEN 1 ELSE 2)}
                     THEN stats[k] + 1 ELSE stats[k]]
    /\ UNCHANGED <<now, start, pools, dbVars, faults>>

\* What a record leaves in the fixture's row.  An undocumented status, a
\* zeroed clock and missing counts keep what the row had, and so does a
\* finished match; the record's time is always taken.
Latest(ts, lacks, counts) ==
    [fixture EXCEPT
        !.status = IF "status" \in lacks \/ @ = 5 THEN @ ELSE StatusAt(ts),
        !.minute = IF "clock" \in lacks \/ ts < start THEN @ ELSE MinuteAt(ts),
        !.stats = IF "counts" \in lacks THEN @ ELSE counts,
        !.lastTs = ts, !.told = "status" \notin lacks]

\* The indexer writes the latest record or, hydrating, replays an older one.
Index ==
    /\ Known
    /\ \E ts \in Instants, lacks \in SUBSET Shortfalls, counts \in {stats, NoStats} :
        /\ start - 60 <= ts /\ ts <= now /\ (ts < now <=> "replayed" \in lacks)
        /\ counts = stats \/ ts < now
        /\ fixture' = Latest(ts, lacks, counts)
    /\ UNCHANGED <<worldVars, pools, rows, faults>>

-----------------------------------------------------------------------------
(***************************************************************************)
(* The chain and the settler: once the match is over anyone resolves a     *)
(* pool; past its deadline anyone voids it.  The row follows.              *)
(***************************************************************************)
Proved(t) ==
    /\ pools[t].state = "open" /\ StatusAt(now) = 5 /\ now < pools[t].deadline
    /\ pools' = [pools EXCEPT ![t].state = "resolved"]
    /\ UNCHANGED <<worldVars, dbVars, faults>>

Voided(t) ==
    /\ pools[t].state = "open" /\ now >= pools[t].deadline
    /\ pools' = [pools EXCEPT ![t].state = "void"]
    /\ UNCHANGED <<worldVars, dbVars, faults>>

\* Past its deadline a row ends Void, whatever became of its pool: see Keeper.
Settles(id) ==
    /\ rows[id].state = "Active" /\ rows[id].origin = "catalog"
    /\ \/ /\ IF rows[id].hasPool THEN pools[rows[id].legs[1]].state = "resolved"
                                 ELSE StatusAt(now) = 5
          /\ rows' = [rows EXCEPT ![id].state = "Settled"]
       \/ /\ \/ rows[id].hasPool /\ pools[rows[id].legs[1]].state = "void"
             \/ now >= rows[id].lock + LockLead + resolveDeadline
          /\ rows' = [rows EXCEPT ![id].state = "Void"]
    /\ UNCHANGED <<worldVars, pools, fixture, faults>>

\* The engine's upsert of the fixture's row: on a conflict only StartTime.
Upserted ==
    IF Known THEN [fixture EXCEPT !.start = start]
             ELSE [NoFixture EXCEPT !.start = start, !.lastTs = 0]

\* The process stops and starts again; the database may be lost with it.
Restarts(lost) ==
    /\ faults < MaxFaults /\ faults' = faults + 1
    /\ IF lost THEN rows' = <<>> /\ fixture' = NoFixture ELSE UNCHANGED dbVars
    /\ UNCHANGED <<worldVars, pools>>

\* When the AI author looks at a fixture: in play and freshly reported, or
\* half an hour to two days before its start.
LiveAnyAge(f) == f.status \in 2..4 /\ now < f.start + 150
Live(f) == f.status \in 2..4 /\ now < f.start + 150 /\ now - f.lastTs < 10
Upcoming(f) == f.status \in {0, 1} /\ f.start > now + 30 /\ f.start < now + 2880

World == Tick \/ (\E s \in StartTimes : Reschedule(s)) \/ (\E base \in Counted : Count(base)) \/ Index

Settlement ==
    \/ \E t \in CatalogTerms \cap DOMAIN pools : Proved(t) \/ Voided(t)
    \/ \E id \in DOMAIN rows : Settles(id)

-----------------------------------------------------------------------------
(***************************************************************************)
(* What holds of the world and of the fixture's row, whoever makes the     *)
(* markets: the parts of the inductive invariants of Engine and Author     *)
(* that they share.                                                        *)
(***************************************************************************)
WorldTypeOK ==
    /\ now \in Instants /\ start \in StartTimes
    /\ stats \in [StatKeys -> 0..MaxCount]
    /\ \A base \in 1..8, period \in 0..2 : stats[Key(base, period)] <= stats[base]
    /\ faults \in 0..MaxFaults

FixtureRows ==
    [start : StartTimes \cup {0}, status : 0..5, minute : Int,
     stats : [StatKeys -> 0..MaxCount] \cup {Unknown}, lastTs : Int, told : BOOLEAN]

\* The row knows the start as it was first announced or as it is now; it
\* reports play only of a match that has begun, which is no longer moved, and
\* a record with a documented status reports what was so at its time.
FixtureFollowsFeed ==
    /\ fixture \in FixtureRows
    /\ Known => fixture.start \in {Kickoff, start}
    /\ fixture.status >= 2 => start <= now
    /\ fixture.told /\ fixture.status \in 2..4 =>
          fixture.lastTs <= now /\ fixture.status = StatusAt(fixture.lastTs)

PoolRecords ==
    [lock : Int, deadline : Int, start : Int,
     by : {"engine", "live", "prematch", "champion"}, state : {"open", "resolved", "void"},
     madeAt : Int, told : BOOLEAN]

\* A pool is made for the start as first announced or as it is now, and before
\* the match it locks ahead of that start.
PoolsWellMade ==
    \A t \in DOMAIN pools :
        /\ pools[t] \in PoolRecords
        /\ pools[t].start \in {Kickoff, start}
        /\ pools[t].by # "live" => pools[t].lock = pools[t].start - LockLead

\* A row of the catalog is that of a def, with a pool unless it is composite,
\* and shows the lock of a pool made before the match.
RowFits(id, r) ==
    /\ r = Row(r.legs, r.hasPool, r.lock, r.state, r.origin)
    /\ r.hasPool \in BOOLEAN
    /\ r.state \in {"Active", "Settled", "Void"}
    /\ r.origin = "catalog" =>
          /\ \E i \in 1..Len(Defs) : id = Defs[i].slug /\ r.legs = Defs[i].legs
          /\ r.hasPool <=> Len(r.legs) = 1
          /\ r.lock \in {Kickoff - LockLead, start - LockLead}
RowsWellMade == \A id \in DOMAIN rows : RowFits(id, rows[id])

\* A row that names a pool has one on chain, and is settled only once its
\* pool is resolved: after failed and half-failed creates, adoptions, a lost
\* database and the recovery from the chain (autoMarket.ts 31-61, 186-209).
RowTellsItsPool ==
    \A id \in DOMAIN rows :
        LET r == rows[id] IN
        r.hasPool => /\ r.legs[1] \in DOMAIN pools
                     /\ r.state = "Settled" => pools[r.legs[1]].state = "resolved"

\* A pool made before the match stops taking stakes before kickoff, and the
\* row shows its lock; unless the match was moved after the pool was created
\* (autoMarket.ts 150, 180, 190; aiMarkets.ts 749).
LocksBeforeKickoff ==
    \A t \in DOMAIN pools : pools[t].by # "live" =>
        /\ pools[t].lock >= start => start < Kickoff /\ pools[t].start = Kickoff
        /\ start = Kickoff => \A id \in DOMAIN rows :
                rows[id].hasPool /\ rows[id].legs[1] = t => rows[id].lock = pools[t].lock
=============================================================================
