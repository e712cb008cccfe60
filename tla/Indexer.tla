------------------------------ MODULE Indexer -------------------------------
(***************************************************************************)
(* The live indexer of the server (services/indexer.ts) on one fixture.    *)
(*                                                                         *)
(* Records of the scores feed reach it over a stream and in snapshots that *)
(* it pulls at startup and on a poll.  The stream's callback starts one    *)
(* call of apply per record and does not wait for it, so the records of    *)
(* one network chunk are applied concurrently: every await of a database   *)
(* call ends the turn of one call and lets the next one go on, in the      *)
(* order of the microtask queue.  A snapshot's records are applied one     *)
(* after the other.  The database is synchronous, so a queue of calls is   *)
(* worked off before the event loop turns to the next callback.            *)
(*                                                                         *)
(* External: the match, the feed, the stream (it drops, and on             *)
(* reconnection may skip records or repeat them), the clock.               *)
(***************************************************************************)
EXTENDS Sequences, FiniteSets, MarketRow

CONSTANTS
    MarketList,     \* the fixture's markets, in the table's order
    MatchAfter,     \* [status -> statuses the match may enter next]
    Undocumented,   \* a StatusId outside 1..19, as archival records carry
    MaxRecords,     \* BOUND on the length of the feed
    MaxChunk,       \* BOUND on the records that arrive together
    Horizon,        \* BOUND on the clock
    StaleAfter      \* the instant three hours after kickoff

\* The author's terms are on the full game, 0, or one half (aiMarkets.ts 62).
ASSUME IndexerAssumption ==
    /\ MarketList \in Seq([period : 0..2, inPlay : BOOLEAN, lock : Int])
    /\ NS \in DOMAIN MatchAfter
    /\ \A s \in DOMAIN MatchAfter : MatchAfter[s] \subseteq DOMAIN MatchAfter
    /\ Undocumented \in Nat \ 0..19
    /\ MaxRecords \in Nat /\ MaxChunk \in Nat /\ Horizon \in Nat /\ StaleAfter \in Nat

Markets == DOMAIN MarketList
Statuses == DOMAIN MatchAfter

VARIABLES
    clock,
    match,          \* external: status of the match
    feed,           \* external: records so far, [raw, ts]
    connected,      \* the stream is up
    pos,            \* records the stream has passed, 0 while disconnected
    fixtureStatus,  \* fixtures.statusId
    rows,           \* markets.state of each market, "Absent" before its insertion
    authored,       \* in-play markets the AI author is about to insert
    inFlight,       \* the calls of apply under way, in microtask order
    found,          \* the status refreshStaleFixtures has found and will write, or NoStatus
    refreshed       \* history: refreshStaleFixtures wrote the row's status, not apply

refreshVars == <<found, refreshed>>
ivars == <<clock, match, feed, connected, pos, fixtureStatus, rows, authored, inFlight, refreshVars>>

Idle == inFlight = <<>>

RowStates == Indexed \cup {"Absent", "Void"}

\* A call of apply: its record, where it awaits, the status it made of it, the
\* rows as it listed them, and the writes it has left: of a market's row, 1, and
\* of the notification that follows it, 2.
Calls == [raw : Statuses \cup {Undocumented}, now : 0..Horizon,
          at : {"read", "update", "list", "write"}, status : 0..19,
          open : [Markets -> RowStates], todo : SUBSET (Markets \X (1..2)),
          next : Seq(Statuses \cup {Undocumented})]

IndexerTypeOK ==
    /\ clock \in 0..Horizon
    /\ match \in Statuses
    /\ feed \in Seq([raw : Statuses \cup {Undocumented}, ts : 0..Horizon])
    /\ connected \in BOOLEAN
    /\ pos \in 0..Len(feed)
    /\ fixtureStatus \in 0..19
    /\ rows \in [Markets -> RowStates]
    /\ authored \subseteq Markets
    /\ inFlight \in Seq(Calls)
    /\ found \in 0..19 /\ refreshed \in BOOLEAN

\* The fixture and the markets made before the match are in the database.
IndexerInit ==
    /\ clock = 0
    /\ match = NS
    /\ feed = <<>>
    /\ connected = FALSE
    /\ pos = 0
    /\ fixtureStatus = NoStatus
    /\ rows = [m \in Markets |-> IF MarketList[m].inPlay THEN "Absent" ELSE "Open"]
    /\ authored = {}
    /\ inFlight = <<>>
    /\ found = NoStatus /\ refreshed = FALSE

-----------------------------------------------------------------------------
(***************************************************************************)
(* The environment.  Time and the match stand still during a microtask.    *)
(***************************************************************************)
Pass ==
    /\ Idle
    /\ clock < Horizon
    /\ clock' = clock + 1
    /\ UNCHANGED <<match, feed, connected, pos, fixtureStatus, rows, inFlight, authored, refreshVars>>

Emit(raw) ==
    /\ Idle
    /\ Len(feed) < MaxRecords
    /\ raw \in MatchAfter[match] \cup {match, Undocumented}
    /\ match' = IF raw = Undocumented THEN match ELSE raw
    /\ feed' = Append(feed, [raw |-> raw, ts |-> clock])
    /\ UNCHANGED <<clock, connected, pos, fixtureStatus, rows, inFlight, authored, refreshVars>>

Drop ==
    /\ Idle
    /\ connected
    /\ connected' = FALSE
    /\ pos' = 0
    /\ UNCHANGED <<clock, match, feed, fixtureStatus, rows, inFlight, authored, refreshVars>>

Reconnect ==
    /\ Idle
    /\ ~connected
    /\ connected' = TRUE
    /\ pos' \in 0..Len(feed)
    /\ UNCHANGED <<clock, match, feed, fixtureStatus, rows, inFlight, authored, refreshVars>>

-----------------------------------------------------------------------------
(***************************************************************************)
(* apply, one segment between two awaits at a time.  A call for a record   *)
(* of a snapshot carries the records to apply after it.                    *)
(***************************************************************************)
Unlisted == [m \in Markets |-> "Absent"]
Call(raw, next) ==
    [raw |-> raw, now |-> clock, at |-> "read", status |-> NoStatus, open |-> Unlisted,
     todo |-> {}, next |-> next]

\* What apply will write for the rows it listed, in their order.  A row that
\* becomes Locked is followed by the insertion of a notification.
NextState(m, state, status, now) ==
    StateAfter(state, status, now >= MarketList[m].lock, MarketList[m].inPlay,
               MarketList[m].period)

Changed(table, status, now) ==
    {m \in Markets : table[m] \in Indexed /\ NextState(m, table[m], status, now) # table[m]}
WritesFor(table, status, now) ==
    (Changed(table, status, now) \X {1})
        \cup ({m \in Changed(table, status, now) :
                 NextState(m, table[m], status, now) = "Locked"} \X {2})

First(w, todo) == \A v \in todo : w[1] < v[1] \/ (w[1] = v[1] /\ w[2] <= v[2])

\* The stream hands over the records of one chunk.
Deliver(n) ==
    /\ Idle
    /\ connected
    /\ pos + n <= Len(feed)
    /\ pos' = pos + n
    /\ inFlight' = [i \in 1..n |-> Call(feed[pos + i].raw, <<>>)]
    /\ UNCHANGED <<clock, match, feed, connected, fixtureStatus, rows, authored, refreshVars>>

Turn == Head(inFlight)

\* The call whose turn it is awaits its next database call, or is done.
Awaits(call) == inFlight' = Append(Tail(inFlight), call)
Returns ==
    inFlight' = IF Turn.next = <<>> THEN Tail(inFlight)
                ELSE Append(Tail(inFlight), Call(Head(Turn.next), Tail(Turn.next)))

ReadFixture ==
    /\ ~Idle /\ Turn.at = "read"
    /\ Awaits([Turn EXCEPT !.at = "update", !.status = StatusAfter(Turn.raw, fixtureStatus)])
    /\ UNCHANGED <<fixtureStatus, rows, refreshed>>

UpdateFixture ==
    /\ ~Idle /\ Turn.at = "update"
    /\ fixtureStatus' = Turn.status
    /\ refreshed' = FALSE
    /\ Awaits([Turn EXCEPT !.at = "list"])
    /\ UNCHANGED rows

ListMarkets ==
    /\ ~Idle /\ Turn.at = "list"
    /\ LET todo == WritesFor(rows, Turn.status, Turn.now) IN
       IF todo = {} THEN Returns
       ELSE Awaits([Turn EXCEPT !.at = "write", !.open = rows, !.todo = todo])
    /\ UNCHANGED <<fixtureStatus, rows, refreshed>>

Written(call, m) == NextState(m, call.open[m], call.status, call.now)

WriteRow ==
    /\ ~Idle /\ Turn.at = "write"
    /\ \E w \in Turn.todo :
        /\ First(w, Turn.todo)
        /\ rows' = IF w[2] = 1 THEN [rows EXCEPT ![w[1]] = Written(Turn, w[1])] ELSE rows
        /\ IF Turn.todo = {w} THEN Returns ELSE Awaits([Turn EXCEPT !.todo = @ \ {w}])
    /\ UNCHANGED <<fixtureStatus, refreshed>>

Microtask ==
    /\ ReadFixture \/ UpdateFixture \/ ListMarkets \/ WriteRow
    /\ UNCHANGED <<clock, match, feed, connected, pos, authored, found>>

-----------------------------------------------------------------------------
(***************************************************************************)
(* pullSnapshot: all records so far, the next when the one before is done. *)
(***************************************************************************)
PullSnapshot ==
    /\ feed # <<>>
    /\ LET raws == [i \in DOMAIN feed |-> feed[i].raw] IN
       inFlight' = <<Call(Head(raws), Tail(raws))>>

\* The poll: only for a fixture in its window (assumed open for the whole
\* behaviour) whose row is neither finished nor void.
PollBeforeKickoff == fixtureStatus \in {NoStatus, NS}
PollDue == fixtureStatus \notin FINISHED_STATUSES \cup VOID_STATUSES

Poll ==
    /\ Idle
    /\ PollDue
    /\ PullSnapshot
    /\ UNCHANGED <<clock, match, feed, connected, pos, fixtureStatus, rows, authored, refreshVars>>

\* The process starts again: it hydrates from the snapshot, or fails to, and
\* connects the stream.
Restart ==
    /\ Idle
    /\ PullSnapshot \/ UNCHANGED inFlight
    /\ connected' = FALSE
    /\ pos' = 0
    /\ authored' = {} /\ found' = NoStatus
    /\ UNCHANGED <<clock, match, feed, fixtureStatus, rows, refreshed>>

(***************************************************************************)
(* The other writers of these rows: the settler's lock sweep, and the AI   *)
(* author.  It starts on an in-play market when the fixture's row says     *)
(* live, waits for the language model and for create_market, and inserts   *)
(* the row without looking at the fixture again.  The wait is shorter than *)
(* the six minutes or more until the market's lock.                        *)
(***************************************************************************)
LockSweep ==
    /\ Idle
    /\ rows' = [m \in Markets |->
                  IF rows[m] = "Open" /\ clock >= MarketList[m].lock THEN "Locked" ELSE rows[m]]
    /\ UNCHANGED <<clock, match, feed, connected, pos, fixtureStatus, inFlight, authored, refreshVars>>

Author(m) ==
    /\ Idle
    /\ rows[m] = "Absent" /\ found = NoStatus
    /\ fixtureStatus \in 2..4
    /\ clock < MarketList[m].lock
    /\ authored' = authored \cup {m}
    /\ UNCHANGED <<clock, match, feed, connected, pos, fixtureStatus, rows, inFlight, refreshVars>>

InsertInPlay(m) ==
    /\ Idle
    /\ m \in authored
    /\ clock < MarketList[m].lock
    /\ rows' = [rows EXCEPT ![m] = "Open"]
    /\ authored' = authored \ {m}
    /\ UNCHANGED <<clock, match, feed, connected, pos, fixtureStatus, inFlight, refreshVars>>

(***************************************************************************)
(* The author's refreshStaleFixtures, before its slow tick: of a fixture   *)
(* that kicked off three hours ago and is not finished it pulls the        *)
(* snapshot, and then writes the last documented status in it, whatever    *)
(* apply has written meanwhile.  It moves no market, and a status it       *)
(* writes that is finished ends the poll.                                  *)
(***************************************************************************)
Documented == {i \in DOMAIN feed : feed[i].raw \in 1..19}

RefreshReads ==
    /\ Idle
    /\ authored = {} /\ found = NoStatus
    /\ clock > StaleAfter
    /\ fixtureStatus \notin FINISHED_STATUSES
    /\ \E i \in Documented : (\A j \in Documented : j <= i) /\ found' = feed[i].raw
    /\ UNCHANGED <<clock, match, feed, connected, pos, fixtureStatus, rows, inFlight, authored, refreshed>>

RefreshWrites ==
    /\ Idle
    /\ found # NoStatus
    /\ fixtureStatus' = found
    /\ found' = NoStatus /\ refreshed' = TRUE
    /\ UNCHANGED <<clock, match, feed, connected, pos, rows, inFlight, authored>>

-----------------------------------------------------------------------------
IndexerNext ==
    \/ Pass
    \/ \E raw \in Statuses \cup {Undocumented} : Emit(raw)
    \/ Drop
    \/ Reconnect
    \/ \E n \in 1..MaxChunk : Deliver(n)
    \/ Microtask
    \/ Poll
    \/ Restart
    \/ LockSweep
    \/ \E m \in Markets : Author(m) \/ InsertInPlay(m)
    \/ RefreshReads \/ RefreshWrites

IndexerSpec == IndexerInit /\ [][IndexerNext]_ivars

(***************************************************************************)
(* The event loop works off its microtasks; the poll comes round again,    *)
(* and not every one of its calls fails.                                   *)
(***************************************************************************)
IndexerFairSpec == IndexerSpec /\ WF_ivars(Microtask) /\ SF_ivars(Poll)

-----------------------------------------------------------------------------
(***************************************************************************)
(* Properties.                                                             *)
(***************************************************************************)

\* A full-game market waits for its proof only when the end of the match has
\* been reported, whatever came late, twice, out of range or at the same time
\* (decidingStatusFor's default, apply).
AwaitingMeansOver ==
    \A m \in Markets :
        (MarketList[m].period = 0 /\ rows[m] = "AwaitingRoot") =>
            \E i \in DOMAIN feed : feed[i].raw \in FINISHED_STATUSES

\* Between callbacks the fixture's row and its markets' agree, as long as the
\* status is one that apply wrote: with the match finished no market is in play,
\* and with the match live no market that locks at kickoff takes bets.  A status
\* that refreshStaleFixtures wrote moves no market (aiMarkets.ts 159-167).
RowsAgree ==
    Idle /\ ~refreshed =>
        \A m \in Markets :
            /\ fixtureStatus \in FINISHED_STATUSES => rows[m] # "InPlay"
            /\ fixtureStatus \in 2..4 /\ ~MarketList[m].inPlay => rows[m] # "Open"

\* Once the match is over the fixture's row says so for good, although the
\* stream may have lost the closing record (the live-window poll).
FixtureCatchesUp ==
    match \in FINISHED_STATUSES ~> [](fixtureStatus \in FINISHED_STATUSES)

\* A market that locked before the match ended gets to wait for its proof, unless
\* refreshStaleFixtures tells the row of the end before the poll does: the poll
\* then leaves the fixture alone (indexer.ts 190-197, aiMarkets.ts 132-168).
EndReports == {i \in DOMAIN feed : feed[i].raw \in FINISHED_STATUSES}

RowsCatchUp ==
    \A m \in Markets :
        (/\ rows[m] # "Absent" /\ EndReports # {}
         /\ \A i \in EndReports : feed[i].ts >= MarketList[m].lock)
            ~> \/ rows[m] \in {"AwaitingRoot", "Void"}
               \/ refreshed /\ fixtureStatus \in FINISHED_STATUSES

\* The poll exists so that a finished match is not "stuck with no score and its
\* markets never advancing" when the stream loses records (live-window poll):
\* a market with a record of the finished match after its lock, which resolve
\* would accept, gets to wait for its proof.
LateLocksCatchUp ==
    \A m \in Markets :
        (/\ rows[m] # "Absent"
         /\ \E i \in EndReports : feed[i].ts >= MarketList[m].lock)
            ~> rows[m] \in {"AwaitingRoot", "Void"}

\* "Finished is terminal: replayed/late records must never regress a final
\* status back to a live one" (apply).
FinishedIsTerminal ==
    [][(fixtureStatus \in FINISHED_STATUSES) =>
          fixtureStatus' \in FINISHED_STATUSES \cup VOID_STATUSES]_ivars
-----------------------------------------------------------------------------
(***************************************************************************)
(* Why RowsAgree holds: what is true between two microtasks.  The calls of *)
(* one chunk advance in step, so all list before one writes, and the last  *)
(* to update the fixture is the last to list and has the most to write.    *)
(***************************************************************************)
Stage(at) ==
    CASE at = "read" -> 1 [] at = "update" -> 2 [] at = "list" -> 3 [] at = "write" -> 4

InStep ==
    /\ \A i \in DOMAIN inFlight : inFlight[i].now = clock
    /\ \A i, j \in DOMAIN inFlight : i < j =>
         Stage(inFlight[j].at) \in Stage(inFlight[i].at)..(Stage(inFlight[i].at) + 1)
    /\ \A i \in DOMAIN inFlight : inFlight[i].next # <<>> => Len(inFlight) = 1

\* Nothing is written of the rows that a call is still to list.
ListsBeforeWrites ==
    /\ \A i \in DOMAIN inFlight : inFlight[i].at = "write" =>
         inFlight[i].todo \subseteq WritesFor(inFlight[i].open, inFlight[i].status, clock)
    /\ \A i, j \in DOMAIN inFlight : inFlight[i].at = "list" /\ inFlight[j].at = "write" =>
         /\ inFlight[j].open = rows
         /\ inFlight[j].todo = WritesFor(rows, inFlight[j].status, clock)

\* Whatever says that the match is over, the feed said it first.
Over == \E i \in DOMAIN feed : feed[i].raw \in FINISHED_STATUSES
OverWasReported ==
    /\ fixtureStatus \in FINISHED_STATUSES \/ found \in FINISHED_STATUSES => Over
    /\ \A i \in DOMAIN inFlight :
         /\ inFlight[i].raw \in FINISHED_STATUSES => Over
         /\ inFlight[i].status \in FINISHED_STATUSES => Over
         /\ \A k \in DOMAIN inFlight[i].next :
              inFlight[i].next[k] \in FINISHED_STATUSES => Over

InPlayMarkets == {m \in Markets : MarketList[m].inPlay}
OnlyInPlayIsAuthored ==
    /\ authored \subseteq InPlayMarkets
    /\ \A m \in Markets : rows[m] = "Absent" => m \in InPlayMarkets

\* A market that kickoff should have locked: a call will see to it.
WillLock(c, m) ==
    /\ c.status \in 2..4
    /\ c.at = "list" \/ (c.at = "write" /\ <<m, 1>> \in c.todo)
KickoffLocks ==
    \A m \in Markets \ InPlayMarkets : ~refreshed /\ fixtureStatus \in 2..4 /\ rows[m] = "Open" =>
        \E i \in DOMAIN inFlight : WillLock(inFlight[i], m)

\* A call that will put market m in play, and what it writes before.
Plays(c, m) == c.at = "write" /\ <<m, 1>> \in c.todo /\ Written(c, m) = "InPlay"
Before(c, m) == {w \in c.todo : w[1] < m}

\* With the match finished no market is or will be in play, or some call of the
\* finished match will list the rows after every other, or it writes every such
\* row after it is put in play.
NonePlays ==
    /\ \A i \in DOMAIN inFlight : inFlight[i].at # "list"
    /\ \A m \in Markets : rows[m] # "InPlay" /\ \A i \in DOMAIN inFlight : ~Plays(inFlight[i], m)
ListsLast(j) ==
    /\ inFlight[j].at = "list"
    /\ \A i \in DOMAIN inFlight : i > j => inFlight[i].at = "write"
WritesLast(j) ==
    /\ \A i \in DOMAIN inFlight : inFlight[i].at = "write"
    /\ \A m \in Markets :
         /\ rows[m] = "InPlay" => <<m, 1>> \in inFlight[j].todo
         /\ \A i \in DOMAIN inFlight : Plays(inFlight[i], m) =>
              /\ <<m, 1>> \in inFlight[j].todo
              /\ i < j => Cardinality(Before(inFlight[i], m)) <= Cardinality(Before(inFlight[j], m))
              /\ i > j => Cardinality(Before(inFlight[i], m)) < Cardinality(Before(inFlight[j], m))
FinishedCovers ==
    ~refreshed /\ fixtureStatus \in FINISHED_STATUSES =>
        NonePlays \/ \E j \in DOMAIN inFlight :
                       inFlight[j].status \in FINISHED_STATUSES /\ (ListsLast(j) \/ WritesLast(j))

IndexerInv ==
    /\ IndexerTypeOK
    /\ InStep
    /\ ListsBeforeWrites
    /\ OverWasReported
    /\ AwaitingMeansOver
    /\ OnlyInPlayIsAuthored
    /\ KickoffLocks
    /\ FinishedCovers
=============================================================================
