---------------------------- MODULE IndexerProofs ---------------------------
(***************************************************************************)
(* Proofs about Indexer, for every list of markets, every course of the    *)
(* match, feeds and chunks of any length, and any horizon.                 *)
(***************************************************************************)
EXTENDS Indexer, FiniteSetTheorems, TLAPS

(***************************************************************************)
(* What a record makes of a fixture and of a row.                          *)
(***************************************************************************)

LEMMA MarketFields ==
    ASSUME NEW m \in Markets
    PROVE  /\ MarketList[m].period \in 0..2 /\ MarketList[m].inPlay \in BOOLEAN
           /\ MarketList[m].lock \in Int /\ m \in Nat
<1> DEFINE Terms == [period : 0..2, inPlay : BOOLEAN, lock : Int]
<1>1. MarketList \in Seq(Terms)
    BY IndexerAssumption
<1>2. MarketList[m] \in Terms =>
        /\ MarketList[m].period \in 0..2 /\ MarketList[m].inPlay \in BOOLEAN
        /\ MarketList[m].lock \in Int
    OBVIOUS
<1> HIDE DEF Terms
<1>3. m \in Nat /\ MarketList[m] \in Terms
    BY <1>1 DEF Markets
<1>4. QED BY <1>2, <1>3

LEMMA MarketsFinite == IsFiniteSet(Markets \X (1..2))
<1>1. PICK n \in Nat : Markets = 1..n
    BY IndexerAssumption DEF Markets
<1>2. 1 \in Int /\ 2 \in Int /\ n \in Int
    BY <1>1
<1>3. IsFiniteSet(1..n)
    BY <1>2, FS_Interval
<1>4. IsFiniteSet(1..2)
    BY <1>2, FS_Interval
<1>5. QED BY <1>1, <1>3, <1>4, FS_Product

\* The status made of a record is a status, and it is final only if the record
\* or the fixture was.
LEMMA StatusMade ==
    ASSUME NEW raw, NEW old \in 0..19
    PROVE  /\ StatusAfter(raw, old) \in 0..19
           /\ StatusAfter(raw, old) \in FINISHED_STATUSES =>
                raw \in FINISHED_STATUSES \/ old \in FINISHED_STATUSES
BY DEF StatusAfter, Trusted, FINISHED_STATUSES, VOID_STATUSES

\* No record takes a row back to Open or Absent, and a full-game market waits
\* for its proof only after a record of the finished match.
LEMMA RowMoves ==
    ASSUME NEW m \in Markets, NEW old \in RowStates, NEW s \in 0..19, NEW t \in Int
    PROVE  /\ NextState(m, old, s, t) \in RowStates
           /\ NextState(m, old, s, t) \in {"Open", "Absent"} => NextState(m, old, s, t) = old
           /\ (MarketList[m].period = 0 /\ NextState(m, old, s, t) = "AwaitingRoot"
                 /\ old # "AwaitingRoot") => s \in FINISHED_STATUSES
BY MarketFields
   DEF NextState, StateAfter, LockedBy, DecidingStatusFor, FINISHED_STATUSES, VOID_STATUSES,
       RowStates, Indexed, NoStatus, NS

\* A live record locks a market that kickoff locks.
LEMMA LiveLocks ==
    ASSUME NEW m \in Markets \ InPlayMarkets, NEW s \in 2..4, NEW t \in Int
    PROVE  NextState(m, "Open", s, t) # "Open"
BY MarketFields
   DEF NextState, StateAfter, LockedBy, DecidingStatusFor, FINISHED_STATUSES, VOID_STATUSES,
       NoStatus, NS, InPlayMarkets

\* A record of the finished match leaves no row in play or locked.
LEMMA FinishedEnds ==
    ASSUME NEW m \in Markets, NEW old \in Indexed, NEW e \in FINISHED_STATUSES, NEW t \in Int
    PROVE  /\ NextState(m, old, e, t) \notin {"InPlay", "Locked"}
           /\ old = "InPlay" => NextState(m, old, e, t) # old
BY MarketFields
   DEF NextState, StateAfter, LockedBy, DecidingStatusFor, FINISHED_STATUSES, VOID_STATUSES,
       Indexed, NoStatus, NS

\* A status that puts one row in play leaves none locked, and a record of the
\* finished match changes every row that it changes.
LEMMA PlayingStatus ==
    ASSUME NEW m \in Markets, NEW old \in Indexed, NEW s \in 0..19, NEW t \in Int,
           NextState(m, old, s, t) = "InPlay", old # "InPlay"
    PROVE  s \in 2..13
BY MarketFields
   DEF NextState, StateAfter, LockedBy, DecidingStatusFor, FINISHED_STATUSES, VOID_STATUSES,
       Indexed, NoStatus, NS

LEMMA PlayingMoves ==
    ASSUME NEW m \in Markets, NEW old \in Indexed, NEW s \in 2..13, NEW t \in Int
    PROVE  /\ NextState(m, old, s, t) # "Locked"
           /\ \A e \in FINISHED_STATUSES :
                NextState(m, old, s, t) # old => NextState(m, old, e, t) # old
BY MarketFields
   DEF NextState, StateAfter, LockedBy, DecidingStatusFor, FINISHED_STATUSES, VOID_STATUSES,
       Indexed, NoStatus, NS

LEMMA WritesAre ==
    ASSUME NEW table, NEW s, NEW t, NEW w \in WritesFor(table, s, t)
    PROVE  /\ w[1] \in Markets /\ w[2] \in 1..2 /\ w = <<w[1], w[2]>>
           /\ table[w[1]] \in Indexed
           /\ NextState(w[1], table[w[1]], s, t) # table[w[1]]
           /\ w[2] = 2 => NextState(w[1], table[w[1]], s, t) = "Locked"
BY DEF WritesFor, Changed

LEMMA RowsToWrite ==
    ASSUME NEW table, NEW s, NEW t, NEW m \in Markets
    PROVE  <<m, 1>> \in WritesFor(table, s, t) <=>
             table[m] \in Indexed /\ NextState(m, table[m], s, t) # table[m]
BY DEF WritesFor, Changed

LEMMA WritesType ==
    ASSUME NEW table, NEW s, NEW t
    PROVE  WritesFor(table, s, t) \subseteq Markets \X (1..2)
BY DEF WritesFor, Changed

(***************************************************************************)
(* The order of a call's writes.                                           *)
(***************************************************************************)
LEMMA BeforeFinite ==
    ASSUME NEW c \in Calls, NEW m
    PROVE  IsFiniteSet(Before(c, m)) /\ Cardinality(Before(c, m)) \in Nat
<1>1. Before(c, m) \in SUBSET (Markets \X (1..2))
    BY DEF Before, Calls
<1>2. IsFiniteSet(Before(c, m))
    BY <1>1, MarketsFinite, FS_Subset
<1>3. QED BY <1>2, FS_CardinalityType

LEMMA BeforeShrinks ==
    ASSUME NEW c \in Calls, NEW x \in Calls, NEW w \in c.todo, NEW m \in Markets,
           x.todo = c.todo \ {w}
    PROVE  /\ w[1] < m => Cardinality(Before(x, m)) = Cardinality(Before(c, m)) - 1
           /\ ~(w[1] < m) => Cardinality(Before(x, m)) = Cardinality(Before(c, m))
<1>1. Before(x, m) = Before(c, m) \ {w}
    BY DEF Before
<1>2. w \in Before(c, m) <=> w[1] < m
    BY DEF Before
<1>3. QED BY <1>1, <1>2, BeforeFinite, FS_RemoveElement

LEMMA NothingBeforeFirst ==
    ASSUME NEW c \in Calls, NEW w \in c.todo, First(w, c.todo), NEW m \in Markets, ~(w[1] < m)
    PROVE  Cardinality(Before(c, m)) = 0
<1>1. \A v \in c.todo : v[1] \in Nat /\ v[2] \in Nat
    BY MarketFields DEF Calls
<1>2. Before(c, m) = {}
    BY <1>1, MarketFields DEF Before, First
<1>3. QED BY <1>2, FS_EmptySet

(***************************************************************************)
(* The queue.                                                              *)
(***************************************************************************)

\* The call whose turn it was has left the head of the queue, and whatever came
\* behind the others instead is in X.
Turned(X) ==
    /\ inFlight' \in Seq(Calls)
    /\ \A i \in 2..Len(inFlight) : i - 1 \in DOMAIN inFlight' /\ inFlight'[i - 1] = inFlight[i]
    /\ \A i \in DOMAIN inFlight' :
         \/ i < Len(inFlight) /\ inFlight'[i] = inFlight[i + 1]
         \/ i = Len(inFlight) /\ inFlight'[i] \in X

LEMMA TurnIsFirst ==
    ASSUME inFlight \in Seq(Calls), ~Idle
    PROVE  /\ Turn \in Calls /\ Turn = inFlight[1] /\ Len(inFlight) \in Nat \ {0}
           /\ DOMAIN inFlight = 1..Len(inFlight) /\ \A i \in DOMAIN inFlight : inFlight[i] \in Calls
BY DEF Idle, Turn

LEMMA AwaitsTurns ==
    ASSUME inFlight \in Seq(Calls), ~Idle, NEW x \in Calls, Awaits(x)
    PROVE  /\ Turned({x}) /\ DOMAIN inFlight' = DOMAIN inFlight
           /\ inFlight'[Len(inFlight)] = x
BY TurnIsFirst DEF Awaits, Turned, Idle

LEMMA CallIsCall ==
    ASSUME clock \in 0..Horizon, NEW raw \in Statuses \cup {Undocumented},
           NEW next \in Seq(Statuses \cup {Undocumented})
    PROVE  Call(raw, next) \in Calls
BY DEF Call, Calls, Unlisted, NoStatus, RowStates

\* The next record of a snapshot, if the call just done was for one.
Resumed ==
    IF Turn.next = <<>> THEN {} ELSE {Call(Head(Turn.next), Tail(Turn.next))}

LEMMA ReturnsTurns ==
    ASSUME IndexerTypeOK, ~Idle, Returns
    PROVE  Turned(Resumed) /\ Resumed \subseteq Calls
<1>1. Turn \in Calls /\ Turn.next \in Seq(Statuses \cup {Undocumented})
    BY TurnIsFirst DEF IndexerTypeOK, Calls
<1>2. CASE Turn.next = <<>>
    BY <1>1, <1>2, TurnIsFirst DEF Returns, Turned, IndexerTypeOK, Resumed
<1>3. CASE Turn.next # <<>>
    <2> DEFINE x == Call(Head(Turn.next), Tail(Turn.next))
    <2>1. Head(Turn.next) \in Statuses \cup {Undocumented}
          /\ Tail(Turn.next) \in Seq(Statuses \cup {Undocumented})
        BY <1>1, <1>3
    <2>2. x \in Calls
        BY <2>1, CallIsCall DEF IndexerTypeOK
    <2>3. Awaits(x) /\ Resumed = {x}
        BY <1>3 DEF Returns, Awaits, Resumed
    <2> HIDE DEF x
    <2>4. QED BY <2>2, <2>3, AwaitsTurns DEF IndexerTypeOK
<1>4. QED BY <1>2, <1>3

\* What a turn leaves of the queue is in step if what it appends is one step on.
LEMMA TurnedInStep ==
    ASSUME inFlight \in Seq(Calls), InStep, ~Idle, UNCHANGED clock, NEW X, Turned(X),
           \A x \in X : /\ x.now = clock
                        /\ \/ Stage(x.at) = Stage(Turn.at) + 1
                           \/ x.at = "write" /\ Turn.at = "write"
                           \/ Len(inFlight) = 1
                        /\ x.next # <<>> => Len(inFlight) = 1
    PROVE  InStep'
<1>1. /\ Turn = inFlight[1] /\ Len(inFlight) \in Nat \ {0} /\ DOMAIN inFlight = 1..Len(inFlight)
      /\ \A i \in DOMAIN inFlight : inFlight[i] \in Calls
    BY TurnIsFirst
<1>2. /\ inFlight' \in Seq(Calls) /\ Len(inFlight') \in Nat
      /\ DOMAIN inFlight' = 1..Len(inFlight')
    BY DEF Turned
<1>3. \A i \in DOMAIN inFlight : Stage(inFlight[i].at) \in 1..4
    BY <1>1 DEF Calls, Stage
<1>4. \A i \in DOMAIN inFlight' :
        \/ i < Len(inFlight) /\ inFlight'[i] = inFlight[i + 1] /\ i + 1 \in DOMAIN inFlight
        \/ i = Len(inFlight) /\ inFlight'[i] \in X
    BY <1>1, <1>2 DEF Turned
<1>5. ASSUME NEW i \in DOMAIN inFlight'
      PROVE  /\ inFlight'[i].now = clock'
             /\ inFlight'[i].next # <<>> => Len(inFlight') = 1
    BY <1>1, <1>2, <1>4 DEF InStep
<1>6. ASSUME NEW i \in DOMAIN inFlight', NEW j \in DOMAIN inFlight', i < j
      PROVE  Stage(inFlight'[j].at) \in Stage(inFlight'[i].at)..(Stage(inFlight'[i].at) + 1)
    <2>1. i < Len(inFlight) /\ inFlight'[i] = inFlight[i + 1] /\ i + 1 \in DOMAIN inFlight
        BY <1>1, <1>2, <1>4, <1>6
    <2>2. Stage(inFlight[i + 1].at) \in Stage(Turn.at)..(Stage(Turn.at) + 1)
        BY <1>1, <1>2, <2>1 DEF InStep
    <2>3. CASE inFlight'[j] = inFlight[j + 1] /\ j + 1 \in DOMAIN inFlight
        BY <1>1, <1>2, <1>6, <2>1, <2>3 DEF InStep
    <2>4. CASE j = Len(inFlight) /\ inFlight'[j] \in X
        <3>1. Stage("write") = 4
            BY DEF Stage
        <3>2. Stage(Turn.at) \in 1..4 /\ Stage(inFlight[i + 1].at) \in 1..4
            BY <1>1, <1>3, <2>1
        <3>3. Len(inFlight) # 1
            BY <1>1, <1>2, <1>6, <2>4
        <3>4. \/ Stage(inFlight'[j].at) = Stage(Turn.at) + 1
              \/ Stage(inFlight'[j].at) = 4 /\ Stage(Turn.at) = 4
            BY <2>4, <3>1, <3>3
        <3>5. QED BY <2>1, <2>2, <3>2, <3>4
    <2>5. QED BY <1>4, <2>3, <2>4
<1>7. QED BY <1>5, <1>6 DEF InStep

(***************************************************************************)
(* Steps between callbacks and what they start.                            *)
(***************************************************************************)

\* What RowsAgree says, without a call under way.
RowsSettled ==
    ~refreshed => \A m \in Markets :
        /\ fixtureStatus \in FINISHED_STATUSES => rows[m] # "InPlay"
        /\ fixtureStatus \in 2..4 /\ m \notin InPlayMarkets => rows[m] # "Open"

LEMMA IdleIsSettled ==
    ASSUME Idle, KickoffLocks, FinishedCovers
    PROVE  RowsSettled
BY DEF Idle, KickoffLocks, FinishedCovers, NonePlays, RowsSettled

\* Calls that have not had a turn yet.
AllFresh ==
    /\ inFlight \in Seq(Calls)
    /\ \A i \in DOMAIN inFlight :
         /\ inFlight[i].at = "read" /\ inFlight[i].status = NoStatus /\ inFlight[i].now = clock
         /\ inFlight[i].next # <<>> => Len(inFlight) = 1

LEMMA FreshIsFine ==
    AllFresh /\ RowsSettled => InStep /\ ListsBeforeWrites /\ KickoffLocks /\ FinishedCovers
<1> SUFFICES ASSUME AllFresh, RowsSettled
             PROVE  InStep /\ ListsBeforeWrites /\ KickoffLocks /\ FinishedCovers
    OBVIOUS
<1>1. InStep
    BY DEF AllFresh, InStep, Stage
<1>2. ListsBeforeWrites
    BY DEF AllFresh, ListsBeforeWrites
<1>3. KickoffLocks
    BY DEF RowsSettled, KickoffLocks
<1>4. FinishedCovers
    BY DEF RowsSettled, AllFresh, FinishedCovers, NonePlays, Plays
<1>5. QED BY <1>1, <1>2, <1>3, <1>4

LEMMA NoCallIsFresh == inFlight = <<>> => AllFresh
BY DEF AllFresh

LEMMA FeedRecords ==
    ASSUME IndexerTypeOK
    PROVE  /\ Len(feed) \in Nat /\ DOMAIN feed = 1..Len(feed)
           /\ \A i \in DOMAIN feed : feed[i].raw \in Statuses \cup {Undocumented}
<1> DEFINE Recs == [raw : Statuses \cup {Undocumented}, ts : 0..Horizon]
<1>1. \A r \in Recs : r.raw \in Statuses \cup {Undocumented}
    OBVIOUS
<1>2. feed \in Seq(Recs)
    BY DEF IndexerTypeOK
<1> HIDE DEF Recs
<1>3. Len(feed) \in Nat /\ DOMAIN feed = 1..Len(feed) /\ \A i \in DOMAIN feed : feed[i] \in Recs
    BY <1>2
<1>4. QED BY <1>1, <1>3

\* A snapshot, and a chunk of the stream.
LEMMA PullsFresh ==
    ASSUME IndexerTypeOK, PullSnapshot, UNCHANGED clock
    PROVE  /\ AllFresh'
           /\ \A i \in DOMAIN inFlight' :
                /\ \E k \in DOMAIN feed : inFlight'[i].raw = feed[k].raw
                /\ \A n \in DOMAIN inFlight'[i].next :
                     \E k \in DOMAIN feed : inFlight'[i].next[n] = feed[k].raw
<1> DEFINE raws == [i \in DOMAIN feed |-> feed[i].raw]
<1> DEFINE Raws == Statuses \cup {Undocumented}
<1>1. feed # <<>> /\ inFlight' = <<Call(Head(raws), Tail(raws))>>
    BY DEF PullSnapshot
<1>2. Len(feed) \in Nat \ {0} /\ DOMAIN feed = 1..Len(feed)
    BY <1>1, FeedRecords DEF IndexerTypeOK
<1>3. \A i \in DOMAIN feed : feed[i].raw \in Raws
    BY FeedRecords
<1> HIDE DEF Raws
<1>4. raws \in Seq(Raws) /\ Len(raws) = Len(feed) /\ \A i \in DOMAIN feed : raws[i] = feed[i].raw
    BY <1>2, <1>3
<1> HIDE DEF raws
<1>5. /\ Head(raws) \in Raws /\ Head(raws) = feed[1].raw
      /\ Tail(raws) \in Seq(Raws)
      /\ \A n \in DOMAIN Tail(raws) : n + 1 \in DOMAIN feed /\ Tail(raws)[n] = feed[n + 1].raw
    BY <1>2, <1>4
<1>6. Call(Head(raws), Tail(raws)) \in Calls
    BY <1>5, CallIsCall DEF IndexerTypeOK, Raws
<1> DEFINE x == Call(Head(raws), Tail(raws))
<1>7. /\ x.raw = Head(raws) /\ x.next = Tail(raws) /\ x.at = "read" /\ x.status = NoStatus
      /\ x.now = clock
    BY DEF Call
<1> HIDE DEF x
<1>8. x \in Calls /\ inFlight' = <<x>>
    BY <1>1, <1>6 DEF x
<1>9. AllFresh'
    BY <1>7, <1>8 DEF AllFresh
<1>10. 1 \in DOMAIN feed /\ x.raw = feed[1].raw
    BY <1>2, <1>5, <1>7
<1>11. \A n \in DOMAIN x.next : n + 1 \in DOMAIN feed /\ x.next[n] = feed[n + 1].raw
    BY <1>5, <1>7
<1>12. \A i \in DOMAIN inFlight' : inFlight'[i] = x
    BY <1>8
<1>13. QED BY <1>9, <1>10, <1>11, <1>12

LEMMA DeliversFresh ==
    ASSUME IndexerTypeOK, NEW n \in Nat, Deliver(n)
    PROVE  /\ AllFresh'
           /\ pos' \in 0..Len(feed)
           /\ \A i \in DOMAIN inFlight' :
                /\ \E k \in DOMAIN feed : inFlight'[i].raw = feed[k].raw
                /\ inFlight'[i].next = <<>>
<1>1. /\ inFlight' = [i \in 1..n |-> Call(feed[pos + i].raw, <<>>)]
      /\ pos + n <= Len(feed) /\ pos' = pos + n /\ UNCHANGED clock
    BY DEF Deliver
<1>2. /\ pos \in 0..Len(feed) /\ Len(feed) \in Nat /\ DOMAIN feed = 1..Len(feed)
      /\ \A k \in DOMAIN feed : feed[k].raw \in Statuses \cup {Undocumented}
    BY FeedRecords DEF IndexerTypeOK
<1>3. \A i \in 1..n : pos + i \in DOMAIN feed
    BY <1>1, <1>2
<1>4. ASSUME NEW i \in 1..n
      PROVE  /\ inFlight'[i] \in Calls
             /\ inFlight'[i].raw = feed[pos + i].raw /\ inFlight'[i].next = <<>>
             /\ inFlight'[i].at = "read" /\ inFlight'[i].status = NoStatus
             /\ inFlight'[i].now = clock
    <2>1. inFlight'[i] = Call(feed[pos + i].raw, <<>>)
        BY <1>1
    <2>2. feed[pos + i].raw \in Statuses \cup {Undocumented}
          /\ <<>> \in Seq(Statuses \cup {Undocumented})
        BY <1>2, <1>3
    <2>3. PICK raw \in Statuses \cup {Undocumented} : raw = feed[pos + i].raw
        BY <2>2
    <2>4. Call(raw, <<>>) \in Calls
        BY <2>2, CallIsCall DEF IndexerTypeOK
    <2>5. QED BY <1>1, <2>1, <2>3, <2>4 DEF Call
<1>5. inFlight' \in Seq(Calls) /\ DOMAIN inFlight' = 1..n
    BY <1>1, <1>4
<1>6. AllFresh'
    BY <1>1, <1>4, <1>5 DEF AllFresh
<1>7. pos' \in 0..Len(feed)
    BY <1>1, <1>2
<1>8. \A i \in DOMAIN inFlight' :
        /\ \E k \in DOMAIN feed : inFlight'[i].raw = feed[k].raw
        /\ inFlight'[i].next = <<>>
    BY <1>3, <1>4, <1>5
<1>9. QED BY <1>6, <1>7, <1>8

LEMMA FreshIsFineAfter ==
    AllFresh' /\ RowsSettled' =>
        InStep' /\ ListsBeforeWrites' /\ KickoffLocks' /\ FinishedCovers'
BY FreshIsFine, PTL

\* The steps between callbacks that start no call.
Quiet ==
    \/ Pass \/ Drop \/ Reconnect \/ LockSweep
    \/ \E raw \in Statuses \cup {Undocumented} : Emit(raw)
    \/ \E m \in Markets : Author(m) \/ InsertInPlay(m)
    \/ Restart /\ UNCHANGED inFlight

LEMMA QuietKeepsTypes == ASSUME IndexerTypeOK, Quiet PROVE IndexerTypeOK'
<1>1. CASE Pass
    BY <1>1, IndexerAssumption DEF Pass, IndexerTypeOK, refreshVars
<1>2. CASE Drop
    <2>1. pos' = 0 /\ UNCHANGED feed /\ 0 \in 0..Len(feed)
        BY <1>2, FeedRecords DEF Drop
    <2>2. QED BY <1>2, <2>1 DEF Drop, IndexerTypeOK, refreshVars
<1>3. CASE Reconnect
    BY <1>3 DEF Reconnect, IndexerTypeOK, refreshVars
<1>4. CASE LockSweep
    <2>1. rows' \in [Markets -> RowStates]
        BY <1>4 DEF LockSweep, IndexerTypeOK, RowStates, Indexed
    <2>2. QED BY <1>4, <2>1 DEF LockSweep, IndexerTypeOK, refreshVars
<1>5. ASSUME NEW raw \in Statuses \cup {Undocumented}, Emit(raw) PROVE IndexerTypeOK'
    <2>1. match' \in Statuses
        BY <1>5, IndexerAssumption DEF Emit, IndexerTypeOK, Statuses
    <2> DEFINE Recs == [raw : Statuses \cup {Undocumented}, ts : 0..Horizon]
    <2>2. feed \in Seq(Recs) /\ [raw |-> raw, ts |-> clock] \in Recs
        BY DEF IndexerTypeOK
    <2> HIDE DEF Recs
    <2>3. feed' = Append(feed, [raw |-> raw, ts |-> clock])
        BY <1>5 DEF Emit
    <2>4. feed' \in Seq(Recs) /\ Len(feed') = Len(feed) + 1 /\ Len(feed) \in Nat
        BY <2>2, <2>3
    <2>5. pos' \in 0..Len(feed')
        BY <1>5, <2>4 DEF Emit, IndexerTypeOK
    <2>6. QED BY <1>5, <2>1, <2>4, <2>5 DEF Emit, IndexerTypeOK, Recs, refreshVars
<1>6. ASSUME NEW m \in Markets, Author(m) PROVE IndexerTypeOK'
    BY <1>6 DEF Author, IndexerTypeOK, refreshVars
<1>7. ASSUME NEW m \in Markets, InsertInPlay(m) PROVE IndexerTypeOK'
    BY <1>7 DEF InsertInPlay, IndexerTypeOK, RowStates, Indexed, refreshVars
<1>8. CASE Restart /\ UNCHANGED inFlight
    <2>1. pos' = 0 /\ UNCHANGED feed /\ 0 \in 0..Len(feed)
        BY <1>8, FeedRecords DEF Restart
    <2>2. found' \in 0..19
        BY <1>8 DEF Restart, NoStatus
    <2>3. QED BY <1>8, <2>1, <2>2 DEF Restart, IndexerTypeOK
<1>9. QED BY <1>1, <1>2, <1>3, <1>4, <1>5, <1>6, <1>7, <1>8 DEF Quiet

\* What they leave of rows and records.
KeptByQuiet ==
    /\ RowsSettled' /\ OnlyInPlayIsAuthored' /\ (Over => Over')
    /\ \A m \in Markets : rows'[m] = "AwaitingRoot" => rows[m] = "AwaitingRoot"

LEMMA QuietKeepsInv == ASSUME IndexerInv, Quiet PROVE IndexerInv'
<1>1. /\ inFlight = <<>> /\ inFlight' = <<>> /\ UNCHANGED <<fixtureStatus, refreshed>>
      /\ found' \in {found, NoStatus}
    BY DEF Quiet, Pass, Drop, Reconnect, LockSweep, Emit, Author, InsertInPlay, Restart, Idle,
           refreshVars
<1>2. RowsSettled
    BY <1>1, IdleIsSettled DEF IndexerInv, Idle
<1>3. IndexerTypeOK'
    BY QuietKeepsTypes DEF IndexerInv
<1>4. \/ UNCHANGED feed /\ UNCHANGED rows /\ authored' \subseteq authored \cup InPlayMarkets
      \/ UNCHANGED feed /\ LockSweep
      \/ UNCHANGED feed /\ \E m \in Markets : InsertInPlay(m)
      \/ UNCHANGED <<rows, authored>> /\ \E raw \in Statuses \cup {Undocumented} : Emit(raw)
    BY DEF Quiet, Pass, Drop, Reconnect, LockSweep, Emit, Author, InsertInPlay, Restart,
           IndexerInv, OnlyInPlayIsAuthored
<1>5. KeptByQuiet
    <2>1. CASE UNCHANGED feed /\ UNCHANGED rows /\ authored' \subseteq authored \cup InPlayMarkets
        BY <1>1, <1>2, <2>1
           DEF KeptByQuiet, RowsSettled, IndexerInv, OnlyInPlayIsAuthored, Over, InPlayMarkets
    <2>2. CASE UNCHANGED feed /\ LockSweep
        BY <1>1, <1>2, <2>2
           DEF KeptByQuiet, RowsSettled, IndexerInv, OnlyInPlayIsAuthored, Over, InPlayMarkets, LockSweep
    <2>3. ASSUME UNCHANGED feed, NEW m \in Markets, InsertInPlay(m) PROVE KeptByQuiet
        <3>1. m \in InPlayMarkets /\ rows \in [Markets -> RowStates]
            BY <2>3 DEF InsertInPlay, IndexerInv, OnlyInPlayIsAuthored, IndexerTypeOK
        <3>2. QED BY <1>1, <1>2, <2>3, <3>1
                     DEF KeptByQuiet, RowsSettled, IndexerInv, OnlyInPlayIsAuthored, Over, InPlayMarkets,
                         InsertInPlay
    <2>4. ASSUME UNCHANGED <<rows, authored>>, NEW raw \in Statuses \cup {Undocumented}, Emit(raw)
          PROVE  KeptByQuiet
        <3>1. \A i \in DOMAIN feed : i \in DOMAIN feed' /\ feed'[i] = feed[i]
            BY <2>4, FeedRecords DEF Emit, IndexerInv, IndexerTypeOK
        <3>2. QED BY <1>1, <1>2, <2>4, <3>1
                     DEF KeptByQuiet, RowsSettled, IndexerInv, OnlyInPlayIsAuthored, Over, InPlayMarkets
    <2>5. QED BY <1>4, <2>1, <2>2, <2>3, <2>4
<1>6. OverWasReported'
    BY <1>1, <1>5 DEF KeptByQuiet, IndexerInv, OverWasReported, NoStatus, FINISHED_STATUSES
<1>7. AwaitingMeansOver'
    BY <1>5 DEF KeptByQuiet, IndexerInv, AwaitingMeansOver, Over
<1>8. AllFresh'
    BY <1>1 DEF AllFresh
<1>9. QED BY <1>3, <1>5, <1>6, <1>7, <1>8, FreshIsFineAfter DEF KeptByQuiet, IndexerInv

\* A chunk or a snapshot, delivered between callbacks.
LEMMA StartsInv ==
    ASSUME IndexerInv, Idle, UNCHANGED <<clock, match, feed, fixtureStatus, rows, refreshed>>,
           found' \in {found, NoStatus},
           connected' \in BOOLEAN, pos' \in 0..Len(feed), authored' \subseteq authored, AllFresh',
           \A i \in DOMAIN inFlight' :
             /\ \E k \in DOMAIN feed : inFlight'[i].raw = feed[k].raw
             /\ \A n \in DOMAIN inFlight'[i].next :
                  \E k \in DOMAIN feed : inFlight'[i].next[n] = feed[k].raw
    PROVE  IndexerInv'
<1>1. RowsSettled'
    <2>1. RowsSettled
        BY IdleIsSettled DEF IndexerInv
    <2>2. QED BY <2>1 DEF RowsSettled
<1>2. IndexerTypeOK'
    <2>1. found' \in 0..19
        BY DEF IndexerInv, IndexerTypeOK, NoStatus
    <2>2. QED BY <2>1 DEF IndexerInv, IndexerTypeOK, AllFresh
<1>3. OverWasReported'
    <2>1. Over' = Over
        BY DEF Over
    <2>2. fixtureStatus' \in FINISHED_STATUSES \/ found' \in FINISHED_STATUSES => Over'
        BY <2>1 DEF IndexerInv, OverWasReported, NoStatus, FINISHED_STATUSES
    <2>3. ASSUME NEW i \in DOMAIN inFlight'
          PROVE  /\ inFlight'[i].raw \in FINISHED_STATUSES => Over'
                 /\ inFlight'[i].status \notin FINISHED_STATUSES
                 /\ \A n \in DOMAIN inFlight'[i].next :
                      inFlight'[i].next[n] \in FINISHED_STATUSES => Over'
        <3>1. inFlight'[i].status \notin FINISHED_STATUSES
            BY DEF AllFresh, NoStatus, FINISHED_STATUSES
        <3>2. inFlight'[i].raw \in FINISHED_STATUSES => Over
            BY DEF Over
        <3>3. \A n \in DOMAIN inFlight'[i].next :
                inFlight'[i].next[n] \in FINISHED_STATUSES => Over
            BY DEF Over
        <3>4. QED BY <2>1, <3>1, <3>2, <3>3
    <2>4. QED BY <2>2, <2>3 DEF OverWasReported
<1>4. AwaitingMeansOver' /\ OnlyInPlayIsAuthored'
    BY DEF IndexerInv, AwaitingMeansOver, OnlyInPlayIsAuthored
<1>5. QED BY <1>1, <1>2, <1>3, <1>4, FreshIsFineAfter DEF IndexerInv

LEMMA DeliverInv == ASSUME IndexerInv, NEW n \in Nat, Deliver(n) PROVE IndexerInv'
<1>1. IndexerTypeOK
    BY DEF IndexerInv
<1>2. Idle /\ UNCHANGED <<clock, match, feed, connected, fixtureStatus, rows, authored, found, refreshed>>
    BY DEF Deliver, refreshVars
<1>3. /\ AllFresh' /\ pos' \in 0..Len(feed)
      /\ \A i \in DOMAIN inFlight' :
           /\ \E k \in DOMAIN feed : inFlight'[i].raw = feed[k].raw
           /\ inFlight'[i].next = <<>>
    BY <1>1, DeliversFresh
<1>4. \A i \in DOMAIN inFlight' : DOMAIN inFlight'[i].next = {}
    BY <1>3
<1>5. connected' \in BOOLEAN /\ authored' \subseteq authored
    BY <1>1, <1>2 DEF IndexerTypeOK
<1>6. QED BY <1>2, <1>3, <1>4, <1>5, StartsInv

LEMMA PollInv == ASSUME IndexerInv, Poll PROVE IndexerInv'
<1>1. IndexerTypeOK /\ PullSnapshot /\ UNCHANGED clock
    BY DEF IndexerInv, Poll
<1>2. QED BY <1>1, PullsFresh, StartsInv DEF Poll, IndexerTypeOK, refreshVars

LEMMA RestartInv == ASSUME IndexerInv, Restart PROVE IndexerInv'
<1>1. CASE PullSnapshot
    <2>1. IndexerTypeOK /\ UNCHANGED clock
        BY DEF IndexerInv, Restart
    <2>2. pos' = 0 /\ 0 \in 0..Len(feed)
        BY <2>1, FeedRecords DEF Restart
    <2>3. /\ Idle /\ UNCHANGED <<clock, match, feed, fixtureStatus, rows, refreshed>>
          /\ connected' \in BOOLEAN /\ authored' \subseteq authored /\ found' = NoStatus
        BY DEF Restart
    <2>4. QED BY <1>1, <2>1, <2>2, <2>3, PullsFresh, StartsInv
<1>2. CASE UNCHANGED inFlight
    BY <1>2, QuietKeepsInv DEF Quiet
<1>3. QED BY <1>1, <1>2 DEF Restart

\* The author's refresh: what it writes was in the feed, and it moves no row.
LEMMA RefreshInv == ASSUME IndexerInv, RefreshReads \/ RefreshWrites PROVE IndexerInv'
<1>1. /\ inFlight = <<>> /\ UNCHANGED <<clock, match, feed, connected, pos, rows, authored, inFlight>>
      /\ UNCHANGED <<fixtureStatus, refreshed>> \/ refreshed'
    BY DEF RefreshReads, RefreshWrites, Idle
<1>2. /\ fixtureStatus' \in {fixtureStatus, found}
      /\ \/ found' = NoStatus
         \/ \E i \in DOMAIN feed : feed[i].raw \in 1..19 /\ found' = feed[i].raw
    BY DEF RefreshReads, RefreshWrites, Documented
<1>3. IndexerTypeOK'
    <2>1. fixtureStatus' \in 0..19
        BY <1>2 DEF IndexerInv, IndexerTypeOK
    <2>2. found' \in 0..19
        BY <1>2 DEF NoStatus
    <2>3. refreshed' \in BOOLEAN
        <3>1. refreshed \in BOOLEAN
            BY DEF IndexerInv, IndexerTypeOK
        <3>2. CASE RefreshReads
            <4>1. refreshed' = refreshed
                BY <3>2 DEF RefreshReads
            <4>2. QED BY <3>1, <4>1
        <3>3. CASE RefreshWrites
            BY <3>3 DEF RefreshWrites
        <3>4. QED BY <3>2, <3>3
    <2>4. QED BY <1>1, <2>1, <2>2, <2>3 DEF IndexerInv, IndexerTypeOK
<1>4. OverWasReported'
    BY <1>1, <1>2 DEF IndexerInv, OverWasReported, Over, NoStatus, FINISHED_STATUSES
<1>5. AwaitingMeansOver' /\ OnlyInPlayIsAuthored'
    BY <1>1 DEF IndexerInv, AwaitingMeansOver, OnlyInPlayIsAuthored
<1>6. RowsSettled'
    <2>1. RowsSettled
        BY <1>1, IdleIsSettled DEF IndexerInv, Idle
    <2>2. QED BY <1>1, <2>1 DEF RowsSettled
<1>7. AllFresh'
    BY <1>1 DEF AllFresh
<1>8. QED BY <1>3, <1>4, <1>5, <1>6, <1>7, FreshIsFineAfter DEF IndexerInv

(***************************************************************************)
(* A turn of a call.                                                       *)
(***************************************************************************)

\* All calls are at the await of the first or at the next.
LEMMA CallsAbreast ==
    ASSUME inFlight \in Seq(Calls), InStep, ~Idle, NEW i \in DOMAIN inFlight
    PROVE  /\ Turn.at = "read" => inFlight[i].at \in {"read", "update"}
           /\ Turn.at = "update" => inFlight[i].at \in {"update", "list"}
           /\ Turn.at = "list" => inFlight[i].at \in {"list", "write"}
           /\ Turn.at = "write" => inFlight[i].at = "write"
<1>1. /\ Turn = inFlight[1] /\ DOMAIN inFlight = 1..Len(inFlight) /\ 1 \in DOMAIN inFlight
      /\ inFlight[i] \in Calls /\ Turn \in Calls
    BY TurnIsFirst
<1>2. /\ Turn.at \in {"read", "update", "list", "write"}
      /\ inFlight[i].at \in {"read", "update", "list", "write"}
    BY <1>1 DEF Calls
<1>3. CASE i = 1
    BY <1>1, <1>2, <1>3
<1>4. CASE i # 1
    <2>1. Stage(inFlight[i].at) \in Stage(Turn.at)..(Stage(Turn.at) + 1)
        BY <1>1, <1>4 DEF InStep
    <2>2. QED BY <1>2, <2>1 DEF Stage
<1>5. QED BY <1>3, <1>4

LEMMA TurnedOver ==
    ASSUME IndexerTypeOK, OverWasReported, ~Idle, UNCHANGED <<feed, found>>, NEW X, Turned(X),
           fixtureStatus' \in FINISHED_STATUSES => Over,
           \A x \in X : /\ x.raw \in FINISHED_STATUSES => Over
                        /\ x.status \in FINISHED_STATUSES => Over
                        /\ \A k \in DOMAIN x.next : x.next[k] \in FINISHED_STATUSES => Over
    PROVE  OverWasReported'
<1>1. Over' = Over
    BY DEF Over
<1>2. inFlight \in Seq(Calls) /\ DOMAIN inFlight = 1..Len(inFlight) /\ Len(inFlight) \in Nat
      /\ inFlight' \in Seq(Calls) /\ DOMAIN inFlight' = 1..Len(inFlight') /\ Len(inFlight') \in Nat
    BY DEF IndexerTypeOK, Turned
<1>3. ASSUME NEW i \in DOMAIN inFlight'
      PROVE  /\ inFlight'[i].raw \in FINISHED_STATUSES => Over
             /\ inFlight'[i].status \in FINISHED_STATUSES => Over
             /\ \A k \in DOMAIN inFlight'[i].next :
                  inFlight'[i].next[k] \in FINISHED_STATUSES => Over
    <2>1. CASE i < Len(inFlight) /\ inFlight'[i] = inFlight[i + 1]
        <3>1. i + 1 \in DOMAIN inFlight
            BY <1>2, <2>1
        <3>2. QED BY <2>1, <3>1 DEF OverWasReported
    <2>2. CASE inFlight'[i] \in X
        BY <2>2
    <2>3. QED BY <2>1, <2>2 DEF Turned
<1>4. QED BY <1>1, <1>3 DEF OverWasReported

LEMMA TurnReportedOver ==
    ASSUME IndexerTypeOK, OverWasReported, ~Idle
    PROVE  /\ Turn.raw \in FINISHED_STATUSES => Over
           /\ Turn.status \in FINISHED_STATUSES => Over
           /\ \A k \in DOMAIN Turn.next : Turn.next[k] \in FINISHED_STATUSES => Over
BY TurnIsFirst DEF IndexerTypeOK, OverWasReported

LEMMA ReadInv ==
    ASSUME IndexerInv, ReadFixture, UNCHANGED <<clock, match, feed, connected, pos, authored, found>>
    PROVE  IndexerInv'
<1>1. /\ IndexerTypeOK /\ InStep /\ ~Idle /\ Turn.at = "read" /\ inFlight \in Seq(Calls)
      /\ UNCHANGED <<fixtureStatus, rows, refreshed>>
    BY DEF IndexerInv, IndexerTypeOK, ReadFixture
<1>2. PICK c : c = Turn
    OBVIOUS
<1>3. PICK s : s = StatusAfter(Turn.raw, fixtureStatus)
    OBVIOUS
<1>4. /\ c \in Calls /\ c = inFlight[1] /\ DOMAIN inFlight = 1..Len(inFlight)
      /\ Len(inFlight) \in Nat \ {0} /\ c.at = "read"
    BY <1>1, <1>2, TurnIsFirst
<1>5. s \in 0..19 /\ (s \in FINISHED_STATUSES => Over)
    <2>1. fixtureStatus \in 0..19
        BY <1>1 DEF IndexerTypeOK
    <2>2. s \in 0..19 /\ (s \in FINISHED_STATUSES =>
                            Turn.raw \in FINISHED_STATUSES \/ fixtureStatus \in FINISHED_STATUSES)
        BY <1>3, <2>1, StatusMade
    <2>3. QED BY <1>1, <2>2, TurnReportedOver DEF IndexerInv, OverWasReported
<1>6. PICK x : x = [c EXCEPT !.at = "update", !.status = s]
    OBVIOUS
<1>7. /\ x \in Calls /\ x.at = "update" /\ x.status = s /\ x.raw = c.raw /\ x.next = c.next
      /\ x.now = c.now
    BY <1>4, <1>5, <1>6 DEF Calls
<1>8. Awaits(x)
    BY <1>2, <1>3, <1>6 DEF ReadFixture
<1>9. Turned({x})
    BY <1>1, <1>7, <1>8, AwaitsTurns
<1>10. IndexerTypeOK'
    BY <1>1, <1>9 DEF IndexerTypeOK, Turned
<1>11. InStep'
    <2>1. x.now = clock /\ (x.next # <<>> => Len(inFlight) = 1)
        BY <1>1, <1>4, <1>7 DEF InStep
    <2>2. Stage(x.at) = Stage(c.at) + 1
        BY <1>4, <1>7 DEF Stage
    <2>3. QED BY <1>1, <1>2, <1>9, <2>1, <2>2, TurnedInStep
<1>12. /\ \A i \in DOMAIN inFlight : inFlight[i].at \in {"read", "update"}
       /\ \A i \in DOMAIN inFlight' : inFlight'[i].at \in {"read", "update"}
    <2>1. \A i \in DOMAIN inFlight : inFlight[i].at \in {"read", "update"}
        BY <1>1, CallsAbreast
    <2>2. \A i \in DOMAIN inFlight' : i \in Nat \ {0}
        BY <1>9 DEF Turned
    <2>3. ASSUME NEW i \in DOMAIN inFlight' PROVE inFlight'[i].at \in {"read", "update"}
        <3>1. CASE i < Len(inFlight) /\ inFlight'[i] = inFlight[i + 1]
            BY <1>4, <2>1, <2>2, <3>1
        <3>2. CASE inFlight'[i] \in {x}
            BY <1>7, <3>2
        <3>3. QED BY <1>9, <3>1, <3>2 DEF Turned
    <2>4. QED BY <2>1, <2>3
<1>13. RowsSettled
    BY <1>12 DEF IndexerInv, RowsSettled, KickoffLocks, WillLock, FinishedCovers, NonePlays,
                 ListsLast, WritesLast
<1>14. ListsBeforeWrites'
    BY <1>12 DEF ListsBeforeWrites
<1>15. KickoffLocks' /\ FinishedCovers'
    BY <1>1, <1>12, <1>13 DEF RowsSettled, KickoffLocks, FinishedCovers, NonePlays, Plays
<1>16. OverWasReported'
    <2>1. /\ x.raw \in FINISHED_STATUSES => Over
          /\ x.status \in FINISHED_STATUSES => Over
          /\ \A k \in DOMAIN x.next : x.next[k] \in FINISHED_STATUSES => Over
        BY <1>1, <1>2, <1>5, <1>7, TurnReportedOver DEF IndexerInv
    <2>2. QED BY <1>1, <1>9, <2>1, TurnedOver DEF IndexerInv, OverWasReported
<1>17. AwaitingMeansOver' /\ OnlyInPlayIsAuthored'
    BY <1>1 DEF IndexerInv, AwaitingMeansOver, OnlyInPlayIsAuthored
<1>18. QED BY <1>10, <1>11, <1>14, <1>15, <1>16, <1>17 DEF IndexerInv

LEMMA UpdateInv ==
    ASSUME IndexerInv, UpdateFixture, UNCHANGED <<clock, match, feed, connected, pos, authored, found>>
    PROVE  IndexerInv'
<1>1. /\ IndexerTypeOK /\ InStep /\ ~Idle /\ Turn.at = "update" /\ inFlight \in Seq(Calls)
      /\ UNCHANGED rows /\ fixtureStatus' = Turn.status /\ refreshed' = FALSE
    BY DEF IndexerInv, IndexerTypeOK, UpdateFixture
<1>2. PICK c : c = Turn
    OBVIOUS
<1>3. /\ c \in Calls /\ c = inFlight[1] /\ DOMAIN inFlight = 1..Len(inFlight)
      /\ Len(inFlight) \in Nat \ {0} /\ c.at = "update"
    BY <1>1, <1>2, TurnIsFirst
<1>4. PICK x : x = [c EXCEPT !.at = "list"]
    OBVIOUS
<1>5. /\ x \in Calls /\ x.at = "list" /\ x.status = c.status /\ x.raw = c.raw /\ x.next = c.next
      /\ x.now = c.now
    BY <1>3, <1>4 DEF Calls
<1>6. Awaits(x)
    BY <1>2, <1>4 DEF UpdateFixture
<1>7. Turned({x}) /\ DOMAIN inFlight' = DOMAIN inFlight /\ inFlight'[Len(inFlight)] = x
    BY <1>1, <1>5, <1>6, AwaitsTurns
<1>8. IndexerTypeOK'
    <2>1. fixtureStatus' \in 0..19
        BY <1>1, <1>2, <1>3 DEF Calls
    <2>2. QED BY <1>1, <1>7, <2>1 DEF IndexerTypeOK, Turned
<1>9. InStep'
    <2>1. x.now = clock /\ (x.next # <<>> => Len(inFlight) = 1)
        BY <1>1, <1>3, <1>5 DEF InStep
    <2>2. Stage(x.at) = Stage(c.at) + 1
        BY <1>3, <1>5 DEF Stage
    <2>3. QED BY <1>1, <1>2, <1>7, <2>1, <2>2, TurnedInStep
<1>10. \A i \in DOMAIN inFlight' : inFlight'[i].at \in {"update", "list"}
    <2>1. \A i \in DOMAIN inFlight : inFlight[i].at \in {"update", "list"}
        BY <1>1, CallsAbreast
    <2>2. ASSUME NEW i \in DOMAIN inFlight' PROVE inFlight'[i].at \in {"update", "list"}
        <3>1. CASE i < Len(inFlight) /\ inFlight'[i] = inFlight[i + 1]
            BY <1>3, <1>7, <2>1, <3>1
        <3>2. CASE inFlight'[i] \in {x}
            BY <1>5, <3>2
        <3>3. QED BY <1>7, <3>1, <3>2 DEF Turned
    <2>3. QED BY <2>2
<1>11. ListsBeforeWrites'
    BY <1>10 DEF ListsBeforeWrites
<1>12. /\ Len(inFlight) \in DOMAIN inFlight' /\ inFlight'[Len(inFlight)] = x
       /\ fixtureStatus' = x.status
       /\ \A i \in DOMAIN inFlight' : ~(i > Len(inFlight))
    BY <1>1, <1>2, <1>3, <1>5, <1>7
<1>13. KickoffLocks'
    BY <1>5, <1>12 DEF KickoffLocks, WillLock
<1>14. FinishedCovers'
    BY <1>5, <1>12 DEF FinishedCovers, ListsLast
<1>15. OverWasReported'
    <2>1. /\ x.raw \in FINISHED_STATUSES => Over
          /\ x.status \in FINISHED_STATUSES => Over
          /\ \A k \in DOMAIN x.next : x.next[k] \in FINISHED_STATUSES => Over
        BY <1>1, <1>2, <1>5, TurnReportedOver DEF IndexerInv
    <2>2. QED BY <1>1, <1>7, <1>12, <2>1, TurnedOver DEF IndexerInv
<1>16. AwaitingMeansOver' /\ OnlyInPlayIsAuthored'
    BY <1>1 DEF IndexerInv, AwaitingMeansOver, OnlyInPlayIsAuthored
<1>17. QED BY <1>8, <1>9, <1>11, <1>13, <1>14, <1>15, <1>16 DEF IndexerInv

LEMMA ResumedReportedOver ==
    ASSUME IndexerTypeOK, OverWasReported, ~Idle, NEW y \in Resumed
    PROVE  /\ y.raw \in FINISHED_STATUSES => Over
           /\ y.status \in FINISHED_STATUSES => Over
           /\ \A k \in DOMAIN y.next : y.next[k] \in FINISHED_STATUSES => Over
<1>1. PICK next : next = Turn.next
    OBVIOUS
<1>2. next \in Seq(Statuses \cup {Undocumented})
    BY <1>1, TurnIsFirst DEF IndexerTypeOK, Calls
<1>3. next # <<>> /\ y = Call(Head(next), Tail(next))
    BY <1>1 DEF Resumed
<1>4. y.raw = Head(next) /\ y.next = Tail(next) /\ y.status = NoStatus
    BY <1>3 DEF Call
<1>5. \A k \in DOMAIN next : next[k] \in FINISHED_STATUSES => Over
    BY <1>1, TurnReportedOver
<1>6. 1 \in DOMAIN next /\ Head(next) = next[1]
    BY <1>2, <1>3
<1>7. \A k \in DOMAIN Tail(next) : k + 1 \in DOMAIN next /\ Tail(next)[k] = next[k + 1]
    BY <1>2, <1>3
<1>8. QED BY <1>4, <1>5, <1>6, <1>7 DEF NoStatus, FINISHED_STATUSES

\* A record of the finished match writes every row that one of a match under way
\* would, when both listed the same rows.
LEMMA FinishedWritesMore ==
    ASSUME NEW table \in [Markets -> RowStates], NEW s \in 2..13, NEW e \in FINISHED_STATUSES,
           NEW t \in Int
    PROVE  WritesFor(table, s, t) \subseteq WritesFor(table, e, t)
<1> SUFFICES ASSUME NEW w \in WritesFor(table, s, t) PROVE w \in WritesFor(table, e, t)
    OBVIOUS
<1>1. /\ w[1] \in Markets /\ w[2] \in 1..2 /\ w = <<w[1], w[2]>>
      /\ table[w[1]] \in Indexed
      /\ NextState(w[1], table[w[1]], s, t) # table[w[1]]
      /\ w[2] = 2 => NextState(w[1], table[w[1]], s, t) = "Locked"
    BY WritesAre
<1>2. /\ NextState(w[1], table[w[1]], s, t) # "Locked"
      /\ NextState(w[1], table[w[1]], e, t) # table[w[1]]
    BY <1>1, PlayingMoves
<1>3. w = <<w[1], 1>>
    BY <1>1, <1>2
<1>4. QED BY <1>1, <1>2, <1>3, RowsToWrite

LEMMA ListInv ==
    ASSUME IndexerInv, ListMarkets, UNCHANGED <<clock, match, feed, connected, pos, authored, found>>
    PROVE  IndexerInv'
<1>1. /\ IndexerTypeOK /\ InStep /\ ListsBeforeWrites /\ ~Idle /\ Turn.at = "list"
      /\ inFlight \in Seq(Calls) /\ UNCHANGED <<fixtureStatus, rows, refreshed>>
      /\ rows \in [Markets -> RowStates] /\ clock \in Int
    BY DEF IndexerInv, IndexerTypeOK, ListMarkets
<1>2. PICK c : c = Turn
    OBVIOUS
<1>3. /\ c \in Calls /\ c = inFlight[1] /\ DOMAIN inFlight = 1..Len(inFlight)
      /\ Len(inFlight) \in Nat \ {0} /\ c.at = "list" /\ 1 \in DOMAIN inFlight
      /\ \A i \in DOMAIN inFlight : inFlight[i] \in Calls
    BY <1>1, <1>2, TurnIsFirst
<1>4. c.now = clock /\ (c.next # <<>> => Len(inFlight) = 1) /\ c.status \in 0..19
    BY <1>1, <1>3 DEF InStep, Calls
<1>5. PICK todo : todo = WritesFor(rows, c.status, clock)
    OBVIOUS
<1>6. todo \subseteq Markets \X (1..2)
    BY <1>5, WritesType
<1>7. PICK x : x = [c EXCEPT !.at = "write", !.open = rows, !.todo = todo]
    OBVIOUS
<1>8. /\ x \in Calls /\ x.at = "write" /\ x.status = c.status /\ x.raw = c.raw /\ x.next = c.next
      /\ x.now = clock /\ x.open = rows /\ x.todo = todo
    BY <1>1, <1>3, <1>4, <1>6, <1>7 DEF Calls
<1>9. PICK X : X = IF todo = {} THEN Resumed ELSE {x}
    OBVIOUS
<1>10. /\ Turned(X) /\ X \subseteq Calls
       /\ todo # {} => Len(inFlight) \in DOMAIN inFlight' /\ inFlight'[Len(inFlight)] = x
    <2>1. CASE todo = {}
        <3>1. Returns
            BY <1>2, <1>4, <1>5, <2>1 DEF ListMarkets
        <3>2. QED BY <1>1, <1>9, <2>1, <3>1, ReturnsTurns
    <2>2. CASE todo # {}
        <3>1. Awaits(x)
            BY <1>2, <1>4, <1>5, <1>7, <2>2 DEF ListMarkets
        <3>2. inFlight \in Seq(Calls) /\ ~Idle /\ x \in Calls /\ X = {x}
            BY <1>1, <1>8, <1>9, <2>2
        <3>3. /\ Turned({x}) /\ DOMAIN inFlight' = DOMAIN inFlight
              /\ inFlight'[Len(inFlight)] = x
            BY <3>1, <3>2, AwaitsTurns
        <3>4. Len(inFlight) \in DOMAIN inFlight
            BY <1>3
        <3>5. QED BY <3>2, <3>3, <3>4
    <2>3. QED BY <2>1, <2>2
<1>11. \A y \in X : \/ y = x /\ todo # {}
                    \/ /\ Len(inFlight) = 1 /\ y.at = "read" /\ y.status = NoStatus /\ y.now = clock
                       /\ y \in Resumed
    BY <1>2, <1>4, <1>9 DEF Resumed, Call
<1>12. IndexerTypeOK'
    BY <1>1, <1>10 DEF IndexerTypeOK, Turned
<1>13. InStep'
    <2>1. Stage(x.at) = Stage(c.at) + 1
        BY <1>3, <1>8 DEF Stage
    <2>2. QED BY <1>1, <1>2, <1>4, <1>8, <1>10, <1>11, <2>1, TurnedInStep
<1>14. \A i \in DOMAIN inFlight' :
         \/ /\ i \in Nat \ {0} /\ i < Len(inFlight) /\ inFlight'[i] = inFlight[i + 1]
            /\ i + 1 \in DOMAIN inFlight /\ inFlight[i + 1].at \in {"list", "write"}
         \/ i = Len(inFlight) /\ inFlight'[i] = x /\ todo # {}
         \/ /\ i = Len(inFlight) /\ Len(inFlight) = 1
            /\ inFlight'[i].at = "read" /\ inFlight'[i].status = NoStatus
    <2>1. \A i \in DOMAIN inFlight' : i \in Nat \ {0}
        BY <1>10 DEF Turned
    <2>2. \A i \in DOMAIN inFlight : inFlight[i].at \in {"list", "write"}
        BY <1>1, CallsAbreast
    <2>3. QED BY <1>3, <1>10, <1>11, <2>1, <2>2 DEF Turned
\* A call at its writes has listed the rows as they are.
<1>15. \A i \in DOMAIN inFlight : inFlight[i].at = "write" =>
         inFlight[i].open = rows /\ inFlight[i].todo = WritesFor(rows, inFlight[i].status, clock)
    BY <1>1, <1>3 DEF ListsBeforeWrites
<1>16. ListsBeforeWrites'
    <2>1. ASSUME NEW i \in DOMAIN inFlight', inFlight'[i].at = "write"
          PROVE  /\ inFlight'[i].open = rows
                 /\ inFlight'[i].todo = WritesFor(rows, inFlight'[i].status, clock)
        BY <1>5, <1>8, <1>14, <1>15, <2>1
    <2>2. QED BY <1>1, <2>1 DEF ListsBeforeWrites
<1>17. KickoffLocks'
    <2> SUFFICES ASSUME NEW m \in Markets \ InPlayMarkets, ~refreshed, fixtureStatus \in 2..4,
                        rows[m] = "Open"
                 PROVE  \E i \in DOMAIN inFlight' : WillLock(inFlight'[i], m)
        BY <1>1 DEF KickoffLocks
    <2>1. PICK i \in DOMAIN inFlight : WillLock(inFlight[i], m)
        BY DEF IndexerInv, KickoffLocks
    <2>2. CASE i # 1
        <3>1. i - 1 \in DOMAIN inFlight' /\ inFlight'[i - 1] = inFlight[i]
            BY <1>3, <1>10, <2>2 DEF Turned
        <3>2. QED BY <2>1, <3>1
    <2>3. CASE i = 1
        <3>1. c.status \in 2..4
            BY <1>3, <2>1, <2>3 DEF WillLock
        <3>2. <<m, 1>> \in todo
            BY <1>1, <1>5, <3>1, LiveLocks, RowsToWrite DEF Indexed
        <3>3. WillLock(x, m)
            BY <1>8, <3>1, <3>2 DEF WillLock
        <3>4. QED BY <1>10, <3>2, <3>3
    <2>4. QED BY <2>2, <2>3
<1>18. FinishedCovers'
    <2> SUFFICES ASSUME ~refreshed, fixtureStatus \in FINISHED_STATUSES
                 PROVE  \/ NonePlays'
                        \/ \E j \in DOMAIN inFlight' :
                             /\ inFlight'[j].status \in FINISHED_STATUSES
                             /\ ListsLast(j)' \/ WritesLast(j)'
        BY <1>1 DEF FinishedCovers
    <2>1. PICK j \in DOMAIN inFlight : inFlight[j].status \in FINISHED_STATUSES /\ ListsLast(j)
        BY <1>3 DEF IndexerInv, FinishedCovers, NonePlays, WritesLast
    <2>2. CASE j # 1
        <3>1. j - 1 \in DOMAIN inFlight' /\ inFlight'[j - 1] = inFlight[j] /\ Len(inFlight) # 1
              /\ j \in Nat
            BY <1>3, <1>10, <2>2 DEF Turned
        <3>2. ASSUME NEW i \in DOMAIN inFlight', i > j - 1 PROVE inFlight'[i].at = "write"
            BY <1>8, <1>14, <2>1, <3>1, <3>2 DEF ListsLast
        <3>3. ListsLast(j - 1)'
            BY <2>1, <3>1, <3>2 DEF ListsLast
        <3>4. QED BY <2>1, <3>1, <3>3
    <2>3. CASE j = 1
        <3>1. /\ c.status \in FINISHED_STATUSES
              /\ \A i \in DOMAIN inFlight : i # 1 => inFlight[i].at = "write"
            BY <1>3, <2>1, <2>3 DEF ListsLast
        \* It writes every row in play, and every row that another will put in play
        \* after no fewer writes.
        <3>2. ASSUME NEW m \in Markets, rows[m] = "InPlay" PROVE <<m, 1>> \in todo
            <4>1. rows[m] \in Indexed
                BY <3>2 DEF Indexed
            <4>2. NextState(m, rows[m], c.status, clock) # rows[m]
                BY <1>1, <3>1, <3>2, <4>1, FinishedEnds
            <4>3. QED BY <1>5, <4>1, <4>2, RowsToWrite
        <3>3. ASSUME NEW m \in Markets, NEW i \in DOMAIN inFlight, i # 1, Plays(inFlight[i], m)
              PROVE  <<m, 1>> \in todo /\ inFlight[i].todo \subseteq todo
            <4>1. PICK d : d = inFlight[i]
                OBVIOUS
            <4>2. /\ d \in Calls /\ d.open = rows /\ d.todo = WritesFor(rows, d.status, clock)
                  /\ d.now = clock /\ d.status \in 0..19
                BY <1>1, <1>3, <1>15, <3>1, <3>3, <4>1 DEF InStep, Calls
            <4>3. /\ <<m, 1>> \in d.todo
                  /\ NextState(m, rows[m], d.status, clock) = "InPlay"
                BY <3>3, <4>1, <4>2 DEF Plays, Written
            <4>4. rows[m] \in Indexed /\ NextState(m, rows[m], d.status, clock) # rows[m]
                BY <4>2, <4>3, RowsToWrite
            <4>5. d.status \in 2..13
                BY <1>1, <4>2, <4>3, <4>4, PlayingStatus
            <4>6. d.todo \subseteq todo
                BY <1>1, <1>5, <3>1, <4>2, <4>5, FinishedWritesMore
            <4>7. QED BY <4>1, <4>3, <4>6
        <3>4. CASE todo = {}
            <4>1. \A i \in DOMAIN inFlight' : inFlight'[i].at # "list"
                BY <1>3, <1>14, <3>1, <3>4
            <4>2. ASSUME NEW m \in Markets PROVE rows[m] # "InPlay"
                BY <3>2, <3>4
            <4>3. ASSUME NEW m \in Markets, NEW i \in DOMAIN inFlight' PROVE ~Plays(inFlight'[i], m)
                <5>1. CASE inFlight'[i] = inFlight[i + 1] /\ i + 1 \in DOMAIN inFlight /\ i \in Nat \ {0}
                    BY <3>3, <3>4, <5>1
                <5>2. CASE inFlight'[i].at = "read"
                    BY <5>2 DEF Plays
                <5>3. QED BY <1>14, <3>4, <5>1, <5>2
            <4>4. QED BY <1>1, <4>1, <4>2, <4>3 DEF NonePlays
        <3>5. CASE todo # {}
            <4>1. /\ Len(inFlight) \in DOMAIN inFlight' /\ inFlight'[Len(inFlight)] = x
                  /\ x.status \in FINISHED_STATUSES
                BY <1>8, <1>10, <3>1, <3>5
            <4>2. \A i \in DOMAIN inFlight' :
                    \/ /\ i \in Nat \ {0} /\ i < Len(inFlight) /\ inFlight'[i] = inFlight[i + 1]
                       /\ i + 1 \in DOMAIN inFlight /\ inFlight[i + 1].at = "write"
                    \/ i = Len(inFlight) /\ inFlight'[i] = x
                <5>1. inFlight'[Len(inFlight)].at = "write"
                    BY <1>8, <4>1
                <5>2. QED BY <1>3, <1>14, <3>1, <5>1
            <4>3. ASSUME NEW m \in Markets PROVE ~Plays(x, m)
                <5>1. SUFFICES ASSUME <<m, 1>> \in todo PROVE Written(x, m) # "InPlay"
                    BY <1>8 DEF Plays
                <5>2. rows[m] \in Indexed
                    BY <1>5, <5>1, RowsToWrite
                <5>3. NextState(m, rows[m], c.status, clock) # "InPlay"
                    BY <1>1, <3>1, <5>2, FinishedEnds
                <5>4. QED BY <1>8, <5>3 DEF Written
            <4>4. ASSUME NEW m \in Markets, NEW i \in DOMAIN inFlight', Plays(inFlight'[i], m)
                  PROVE  /\ i < Len(inFlight) /\ i \in Nat /\ <<m, 1>> \in todo
                         /\ Cardinality(Before(inFlight'[i], m)) <= Cardinality(Before(x, m))
                <5>1. /\ i \in Nat \ {0} /\ i < Len(inFlight) /\ inFlight'[i] = inFlight[i + 1]
                      /\ i + 1 \in DOMAIN inFlight
                    BY <4>2, <4>3, <4>4
                <5>2. <<m, 1>> \in todo /\ inFlight[i + 1].todo \subseteq todo
                    BY <3>3, <4>4, <5>1
                <5>3. Before(inFlight[i + 1], m) \in SUBSET Before(x, m)
                    BY <1>8, <5>2 DEF Before
                <5>4. Cardinality(Before(inFlight[i + 1], m)) <= Cardinality(Before(x, m))
                    BY <1>8, <5>3, BeforeFinite, FS_Subset
                <5>5. QED BY <5>1, <5>2, <5>4
            <4>5. \A i \in DOMAIN inFlight' : inFlight'[i].at = "write"
                BY <1>8, <4>2
            <4>6. PICK n : n = Len(inFlight)
                OBVIOUS
            <4>7. n \in DOMAIN inFlight' /\ inFlight'[n] = x /\ inFlight'[n].todo = todo /\ n \in Nat
                BY <1>3, <1>8, <4>1, <4>6
            <4>8. WritesLast(n)'
                BY <1>1, <3>2, <4>4, <4>5, <4>6, <4>7 DEF WritesLast
            <4>9. QED BY <4>1, <4>7, <4>8
        <3>6. QED BY <3>4, <3>5
    <2>4. QED BY <2>2, <2>3
<1>19. OverWasReported'
    <2>1. \A y \in X : /\ y.raw \in FINISHED_STATUSES => Over
                       /\ y.status \in FINISHED_STATUSES => Over
                       /\ \A k \in DOMAIN y.next : y.next[k] \in FINISHED_STATUSES => Over
        <3>1. ASSUME NEW y \in X, y = x
              PROVE  /\ y.raw \in FINISHED_STATUSES => Over
                     /\ y.status \in FINISHED_STATUSES => Over
                     /\ \A k \in DOMAIN y.next : y.next[k] \in FINISHED_STATUSES => Over
            BY <1>1, <1>2, <1>8, <3>1, TurnReportedOver DEF IndexerInv
        <3>2. ASSUME NEW y \in Resumed
              PROVE  /\ y.raw \in FINISHED_STATUSES => Over
                     /\ y.status \in FINISHED_STATUSES => Over
                     /\ \A k \in DOMAIN y.next : y.next[k] \in FINISHED_STATUSES => Over
            BY <1>1, ResumedReportedOver DEF IndexerInv
        <3>3. QED BY <1>11, <3>1, <3>2
    <2>2. QED BY <1>1, <1>10, <2>1, TurnedOver DEF IndexerInv, OverWasReported
<1>20. AwaitingMeansOver' /\ OnlyInPlayIsAuthored'
    BY <1>1 DEF IndexerInv, AwaitingMeansOver, OnlyInPlayIsAuthored
<1>21. QED BY <1>12, <1>13, <1>16, <1>17, <1>18, <1>19, <1>20 DEF IndexerInv

LEMMA WriteInv ==
    ASSUME IndexerInv, WriteRow, UNCHANGED <<clock, match, feed, connected, pos, authored, found>>
    PROVE  IndexerInv'
<1>1. /\ IndexerTypeOK /\ InStep /\ ListsBeforeWrites /\ ~Idle /\ Turn.at = "write"
      /\ inFlight \in Seq(Calls) /\ UNCHANGED <<fixtureStatus, refreshed>>
      /\ rows \in [Markets -> RowStates] /\ clock \in Int
    BY DEF IndexerInv, IndexerTypeOK, WriteRow
<1>2. PICK c : c = Turn
    OBVIOUS
<1>3. /\ c \in Calls /\ c = inFlight[1] /\ DOMAIN inFlight = 1..Len(inFlight)
      /\ Len(inFlight) \in Nat \ {0} /\ c.at = "write" /\ 1 \in DOMAIN inFlight
      /\ \A i \in DOMAIN inFlight : inFlight[i] \in Calls
    BY <1>1, <1>2, TurnIsFirst
<1>4. /\ c.now = clock /\ (c.next # <<>> => Len(inFlight) = 1) /\ c.status \in 0..19
      /\ c.open \in [Markets -> RowStates] /\ c.todo \subseteq WritesFor(c.open, c.status, clock)
    BY <1>1, <1>3 DEF InStep, Calls, ListsBeforeWrites
<1>5. PICK w \in c.todo :
        /\ First(w, c.todo)
        /\ rows' = IF w[2] = 1 THEN [rows EXCEPT ![w[1]] = Written(c, w[1])] ELSE rows
        /\ IF c.todo = {w} THEN Returns ELSE Awaits([c EXCEPT !.todo = @ \ {w}])
    BY <1>2 DEF WriteRow
<1>6. PICK k : k = w[1]
    OBVIOUS
\* The row that it writes, if it is not only the notification's turn.
<1>7. /\ k \in Markets /\ k \in Nat /\ w[2] \in 1..2 /\ w = <<k, w[2]>>
      /\ c.open[k] \in Indexed /\ Written(c, k) # c.open[k]
      /\ w[2] = 2 => Written(c, k) = "Locked"
    <2>1. w \in WritesFor(c.open, c.status, clock)
        BY <1>4
    <2>2. QED BY <1>4, <1>6, <2>1, WritesAre, MarketFields DEF Written
<1>8. /\ Written(c, k) \in RowStates \ {"Open", "Absent"}
      /\ MarketList[k].period = 0 /\ Written(c, k) = "AwaitingRoot" => c.status \in FINISHED_STATUSES
      /\ c.status \in FINISHED_STATUSES => Written(c, k) \notin {"InPlay", "Locked"}
    <2>1. c.open[k] \in RowStates
        BY <1>7 DEF RowStates
    <2>2. /\ Written(c, k) \in RowStates
          /\ Written(c, k) \in {"Open", "Absent"} => Written(c, k) = c.open[k]
          /\ (MarketList[k].period = 0 /\ Written(c, k) = "AwaitingRoot"
                /\ c.open[k] # "AwaitingRoot") => c.status \in FINISHED_STATUSES
        BY <1>1, <1>4, <1>7, <2>1, RowMoves DEF Written
    <2>3. c.status \in FINISHED_STATUSES => Written(c, k) \notin {"InPlay", "Locked"}
        BY <1>1, <1>4, <1>7, FinishedEnds DEF Written
    <2>4. QED BY <1>7, <2>2, <2>3
<1>9. \A m \in Markets : rows'[m] = IF m = k /\ w[2] = 1 THEN Written(c, k) ELSE rows[m]
    BY <1>1, <1>5, <1>6, <1>7
<1>10. rows' \in [Markets -> RowStates]
    BY <1>1, <1>5, <1>6, <1>7, <1>8
<1>11. PICK x : x = [c EXCEPT !.todo = @ \ {w}]
    OBVIOUS
<1>12. /\ x \in Calls /\ x.at = "write" /\ x.status = c.status /\ x.raw = c.raw /\ x.next = c.next
       /\ x.now = clock /\ x.open = c.open /\ x.todo = c.todo \ {w}
       /\ \A m \in Markets : Written(x, m) = Written(c, m)
    BY <1>3, <1>4, <1>11 DEF Calls, Written
<1>13. PICK X : X = IF c.todo = {w} THEN Resumed ELSE {x}
    OBVIOUS
<1>14. /\ Turned(X) /\ X \subseteq Calls
       /\ c.todo # {w} => Len(inFlight) \in DOMAIN inFlight' /\ inFlight'[Len(inFlight)] = x
    <2>1. CASE c.todo = {w}
        BY <1>1, <1>5, <1>13, <2>1, ReturnsTurns
    <2>2. CASE c.todo # {w}
        <3>1. Awaits(x)
            BY <1>5, <1>11, <2>2
        <3>2. QED BY <1>1, <1>3, <1>12, <1>13, <2>2, <3>1, AwaitsTurns
    <2>3. QED BY <2>1, <2>2
<1>15. \A y \in X : \/ y = x /\ c.todo # {w}
                    \/ /\ Len(inFlight) = 1 /\ y.at = "read" /\ y.status = NoStatus /\ y.now = clock
                       /\ y \in Resumed
    BY <1>2, <1>4, <1>13 DEF Resumed, Call
<1>16. IndexerTypeOK'
    BY <1>1, <1>10, <1>14 DEF IndexerTypeOK, Turned
<1>17. InStep'
    BY <1>1, <1>2, <1>3, <1>4, <1>12, <1>14, <1>15, TurnedInStep
<1>18. \A i \in DOMAIN inFlight' :
         \/ /\ i \in Nat \ {0} /\ i < Len(inFlight) /\ inFlight'[i] = inFlight[i + 1]
            /\ i + 1 \in DOMAIN inFlight /\ inFlight[i + 1].at = "write"
         \/ i = Len(inFlight) /\ inFlight'[i] = x /\ c.todo # {w}
         \/ /\ i = Len(inFlight) /\ Len(inFlight) = 1
            /\ inFlight'[i].at = "read" /\ inFlight'[i].status = NoStatus
    <2>1. \A i \in DOMAIN inFlight' : i \in Nat \ {0}
        BY <1>14 DEF Turned
    <2>2. \A i \in DOMAIN inFlight : inFlight[i].at = "write"
        BY <1>1, CallsAbreast
    <2>3. QED BY <1>3, <1>14, <1>15, <2>1, <2>2 DEF Turned
<1>19. ListsBeforeWrites'
    <2>1. ASSUME NEW i \in DOMAIN inFlight', inFlight'[i].at = "write"
          PROVE  inFlight'[i].todo \subseteq WritesFor(inFlight'[i].open, inFlight'[i].status, clock)
        <3>1. CASE i + 1 \in DOMAIN inFlight /\ inFlight'[i] = inFlight[i + 1]
            BY <1>1, <2>1, <3>1 DEF ListsBeforeWrites
        <3>2. CASE inFlight'[i] = x
            BY <1>4, <1>12, <3>2
        <3>3. QED BY <1>18, <2>1, <3>1, <3>2
    <2>2. \A i \in DOMAIN inFlight' : inFlight'[i].at # "list"
        BY <1>12, <1>18
    <2>3. QED BY <1>1, <2>1, <2>2 DEF ListsBeforeWrites
<1>20. KickoffLocks'
    <2> SUFFICES ASSUME NEW m \in Markets \ InPlayMarkets, ~refreshed, fixtureStatus \in 2..4,
                        rows'[m] = "Open"
                 PROVE  \E i \in DOMAIN inFlight' : WillLock(inFlight'[i], m)
        BY <1>1 DEF KickoffLocks
    <2>1. rows[m] = "Open" /\ <<m, 1>> # w
        BY <1>7, <1>8, <1>9
    <2>2. PICK i \in DOMAIN inFlight : WillLock(inFlight[i], m)
        BY <2>1 DEF IndexerInv, KickoffLocks
    <2>3. CASE i # 1
        <3>1. i - 1 \in DOMAIN inFlight' /\ inFlight'[i - 1] = inFlight[i]
            BY <1>3, <1>14, <2>3 DEF Turned
        <3>2. QED BY <2>2, <3>1
    <2>4. CASE i = 1
        <3>1. c.status \in 2..4 /\ <<m, 1>> \in x.todo
            BY <1>3, <1>12, <2>1, <2>2, <2>4 DEF WillLock
        <3>2. c.todo # {w} /\ WillLock(x, m)
            BY <1>12, <2>1, <3>1 DEF WillLock
        <3>3. QED BY <1>14, <3>2
    <2>5. QED BY <2>3, <2>4
<1>21. FinishedCovers'
    <2> SUFFICES ASSUME ~refreshed, fixtureStatus \in FINISHED_STATUSES
                 PROVE  \/ NonePlays'
                        \/ \E j \in DOMAIN inFlight' :
                             /\ inFlight'[j].status \in FINISHED_STATUSES
                             /\ ListsLast(j)' \/ WritesLast(j)'
        BY <1>1 DEF FinishedCovers
    <2>1. \A m \in Markets : /\ Plays(x, m) => Plays(c, m) /\ <<m, 1>> # w
                             /\ rows'[m] = "InPlay" => rows[m] = "InPlay" \/ Plays(c, m)
        <3>1. ASSUME NEW m \in Markets, rows'[m] = "InPlay", rows[m] # "InPlay" PROVE Plays(c, m)
            <4>1. m = k /\ w[2] = 1 /\ Written(c, k) = "InPlay"
                BY <1>9, <3>1
            <4>2. <<k, 1>> \in c.todo
                BY <1>7, <4>1
            <4>3. QED BY <1>3, <4>1, <4>2 DEF Plays
        <3>2. QED BY <1>3, <1>12, <3>1 DEF Plays
    <2>2. \A i \in DOMAIN inFlight' : inFlight'[i].at # "list"
        BY <1>12, <1>18
    <2>3. \A m \in Markets, i \in DOMAIN inFlight' : Plays(inFlight'[i], m) =>
            \/ /\ i \in Nat \ {0} /\ i < Len(inFlight) /\ inFlight'[i] = inFlight[i + 1]
               /\ i + 1 \in DOMAIN inFlight
            \/ i = Len(inFlight) /\ inFlight'[i] = x /\ c.todo # {w}
        BY <1>18 DEF Plays
    <2>4. CASE NonePlays
        <3>1. \A m \in Markets : rows'[m] # "InPlay"
            BY <1>3, <2>1, <2>4 DEF NonePlays
        <3>2. \A m \in Markets, i \in DOMAIN inFlight' : ~Plays(inFlight'[i], m)
            BY <1>3, <2>1, <2>3, <2>4 DEF NonePlays
        <3>3. QED BY <2>2, <3>1, <3>2 DEF NonePlays
    <2>5. ASSUME NEW j \in DOMAIN inFlight, inFlight[j].status \in FINISHED_STATUSES, WritesLast(j)
          PROVE  \/ NonePlays'
                 \/ \E n \in DOMAIN inFlight' :
                      inFlight'[n].status \in FINISHED_STATUSES /\ WritesLast(n)'
        <3>1. CASE j = 1
            <4>1. c.status \in FINISHED_STATUSES /\ w[2] = 1 /\ Written(c, k) # "InPlay"
                BY <1>3, <1>7, <1>8, <2>5, <3>1
            <4>2. \A m \in Markets : ~Plays(c, m)
                <5>1. SUFFICES ASSUME NEW m \in Markets, <<m, 1>> \in c.todo
                               PROVE  Written(c, m) # "InPlay"
                    BY DEF Plays
                <5>2. c.open[m] \in Indexed
                    BY <1>4, <5>1, RowsToWrite
                <5>3. QED BY <1>1, <1>4, <4>1, <5>2, FinishedEnds DEF Written
            <4>3. ASSUME NEW m \in Markets, rows'[m] = "InPlay" PROVE <<m, 1>> \in x.todo
                <5>1. rows[m] = "InPlay" /\ m # k
                    BY <1>9, <2>1, <4>1, <4>2, <4>3
                <5>2. <<m, 1>> \in c.todo
                    BY <1>3, <2>5, <3>1, <5>1 DEF WritesLast
                <5>3. QED BY <1>7, <1>12, <5>1, <5>2
            <4>4. ASSUME NEW m \in Markets, NEW i \in DOMAIN inFlight', Plays(inFlight'[i], m)
                  PROVE  /\ i \in Nat /\ i < Len(inFlight) /\ <<m, 1>> \in x.todo
                         /\ Cardinality(Before(inFlight'[i], m)) <= Cardinality(Before(x, m))
                <5>1. /\ i \in Nat \ {0} /\ i < Len(inFlight) /\ inFlight'[i] = inFlight[i + 1]
                      /\ i + 1 \in DOMAIN inFlight /\ Plays(inFlight[i + 1], m)
                    BY <2>1, <2>3, <4>2, <4>4
                <5>2. /\ <<m, 1>> \in c.todo
                      /\ Cardinality(Before(inFlight[i + 1], m)) < Cardinality(Before(c, m))
                    <6>1. i + 1 > j
                        BY <3>1, <5>1
                    <6>2. QED BY <1>3, <2>5, <3>1, <5>1, <6>1 DEF WritesLast
                <5>3. Cardinality(Before(c, m)) \in Nat
                      /\ Cardinality(Before(inFlight[i + 1], m)) \in Nat
                    BY <1>3, <5>1, BeforeFinite
                <5>4. k < m
                    BY <1>3, <1>5, <1>6, <5>2, <5>3, NothingBeforeFirst
                <5>5. Cardinality(Before(x, m)) = Cardinality(Before(c, m)) - 1
                    BY <1>3, <1>6, <1>12, <5>4, BeforeShrinks
                <5>6. m # k
                    BY <1>7, <5>4
                <5>7. <<m, 1>> \in x.todo
                    BY <1>7, <1>12, <5>2, <5>6
                <5>8. QED BY <5>1, <5>2, <5>3, <5>5, <5>7
            <4>5. CASE c.todo = {w}
                <5>1. x.todo = {}
                    BY <1>12, <4>5
                <5>2. QED BY <2>2, <4>3, <4>4, <5>1 DEF NonePlays
            <4>6. CASE c.todo # {w}
                <5>1. PICK n : n = Len(inFlight)
                    OBVIOUS
                <5>2. n \in DOMAIN inFlight' /\ inFlight'[n] = x /\ n \in Nat
                    BY <1>3, <1>14, <4>6, <5>1
                <5>3. \A i \in DOMAIN inFlight' : inFlight'[i].at = "write"
                    BY <1>12, <1>18, <4>6, <5>1, <5>2
                <5>4. WritesLast(n)'
                    BY <4>3, <4>4, <5>1, <5>2, <5>3 DEF WritesLast
                <5>5. inFlight'[n].status \in FINISHED_STATUSES
                    BY <1>12, <4>1, <5>2
                <5>6. QED BY <5>2, <5>4, <5>5
            <4>7. QED BY <4>5, <4>6
        <3>2. CASE j # 1
            <4>1. PICK e : e = inFlight[j]
                OBVIOUS
            <4>2. PICK n : n = j - 1
                OBVIOUS
            <4>3. /\ n \in DOMAIN inFlight' /\ inFlight'[n] = e /\ Len(inFlight) # 1
                  /\ j \in Nat /\ n \in Nat /\ n < Len(inFlight) /\ j <= Len(inFlight) /\ 1 < j
                  /\ e \in Calls
                BY <1>3, <1>14, <3>2, <4>1, <4>2 DEF Turned
            <4>4. \A i \in DOMAIN inFlight' : inFlight'[i].at = "write"
                BY <1>12, <1>18, <4>3
            <4>5. ASSUME NEW m \in Markets, rows'[m] = "InPlay" PROVE <<m, 1>> \in e.todo
                BY <1>3, <2>1, <2>5, <4>1, <4>5 DEF WritesLast
            <4>6. ASSUME NEW m \in Markets, NEW i \in DOMAIN inFlight', Plays(inFlight'[i], m)
                  PROVE  /\ <<m, 1>> \in e.todo
                         /\ i < n => Cardinality(Before(inFlight'[i], m)) <= Cardinality(Before(e, m))
                         /\ i > n => Cardinality(Before(inFlight'[i], m)) < Cardinality(Before(e, m))
                <5>1. CASE /\ i \in Nat \ {0} /\ i < Len(inFlight) /\ inFlight'[i] = inFlight[i + 1]
                           /\ i + 1 \in DOMAIN inFlight
                    <6>1. (i < n => i + 1 < j) /\ (i > n => i + 1 > j)
                        BY <4>2, <4>3, <5>1
                    <6>2. QED BY <2>5, <4>1, <4>6, <5>1, <6>1 DEF WritesLast
                <5>2. CASE i = Len(inFlight) /\ inFlight'[i] = x
                    <6>1. Plays(c, m) /\ <<m, 1>> # w /\ <<m, 1>> \in c.todo
                        BY <2>1, <4>6, <5>2 DEF Plays
                    <6>2. /\ <<m, 1>> \in e.todo
                          /\ Cardinality(Before(c, m)) <= Cardinality(Before(e, m))
                        BY <1>3, <2>5, <4>1, <4>3, <6>1 DEF WritesLast
                    <6>3. k < m
                        BY <1>5, <1>7, <6>1, MarketFields DEF First
                    <6>4. Cardinality(Before(x, m)) = Cardinality(Before(c, m)) - 1
                        BY <1>3, <1>6, <1>12, <6>3, BeforeShrinks
                    <6>5. Cardinality(Before(c, m)) \in Nat /\ Cardinality(Before(e, m)) \in Nat
                        BY <1>3, <4>3, BeforeFinite
                    <6>6. QED BY <4>3, <5>2, <6>2, <6>4, <6>5
                <5>3. QED BY <2>3, <4>6, <5>1, <5>2
            <4>7. WritesLast(n)'
                BY <4>3, <4>4, <4>5, <4>6 DEF WritesLast
            <4>8. QED BY <2>5, <4>1, <4>3, <4>7
        <3>3. QED BY <3>1, <3>2
    <2>6. \A j \in DOMAIN inFlight : ~ListsLast(j)
        BY <1>1, CallsAbreast DEF ListsLast
    <2>7. QED BY <2>4, <2>5, <2>6 DEF IndexerInv, FinishedCovers
<1>22. OverWasReported'
    <2>1. \A y \in X : /\ y.raw \in FINISHED_STATUSES => Over
                       /\ y.status \in FINISHED_STATUSES => Over
                       /\ \A i \in DOMAIN y.next : y.next[i] \in FINISHED_STATUSES => Over
        <3>1. ASSUME NEW y \in X, y = x
              PROVE  /\ y.raw \in FINISHED_STATUSES => Over
                     /\ y.status \in FINISHED_STATUSES => Over
                     /\ \A i \in DOMAIN y.next : y.next[i] \in FINISHED_STATUSES => Over
            BY <1>1, <1>2, <1>12, <3>1, TurnReportedOver DEF IndexerInv
        <3>2. QED BY <1>1, <1>15, <3>1, ResumedReportedOver DEF IndexerInv
    <2>2. QED BY <1>1, <1>14, <2>1, TurnedOver DEF IndexerInv, OverWasReported
<1>23. AwaitingMeansOver'
    <2> SUFFICES ASSUME NEW m \in Markets, MarketList[m].period = 0, rows'[m] = "AwaitingRoot"
                 PROVE  Over
        BY DEF AwaitingMeansOver, Over
    <2>1. CASE rows[m] = "AwaitingRoot"
        BY <2>1 DEF IndexerInv, AwaitingMeansOver, Over
    <2>2. CASE rows[m] # "AwaitingRoot"
        <3>1. m = k /\ Written(c, k) = "AwaitingRoot"
            BY <1>9, <2>2
        <3>2. c.status \in FINISHED_STATUSES
            BY <1>8, <3>1
        <3>3. QED BY <1>1, <1>2, <3>2, TurnReportedOver DEF IndexerInv
    <2>3. QED BY <2>1, <2>2
<1>24. OnlyInPlayIsAuthored'
    BY <1>8, <1>9 DEF IndexerInv, OnlyInPlayIsAuthored
<1>25. QED BY <1>16, <1>17, <1>19, <1>20, <1>21, <1>22, <1>23, <1>24 DEF IndexerInv

(***************************************************************************)
(* The theorems.                                                           *)
(***************************************************************************)

\* The start, and a stuttering step.
LEMMA IndexerInitInv == IndexerInit => IndexerInv
<1> SUFFICES ASSUME IndexerInit PROVE IndexerInv
    OBVIOUS
<1>1. IndexerTypeOK
    <2>1. clock \in 0..Horizon /\ pos = 0 /\ fixtureStatus \in 0..19
        BY IndexerAssumption DEF IndexerInit, NoStatus
    <2>2. /\ feed \in Seq([raw : Statuses \cup {Undocumented}, ts : 0..Horizon])
          /\ pos \in 0..Len(feed) /\ inFlight \in Seq(Calls)
        <3>1. \A S : <<>> \in Seq(S)
            OBVIOUS
        <3>2. feed = <<>> /\ inFlight = <<>> /\ pos \in 0..Len(feed)
            BY DEF IndexerInit
        <3>3. QED BY <3>1, <3>2
    <2>3. match \in Statuses
        BY IndexerAssumption DEF IndexerInit, Statuses
    <2>4. rows \in [Markets -> RowStates]
        BY DEF IndexerInit, RowStates, Indexed
    <2>5. QED BY <2>1, <2>2, <2>3, <2>4 DEF IndexerInit, IndexerTypeOK
<1>2. AllFresh /\ RowsSettled
    BY DEF IndexerInit, AllFresh, RowsSettled, NoStatus, FINISHED_STATUSES
<1>3. OverWasReported /\ AwaitingMeansOver /\ OnlyInPlayIsAuthored
    BY MarketFields DEF IndexerInit, OverWasReported, AwaitingMeansOver, OnlyInPlayIsAuthored, NoStatus,
           FINISHED_STATUSES, InPlayMarkets
<1>4. QED BY <1>1, <1>2, <1>3, FreshIsFine DEF IndexerInv

LEMMA IndexerStepInv == IndexerInv /\ [IndexerNext]_ivars => IndexerInv'
<1> SUFFICES ASSUME IndexerInv, [IndexerNext]_ivars PROVE IndexerInv'
    OBVIOUS
<1>1. CASE Quiet
    BY <1>1, QuietKeepsInv
<1>2. ASSUME NEW n \in 1..MaxChunk, Deliver(n) PROVE IndexerInv'
    BY <1>2, DeliverInv
<1>3. CASE Microtask
    BY <1>3, ReadInv, UpdateInv, ListInv, WriteInv DEF Microtask
<1>4. CASE Poll
    BY <1>4, PollInv
<1>5. CASE Restart
    BY <1>5, RestartInv
<1>6. CASE RefreshReads \/ RefreshWrites
    BY <1>6, RefreshInv
<1>7. CASE UNCHANGED ivars
    <2>1. IndexerTypeOK' /\ InStep' /\ ListsBeforeWrites'
        BY <1>7 DEF ivars, refreshVars, IndexerInv, IndexerTypeOK, InStep, ListsBeforeWrites
    <2>2. OverWasReported' /\ AwaitingMeansOver'
        BY <1>7 DEF ivars, refreshVars, IndexerInv, OverWasReported, Over, AwaitingMeansOver
    <2>3. OnlyInPlayIsAuthored' /\ KickoffLocks'
        BY <1>7 DEF ivars, refreshVars, IndexerInv, OnlyInPlayIsAuthored, KickoffLocks
    <2>4. FinishedCovers'
        BY <1>7 DEF ivars, refreshVars, IndexerInv, FinishedCovers, NonePlays, ListsLast, WritesLast
    <2>5. QED BY <2>1, <2>2, <2>3, <2>4 DEF IndexerInv
<1>8. QED BY <1>1, <1>2, <1>3, <1>4, <1>5, <1>6, <1>7 DEF IndexerNext, Quiet

\* In every behaviour of the indexer, with any records in any order, late,
\* twice or at the same time, the inductive invariant holds (apply).
THEOREM IndexerInvariance == IndexerSpec => []IndexerInv
BY IndexerInitInv, IndexerStepInv, PTL DEF IndexerSpec

\* Every variable keeps its type (apply's writes are states of the enumeration).
THEOREM IndexerTypeCorrect == IndexerSpec => []IndexerTypeOK
<1>1. IndexerInv => IndexerTypeOK
    BY DEF IndexerInv
<1>2. QED BY <1>1, IndexerInvariance, PTL

\* A full-game market waits for its proof only when the feed has reported the
\* end of the match (decidingStatusFor's default, apply).
THEOREM WaitsOnlyWhenOver == IndexerSpec => []AwaitingMeansOver
<1>1. IndexerInv => AwaitingMeansOver
    BY DEF IndexerInv
<1>2. QED BY <1>1, IndexerInvariance, PTL

\* Between callbacks no market is in play on a finished fixture's row, and none
\* that locks at kickoff takes bets on a live one's, however the calls of a
\* chunk interleaved (apply's loop over the rows it listed).
THEOREM RowsAlwaysAgree == IndexerSpec => []RowsAgree
<1>1. IndexerInv => RowsAgree
    <2>1. InPlayMarkets = {m \in Markets : MarketList[m].inPlay}
        BY DEF InPlayMarkets
    <2>2. IndexerInv /\ Idle => RowsSettled
        BY IdleIsSettled DEF IndexerInv
    <2>3. QED BY <2>1, <2>2 DEF RowsSettled, RowsAgree
<1>2. QED BY <1>1, IndexerInvariance, PTL
=============================================================================
