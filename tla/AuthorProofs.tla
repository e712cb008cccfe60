---------------------------- MODULE AuthorProofs ----------------------------
(***************************************************************************)
(* Proofs about Author, for every list of proposals the model may answer,  *)
(* every cap, every course of the match and any number of failed calls,    *)
(* crashes and database losses.                                            *)
(***************************************************************************)
EXTENDS Author, MarketsProofs, FiniteSetTheorems

(***************************************************************************)
(* The parts of the invariant that only some steps disturb.                *)
(***************************************************************************)

\* A list of proposals shrinks by one, or the author rests.
LEMMA NextProposalMoves ==
    ASSUME NEW a, a.todo \in Seq(Proposals), a.todo # <<>>
    PROVE  \/ NextProposal(a) = Resting
           \/ /\ NextProposal(a) = [a EXCEPT !.pc = "next", !.todo = Tail(a.todo)]
              /\ Tail(a.todo) \in Seq(Proposals) /\ Tail(a.todo) # <<>>
<1>1. Len(a.todo) \in Nat /\ Len(a.todo) # 0
    OBVIOUS
<1>2. CASE Len(a.todo) = 1
    BY <1>2 DEF NextProposal
<1>3. CASE Len(a.todo) # 1
    <2>1. Tail(a.todo) \in Seq(Proposals) /\ Len(Tail(a.todo)) = Len(a.todo) - 1
        OBVIOUS
    <2>2. Tail(a.todo) # <<>>
        <3>1. Len(<<>>) = 0
            OBVIOUS
        <3>2. Len(Tail(a.todo)) # 0
            BY <1>1, <1>3, <2>1
        <3>3. QED BY <3>1, <3>2
    <2>3. NextProposal(a) = [a EXCEPT !.pc = "next", !.todo = Tail(a.todo)]
        BY <1>3 DEF NextProposal
    <2>4. QED BY <2>1, <2>2, <2>3
<1>4. QED BY <1>2, <1>3

LEMMA RestingHolds == au' = Resting /\ fired' \subseteq {"kickoff", "ht", "h2", "prematch"} => AuthorHolds'
<1> SUFFICES ASSUME au' = Resting, fired' \subseteq {"kickoff", "ht", "h2", "prematch"}
             PROVE  AuthorHolds'
    OBVIOUS
<1> DEFINE none == NoFixture
<1>1. none \in FixtureRows /\ <<>> \in Seq(Proposals)
    BY NoFixtureIsRow
<1>2. au' = [pc |-> "idle", kind |-> "live", now |-> 0, f |-> none,
             hashes |-> {}, count |-> 0, todo |-> <<>>]
    BY DEF Resting
<1> HIDE DEF none
<1>3. QED BY <1>1, <1>2 DEF AuthorHolds

\* An AI row's id is no slug of the catalog.
LEMMA AiIdsApart ==
    ASSUME NEW d \in classAMarkets, NEW q
    PROVE  d.slug # AiId(q)
<1>1. \E name, halves, period : d.slug = <<name, halves, period>>
    BY DEF classAMarkets, OverUnder, TeamMarkets, MatchMarkets, BothTeamsToScore, Def
<1>2. Len(AiId(q)) = 2
    BY DEF AiId
<1>3. QED BY <1>1, <1>2

\* What is shown stays so while rows are only added, and a new pool of the
\* author is the one it holds.
LEMMA ShownKept ==
    ASSUME AiPoolsShown, faults' = 0 => faults = 0,
           au.pc # "insert" \/ UNCHANGED au,
           DOMAIN rows \subseteq DOMAIN rows',
           \A id \in DOMAIN rows : rows'[id] = rows[id],
           \A t \in DOMAIN pools' : pools'[t].by \in {"live", "prematch"} =>
                \/ t \in DOMAIN pools /\ pools'[t].by = pools[t].by
                \/ au'.pc = "insert" /\ pTerms' = t
    PROVE  AiPoolsShown'
<1> SUFFICES ASSUME faults' = 0, NEW t \in DOMAIN pools', pools'[t].by \in {"live", "prematch"},
                    ~(au'.pc = "insert" /\ pTerms' = t)
             PROVE  Displays(t)' \/ SlugTaken(t)'
    BY DEF AiPoolsShown
<1>1. ASSUME NEW u, Displays(u) PROVE Displays(u)'
    BY <1>1 DEF Displays
<1>2. t \in DOMAIN pools /\ pools[t].by \in {"live", "prematch"}
    OBVIOUS
<1>3. ~(au.pc = "insert" /\ pTerms = t)
    BY DEF pTerms, p
<1>4. Displays(t) \/ SlugTaken(t)
    BY <1>2, <1>3 DEF AiPoolsShown
<1>5. QED BY <1>1, <1>4 DEF SlugTaken

\* The markets of the author survive the steps of the others, which add no
\* pool and no row of the author's.
LEMMA AuthorStays ==
    ASSUME AuthorInv, UNCHANGED au, UNCHANGED fired,
           now' \in Int, now <= now', start' # start => start = Kickoff /\ now < start,
           faults' = 0 => faults = 0,
           DOMAIN pools \subseteq DOMAIN pools',
           \A t \in DOMAIN pools : pools'[t] = pools[t],
           \A t \in DOMAIN pools' \ DOMAIN pools : pools'[t].by \in {"engine", "champion"},
           DOMAIN rows \subseteq DOMAIN rows',
           \A id \in DOMAIN rows : rows'[id] = rows[id],
           \A id \in DOMAIN rows' \ DOMAIN rows :
              /\ \A q \in Proposals : id # AiId(q)
              /\ \/ rows'[id].origin = "catalog"
                 \/ /\ au = Resting /\ rows'[id].origin = "champion"
                    /\ rows'[id].hasPool => pools'[rows'[id].legs[1]].by = "champion"
                    /\ \E team \in Champions : /\ id = <<"champion", team>>
                                               /\ rows'[id].legs = ChampionLegs(team)
    PROVE  InPlayPoolsWellMade' /\ AiRowsWellMade' /\ AuthorHolds' /\ AiPoolsShown'
<1>1. now \in Int /\ start \in Int /\ Kickoff \in Int
    BY StartsAreIntegers DEF AuthorInv
<1>2. AiRows' = AiRows
    BY DEF AiRows
<1>3. ASSUME NEW at \in Int, NEW st \in Int, NEW told \in BOOLEAN, InPlay(at, st, told)
      PROVE  InPlay(at, st, told)'
    BY <1>1, <1>3 DEF InPlay, FullTime, FullTimeAfter
<1>4. InPlayPoolsWellMade'
    <2> SUFFICES ASSUME NEW t \in DOMAIN pools', pools'[t].by = "live"
                 PROVE  /\ InPlay(pools[t].madeAt, pools[t].start, pools[t].told)'
                        /\ \/ pools'[t].lock = pools'[t].madeAt + 6
                           \/ pools'[t].lock <= pools'[t].start + 85
        BY DEF InPlayPoolsWellMade
    <2>1. t \in DOMAIN pools /\ pools'[t] = pools[t]
        OBVIOUS
    <2>2. /\ pools[t].madeAt \in Int /\ pools[t].start \in Int /\ pools[t].told \in BOOLEAN
          /\ InPlay(pools[t].madeAt, pools[t].start, pools[t].told)
          /\ pools[t].lock = pools[t].madeAt + 6 \/ pools[t].lock <= pools[t].start + 85
        BY <2>1 DEF AuthorInv, InPlayPoolsWellMade, PoolsWellMade, PoolRecords
    <2>3. PICK at, st, told : at = pools[t].madeAt /\ st = pools[t].start /\ told = pools[t].told
        OBVIOUS
    <2>4. InPlay(at, st, told)'
        BY <1>3, <2>2, <2>3
    <2>5. QED BY <2>1, <2>2, <2>3, <2>4 DEF InPlay
<1>5. AiRowsWellMade'
    <2>1. \A id \in AiRows : id \in DOMAIN rows /\ rows'[id] = rows[id]
        BY DEF AiRows
    <2>2. \A id \in DOMAIN rows : rows[id].hasPool => rows[id].legs[1] \in DOMAIN pools
        BY DEF AuthorInv, RowTellsItsPool
    <2>3. \A id \in DOMAIN rows' : rows'[id].origin \in {"catalog", "live", "prematch", "champion"}
        BY DEF AuthorInv, AiRowsWellMade
    <2>4. \A id \in AiRows :
             /\ rows'[id].hasPool
             /\ pools'[rows'[id].legs[1]].by = rows'[id].origin
             /\ \E q \in Proposals : id = AiId(q) /\ rows'[id].legs = <<ProposedTerms(q)>>
        BY <2>1, <2>2 DEF AuthorInv, AiRowsWellMade
    <2>5. \A a, b \in AiRows : a # b => rows'[a].legs[1] # rows'[b].legs[1]
        BY <2>1 DEF AuthorInv, AiRowsWellMade
    <2>6. \A q \in Proposals : AiId(q) \in DOMAIN rows' => AiId(q) \in AiRows
        BY DEF AuthorInv, AiRowsWellMade
    <2>7. ASSUME NEW id \in ChampionRows'
          PROVE  /\ rows'[id].hasPool => pools'[rows'[id].legs[1]].by = "champion"
                 /\ \E team \in Champions : /\ id = <<"champion", team>>
                                            /\ rows'[id].legs = ChampionLegs(team)
        <3>1. id \in DOMAIN rows' /\ rows'[id].origin = "champion"
            BY DEF ChampionRows
        <3>2. CASE id \in DOMAIN rows
            <4>1. id \in ChampionRows /\ rows'[id] = rows[id]
                BY <3>1, <3>2 DEF ChampionRows
            <4>2. QED BY <2>2, <3>2, <4>1 DEF AuthorInv, AiRowsWellMade
        <3>3. CASE id \notin DOMAIN rows
            BY <3>1, <3>3
        <3>4. QED BY <3>2, <3>3
    <2>8. IsFiniteSet(AiRows') /\ AiRowsCapped'
        <3>1. IsFiniteSet(AiRows) /\ AiRowsCapped
            BY DEF AuthorInv, AiRowsWellMade
        <3>2. start' >= Kickoff => start >= Kickoff
            BY <1>1
        <3>3. QED BY <1>2, <3>1, <3>2 DEF AiRowsCapped
    <2>9. QED BY <1>2, <2>3, <2>4, <2>5, <2>6, <2>7, <2>8 DEF AiRowsWellMade
<1>6. AuthorHolds'
    <2>1. CASE au = Resting
        <3>1. au' = Resting /\ fired' \subseteq {"kickoff", "ht", "h2", "prematch"}
            BY <2>1 DEF AuthorInv, AuthorHolds
        <3>2. QED BY <3>1, RestingHolds
    <2>2. CASE au # Resting
        <3>1. \A id \in DOMAIN rows' \ DOMAIN rows : rows'[id].origin = "catalog"
            BY <2>2
        <3>2. /\ au.now \in Int /\ au.f.start \in Int /\ au.f.told \in BOOLEAN
              /\ au.pc # "idle" /\ au.kind = "live" => InPlay(au.now, au.f.start, au.f.told)
            <4>1. au.now \in Int /\ au.f \in FixtureRows
                BY DEF AuthorInv, AuthorHolds
            <4>2. StartTimes \subseteq Int
                BY MarketsAssumption
            <4>3. QED BY <4>1, <4>2 DEF AuthorInv, AuthorHolds, FixtureRows
        <3>3. PICK at, st, told : at = au.now /\ st = au.f.start /\ told = au.f.told
            OBVIOUS
        <3>4. au.pc # "idle" /\ au.kind = "live" => InPlay(at, st, told)'
            BY <1>3, <3>2, <3>3
        <3>5. au.pc # "idle" /\ au.kind = "live" => InPlay(au.now, au.f.start, au.f.told)'
            BY <3>3, <3>4 DEF InPlay
        <3>6. au.pc # "idle" =>
                 /\ au.f.start \in {Kickoff, start'}
                 /\ start' >= Kickoff => Cardinality(AiRows') <= au.count
            BY <1>1, <1>2 DEF AuthorInv, AuthorHolds
        <3>7. pTerms' = pTerms /\ (UnderCap' <=> UnderCap)
            BY DEF pTerms, p, UnderCap
        <3>8. au.pc = "insert" =>
                 /\ UnderCap'
                 /\ pTerms \in DOMAIN pools' /\ pools'[pTerms].by = au.kind
                 /\ \A id \in DOMAIN rows' : rows'[id].hasPool /\ rows'[id].legs[1] = pTerms =>
                        rows'[id].origin = "catalog"
            BY <3>1, <3>7 DEF AuthorInv, AuthorHolds
        <3>9. QED BY <3>5, <3>6, <3>7, <3>8 DEF AuthorInv, AuthorHolds
    <2>3. QED BY <2>1, <2>2
<1>7. AiPoolsShown'
    <2>1. \A t \in DOMAIN pools' : pools'[t].by \in {"live", "prematch"} =>
             t \in DOMAIN pools /\ pools'[t].by = pools[t].by
        OBVIOUS
    <2>2. QED BY <2>1, ShownKept DEF AuthorInv
<1>8. QED BY <1>4, <1>5, <1>6, <1>7

\* The steps that only change what the author holds, or count a fault.
LEMMA OnlyAuthor ==
    ASSUME AuthorInv, UNCHANGED worldVars, UNCHANGED dbVars, UNCHANGED pools,
           faults' \in 0..MaxFaults, AuthorHolds', AiPoolsShown'
    PROVE  AuthorInv'
<1>1. UNCHANGED <<now, start, stats, rows, fixture, pools>>
    BY DEF worldVars, dbVars
<1>2. WorldTypeOK' /\ FixtureFollowsFeed'
    <2>1. StatusAt(fixture.lastTs)' = StatusAt(fixture.lastTs)
        BY <1>1 DEF StatusAt
    <2>2. QED BY <1>1, <2>1 DEF AuthorInv, WorldTypeOK, FixtureFollowsFeed, Known
<1>3. PoolsWellMade' /\ RowsWellMade' /\ RowTellsItsPool'
    BY <1>1 DEF AuthorInv, PoolsWellMade, RowsWellMade, RowFits, Row, RowTellsItsPool
<1>4. InPlayPoolsWellMade'
    BY <1>1 DEF AuthorInv, InPlayPoolsWellMade, InPlay, FullTime
<1>5. AiRowsWellMade'
    <2>1. AiRows' = AiRows /\ ChampionRows' = ChampionRows
        BY <1>1 DEF AiRows, ChampionRows
    <2>2. AiRowsCapped'
        BY <1>1, <2>1 DEF AuthorInv, AiRowsWellMade, AiRowsCapped
    <2>3. QED BY <1>1, <2>1, <2>2 DEF AuthorInv, AiRowsWellMade
<1>6. QED BY <1>2, <1>3, <1>4, <1>5 DEF AuthorInv

\* The author's steps that touch no pool and no row.
LEMMA OnlyAuthorNoInsert ==
    ASSUME AuthorInv, UNCHANGED worldVars, UNCHANGED dbVars, UNCHANGED pools,
           faults' \in 0..MaxFaults, faults' = 0 => faults = 0, AuthorHolds',
           au.pc # "insert" \/ UNCHANGED au
    PROVE  AuthorInv'
<1>1. UNCHANGED rows
    BY DEF dbVars
<1>2. AiPoolsShown'
    BY <1>1, ShownKept DEF AuthorInv
<1>3. QED BY <1>2, OnlyAuthor

\* The author goes on to the next proposal, or rests.
LEMMA NextHolds ==
    ASSUME AuthorHolds, au.pc \in {"next", "insert"},
           UNCHANGED <<fired, start, now, fixture>>,
           NEW h, NEW c \in Nat, start >= Kickoff => Cardinality(AiRows') <= c,
           au' = NextProposal([pc |-> au.pc, kind |-> au.kind, now |-> au.now, f |-> au.f,
                               hashes |-> h, count |-> c, todo |-> au.todo])
    PROVE  AuthorHolds'
<1>1. CASE au' = Resting
    BY <1>1, RestingHolds DEF AuthorHolds
<1>2. CASE au' # Resting
    <2> DEFINE a == [pc |-> au.pc, kind |-> au.kind, now |-> au.now, f |-> au.f,
                     hashes |-> h, count |-> c, todo |-> au.todo]
               rest == Tail(a.todo)
    <2>1. a.todo \in Seq(Proposals) /\ a.todo # <<>> /\ au' = NextProposal(a)
        BY DEF AuthorHolds
    <2> HIDE DEF a
    <2>2. /\ au' = [a EXCEPT !.pc = "next", !.todo = rest]
          /\ rest \in Seq(Proposals) /\ rest # <<>>
        BY <1>2, <2>1, NextProposalMoves
    <2> HIDE DEF rest
    <2>3. au' = [pc |-> "next", kind |-> au.kind, now |-> au.now, f |-> au.f,
                 hashes |-> h, count |-> c, todo |-> rest]
        BY <2>2 DEF a
    <2>4. /\ au'.pc = "next" /\ au'.kind = au.kind /\ au'.now = au.now /\ au'.f = au.f
          /\ au'.hashes = h /\ au'.count = c /\ au'.todo = rest
        BY <2>3
    <2>5. au' = [pc |-> au'.pc, kind |-> au'.kind, now |-> au'.now, f |-> au'.f,
                 hashes |-> au'.hashes, count |-> au'.count, todo |-> au'.todo]
        BY <2>3, <2>4
    <2>6. /\ au.kind \in {"live", "prematch"} /\ au.now \in Int /\ au.f \in FixtureRows
          /\ fired \subseteq {"kickoff", "ht", "h2", "prematch"}
          /\ au.f.start \in {Kickoff, start}
          /\ au.kind = "live" => InPlay(au.now, au.f.start, au.f.told)
        BY DEF AuthorHolds
    <2>7. au'.kind = "live" => InPlay(au.now, au.f.start, au.f.told)'
        BY <2>4, <2>6 DEF InPlay, FullTime
    <2>8. QED BY <2>2, <2>4, <2>5, <2>6, <2>7 DEF AuthorHolds
<1>3. QED BY <1>1, <1>2

\* The author asks about the fixture's row as it is.
LEMMA AskHolds ==
    ASSUME AuthorInv, Known, UNCHANGED marketVars, NEW kind \in {"live", "prematch"},
           NEW f \in FixtureRows, f.start = fixture.start, NEW at \in Int, NEW n \in Nat,
           au' = [pc |-> "asked", kind |-> kind, now |-> at, f |-> f, hashes |-> Hashes,
                  count |-> n, todo |-> <<>>],
           kind = "live" => InPlay(at, f.start, f.told),
           start >= Kickoff => Cardinality(AiRows) <= n,
           fired' \subseteq {"kickoff", "ht", "h2", "prematch"}
    PROVE  AuthorHolds'
<1>1. UNCHANGED <<now, start, rows, fixture, pools>>
    BY DEF marketVars, worldVars, dbVars
<1>2. /\ au'.pc = "asked" /\ au'.kind = kind /\ au'.now = at /\ au'.f = f
      /\ au'.hashes = Hashes /\ au'.count = n /\ au'.todo = <<>>
    OBVIOUS
<1>3. au' = [pc |-> au'.pc, kind |-> au'.kind, now |-> au'.now, f |-> au'.f,
             hashes |-> au'.hashes, count |-> au'.count, todo |-> au'.todo]
    BY <1>2
<1>4. f.start \in {Kickoff, start} /\ <<>> \in Seq(Proposals)
    BY DEF AuthorInv, FixtureFollowsFeed
<1>5. AiRows' = AiRows
    BY <1>1 DEF AiRows
<1>6. kind = "live" => InPlay(au.now, au.f.start, au.f.told)'
    BY <1>1, <1>2 DEF InPlay, FullTime
<1>7. QED BY <1>1, <1>2, <1>3, <1>4, <1>5, <1>6 DEF AuthorHolds

\* The champion rows attached to the match are two at most.
LEMMA ChampionRowsFinite == AiRowsWellMade => IsFiniteSet(ChampionRows)
<1> SUFFICES ASSUME AiRowsWellMade PROVE IsFiniteSet(ChampionRows)
    OBVIOUS
<1>1. \A id \in ChampionRows : \E team \in 1..2 : id = <<"champion", team>>
    BY AuthorAssumption DEF AiRowsWellMade
<1>2. ChampionRows \subseteq {<<"champion", 1>>, <<"champion", 2>>}
    BY <1>1
<1>3. IsFiniteSet({<<"champion", 1>>, <<"champion", 2>>})
    <2>1. IsFiniteSet({<<"champion", 1>>}) /\ IsFiniteSet({<<"champion", 2>>})
        BY FS_Singleton
    <2>2. {<<"champion", 1>>, <<"champion", 2>>} = {<<"champion", 1>>} \cup {<<"champion", 2>>}
        OBVIOUS
    <2>3. QED BY <2>1, <2>2, FS_Union
<1>4. QED BY <1>2, <1>3, FS_Subset

LEMMA AskLiveInv == AuthorInv /\ AskLive => AuthorInv'
<1> SUFFICES ASSUME AuthorInv, AskLive PROVE AuthorInv'
    OBVIOUS
<1> DEFINE asked == [fixture EXCEPT !.minute = clock(fixture), !.lastTs = 0]
           n == Cardinality(AiRows \cup ChampionRows)
<1>1. /\ Known /\ UNCHANGED marketVars /\ fired' = fired \cup {phaseFor(fixture)}
      /\ fixture.status \in 2..4 /\ now - fixture.lastTs < 10 /\ now < fixture.start + 150
      /\ phaseFor(fixture) # "none" /\ au = Resting /\ au' = Asking("live", asked)
    BY DEF AskLive, Live
<1>2. /\ now \in Int /\ start \in Int /\ fixture \in FixtureRows /\ fixture.lastTs \in Int
      /\ fixture.told \in BOOLEAN
    BY StartsAreIntegers DEF AuthorInv, FixtureFollowsFeed, FixtureRows
<1>3. InPlay(now, fixture.start, fixture.told)
    <2>1. start <= now
        BY <1>1 DEF AuthorInv, FixtureFollowsFeed
    <2>2. ASSUME fixture.told PROVE now < FullTime + 9
        <3>1. /\ fixture.lastTs <= now /\ StatusAt(fixture.lastTs) \in 2..4
            BY <1>1, <2>2 DEF AuthorInv, FixtureFollowsFeed
        <3>2. fixture.lastTs < start + FullTimeAfter
            BY <1>2, <3>1, StatusType
        <3>3. QED BY <1>1, <1>2, <3>2 DEF FullTime, FullTimeAfter
    <2>3. QED BY <1>1, <1>2, <2>1, <2>2 DEF InPlay
<1>4. phaseFor(fixture) \in {"kickoff", "ht", "h2"}
    BY <1>1 DEF phaseFor
<1>5. fired' \subseteq {"kickoff", "ht", "h2", "prematch"}
    BY <1>1, <1>4 DEF AuthorInv, AuthorHolds
<1>6. n \in Nat /\ Cardinality(AiRows) <= n
    <2>1. IsFiniteSet(AiRows) /\ IsFiniteSet(ChampionRows)
        BY ChampionRowsFinite DEF AuthorInv, AiRowsWellMade
    <2>2. IsFiniteSet(AiRows \cup ChampionRows)
        BY <2>1, FS_Union
    <2>3. AiRows \subseteq AiRows \cup ChampionRows
        OBVIOUS
    <2>4. QED BY <2>2, <2>3, FS_Subset, FS_CardinalityType
<1>7. au' = [pc |-> "asked", kind |-> "live", now |-> now, f |-> asked, hashes |-> Hashes,
             count |-> n, todo |-> <<>>]
    BY <1>1 DEF Asking, Resting
<1>8. asked \in FixtureRows /\ asked.start = fixture.start /\ asked.told = fixture.told
    <2>1. clock(fixture) \in Int
        BY <1>2, <1>4 DEF clock, FixtureRows
    <2>2. PICK minute \in Int : minute = clock(fixture)
        BY <2>1
    <2>3. asked = [fixture EXCEPT !.minute = minute, !.lastTs = 0]
        BY <2>2
    <2> HIDE DEF asked
    <2>4. asked = [start |-> fixture.start, status |-> fixture.status, minute |-> minute,
                   stats |-> fixture.stats, lastTs |-> 0, told |-> fixture.told]
        BY <1>2, <2>3 DEF FixtureRows
    <2>5. asked.start = fixture.start /\ asked.told = fixture.told
        BY <2>4
    <2>6. /\ fixture.start \in StartTimes \cup {0} /\ fixture.status \in 0..5
          /\ fixture.stats \in [StatKeys -> 0..MaxCount] \cup {Unknown}
          /\ fixture.told \in BOOLEAN
        BY <1>2 DEF FixtureRows
    <2>7. asked \in FixtureRows
        BY <2>4, <2>6 DEF FixtureRows
    <2>8. QED BY <2>5, <2>7
<1>9. AuthorHolds'
    <2>1. PICK f, at, m : f = asked /\ at = now /\ m = n
        OBVIOUS
    <2> HIDE DEF asked, n
    <2>2. /\ f \in FixtureRows /\ f.start = fixture.start /\ at \in Int /\ m \in Nat
          /\ au' = [pc |-> "asked", kind |-> "live", now |-> at, f |-> f, hashes |-> Hashes,
                    count |-> m, todo |-> <<>>]
          /\ Cardinality(AiRows) <= m
        BY <1>2, <1>6, <1>7, <1>8, <2>1
    <2>3. InPlay(at, f.start, f.told)
        BY <1>3, <1>8, <2>1
    <2>4. QED BY <1>1, <1>5, <2>2, <2>3, AskHolds
<1>10. /\ UNCHANGED worldVars /\ UNCHANGED dbVars /\ UNCHANGED pools
       /\ faults' \in 0..MaxFaults /\ UNCHANGED faults /\ au.pc # "insert"
    BY <1>1 DEF marketVars, AuthorInv, WorldTypeOK, Resting
<1>11. QED BY <1>9, <1>10, OnlyAuthorNoInsert

LEMMA AskPrematchInv == AuthorInv /\ AskPrematch => AuthorInv'
<1> SUFFICES ASSUME AuthorInv, AskPrematch PROVE AuthorInv'
    OBVIOUS
<1>1. /\ Known /\ UNCHANGED marketVars /\ fired' = fired \cup {"prematch"}
      /\ fixture.start > now + 30 /\ au = Resting
    BY DEF AskPrematch, Upcoming
<1>2. fired' \subseteq {"kickoff", "ht", "h2", "prematch"}
    BY <1>1 DEF AuthorInv, AuthorHolds
<1>3. /\ fixture \in FixtureRows /\ fixture.start \in StartTimes \cup {0}
      /\ fixture.start \in {Kickoff, start}
      /\ now \in Int /\ start \in Int /\ Kickoff \in Int
    BY <1>1, StartsAreIntegers DEF AuthorInv, FixtureFollowsFeed, FixtureRows
<1>4. AuthorHolds'
    <2>1. CASE au' = Resting
        BY <1>2, <2>1, RestingHolds
    <2>2. CASE au' # Resting
        <3>1. \A id \in AiRows \cup ChampionRows : rows[id].origin = "live"
            BY <2>2 DEF AskPrematch
        <3>2. ASSUME start >= Kickoff, NEW id \in AiRows PROVE FALSE
            <4> DEFINE t == rows[id].legs[1]
            <4>1. id \in DOMAIN rows /\ rows[id].hasPool /\ pools[t].by = "live"
                BY <3>1, <3>2 DEF AuthorInv, AiRowsWellMade, AiRows
            <4>2. t \in DOMAIN pools
                BY <4>1 DEF AuthorInv, RowTellsItsPool
            <4>3. start <= pools[t].madeAt /\ pools[t].madeAt <= now /\ pools[t].madeAt \in Int
                BY <4>1, <4>2
                   DEF AuthorInv, InPlayPoolsWellMade, InPlay, PoolsWellMade, PoolRecords
            <4> HIDE DEF t
            <4>4. fixture.start <= start
                BY <1>3, <3>2
            <4>5. fixture.start \in Int
                BY <1>3
            <4>6. QED BY <1>1, <1>3, <4>3, <4>4, <4>5
        <3>3. start >= Kickoff => Cardinality(AiRows) <= 0
            <4>1. start >= Kickoff => AiRows = {}
                BY <3>2
            <4>2. Cardinality({}) = 0
                BY FS_EmptySet
            <4>3. QED BY <4>1, <4>2
        <3> DEFINE none == NoFixture
        <3>5. PICK f : f = [none EXCEPT !.start = fixture.start]
            OBVIOUS
        <3>6. au' = [pc |-> "asked", kind |-> "prematch", now |-> 0, f |-> f, hashes |-> Hashes,
                     count |-> 0, todo |-> <<>>]
            <4>1. au' = Asking("prematch", f)
                BY <2>2, <3>5 DEF AskPrematch
            <4>2. "prematch" # "live"
                OBVIOUS
            <4>3. Asking("prematch", f) =
                     [Resting EXCEPT !.pc = "asked", !.kind = "prematch", !.f = f,
                                     !.hashes = Hashes, !.now = 0, !.count = 0]
                BY <4>2, Zenon DEF Asking
            <4>4. QED BY <4>1, <4>3 DEF Resting
        <3>7. f \in FixtureRows /\ f.start = fixture.start
            <4>1. none \in FixtureRows
                BY NoFixtureIsRow
            <4> HIDE DEF none
            <4>2. QED BY <1>3, <3>5, <4>1 DEF FixtureRows
        <3>8. PICK zero \in Nat : zero = 0
            OBVIOUS
        <3>9. /\ au' = [pc |-> "asked", kind |-> "prematch", now |-> zero, f |-> f,
                        hashes |-> Hashes, count |-> zero, todo |-> <<>>]
              /\ start >= Kickoff => Cardinality(AiRows) <= zero
              /\ zero \in Int
            BY <3>3, <3>6, <3>8
        <3>10. QED BY <1>1, <1>2, <3>7, <3>8, <3>9, AskHolds
    <2>3. QED BY <2>1, <2>2
<1>5. /\ UNCHANGED worldVars /\ UNCHANGED dbVars /\ UNCHANGED pools
      /\ faults' \in 0..MaxFaults /\ UNCHANGED faults /\ au.pc # "insert"
    BY <1>1 DEF marketVars, AuthorInv, WorldTypeOK, Resting
<1>6. QED BY <1>4, <1>5, OnlyAuthorNoInsert

LEMMA AnswerInv == AuthorInv /\ (\E list \in Answers : Answer(list)) => AuthorInv'
<1> SUFFICES ASSUME AuthorInv, NEW list \in Answers, Answer(list) PROVE AuthorInv'
    OBVIOUS
<1>1. /\ au.pc = "asked" /\ UNCHANGED marketVars /\ fired' = fired
      /\ au' = IF list = <<>> THEN Resting ELSE [au EXCEPT !.pc = "next", !.todo = list]
    BY DEF Answer
<1>2. list \in Seq(Proposals)
    <2>1. PICK n \in 0..MaxAnswer : list \in [1..n -> Proposals]
        BY DEF Answers
    <2>2. n \in Nat
        BY AuthorAssumption
    <2>3. QED BY <2>1, <2>2
<1>3. UNCHANGED <<now, start, rows, fixture, pools>> /\ faults' = faults
    BY <1>1 DEF marketVars, worldVars, dbVars
<1>4. AuthorHolds'
    <2>1. CASE list = <<>>
        BY <1>1, <2>1, RestingHolds DEF AuthorInv, AuthorHolds
    <2>2. CASE list # <<>>
        <3>1. au' = [pc |-> "next", kind |-> au.kind, now |-> au.now, f |-> au.f,
                     hashes |-> au.hashes, count |-> au.count, todo |-> list]
            BY <1>1, <2>2 DEF AuthorInv, AuthorHolds
        <3>2. /\ au'.pc = "next" /\ au'.kind = au.kind /\ au'.now = au.now /\ au'.f = au.f
              /\ au'.hashes = au.hashes /\ au'.count = au.count /\ au'.todo = list
            BY <3>1
        <3>3. au' = [pc |-> au'.pc, kind |-> au'.kind, now |-> au'.now, f |-> au'.f,
                     hashes |-> au'.hashes, count |-> au'.count, todo |-> au'.todo]
            BY <3>1, <3>2
        <3>4. AiRows' = AiRows
            BY <1>3 DEF AiRows
        <3>5. /\ au.kind \in {"live", "prematch"} /\ au.now \in Int /\ au.f \in FixtureRows
              /\ au.count \in Nat /\ fired \subseteq {"kickoff", "ht", "h2", "prematch"}
              /\ au.f.start \in {Kickoff, start}
              /\ au.kind = "live" => InPlay(au.now, au.f.start, au.f.told)
              /\ start >= Kickoff => Cardinality(AiRows) <= au.count
            BY <1>1 DEF AuthorInv, AuthorHolds
        <3>6. au'.kind = "live" => InPlay(au.now, au.f.start, au.f.told)'
            BY <1>3, <3>2, <3>5 DEF InPlay, FullTime
        <3>7. QED BY <1>1, <1>2, <1>3, <2>2, <3>2, <3>3, <3>4, <3>5, <3>6 DEF AuthorHolds
    <2>3. QED BY <2>1, <2>2
<1>5. /\ UNCHANGED worldVars /\ UNCHANGED dbVars /\ UNCHANGED pools
      /\ faults' \in 0..MaxFaults /\ UNCHANGED faults /\ au.pc # "insert"
    BY <1>1 DEF marketVars, AuthorInv, WorldTypeOK
<1>6. QED BY <1>4, <1>5, OnlyAuthorNoInsert

\* A proposal is dropped, its pool made or not.
LEMMA DropHolds ==
    ASSUME AuthorHolds, au.pc = "next", UNCHANGED <<fired, start, now, fixture, rows>>,
           au' = NextProposal(au)
    PROVE  AuthorHolds'
<1>1. AiRows' = AiRows
    BY DEF AiRows
<1> DEFINE h == au.hashes
           c == au.count
<1>2. /\ c \in Nat /\ (start >= Kickoff => Cardinality(AiRows') <= c)
      /\ au = [pc |-> au.pc, kind |-> au.kind, now |-> au.now, f |-> au.f,
               hashes |-> h, count |-> c, todo |-> au.todo]
    BY <1>1 DEF AuthorHolds
<1> HIDE DEF h, c
<1>3. au' = NextProposal([pc |-> au.pc, kind |-> au.kind, now |-> au.now, f |-> au.f,
                          hashes |-> h, count |-> c, todo |-> au.todo])
    BY <1>2
<1>4. QED BY <1>2, <1>3, NextHolds

\* The pool of the proposal at hand is well made, and no row is on it yet.
LEMMA AiPoolMade ==
    ASSUME AuthorInv, au.pc = "next", pTerms \notin DOMAIN pools, AiPool,
           UNCHANGED <<now, start, rows, fixture>>
    PROVE  /\ PoolsWellMade' /\ RowTellsItsPool' /\ InPlayPoolsWellMade' /\ AiRowsWellMade'
           /\ pTerms \in DOMAIN pools' /\ pools'[pTerms].by = au.kind
           /\ \A u \in DOMAIN pools' \ {pTerms} : u \in DOMAIN pools /\ pools'[u] = pools[u]
           /\ \A id \in DOMAIN rows : rows[id].hasPool => rows[id].legs[1] # pTerms
<1>1. /\ now \in Int /\ start \in Int /\ Kickoff \in Int
      /\ au.kind \in {"live", "prematch"} /\ au.now \in Int /\ au.f \in FixtureRows
      /\ au.f.start \in {Kickoff, start} /\ au.f.told \in BOOLEAN
      /\ au.kind = "live" => InPlay(au.now, au.f.start, au.f.told)
    BY StartsAreIntegers DEF AuthorInv, AuthorHolds, FixtureRows
<1> DEFINE st == au.f.start
           at == au.now
           kind == au.kind
           told == au.f.told
           lock == lockTs
<1>2. st \in Int /\ at \in Int /\ told \in BOOLEAN /\ kind \in {"live", "prematch"} /\ st \in {Kickoff, start}
    BY <1>1
<1>3. /\ lock \in Int
      /\ kind # "live" => lock = st - LockLead
      /\ kind = "live" => lock = at + 6 \/ lock <= st + 85
    <2>1. CASE kind = "prematch"
        BY <1>2, <2>1 DEF lockTs, LockLead
    <2>2. CASE kind = "live"
        <3>1. lock = LET late == IF at + 25 < st + 85 THEN at + 25 ELSE st + 85
                     IN IF at + 6 > late THEN at + 6 ELSE late
            BY <2>2 DEF lockTs
        <3> HIDE DEF lock, st, at
        <3>2. QED BY <1>2, <2>2, <3>1
    <2>3. QED BY <1>2, <2>1, <2>2
<1> DEFINE new == Pool(lock, st, kind, at, told)
           t == pTerms
<1>4. pools' = Put(pools, t, new) /\ t \notin DOMAIN pools
    BY DEF AiPool
<1>5. kind = "live" => InPlay(at, st, told)
    BY <1>1
<1> HIDE DEF lock, st, at, kind, told
<1>6. /\ new \in PoolRecords /\ new.start = st /\ new.lock = lock /\ new.by = kind
      /\ new.madeAt = at /\ new.told = told
    BY <1>2, <1>3, PoolIsRecord
<1> HIDE DEF new, t
<1>7. /\ PoolsWellMade' /\ DOMAIN pools' = DOMAIN pools \cup {t} /\ pools'[t] = new
      /\ \A u \in DOMAIN pools : pools'[u] = pools[u]
    BY <1>2, <1>3, <1>4, <1>6, NewPool DEF AuthorInv
<1>8. RowTellsItsPool'
    BY <1>7, MorePools DEF AuthorInv
<1>9. InPlayPoolsWellMade'
    <2> SUFFICES ASSUME NEW u \in DOMAIN pools', pools'[u].by = "live"
                 PROVE  /\ InPlay(pools'[u].madeAt, pools'[u].start, pools'[u].told)
                        /\ \/ pools'[u].lock = pools'[u].madeAt + 6
                           \/ pools'[u].lock <= pools'[u].start + 85
        BY DEF InPlayPoolsWellMade, InPlay, FullTime
    <2>1. CASE u = t
        BY <1>3, <1>5, <1>6, <1>7, <2>1
    <2>2. CASE u # t
        BY <1>7, <2>2 DEF AuthorInv, InPlayPoolsWellMade
    <2>3. QED BY <2>1, <2>2
<1>10. \A id \in DOMAIN rows : rows[id].hasPool =>
          /\ rows[id].legs[1] \in DOMAIN pools
          /\ pools'[rows[id].legs[1]] = pools[rows[id].legs[1]]
    BY <1>7 DEF AuthorInv, RowTellsItsPool
<1>11. AiRowsWellMade'
    <2>1. AiRows' = AiRows /\ ChampionRows' = ChampionRows
        BY DEF AiRows, ChampionRows
    <2>2. \A id \in AiRows \cup ChampionRows : id \in DOMAIN rows
        BY DEF AiRows, ChampionRows
    <2>3. AiRowsCapped'
        BY <2>1 DEF AuthorInv, AiRowsWellMade, AiRowsCapped
    <2>4. \A id \in AiRows : /\ rows[id].hasPool
                             /\ pools'[rows[id].legs[1]].by = rows[id].origin
        BY <1>10, <2>2 DEF AuthorInv, AiRowsWellMade
    <2>5. \A id \in ChampionRows : rows[id].hasPool => pools'[rows[id].legs[1]].by = "champion"
        BY <1>10, <2>2 DEF AuthorInv, AiRowsWellMade
    <2>6. QED BY <2>1, <2>3, <2>4, <2>5 DEF AuthorInv, AiRowsWellMade
<1>12. QED BY <1>4, <1>6, <1>7, <1>8, <1>9, <1>10, <1>11 DEF t, kind

LEMMA CreateAiInv == AuthorInv /\ (CreateAi \/ CreateAiFails) => AuthorInv'
<1> SUFFICES ASSUME AuthorInv, CreateAi \/ CreateAiFails PROVE AuthorInv'
    OBVIOUS
<1>1. /\ au.pc = "next" /\ Accepted /\ pTerms \notin DOMAIN pools /\ fired' = fired
      /\ UNCHANGED worldVars /\ UNCHANGED dbVars /\ faults' \in 0..MaxFaults
      /\ AiPool \/ UNCHANGED pools
      /\ faults' = 0 => CreateAi /\ faults = 0
    <2>1. faults \in 0..MaxFaults /\ MaxFaults \in Nat
        BY MarketsAssumption DEF AuthorInv, WorldTypeOK
    <2>2. faults < MaxFaults => faults + 1 \in 0..MaxFaults /\ faults + 1 # 0
        BY <2>1
    <2>3. QED BY <2>1, <2>2 DEF CreateAi, CreateAiFails
<1>2. UNCHANGED <<now, start, stats, rows, fixture>>
    BY <1>1 DEF worldVars, dbVars
<1>3. CASE CreateAiFails
    <2>1. AuthorHolds' /\ AiPoolsShown'
        <3>1. faults' # 0
            <4>1. faults \in 0..MaxFaults /\ faults' = faults + 1
                BY <1>3 DEF CreateAiFails, AuthorInv, WorldTypeOK
            <4>2. MaxFaults \in Nat
                BY MarketsAssumption
            <4>3. QED BY <4>1, <4>2
        <3>2. AuthorHolds'
            BY <1>1, <1>2, <1>3, DropHolds DEF CreateAiFails, AuthorInv
        <3>3. QED BY <3>1, <3>2 DEF AiPoolsShown
    <2>2. CASE UNCHANGED pools
        BY <1>1, <2>1, <2>2, OnlyAuthor
    <2>3. CASE AiPool
        <3>1. PoolsWellMade' /\ RowTellsItsPool' /\ InPlayPoolsWellMade' /\ AiRowsWellMade'
            BY <1>1, <1>2, <2>3, AiPoolMade
        <3>2. WorldTypeOK' /\ FixtureFollowsFeed' /\ RowsWellMade'
            <4>1. StatusAt(fixture.lastTs)' = StatusAt(fixture.lastTs)
                BY <1>2 DEF StatusAt
            <4>2. QED BY <1>1, <1>2, <4>1
                      DEF AuthorInv, WorldTypeOK, FixtureFollowsFeed, Known, RowsWellMade,
                          RowFits, Row
        <3>3. QED BY <2>1, <3>1, <3>2 DEF AuthorInv
    <2>4. QED BY <1>1, <2>2, <2>3
<1>4. CASE CreateAi
    <2>1. AiPool /\ au' = [au EXCEPT !.pc = "insert"]
        BY <1>4 DEF CreateAi
    <2>2. /\ PoolsWellMade' /\ RowTellsItsPool' /\ InPlayPoolsWellMade' /\ AiRowsWellMade'
          /\ pTerms \in DOMAIN pools' /\ pools'[pTerms].by = au.kind
          /\ \A u \in DOMAIN pools' \ {pTerms} : u \in DOMAIN pools /\ pools'[u] = pools[u]
          /\ \A id \in DOMAIN rows : rows[id].hasPool => rows[id].legs[1] # pTerms
        BY <1>1, <1>2, <2>1, AiPoolMade
    <2>3. WorldTypeOK' /\ FixtureFollowsFeed' /\ RowsWellMade'
        <3>1. StatusAt(fixture.lastTs)' = StatusAt(fixture.lastTs)
            BY <1>2 DEF StatusAt
        <3>2. QED BY <1>1, <1>2, <3>1
                  DEF AuthorInv, WorldTypeOK, FixtureFollowsFeed, Known, RowsWellMade,
                      RowFits, Row
    <2>4. AuthorHolds'
        <3>1. au' = [pc |-> "insert", kind |-> au.kind, now |-> au.now, f |-> au.f,
                     hashes |-> au.hashes, count |-> au.count, todo |-> au.todo]
            BY <2>1 DEF AuthorInv, AuthorHolds
        <3>2. /\ au'.pc = "insert" /\ au'.kind = au.kind /\ au'.now = au.now /\ au'.f = au.f
              /\ au'.hashes = au.hashes /\ au'.count = au.count /\ au'.todo = au.todo
            BY <3>1
        <3>3. au' = [pc |-> au'.pc, kind |-> au'.kind, now |-> au'.now, f |-> au'.f,
                     hashes |-> au'.hashes, count |-> au'.count, todo |-> au'.todo]
            BY <3>1, <3>2
        <3>4. AiRows' = AiRows
            BY <1>2 DEF AiRows
        <3>5. pTerms' = pTerms /\ UnderCap'
            BY <1>1, <3>2 DEF pTerms, p, UnderCap, Accepted
        <3>6. /\ au.kind \in {"live", "prematch"} /\ au.now \in Int /\ au.f \in FixtureRows
              /\ au.count \in Nat /\ fired \subseteq {"kickoff", "ht", "h2", "prematch"}
              /\ au.todo \in Seq(Proposals) /\ au.todo # <<>>
              /\ au.f.start \in {Kickoff, start}
              /\ au.kind = "live" => InPlay(au.now, au.f.start, au.f.told)
              /\ start >= Kickoff => Cardinality(AiRows) <= au.count
            BY <1>1 DEF AuthorInv, AuthorHolds
        <3>7. au'.kind = "live" => InPlay(au.now, au.f.start, au.f.told)'
            BY <1>2, <3>2, <3>6 DEF InPlay, FullTime
        <3>8. QED BY <1>1, <1>2, <2>2, <3>2, <3>3, <3>4, <3>5, <3>6, <3>7 DEF AuthorHolds
    <2>5. AiPoolsShown'
        <3>1. au'.pc = "insert" /\ pTerms' = pTerms
            BY <1>1, <2>1 DEF pTerms, p, AuthorInv, AuthorHolds
        <3>2. \A u \in DOMAIN pools' :
                 \/ u \in DOMAIN pools /\ pools'[u].by = pools[u].by
                 \/ au'.pc = "insert" /\ pTerms' = u
            BY <2>2, <3>1
        <3>3. au.pc # "insert" /\ UNCHANGED rows /\ (faults' = 0 => faults = 0)
            BY <1>1, <1>2
        <3>4. QED BY <3>2, <3>3, ShownKept DEF AuthorInv
    <2>6. QED BY <2>2, <2>3, <2>4, <2>5 DEF AuthorInv
<1>5. QED BY <1>3, <1>4

\* The row of the pool just made; the author goes on to the next proposal.
LEMMA InsertAiInv == AuthorInv /\ InsertAi => AuthorInv'
<1> SUFFICES ASSUME AuthorInv, InsertAi PROVE AuthorInv'
    OBVIOUS
<1> DEFINE id == AiId(p)
           t == pTerms
           new == Row(<<t>>, TRUE, lockTs, "Active", au.kind)
           h == au.hashes \cup {pTerms}
           c == au.count + 1
           Cap == IF LiveCap > PrematchCap THEN LiveCap ELSE PrematchCap
<1>1. /\ au.pc = "insert" /\ UNCHANGED <<worldVars, pools, fixture, faults, fired>>
      /\ rows' = PutNew(rows, id, new)
      /\ au' = NextProposal([au EXCEPT !.hashes = h, !.count = c])
    BY DEF InsertAi
<1>2. UNCHANGED <<now, start, stats, pools, fixture, faults, fired>>
    BY <1>1 DEF worldVars
<1>3. /\ au.count \in Nat /\ UnderCap /\ (start >= Kickoff => Cardinality(AiRows) <= au.count)
      /\ au.kind \in {"live", "prematch"} /\ t \in DOMAIN pools /\ pools[t].by = au.kind
      /\ \A x \in AiRows : rows[x].legs[1] # t
      /\ p \in Proposals /\ t = ProposedTerms(p)
    <2>1. au.todo \in Seq(Proposals) /\ au.todo # <<>>
        BY <1>1 DEF AuthorInv, AuthorHolds
    <2>2. p \in Proposals /\ t = ProposedTerms(p)
        BY <2>1 DEF p, pTerms
    <2>3. \A x \in AiRows : x \in DOMAIN rows /\ rows[x].hasPool /\ rows[x].origin # "catalog"
        BY DEF AuthorInv, AiRowsWellMade, AiRows
    <2>4. QED BY <1>1, <2>2, <2>3 DEF AuthorInv, AuthorHolds
<1>4. c \in Nat /\ c <= Cap /\ LiveCap \in Nat /\ PrematchCap \in Nat
    BY <1>3, AuthorAssumption DEF UnderCap
<1>5. /\ new.legs = <<t>> /\ new.legs[1] = t /\ new.hasPool /\ new.state = "Active"
      /\ new.origin = au.kind
    BY DEF Row
<1>6. RowFits(id, new)
    <2>1. /\ new.hasPool = TRUE /\ new.state = "Active"
          /\ new.origin = au.kind /\ new.legs = <<t>> /\ new.lock = lockTs
        BY DEF Row
    <2>2. new = Row(new.legs, new.hasPool, new.lock, new.state, new.origin)
        BY <2>1
    <2> HIDE DEF new
    <2>3. QED BY <1>3, <2>1, <2>2 DEF RowFits
<1>10. id = AiId(p)
    OBVIOUS
<1>11. au.pc = "insert" => (pTerms = t)
    OBVIOUS
<1> HIDE DEF new, id, t
<1>7. CASE id \in DOMAIN rows
    <2>1. UNCHANGED rows
        BY <1>1, <1>7 DEF PutNew
    <2>2. AiRows' = AiRows
        BY <2>1 DEF AiRows
    <2>3. UNCHANGED dbVars /\ UNCHANGED worldVars /\ faults' \in 0..MaxFaults
        BY <1>1, <1>2, <2>1 DEF dbVars, AuthorInv, WorldTypeOK
    <2>4. start >= Kickoff => Cardinality(AiRows') <= c
        BY <1>3, <2>2, FS_CardinalityType DEF AuthorInv, AiRowsWellMade
    <2> HIDE DEF h, c
    <2>5. au' = NextProposal([pc |-> au.pc, kind |-> au.kind, now |-> au.now, f |-> au.f,
                              hashes |-> h, count |-> c, todo |-> au.todo])
        <3>1. PICK a : a = [au EXCEPT !.hashes = h, !.count = c]
            OBVIOUS
        <3>2. a = [pc |-> au.pc, kind |-> au.kind, now |-> au.now, f |-> au.f,
                   hashes |-> h, count |-> c, todo |-> au.todo]
            BY <3>1 DEF AuthorInv, AuthorHolds
        <3>3. QED BY <1>1, <3>1, <3>2
    <2>6. AuthorHolds'
        BY <1>1, <1>2, <1>4, <2>4, <2>5, NextHolds DEF AuthorInv
    <2>7. SlugTaken(t) \/ Displays(t)
        <3>1. id \in AiRows
            BY <1>3, <1>7, <1>10 DEF AuthorInv, AiRowsWellMade
        <3>2. PICK q \in Proposals : id = AiId(q) /\ rows[id].legs = <<ProposedTerms(q)>>
            BY <3>1 DEF AuthorInv, AiRowsWellMade
        <3>3. q.slug = p.slug
            BY <1>10, <3>2 DEF AiId
        <3>4. Displays(ProposedTerms(q))
            BY <3>1, <3>2 DEF Displays, AuthorInv, AiRowsWellMade, AiRows
        <3>5. QED BY <1>3, <3>3, <3>4 DEF SlugTaken
    <2>8. AiPoolsShown'
        <3> SUFFICES ASSUME faults' = 0, NEW u \in DOMAIN pools', pools'[u].by \in {"live", "prematch"}
                     PROVE  Displays(u)' \/ SlugTaken(u)'
            BY DEF AiPoolsShown
        <3>1. Displays(u) \/ SlugTaken(u)
            <4>1. faults = 0 /\ u \in DOMAIN pools /\ pools[u].by \in {"live", "prematch"}
                BY <1>2
            <4>2. CASE u = t
                BY <2>7, <4>2
            <4>3. CASE u # t
                BY <1>11, <4>1, <4>3, <1>1 DEF AuthorInv, AiPoolsShown
            <4>4. QED BY <4>2, <4>3
        <3>2. QED BY <2>1, <3>1 DEF Displays, SlugTaken
    <2>9. QED BY <1>1, <1>2, <2>3, <2>6, <2>8, OnlyAuthor
<1>8. CASE id \notin DOMAIN rows
    <2>1. rows' = Put(rows, id, new)
        BY <1>1, <1>8 DEF PutNew
    <2>2. /\ RowsWellMade' /\ RowTellsItsPool'
          /\ DOMAIN rows' = DOMAIN rows \cup {id} /\ rows'[id] = new
          /\ \A x \in DOMAIN rows \ {id} : rows'[x] = rows[x]
        BY <1>2, <1>3, <1>5, <1>6, <2>1, NewRow DEF AuthorInv
    <2>3. AiRows' = AiRows \cup {id} /\ id \notin AiRows
        BY <1>3, <1>5, <1>8, <2>2 DEF AiRows
    <2>4. IsFiniteSet(AiRows) /\ Cardinality(AiRows) \in Nat
        BY FS_CardinalityType DEF AuthorInv, AiRowsWellMade
    <2>5. IsFiniteSet(AiRows') /\ Cardinality(AiRows') = Cardinality(AiRows) + 1
        BY <2>3, <2>4, FS_AddElement
    <2>6. start >= Kickoff => Cardinality(AiRows') <= c /\ Cardinality(AiRows') <= Cap
        BY <1>3, <1>4, <2>4, <2>5
    <2>7. AiRowsWellMade'
        <3>1. \A x \in AiRows : rows'[x] = rows[x] /\ x \in DOMAIN rows
            BY <2>2, <2>3 DEF AiRows
        <3>2. \A x \in DOMAIN rows' : rows'[x].origin \in {"catalog", "live", "prematch", "champion"}
            BY <1>3, <1>5, <2>2 DEF AuthorInv, AiRowsWellMade
        <3>3. \A x \in AiRows' : /\ rows'[x].hasPool
                                 /\ pools'[rows'[x].legs[1]].by = rows'[x].origin
            BY <1>2, <1>3, <1>5, <2>2, <2>3, <3>1 DEF AuthorInv, AiRowsWellMade
        <3>4. \A a, b \in AiRows' : a # b => rows'[a].legs[1] # rows'[b].legs[1]
            BY <1>3, <1>5, <2>2, <2>3, <3>1 DEF AuthorInv, AiRowsWellMade
        <3>5. AiRowsCapped'
            BY <1>2, <2>6 DEF AiRowsCapped
        <3>6. \A x \in AiRows' :
                 \E q \in Proposals : x = AiId(q) /\ rows'[x].legs = <<ProposedTerms(q)>>
            <4>1. id = AiId(p) /\ rows'[id].legs = <<ProposedTerms(p)>> /\ p \in Proposals
                BY <1>3, <1>5, <1>10, <2>2
            <4>2. QED BY <2>3, <3>1, <4>1 DEF AuthorInv, AiRowsWellMade
        <3>7. \A q \in Proposals : AiId(q) \in DOMAIN rows' => AiId(q) \in AiRows'
            BY <2>2, <2>3 DEF AuthorInv, AiRowsWellMade
        <3>8. ChampionRows' = ChampionRows /\ \A x \in ChampionRows : rows'[x] = rows[x]
            BY <1>3, <1>5, <1>8, <2>2 DEF ChampionRows
        <3>9. \A x \in ChampionRows' :
                 /\ rows'[x].hasPool => pools'[rows'[x].legs[1]].by = "champion"
                 /\ \E team \in Champions : /\ x = <<"champion", team>>
                                            /\ rows'[x].legs = ChampionLegs(team)
            BY <1>2, <3>8 DEF AuthorInv, AiRowsWellMade
        <3>10. QED BY <2>5, <3>2, <3>3, <3>4, <3>5, <3>6, <3>7, <3>9 DEF AiRowsWellMade
    <2> HIDE DEF h, c, Cap
    <2>8. au' = NextProposal([pc |-> au.pc, kind |-> au.kind, now |-> au.now, f |-> au.f,
                              hashes |-> h, count |-> c, todo |-> au.todo])
        <3>1. PICK a : a = [au EXCEPT !.hashes = h, !.count = c]
            OBVIOUS
        <3>2. a = [pc |-> au.pc, kind |-> au.kind, now |-> au.now, f |-> au.f,
                   hashes |-> h, count |-> c, todo |-> au.todo]
            BY <3>1 DEF AuthorInv, AuthorHolds
        <3>3. QED BY <1>1, <3>1, <3>2
    <2>9. AuthorHolds'
        BY <1>1, <1>2, <1>4, <2>6, <2>8, NextHolds DEF AuthorInv
    <2>10. WorldTypeOK' /\ FixtureFollowsFeed' /\ PoolsWellMade' /\ InPlayPoolsWellMade'
        <3>1. StatusAt(fixture.lastTs)' = StatusAt(fixture.lastTs)
            BY <1>2 DEF StatusAt
        <3>2. QED BY <1>2, <3>1 DEF AuthorInv, WorldTypeOK, FixtureFollowsFeed, Known,
                                    PoolsWellMade, InPlayPoolsWellMade, InPlay, FullTime
    <2>11. AiPoolsShown'
        <3> SUFFICES ASSUME faults' = 0, NEW u \in DOMAIN pools', pools'[u].by \in {"live", "prematch"}
                     PROVE  Displays(u)' \/ SlugTaken(u)'
            BY DEF AiPoolsShown
        <3>1. ASSUME NEW v, Displays(v) PROVE Displays(v)'
            BY <1>8, <2>2, <3>1 DEF Displays
        <3>2. CASE u = t
            BY <1>5, <2>2, <3>2 DEF Displays
        <3>3. CASE u # t
            <4>1. Displays(u) \/ SlugTaken(u)
                BY <1>1, <1>2, <1>11, <3>3 DEF AuthorInv, AiPoolsShown
            <4>2. QED BY <3>1, <4>1 DEF SlugTaken
        <3>4. QED BY <3>2, <3>3
    <2>12. QED BY <2>2, <2>7, <2>9, <2>10, <2>11 DEF AuthorInv
<1>9. QED BY <1>7, <1>8

\* A proposal that is rejected, or whose pool exists, is dropped.
LEMMA RejectInv == AuthorInv /\ (Reject \/ DropInUse) => AuthorInv'
<1> SUFFICES ASSUME AuthorInv, Reject \/ DropInUse PROVE AuthorInv'
    OBVIOUS
<1>1. au.pc = "next" /\ au' = NextProposal(au) /\ UNCHANGED marketVars /\ fired' = fired
    BY DEF Reject, DropInUse
<1>2. /\ UNCHANGED <<now, start, rows, fixture>> /\ UNCHANGED worldVars /\ UNCHANGED dbVars
      /\ UNCHANGED pools /\ UNCHANGED faults /\ faults' \in 0..MaxFaults
    BY <1>1 DEF marketVars, worldVars, dbVars, AuthorInv, WorldTypeOK
<1>3. AuthorHolds'
    BY <1>1, <1>2, DropHolds DEF AuthorInv
<1>4. QED BY <1>1, <1>2, <1>3, OnlyAuthorNoInsert

\* Somebody else makes a pool, or finds it made, and may write a new row on it.
LEMMA OthersAdd ==
    ASSUME AuthorInv, UNCHANGED <<worldVars, fixture, au, fired>>,
           faults' \in 0..MaxFaults, faults' = 0 => faults = 0,
           NEW t, NEW made \in PoolRecords, pools' = PutNew(pools, t, made),
           made.start \in {Kickoff, start}, made.lock = made.start - LockLead,
           made.by \in {"engine", "champion"},
           NEW id, NEW new, id \notin DOMAIN rows, \A q \in Proposals : id # AiId(q),
           rows' = rows \/ rows' = Put(rows, id, new),
           RowFits(id, new), new.state = "Active", new.hasPool => new.legs[1] = t,
           \/ new.origin = "catalog"
           \/ /\ au = Resting /\ new.origin = "champion"
              /\ new.hasPool => t \notin DOMAIN pools /\ made.by = "champion"
              /\ \E team \in Champions : id = <<"champion", team>> /\ new.legs = ChampionLegs(team)
    PROVE  AuthorInv'
<1>1. UNCHANGED <<now, start, stats, fixture, au, fired>>
    BY DEF worldVars
<1>2. now \in Int /\ start \in Int
    BY StartsAreIntegers DEF AuthorInv
<1>3. /\ PoolsWellMade' /\ DOMAIN pools' = DOMAIN pools \cup {t}
      /\ \A u \in DOMAIN pools : pools'[u] = pools[u]
      /\ t \notin DOMAIN pools => pools'[t] = made
    <2>1. CASE t \in DOMAIN pools
        <3>1. pools' = pools
            BY <2>1 DEF PutNew
        <3>2. QED BY <1>1, <2>1, <3>1 DEF AuthorInv, PoolsWellMade
    <2>2. CASE t \notin DOMAIN pools
        <3>1. pools' = Put(pools, t, made)
            BY <2>2 DEF PutNew
        <3>2. QED BY <1>1, <2>2, <3>1, NewPool DEF AuthorInv
    <2>3. QED BY <2>1, <2>2
<1>4. /\ DOMAIN rows \subseteq DOMAIN rows'
      /\ \A x \in DOMAIN rows : rows'[x] = rows[x]
      /\ \A x \in DOMAIN rows' \ DOMAIN rows : x = id /\ rows'[x] = new
    BY DEF Put
<1>5. RowsWellMade'
    <2> SUFFICES ASSUME NEW x \in DOMAIN rows' PROVE RowFits(x, rows'[x])
        BY <1>1 DEF RowsWellMade, RowFits
    <2>1. CASE x \in DOMAIN rows
        BY <1>4, <2>1 DEF AuthorInv, RowsWellMade
    <2>2. CASE x \notin DOMAIN rows
        BY <1>4, <2>2
    <2>3. QED BY <2>1, <2>2
<1>6. RowTellsItsPool'
    <2> SUFFICES ASSUME NEW x \in DOMAIN rows', rows'[x].hasPool
                 PROVE  /\ rows'[x].legs[1] \in DOMAIN pools'
                        /\ rows'[x].state = "Settled" => pools'[rows'[x].legs[1]].state = "resolved"
        BY DEF RowTellsItsPool
    <2>1. CASE x \in DOMAIN rows
        BY <1>3, <1>4, <2>1 DEF AuthorInv, RowTellsItsPool
    <2>2. CASE x \notin DOMAIN rows
        BY <1>3, <1>4, <2>2
    <2>3. QED BY <2>1, <2>2
<1>7. WorldTypeOK' /\ FixtureFollowsFeed'
    <2>1. StatusAt(fixture.lastTs)' = StatusAt(fixture.lastTs)
        BY <1>1 DEF StatusAt
    <2>2. QED BY <1>1, <2>1 DEF AuthorInv, WorldTypeOK, FixtureFollowsFeed, Known
<1>8. InPlayPoolsWellMade' /\ AiRowsWellMade' /\ AuthorHolds' /\ AiPoolsShown'
    <2>1. \A u \in DOMAIN pools' \ DOMAIN pools : pools'[u].by \in {"engine", "champion"}
        BY <1>3
    <2>2. ASSUME NEW x \in DOMAIN rows' \ DOMAIN rows, new.origin # "catalog"
          PROVE  /\ au = Resting /\ rows'[x].origin = "champion"
                 /\ rows'[x].hasPool => pools'[rows'[x].legs[1]].by = "champion"
                 /\ \E team \in Champions : /\ x = <<"champion", team>>
                                            /\ rows'[x].legs = ChampionLegs(team)
        BY <1>3, <1>4, <2>2
    <2>3. \A x \in DOMAIN rows' \ DOMAIN rows :
             /\ \A q \in Proposals : x # AiId(q)
             /\ new.origin = "catalog" => rows'[x].origin = "catalog"
        BY <1>4
    <2>4. now' \in Int /\ now <= now' /\ DOMAIN pools \subseteq DOMAIN pools'
        BY <1>1, <1>2, <1>3
    <2>5. QED BY <1>1, <1>3, <1>4, <2>1, <2>2, <2>3, <2>4, AuthorStays
<1>9. QED BY <1>3, <1>5, <1>6, <1>7, <1>8 DEF AuthorInv

\* The engine makes the pool of a def, or finds it made, and may write the row.
LEMMA EngineMakesInv ==
    ASSUME AuthorInv, NEW i \in 1..Len(Defs), EngineMakes(Defs[i])
    PROVE  AuthorInv'
<1> DEFINE d == Defs[i]
           t == d.legs[1]
           slug == d.slug
<1>1. PICK st \in {Kickoff, start} :
        /\ pools' = PutNew(pools, t, Pool(st - LockLead, st, "engine", 0, TRUE))
        /\ rows' \in {rows, Put(rows, slug, Row(d.legs, TRUE, st - LockLead, "Active", "catalog"))}
    BY DEF EngineMakes
<1>2. /\ Len(d.legs) = 1 /\ slug \notin DOMAIN rows
      /\ UNCHANGED <<worldVars, fixture, faults, au, fired>>
    BY DEF EngineMakes, authorVars
<1>3. faults' \in 0..MaxFaults /\ UNCHANGED faults
    BY <1>2 DEF AuthorInv, WorldTypeOK
<1>4. PICK lock \in Int : lock = st - LockLead /\ st \in Int
    BY StartsAreIntegers DEF AuthorInv, LockLead
<1> DEFINE made == Pool(lock, st, "engine", 0, TRUE)
           new == Row(d.legs, TRUE, lock, "Active", "catalog")
<1>5. pools' = PutNew(pools, t, made) /\ (rows' = rows \/ rows' = Put(rows, slug, new))
    BY <1>1, <1>4
<1>6. /\ made \in PoolRecords /\ made.start \in {Kickoff, start}
      /\ made.lock = made.start - LockLead /\ made.by = "engine"
    BY <1>4 DEF Pool, PoolRecords, resolveDeadline
<1>7. /\ new.hasPool = TRUE /\ new.state = "Active"
      /\ new.origin = "catalog" /\ new.legs = d.legs /\ new.lock = lock
    BY DEF Row
<1>8. RowFits(slug, new)
    <2>1. new = Row(new.legs, new.hasPool, new.lock, new.state, new.origin)
        BY <1>7
    <2> HIDE DEF new
    <2>2. slug = Defs[i].slug /\ new.legs = Defs[i].legs /\ Len(new.legs) = 1
        BY <1>2, <1>7
    <2>3. lock \in {Kickoff - LockLead, start - LockLead}
        BY <1>4
    <2>4. QED BY <1>7, <2>1, <2>2, <2>3 DEF RowFits
<1>9. \A q \in Proposals : slug # AiId(q)
    BY DefsOfCatalog, AiIdsApart
<1>10. new.hasPool => new.legs[1] = t
    BY <1>7
<1> HIDE DEF made, new, t, slug
<1>11. QED BY <1>2, <1>3, <1>5, <1>6, <1>7, <1>8, <1>9, <1>10, OthersAdd

\* A champion market is attached to the match.
LEMMA ChampionAttachesInv ==
    ASSUME AuthorInv, NEW team \in Champions, ChampionAttaches(team)
    PROVE  AuthorInv'
<1> DEFINE legs == ChampionLegs(team)
           t == legs[1]
           id == <<"champion", team>>
           free == t \notin DOMAIN pools
<1>1. /\ au = Resting /\ Known /\ id \notin DOMAIN rows
      /\ UNCHANGED <<worldVars, fixture, au, fired>>
      /\ pools' = PutNew(pools, t, Pool(fixture.start - LockLead, fixture.start, "champion", 0, TRUE))
      /\ \/ rows' = rows
         \/ rows' = Put(rows, id, Row(legs, free, fixture.start - LockLead, "Active", "champion"))
    BY DEF ChampionAttaches, authorVars
<1>2. faults' \in 0..MaxFaults /\ (faults' = 0 => faults = 0)
    <2>1. faults \in 0..MaxFaults /\ MaxFaults \in Nat
        BY MarketsAssumption DEF AuthorInv, WorldTypeOK
    <2>2. faults' = faults \/ (faults < MaxFaults /\ faults' = faults + 1)
        BY DEF ChampionAttaches
    <2>3. QED BY <2>1, <2>2
<1>3. PICK lock \in Int, st \in {Kickoff, start} :
         st = fixture.start /\ lock = st - LockLead /\ st \in Int
    BY <1>1, StartsAreIntegers DEF AuthorInv, FixtureFollowsFeed, LockLead
<1>4. PICK hasPool \in BOOLEAN : hasPool = free
    OBVIOUS
<1> DEFINE made == Pool(lock, st, "champion", 0, TRUE)
           new == Row(legs, hasPool, lock, "Active", "champion")
<1>5. pools' = PutNew(pools, t, made) /\ (rows' = rows \/ rows' = Put(rows, id, new))
    BY <1>1, <1>3, <1>4
<1>6. /\ made \in PoolRecords /\ made.start \in {Kickoff, start}
      /\ made.lock = made.start - LockLead /\ made.by = "champion"
    BY <1>3 DEF Pool, PoolRecords, resolveDeadline
<1>7. /\ new.hasPool = hasPool /\ new.state = "Active"
      /\ new.origin = "champion" /\ new.legs = legs /\ new.lock = lock
    BY DEF Row
<1>8. RowFits(id, new)
    <2>1. new = Row(new.legs, new.hasPool, new.lock, new.state, new.origin)
        BY <1>7
    <2> HIDE DEF new
    <2>2. QED BY <1>7, <2>1 DEF RowFits
<1>9. \A q \in Proposals : id # AiId(q)
    BY DEF AiId
<1>10. /\ new.hasPool => new.legs[1] = t /\ t \notin DOMAIN pools
       /\ \E member \in Champions : id = <<"champion", member>> /\ new.legs = ChampionLegs(member)
    BY <1>4, <1>7
<1> HIDE DEF made, new, t, id, legs, free
<1>11. QED BY <1>1, <1>2, <1>5, <1>6, <1>7, <1>8, <1>9, <1>10, OthersAdd

LEMMA AuthorInitInv == AuthorInit => AuthorInv
<1> SUFFICES ASSUME AuthorInit PROVE AuthorInv
    OBVIOUS
<1>1. /\ now \in Instants /\ start = Kickoff /\ stats = NoStats /\ pools = <<>> /\ rows = <<>>
      /\ fixture = NoFixture /\ faults = 0 /\ au = Resting /\ fired = {}
    BY DEF AuthorInit, MarketsInit
<1>2. Kickoff \in StartTimes /\ MaxCount \in Nat /\ MaxFaults \in Nat
    BY MarketsAssumption
<1>3. WorldTypeOK
    <2>1. NoStats \in [StatKeys -> 0..MaxCount]
        BY <1>2 DEF NoStats
    <2>2. \A base \in 1..8, period \in 0..2 : Key(base, period) \in StatKeys
        BY DEF StatKeys
    <2>3. \A base \in 1..8 : base \in StatKeys
        BY StatKeysOfCatalog
    <2>4. \A base \in 1..8, period \in 0..2 : stats[Key(base, period)] <= stats[base]
        BY <1>1, <2>2, <2>3 DEF NoStats
    <2>5. QED BY <1>1, <1>2, <2>1, <2>4 DEF WorldTypeOK
<1>4. FixtureFollowsFeed
    BY <1>1, NoFixtureIsRow DEF FixtureFollowsFeed, Known
<1>5. PoolsWellMade /\ RowsWellMade /\ RowTellsItsPool /\ InPlayPoolsWellMade
    BY <1>1 DEF PoolsWellMade, RowsWellMade, RowTellsItsPool, InPlayPoolsWellMade
<1>6. AiRows = {} /\ ChampionRows = {}
    BY <1>1 DEF AiRows, ChampionRows
<1>7. AiRowsWellMade
    <2>1. IsFiniteSet(AiRows) /\ Cardinality(AiRows) = 0
        BY <1>6, FS_EmptySet
    <2>2. AiRowsCapped
        BY <2>1, AuthorAssumption DEF AiRowsCapped
    <2>3. QED BY <1>1, <1>6, <2>1, <2>2 DEF AiRowsWellMade
<1>8. AuthorHolds
    <2> DEFINE none == NoFixture
    <2>1. none \in FixtureRows /\ <<>> \in Seq(Proposals)
        BY NoFixtureIsRow
    <2>2. au = [pc |-> "idle", kind |-> "live", now |-> 0, f |-> none,
                hashes |-> {}, count |-> 0, todo |-> <<>>]
        BY <1>1 DEF Resting
    <2> HIDE DEF none
    <2>3. QED BY <1>1, <2>1, <2>2 DEF AuthorHolds
<1>9. AiPoolsShown
    BY <1>1 DEF AiPoolsShown
<1>10. QED BY <1>3, <1>4, <1>5, <1>7, <1>8, <1>9 DEF AuthorInv

LEMMA AuthorNextInv == AuthorInv /\ [AuthorNext]_allVars => AuthorInv'
<1> SUFFICES ASSUME AuthorInv, [AuthorNext]_allVars PROVE AuthorInv'
    OBVIOUS
<1>1. CASE World /\ UNCHANGED authorVars
    <2>1. /\ WorldTypeOK' /\ FixtureFollowsFeed' /\ UNCHANGED pools /\ UNCHANGED rows
          /\ now <= now' /\ (start' # start => start = Kickoff /\ now < start)
          /\ UNCHANGED faults
        BY <1>1, WorldSteps DEF AuthorInv
    <2>2. PoolsWellMade' /\ RowsWellMade' /\ RowTellsItsPool'
        BY <1>1, WorldKeepsMarkets DEF AuthorInv
    <2>3. now' \in Int
        BY <2>1, MarketsAssumption DEF WorldTypeOK
    <2>4. UNCHANGED au /\ UNCHANGED fired
        BY <1>1 DEF authorVars
    <2>5. InPlayPoolsWellMade' /\ AiRowsWellMade' /\ AuthorHolds' /\ AiPoolsShown'
        BY <2>1, <2>3, <2>4, AuthorStays
    <2>6. QED BY <2>1, <2>2, <2>5 DEF AuthorInv
<1>2. CASE EngineSyncs
    <2>1. /\ fixture' = Upserted /\ UNCHANGED worldVars
          /\ UNCHANGED <<now, start, stats, pools, rows, faults, au, fired>>
        BY <1>2 DEF EngineSyncs, worldVars, authorVars
    <2>2. FixtureFollowsFeed'
        BY <2>1, UpsertKeeps DEF AuthorInv
    <2>3. now' \in Int /\ now <= now'
        BY <2>1, StartsAreIntegers DEF AuthorInv
    <2>4. InPlayPoolsWellMade' /\ AiRowsWellMade' /\ AuthorHolds' /\ AiPoolsShown'
        BY <2>1, <2>3, AuthorStays
    <2>5. WorldTypeOK' /\ PoolsWellMade' /\ RowsWellMade' /\ RowTellsItsPool'
        BY <2>1 DEF AuthorInv, WorldTypeOK, PoolsWellMade, RowsWellMade, RowFits, Row,
                    RowTellsItsPool
    <2>6. QED BY <2>2, <2>4, <2>5 DEF AuthorInv
<1>3. ASSUME NEW lost \in BOOLEAN, Restart(lost) PROVE AuthorInv'
    <2>1. Restarts(lost) /\ au' = Resting /\ fired' = {}
        BY <1>3 DEF Restart
    <2>2. /\ WorldTypeOK' /\ FixtureFollowsFeed' /\ PoolsWellMade' /\ RowsWellMade'
          /\ RowTellsItsPool' /\ UNCHANGED start /\ UNCHANGED pools /\ UNCHANGED now
        BY <2>1, RestartKeeps DEF AuthorInv
    <2>3. AuthorHolds'
        BY <2>1, RestingHolds
    <2>4. InPlayPoolsWellMade'
        BY <2>2 DEF AuthorInv, InPlayPoolsWellMade, InPlay, FullTime
    <2>5. AiRowsWellMade'
        <3>1. CASE UNCHANGED rows /\ UNCHANGED fixture
            BY <2>2, <3>1 DEF AuthorInv, AiRowsWellMade, AiRows, ChampionRows, AiRowsCapped
        <3>2. CASE rows' = <<>>
            <4>1. AiRows' = {} /\ ChampionRows' = {}
                BY <3>2 DEF AiRows, ChampionRows
            <4>2. IsFiniteSet(AiRows') /\ Cardinality(AiRows') = 0
                BY <4>1, FS_EmptySet
            <4>3. AiRowsCapped'
                BY <4>2, AuthorAssumption DEF AiRowsCapped
            <4>4. QED BY <3>2, <4>1, <4>2, <4>3 DEF AiRowsWellMade
        <3>3. QED BY <2>1, <3>1, <3>2 DEF Restarts, dbVars
    <2>6. AiPoolsShown'
        <3>1. faults \in 0..MaxFaults /\ faults' = faults + 1 /\ MaxFaults \in Nat
            BY <2>1, MarketsAssumption DEF Restarts, AuthorInv, WorldTypeOK
        <3>2. faults' # 0
            BY <3>1
        <3>3. QED BY <3>2 DEF AiPoolsShown
    <2>7. QED BY <2>2, <2>3, <2>4, <2>5, <2>6 DEF AuthorInv
<1>4. CASE UNCHANGED allVars
    <2>1. UNCHANGED <<now, start, stats, pools, rows, fixture, faults, au, fired>>
        BY <1>4 DEF allVars, marketVars, authorVars, worldVars, dbVars
    <2>2. now' \in Int /\ now <= now'
        BY <2>1, StartsAreIntegers DEF AuthorInv
    <2>3. AuthorHolds'
        BY <2>1, <2>2, AuthorStays
    <2>4. UNCHANGED worldVars /\ UNCHANGED dbVars /\ faults' \in 0..MaxFaults
        BY <2>1 DEF worldVars, dbVars, AuthorInv, WorldTypeOK
    <2>5. QED BY <2>1, <2>3, <2>4, OnlyAuthorNoInsert
<1>5. QED BY <1>1, <1>2, <1>3, <1>4, EngineMakesInv, ChampionAttachesInv, AskLiveInv,
             AskPrematchInv, AnswerInv,
             RejectInv, CreateAiInv, InsertAiInv DEF AuthorNext

-----------------------------------------------------------------------------
(***************************************************************************)
(* What follows.                                                           *)
(***************************************************************************)

\* The author's invariant, whatever the model answers and whatever fails.
THEOREM AuthorInvariance == AuthorSpec => []AuthorInv
<1>1. QED BY AuthorInitInv, AuthorNextInv, PTL DEF AuthorSpec

\* Every variable of Author keeps its type.
THEOREM AuthorTypeCorrect == AuthorSpec => []AuthorTypeOK
<1>1. AuthorInv => AuthorTypeOK
    <2> SUFFICES ASSUME AuthorInv PROVE AuthorTypeOK
        OBVIOUS
    <2>1. now \in Instants /\ start \in StartTimes /\ stats \in [StatKeys -> 0..MaxCount]
          /\ faults \in 0..MaxFaults
        BY DEF AuthorInv, WorldTypeOK
    <2>2. \A t \in DOMAIN pools : /\ pools[t].state \in {"open", "resolved", "void"}
                                  /\ pools[t].by \in {"engine", "live", "prematch", "champion"}
        BY DEF AuthorInv, PoolsWellMade, PoolRecords
    <2>3. \A id \in DOMAIN rows : /\ rows[id].state \in {"Active", "Settled", "Void"}
                                  /\ rows[id].hasPool \in BOOLEAN
        BY DEF AuthorInv, RowsWellMade, RowFits
    <2>4. /\ au.pc \in {"idle", "asked", "next", "insert"}
          /\ au.pc \in {"next", "insert"} <=> au.todo # <<>>
          /\ fired \subseteq {"kickoff", "ht", "h2", "prematch"}
        BY DEF AuthorInv, AuthorHolds
    <2>5. QED BY <2>1, <2>2, <2>3, <2>4 DEF AuthorTypeOK
<1>2. QED BY AuthorInvariance, <1>1, PTL

\* Two rows share a pool only when the engine adopted that of an AI or a
\* champion market.
THEOREM SharedByAdoptionOnly == AuthorSpec => []PoolsSharedByAdoptionOnly
<1>1. AuthorInv => PoolsSharedByAdoptionOnly
    <2> DEFINE Others == AiRows \cup ChampionRows
    <2> SUFFICES ASSUME AuthorInv, NEW a \in DOMAIN rows, NEW b \in DOMAIN rows, a # b,
                        rows[a].hasPool, rows[b].hasPool, rows[a].legs[1] = rows[b].legs[1]
                 PROVE  /\ {rows[a].origin, rows[b].origin} \cap {"live", "prematch", "champion"} # {}
                        /\ {rows[a].origin, rows[b].origin} \cap {"catalog"} # {}
                        /\ pools[rows[a].legs[1]].by # "engine"
        BY DEF PoolsSharedByAdoptionOnly
    <2>1. ASSUME NEW x \in DOMAIN rows, rows[x].hasPool, x \notin Others
          PROVE  rows[x].origin = "catalog" /\ x = SlugOf(rows[x].legs[1])
        <3>1. rows[x].origin = "catalog"
            BY <2>1 DEF AuthorInv, AiRowsWellMade, AiRows, ChampionRows
        <3>2. /\ \E i \in 1..Len(Defs) : x = Defs[i].slug /\ rows[x].legs = Defs[i].legs
              /\ Len(rows[x].legs) = 1
            BY <2>1, <3>1 DEF AuthorInv, RowsWellMade, RowFits
        <3>3. PICK i \in 1..Len(Defs) : x = Defs[i].slug /\ rows[x].legs = Defs[i].legs
            BY <3>2
        <3>4. QED BY <3>1, <3>2, <3>3, DefsOfCatalog, CatalogDefs
    <2>2. a \in Others \/ b \in Others
        BY <2>1
    <2>3. \A x \in Others : rows[x].origin \in {"live", "prematch", "champion"}
        BY DEF AiRows, ChampionRows
    <2>4. \A x \in Others : rows[x].hasPool => pools[rows[x].legs[1]].by = rows[x].origin
        BY DEF AuthorInv, AiRowsWellMade, ChampionRows
    <2>5. ~(a \in AiRows /\ b \in AiRows)
        BY DEF AuthorInv, AiRowsWellMade
    <2>6. ~(a \in ChampionRows /\ b \in ChampionRows)
        <3> SUFFICES ASSUME a \in ChampionRows, b \in ChampionRows PROVE FALSE
            OBVIOUS
        <3>1. PICK x \in 1..2 : a = <<"champion", x>> /\ rows[a].legs = ChampionLegs(x)
            BY AuthorAssumption DEF AuthorInv, AiRowsWellMade
        <3>2. PICK y \in 1..2 : b = <<"champion", y>> /\ rows[b].legs = ChampionLegs(y)
            BY AuthorAssumption DEF AuthorInv, AiRowsWellMade
        <3>3. \A team \in 1..2 : ChampionLegs(team)[1].a = team
            BY DEF ChampionLegs, Lead, Terms, Goals
        <3>4. x = y
            BY <3>1, <3>2, <3>3
        <3>5. QED BY <3>1, <3>2, <3>4
    <2>7. ~(a \in AiRows /\ b \in ChampionRows) /\ ~(a \in ChampionRows /\ b \in AiRows)
        <3>1. \A x \in AiRows, y \in ChampionRows : rows[x].origin # rows[y].origin
            BY DEF AiRows, ChampionRows
        <3>2. QED BY <2>4, <3>1
    <2>8. a \notin Others \/ b \notin Others
        BY <2>5, <2>6, <2>7
    <2>9. {rows[a].origin, rows[b].origin} \cap {"catalog"} # {}
        BY <2>1, <2>8
    <2>10. pools[rows[a].legs[1]].by # "engine"
        BY <2>2, <2>3, <2>4
    <2> HIDE DEF Others
    <2>11. QED BY <2>2, <2>3, <2>9, <2>10
<1>2. QED BY AuthorInvariance, <1>1, PTL

\* The AI rows of a fixture stay within the larger of the two caps.
THEOREM AiRowsWithinCap == AuthorSpec => []AiRowsCapped
<1>1. AuthorInv => AiRowsCapped
    BY DEF AuthorInv, AiRowsWellMade
<1>2. QED BY AuthorInvariance, <1>1, PTL

\* In-play pools are made from a match that has begun, and, as long as the
\* status the row shows is that of its last record, while it is on or just
\* over; they lock before full time unless made in its last minutes.
THEOREM InPlayPoolsResolvable == AuthorSpec => []InPlayPoolsCanResolve
<1>1. AuthorInv => InPlayPoolsCanResolve
    <2> SUFFICES ASSUME AuthorInv, NEW t \in DOMAIN pools, pools[t].by = "live"
                 PROVE  /\ start <= pools[t].madeAt /\ pools[t].madeAt < pools[t].start + 150
                        /\ pools[t].told => pools[t].madeAt < FullTime + 9
                        /\ pools[t].start <= start /\ pools[t].lock >= FullTime =>
                              pools[t].lock = pools[t].madeAt + 6
        BY DEF InPlayPoolsCanResolve
    <2>1. /\ start \in Int /\ pools[t].start \in Int /\ pools[t].lock \in Int
          /\ pools[t].madeAt \in Int
        BY StartsAreIntegers DEF AuthorInv, PoolsWellMade, PoolRecords
    <2>2. /\ InPlay(pools[t].madeAt, pools[t].start, pools[t].told)
          /\ pools[t].lock = pools[t].madeAt + 6 \/ pools[t].lock <= pools[t].start + 85
        BY DEF AuthorInv, InPlayPoolsWellMade
    <2>3. QED BY <2>1, <2>2 DEF InPlay, FullTime, FullTimeAfter
<1>2. QED BY AuthorInvariance, <1>1, PTL

\* As long as nothing fails, whatever the model answers, every pool the author
\* pays for has a row that shows it or a namesake that kept it from having one.
THEOREM AiPoolsAlwaysShown == AuthorSpec => []AiPoolsShown
<1>1. AuthorInv => AiPoolsShown
    BY DEF AuthorInv
<1>2. QED BY AuthorInvariance, <1>1, PTL
=============================================================================
