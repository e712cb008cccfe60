---------------------------- MODULE EngineProofs ----------------------------
(***************************************************************************)
(* Proofs about Engine, for every sequence of defs of the catalog, every   *)
(* start the feed gives, every course of the match and any number of       *)
(* failed calls, crashes and database losses.                              *)
(***************************************************************************)
EXTENDS Engine, MarketsProofs, FiniteSetTheorems

(***************************************************************************)
(* The engine's next def.                                                  *)
(***************************************************************************)

\* A set of naturals has a least element: of the intervals 1..m for m in the
\* set, one includes no other.
LEMMA LeastNatural ==
    ASSUME NEW S \in SUBSET Nat, S # {}
    PROVE  \E m \in S : \A k \in S : m <= k
<1> DEFINE initial == {1..m : m \in S}
<1>1. initial \subseteq FiniteSubsetsOf(Nat) /\ initial # {}
    <2>1. \A m \in S : IsFiniteSet(1..m)
        BY FS_Interval
    <2>2. \A m \in S : 1..m \in SUBSET Nat
        OBVIOUS
    <2>3. QED BY <2>1, <2>2 DEF FiniteSubsetsOf
<1>2. PICK x \in initial : \A y \in initial : <<y, x>> \notin StrictSubsetOrdering(Nat)
    <2>1. IsWellFoundedOn(StrictSubsetOrdering(Nat), FiniteSubsetsOf(Nat))
        BY FS_StrictSubsetOrderingWellFounded
    <2>2. QED BY <1>1, <2>1, WFMin
<1>3. PICK m \in S : x = 1..m
    OBVIOUS
<1>4. ASSUME NEW k \in S, k < m PROVE FALSE
    <2>1. 1..k \in initial /\ 1..k \in SUBSET Nat /\ x \in SUBSET Nat
        BY <1>3
    <2>2. 1..k \subseteq 1..m
        BY <1>4
    <2>3. m \in 1..m /\ m \notin 1..k
        BY <1>4
    <2>4. <<1..k, x>> \in StrictSubsetOrdering(Nat)
        BY <1>3, <2>1, <2>2, <2>3 DEF StrictSubsetOrdering
    <2>5. QED BY <1>2, <2>1, <2>4
<1>5. QED BY <1>4

\* Going on ends the tick or takes it to a def of the catalog.
LEMMA GoOnMoves ==
    ASSUME NEW e, e.i \in 0..Len(Defs)
    PROVE  \/ GoOn(e) = Idle
           \/ \E j \in 1..Len(Defs) : GoOn(e) = [e EXCEPT !.pc = "next", !.i = j]
<1>1. Len(Defs) \in Nat
    BY MarketsAssumption
<1>2. Missing(e.i) \in SUBSET (1..Len(Defs)) /\ Missing(e.i) \in SUBSET Nat
    BY <1>1 DEF Missing
<1> DEFINE j == CHOOSE k \in Missing(e.i) : \A l \in Missing(e.i) : k <= l
<1>3. CASE Missing(e.i) # {}
    <2>1. j \in Missing(e.i)
        BY <1>2, <1>3, LeastNatural
    <2>2. GoOn(e) = [e EXCEPT !.pc = "next", !.i = j]
        BY <1>3 DEF GoOn
    <2>3. QED BY <1>2, <2>1, <2>2
<1>4. CASE Missing(e.i) = {}
    BY <1>4 DEF GoOn
<1>5. QED BY <1>3, <1>4

LEMMA GoOnHolds ==
    ASSUME NEW e \in TickRecords, e.start \in {Kickoff, start}, UNCHANGED start, eng' = GoOn(e)
    PROVE  TickHolds'
<1>1. Len(Defs) \in Nat
    BY MarketsAssumption
<1>2. CASE eng' = Idle
    BY <1>1, <1>2 DEF Idle, TickHolds, TickRecords
<1>3. ASSUME NEW j \in 1..Len(Defs), eng' = [e EXCEPT !.pc = "next", !.i = j]
      PROVE  TickHolds'
    <2>1. eng' = [pc |-> "next", i |-> j, start |-> e.start, creating |-> e.creating]
        BY <1>3 DEF TickRecords
    <2>2. e.start \in Int /\ e.creating \in BOOLEAN /\ j \in 0..Len(Defs)
        BY <1>1 DEF TickRecords
    <2>3. eng' \in TickRecords /\ eng'.pc = "next" /\ eng'.i = j /\ eng'.start = e.start
        BY <2>1, <2>2 DEF TickRecords
    <2>4. QED BY <2>3 DEF TickHolds
<1>4. QED BY <1>2, <1>3, GoOnMoves DEF TickRecords

\* What the tick holds survives the steps of everybody else.
LEMMA TickStays ==
    ASSUME TickHolds, UNCHANGED eng,
           start' # start => start = Kickoff,
           DOMAIN pools \subseteq DOMAIN pools',
           \A t \in DOMAIN pools : pools[t].state # "open" => pools'[t] = pools[t]
    PROVE  TickHolds'
BY DEF TickHolds, Composite, terms, def

-----------------------------------------------------------------------------
(***************************************************************************)
(* The invariant.                                                          *)
(***************************************************************************)

LEMMA EngineInitInv == EngineInit => EngineInv
<1> SUFFICES ASSUME EngineInit PROVE EngineInv
    OBVIOUS
<1>1. /\ now \in Instants /\ start = Kickoff /\ stats = NoStats /\ pools = <<>>
      /\ rows = Put(<<>>, LegacyId, Legacy) /\ fixture = NoFixture /\ faults = 0 /\ eng = Idle
    BY DEF EngineInit, MarketsInit
<1>2. Kickoff \in StartTimes /\ MaxCount \in Nat /\ MaxFaults \in Nat
    BY MarketsAssumption
<1>3. NoStats \in [StatKeys -> 0..MaxCount]
    BY <1>2 DEF NoStats
<1>4. WorldTypeOK
    <2>1. \A base \in 1..8, period \in 0..2 : Key(base, period) \in StatKeys
        BY DEF StatKeys
    <2>2. \A base \in 1..8 : base \in StatKeys
        BY StatKeysOfCatalog
    <2>3. \A base \in 1..8, period \in 0..2 : stats[Key(base, period)] <= stats[base]
        BY <1>1, <2>1, <2>2 DEF NoStats
    <2>4. QED BY <1>1, <1>2, <1>3, <2>3 DEF WorldTypeOK
<1>5. FixtureFollowsFeed
    BY <1>1, NoFixtureIsRow DEF FixtureFollowsFeed, Known
<1>6. PoolsWellMade
    BY <1>1 DEF PoolsWellMade
<1>7. /\ DOMAIN rows = {LegacyId} /\ rows[LegacyId] = Legacy
      /\ Legacy.origin = "legacy" /\ Legacy.hasPool = FALSE /\ Legacy.state = "Active"
      /\ Legacy = Row(Legacy.legs, Legacy.hasPool, Legacy.lock, Legacy.state, Legacy.origin)
    BY <1>1 DEF Put, Legacy, Row
<1>8. RowsWellMade /\ CatalogOrLegacy /\ RowTellsItsPool
    BY <1>7 DEF RowsWellMade, RowFits, CatalogOrLegacy, RowTellsItsPool
<1>9. TickHolds
    <2>1. Len(Defs) \in Nat
        BY MarketsAssumption
    <2>2. QED BY <1>1, <2>1 DEF TickHolds, TickRecords, Idle
<1>10. QED BY <1>4, <1>5, <1>6, <1>8, <1>9 DEF EngineInv

\* The row of the def the tick is at.
LEMMA InsertsRow ==
    ASSUME EngineInv, eng.pc # "idle",
           NEW state \in {"Active", "Settled", "Void"},
           InsertRow(state), eng' = Advance, UNCHANGED <<worldVars, pools, fixture>>,
           faults' \in 0..MaxFaults,
           ~Composite => /\ terms \in DOMAIN pools
                         /\ state = "Settled" => pools[terms].state = "resolved"
    PROVE  EngineInv'
<1>1. eng \in TickRecords /\ eng.i \in 1..Len(Defs) /\ eng.start \in {Kickoff, start}
    BY DEF EngineInv, TickHolds, TickRecords
<1>2. Len(def.legs) \in 1..2
    BY <1>1, DefsOfCatalog, CatalogDefs DEF def
<1>3. UNCHANGED <<start, now, stats>>
    BY DEF worldVars
<1> DEFINE hasPool == ~Composite
           lock == eng.start - LockLead
<1>4. /\ hasPool \in BOOLEAN /\ (hasPool <=> Len(def.legs) = 1)
      /\ lock \in {Kickoff - LockLead, start - LockLead}
    <2>1. hasPool \in BOOLEAN
        BY DEF Composite
    <2> DEFINE n == Len(def.legs)
    <2> HIDE DEF n
    <2>2. (n \in 1..2) => (~(n > 1) <=> n = 1)
        OBVIOUS
    <2>5. hasPool <=> Len(def.legs) = 1
        BY <1>2, <2>2 DEF Composite, n
    <2>3. lock \in {Kickoff - LockLead, start - LockLead}
        BY <1>1
    <2>4. QED BY <2>1, <2>3, <2>5
<1>5. /\ rows' = Put(rows, def.slug, Row(def.legs, hasPool, lock, state, "catalog"))
      /\ hasPool => /\ def.legs[1] \in DOMAIN pools
                    /\ state = "Settled" => pools[def.legs[1]].state = "resolved"
    BY DEF InsertRow, terms
<1>6. \E i \in 1..Len(Defs) : def.slug = Defs[i].slug /\ def.legs = Defs[i].legs
    BY <1>1 DEF def
<1> HIDE DEF hasPool, lock
<1> DEFINE new == Row(def.legs, hasPool, lock, state, "catalog")
<1>12. /\ new.legs = def.legs /\ new.hasPool = hasPool /\ new.lock = lock
       /\ new.state = state /\ new.origin = "catalog"
       /\ new = Row(new.legs, new.hasPool, new.lock, new.state, new.origin)
       /\ rows' = Put(rows, def.slug, new)
    BY <1>5 DEF Row
<1> HIDE DEF new
<1>7. /\ RowsWellMade' /\ RowTellsItsPool'
      /\ DOMAIN rows' = DOMAIN rows \cup {def.slug} /\ rows'[def.slug] = new
      /\ \A x \in DOMAIN rows \ {def.slug} : rows'[x] = rows[x]
    <2>1. RowsWellMade /\ RowTellsItsPool /\ UNCHANGED start /\ UNCHANGED pools
        BY <1>3 DEF EngineInv
    <2>2. RowFits(def.slug, new)
        BY <1>4, <1>6, <1>12 DEF RowFits
    <2>3. new.hasPool => /\ new.legs[1] \in DOMAIN pools
                         /\ new.state = "Settled" => pools[new.legs[1]].state = "resolved"
        BY <1>5, <1>12
    <2>4. QED BY <1>12, <2>1, <2>2, <2>3, NewRow
<1>8. CatalogOrLegacy'
    <2>1. rows'[def.slug].origin = "catalog"
        BY <1>7, <1>12
    <2>2. QED BY <1>7, <2>1 DEF EngineInv, CatalogOrLegacy
<1>9. WorldTypeOK' /\ FixtureFollowsFeed' /\ PoolsWellMade'
    <2>1. StatusAt(fixture.lastTs)' = StatusAt(fixture.lastTs)
        BY <1>3 DEF StatusAt
    <2>2. QED BY <1>3, <2>1
              DEF EngineInv, WorldTypeOK, FixtureFollowsFeed, PoolsWellMade, Known
<1>10. TickHolds'
    BY <1>1, <1>3, GoOnHolds DEF Advance
<1>11. QED BY <1>7, <1>8, <1>9, <1>10 DEF EngineInv

\* The steps that leave the rows and the fixture's row alone.
LEMMA OnlyPoolsAndTick ==
    ASSUME EngineInv, UNCHANGED <<worldVars, dbVars>>, faults' \in 0..MaxFaults,
           PoolsWellMade', TickHolds',
           DOMAIN pools \subseteq DOMAIN pools', \A u \in DOMAIN pools : pools'[u] = pools[u]
    PROVE  EngineInv'
<1>1. UNCHANGED <<start, now, stats, rows, fixture>>
    BY DEF worldVars, dbVars
<1>2. WorldTypeOK' /\ FixtureFollowsFeed'
    <2>1. StatusAt(fixture.lastTs)' = StatusAt(fixture.lastTs)
        BY <1>1 DEF StatusAt
    <2>2. QED BY <1>1, <2>1 DEF EngineInv, WorldTypeOK, FixtureFollowsFeed, Known
<1>3. RowsWellMade' /\ CatalogOrLegacy'
    BY <1>1 DEF EngineInv, RowsWellMade, RowFits, CatalogOrLegacy, Row
<1>4. RowTellsItsPool'
    BY <1>1, MorePools DEF EngineInv
<1>5. QED BY <1>2, <1>3, <1>4 DEF EngineInv

\* The tick begins: legacy rows are void, the fixture's row is written.
LEMMA TickStartInv == EngineInv /\ TickStart => EngineInv'
<1> SUFFICES ASSUME EngineInv, TickStart PROVE EngineInv'
    OBVIOUS
<1>1. /\ UNCHANGED worldVars /\ UNCHANGED pools /\ UNCHANGED faults
      /\ fixture' \in {fixture, Upserted}
      /\ rows' = [id \in DOMAIN rows |->
                    IF rows[id].origin = "legacy" /\ rows[id].state = "Active"
                      THEN [rows[id] EXCEPT !.state = "Void"] ELSE rows[id]]
    BY DEF TickStart
<1>2. UNCHANGED start /\ UNCHANGED now /\ UNCHANGED stats
    BY <1>1 DEF worldVars
<1>3. WorldTypeOK' /\ FixtureFollowsFeed' /\ PoolsWellMade'
    BY <1>1, <1>2, UpsertKeeps DEF EngineInv, WorldTypeOK, PoolsWellMade
<1>4. ASSUME NEW id \in DOMAIN rows
      PROVE  \/ rows'[id] = rows[id]
             \/ /\ rows'[id].origin = "legacy" /\ ~rows'[id].hasPool
                /\ RowFits(id, rows'[id])
    <2> DEFINE r == rows[id]
    <2>1. RowFits(id, r) /\ (r.origin = "legacy" => ~r.hasPool)
        BY DEF EngineInv, RowsWellMade, CatalogOrLegacy
    <2>2. CASE r.origin = "legacy" /\ r.state = "Active"
        <3>1. r = Row(r.legs, r.hasPool, r.lock, r.state, r.origin)
            BY <2>1 DEF RowFits
        <3>2. rows'[id] = [r EXCEPT !.state = "Void"]
            BY <1>1, <2>2
        <3>3. rows'[id] = Row(r.legs, r.hasPool, r.lock, "Void", r.origin)
            BY <3>1, <3>2 DEF Row
        <3> DEFINE new == rows'[id]
        <3>4. /\ new.legs = r.legs /\ new.hasPool = r.hasPool /\ new.lock = r.lock
              /\ new.state = "Void" /\ new.origin = r.origin
            BY <3>3 DEF Row
        <3>5. new = Row(new.legs, new.hasPool, new.lock, new.state, new.origin)
            BY <3>3, <3>4
        <3> HIDE DEF new, r
        <3>6. RowFits(id, new) /\ new.origin = "legacy" /\ ~new.hasPool
            BY <2>1, <2>2, <3>4, <3>5 DEF RowFits
        <3>7. QED BY <3>6 DEF new
    <2>3. CASE ~(r.origin = "legacy" /\ r.state = "Active")
        BY <1>1, <2>3
    <2>4. QED BY <2>2, <2>3
<1>5. DOMAIN rows' = DOMAIN rows
    BY <1>1
<1>6. RowsWellMade' /\ CatalogOrLegacy' /\ RowTellsItsPool'
    <2>1. ASSUME NEW x, NEW y, RowFits(x, y) PROVE RowFits(x, y)'
        BY <1>2, <2>1 DEF RowFits
    <2>2. ASSUME NEW id \in DOMAIN rows PROVE RowFits(id, rows'[id])
        BY <1>4, <2>2 DEF EngineInv, RowsWellMade
    <2>3. RowsWellMade'
        <3> SUFFICES ASSUME NEW id \in DOMAIN rows' PROVE RowFits(id, rows'[id])
            BY <1>2 DEF RowsWellMade, RowFits
        <3>1. QED BY <1>5, <2>2
    <2>4. CatalogOrLegacy'
        BY <1>4, <1>5 DEF EngineInv, CatalogOrLegacy
    <2>5. RowTellsItsPool'
        BY <1>1, <1>4, <1>5 DEF EngineInv, RowTellsItsPool
    <2>6. QED BY <2>3, <2>4, <2>5
<1>7. TickHolds'
    <2> DEFINE e == [Idle EXCEPT !.start = start, !.creating = start > now]
    <2>1. eng' = Idle \/ eng' = GoOn(e)
        BY DEF TickStart
    <2>2. e \in TickRecords /\ e.start = start
        <3>1. start \in Int /\ Len(Defs) \in Nat
            BY StartsAreIntegers, MarketsAssumption DEF EngineInv
        <3>7. start \in Int /\ now \in Int
            BY StartsAreIntegers DEF EngineInv
        <3>8. ASSUME start > now PROVE \E before \in BOOLEAN : before = (start > now)
            <4>1. (start > now) = TRUE
                BY <3>8
            <4>2. QED BY <4>1
        <3>9. ASSUME ~(start > now) PROVE \E before \in BOOLEAN : before = (start > now)
            <4>1. (start > now) = FALSE
                BY <3>9
            <4>2. QED BY <4>1
        <3>2. PICK before \in BOOLEAN : before = (start > now)
            BY <3>8, <3>9
        <3>3. e = [Idle EXCEPT !.start = start, !.creating = before]
            BY <3>2
        <3> HIDE DEF e
        <3>4. Idle \in TickRecords
            BY <3>1 DEF Idle, TickRecords
        <3> DEFINE idle == Idle
        <3>5. e = [idle EXCEPT !.start = start, !.creating = before] /\ idle \in TickRecords
            BY <3>3, <3>4
        <3> HIDE DEF idle
        <3>6. QED BY <3>1, <3>5 DEF TickRecords
    <2>3. CASE eng' = Idle
        <3>1. Len(Defs) \in Nat
            BY MarketsAssumption
        <3>2. QED BY <2>3, <3>1 DEF TickHolds, TickRecords, Idle
    <2> HIDE DEF e
    <2>4. CASE eng' = GoOn(e)
        BY <1>2, <2>2, <2>4, GoOnHolds
    <2>5. QED BY <2>1, <2>3, <2>4
<1>8. QED BY <1>3, <1>6, <1>7 DEF EngineInv

\* Creating the pool of the def the tick is at, which the catalog gives one leg.
LEMMA CreatesPool ==
    ASSUME EngineInv, eng.pc # "idle", ~Composite, terms \notin DOMAIN pools, Created,
           UNCHANGED start
    PROVE  /\ PoolsWellMade'
           /\ DOMAIN pools' = DOMAIN pools \cup {terms}
           /\ \A u \in DOMAIN pools : pools'[u] = pools[u]
<1>1. eng.start \in {Kickoff, start} /\ eng.start \in Int
    BY DEF EngineInv, TickHolds, TickRecords
<1> DEFINE t == terms
           p == Pool(eng.start - LockLead, eng.start, "engine", 0, TRUE)
<1>5. PICK lock \in Int, st \in Int : st = eng.start /\ lock = st - LockLead
    BY <1>1 DEF LockLead
<1>2. /\ p \in PoolRecords /\ p.start \in {Kickoff, start} /\ p.lock = p.start - LockLead
      /\ pools' = Put(pools, t, p)
    <2>1. /\ Pool(lock, st, "engine", 0, TRUE) \in PoolRecords
          /\ Pool(lock, st, "engine", 0, TRUE).start = st
          /\ Pool(lock, st, "engine", 0, TRUE).lock = lock
        BY DEF Pool, PoolRecords, resolveDeadline
    <2>2. p = Pool(lock, st, "engine", 0, TRUE) /\ pools' = Put(pools, t, p)
        BY <1>5 DEF Created
    <2> HIDE DEF p
    <2>3. QED BY <1>1, <1>5, <2>1, <2>2
<1> HIDE DEF t, p
<1>3. t \notin DOMAIN pools /\ PoolsWellMade
    BY DEF t, EngineInv
<1>4. /\ PoolsWellMade'
      /\ DOMAIN pools' = DOMAIN pools \cup {t}
      /\ \A u \in DOMAIN pools : pools'[u] = pools[u]
    BY <1>2, <1>3, NewPool
<1>6. QED BY <1>4 DEF t

LEMMA EngineStepsInv == EngineInv /\ (EngineSteps \/ EngineFaults) => EngineInv'
<1> SUFFICES ASSUME EngineInv, EngineSteps \/ EngineFaults PROVE EngineInv'
    OBVIOUS
<1>1. /\ eng \in TickRecords /\ faults \in 0..MaxFaults /\ MaxFaults \in Nat
      /\ eng.pc # "idle" => eng.start \in {Kickoff, start}
    BY MarketsAssumption DEF EngineInv, TickHolds, WorldTypeOK
<1>2. faults < MaxFaults => faults + 1 \in 0..MaxFaults
    BY <1>1
<1>3. ASSUME eng' = Advance, eng.pc # "idle", UNCHANGED start PROVE TickHolds'
    BY <1>1, <1>3, GoOnHolds DEF Advance
<1>4. CASE InsertComposite
    BY <1>1, <1>4, InsertsRow DEF InsertComposite
<1>5. CASE Adopt
    BY <1>1, <1>5, InsertsRow DEF Adopt, NeedsCreate
<1>6. CASE Insert
    <2>1. ~Composite /\ terms \in DOMAIN pools
        BY <1>6 DEF Insert, EngineInv, TickHolds
    <2>2. QED BY <1>1, <1>6, <2>1, InsertsRow DEF Insert
<1>7. CASE InsertRecovered
    <2>1. /\ ~Composite /\ terms \in DOMAIN pools
          /\ eng.pc = "resolved" => pools[terms].state = "resolved"
          /\ eng.pc \in {"open", "resolved", "void"}
        BY <1>7 DEF InsertRecovered, EngineInv, TickHolds
    <2> DEFINE state == [open |-> "Active", resolved |-> "Settled", void |-> "Void"][eng.pc]
    <2>2. state \in {"Active", "Settled", "Void"} /\ (state = "Settled" => eng.pc = "resolved")
        BY <2>1
    <2>3. /\ InsertRow(state) /\ eng' = Advance /\ UNCHANGED <<worldVars, pools, fixture>>
          /\ faults' = faults /\ eng.pc # "idle"
        BY <1>7, <2>1 DEF InsertRecovered
    <2> HIDE DEF state
    <2>4. QED BY <1>1, <2>1, <2>2, <2>3, InsertsRow
<1>8. CASE Create
    <2>1. /\ eng.pc = "next" /\ ~Composite /\ terms \notin DOMAIN pools /\ Created
          /\ eng' = [eng EXCEPT !.pc = "insert"]
          /\ UNCHANGED <<worldVars, dbVars>> /\ faults' = faults
        BY <1>8 DEF Create, NeedsCreate
    <2>2. UNCHANGED start
        BY <2>1 DEF worldVars
    <2>3. /\ PoolsWellMade' /\ DOMAIN pools' = DOMAIN pools \cup {terms}
          /\ \A u \in DOMAIN pools : pools'[u] = pools[u]
        BY <2>1, <2>2, CreatesPool
    <2>4. /\ eng' \in TickRecords /\ eng'.pc = "insert" /\ eng'.i = eng.i
          /\ eng'.start = eng.start
        BY <1>1, <2>1 DEF TickRecords
    <2>5. terms' = terms /\ (Composite' <=> Composite)
        BY <2>4 DEF terms, Composite, def
    <2>6. TickHolds'
        BY <2>1, <2>2, <2>3, <2>4, <2>5 DEF EngineInv, TickHolds
    <2>7. QED BY <1>1, <2>1, <2>3, <2>6, OnlyPoolsAndTick
<1>9. CASE CreateFails
    <2>1. /\ eng.pc = "next" /\ ~Composite /\ eng' = Advance
          /\ UNCHANGED <<worldVars, dbVars>> /\ faults' \in 0..MaxFaults
          /\ (terms \notin DOMAIN pools /\ Created) \/ UNCHANGED pools
        BY <1>2, <1>9 DEF CreateFails, NeedsCreate
    <2>2. UNCHANGED start
        BY <2>1 DEF worldVars
    <2>3. /\ PoolsWellMade' /\ DOMAIN pools \subseteq DOMAIN pools'
          /\ \A u \in DOMAIN pools : pools'[u] = pools[u]
        <3>1. CASE UNCHANGED pools
            BY <2>2, <3>1 DEF EngineInv, PoolsWellMade
        <3>2. CASE terms \notin DOMAIN pools /\ Created
            BY <2>1, <2>2, <3>2, CreatesPool
        <3>3. QED BY <2>1, <3>1, <3>2
    <2>4. QED BY <1>3, <2>1, <2>2, <2>3, OnlyPoolsAndTick
<1>10. CASE Recover
    <2>1. /\ eng.pc = "next" /\ ~Composite /\ UNCHANGED <<worldVars, dbVars>> /\ UNCHANGED pools
          /\ faults' = faults
          /\ eng' = IF terms \in DOMAIN pools THEN [eng EXCEPT !.pc = pools[terms].state]
                                              ELSE Advance
        BY <1>10 DEF Recover, NeedsRecovery
    <2>2. UNCHANGED start
        BY <2>1 DEF worldVars
    <2>3. TickHolds'
        <3>1. CASE terms \notin DOMAIN pools
            BY <1>3, <2>1, <2>2, <3>1
        <3>2. CASE terms \in DOMAIN pools
            <4>1. pools[terms].state \in {"open", "resolved", "void"}
                BY <3>2 DEF EngineInv, PoolsWellMade, PoolRecords
            <4> DEFINE st == pools[terms].state
            <4>2. eng' = [eng EXCEPT !.pc = st] /\ st \in {"open", "resolved", "void"}
                BY <2>1, <3>2, <4>1
            <4> HIDE DEF st
            <4>3. /\ eng' \in TickRecords /\ eng'.pc = st /\ eng'.i = eng.i
                  /\ eng'.start = eng.start
                BY <1>1, <4>2 DEF TickRecords
            <4>4. terms' = terms /\ (Composite' <=> Composite)
                BY <4>3 DEF terms, Composite, def
            <4>5. st = "resolved" => pools'[terms].state = "resolved"
                BY <2>1 DEF st
            <4>6. QED BY <2>1, <2>2, <3>2, <4>3, <4>4, <4>5 DEF EngineInv, TickHolds
        <3>3. QED BY <3>1, <3>2
    <2>4. PoolsWellMade'
        BY <2>1, <2>2 DEF EngineInv, PoolsWellMade
    <2>5. QED BY <1>1, <2>1, <2>3, <2>4, OnlyPoolsAndTick
<1>11. CASE RecoverFails
    <2>1. /\ eng.pc = "next" /\ eng' = Advance /\ UNCHANGED <<worldVars, dbVars>>
          /\ UNCHANGED pools /\ faults' \in 0..MaxFaults
        BY <1>2, <1>11 DEF RecoverFails, NeedsRecovery
    <2>2. UNCHANGED start
        BY <2>1 DEF worldVars
    <2>3. PoolsWellMade'
        BY <2>1, <2>2 DEF EngineInv, PoolsWellMade
    <2>4. QED BY <1>3, <2>1, <2>2, <2>3, OnlyPoolsAndTick
<1>12. QED BY TickStartInv, <1>4, <1>5, <1>6, <1>7, <1>8, <1>9, <1>10, <1>11
           DEF EngineSteps, EngineFaults

LEMMA EngineNextInv == EngineInv /\ [EngineNext]_engineVars => EngineInv'
<1> SUFFICES ASSUME EngineInv, [EngineNext]_engineVars PROVE EngineInv'
    OBVIOUS
<1>1. CASE EngineSteps \/ EngineFaults
    BY <1>1, EngineStepsInv
<1>2. CASE World /\ UNCHANGED eng
    <2>1. /\ WorldTypeOK' /\ FixtureFollowsFeed' /\ UNCHANGED pools /\ UNCHANGED rows
          /\ start' # start => start = Kickoff
        BY <1>2, WorldSteps DEF EngineInv
    <2>2. PoolsWellMade' /\ RowsWellMade' /\ RowTellsItsPool'
        BY <1>2, WorldKeepsMarkets DEF EngineInv
    <2>3. TickHolds'
        BY <1>2, <2>1, TickStays DEF EngineInv
    <2>4. CatalogOrLegacy'
        BY <2>1 DEF EngineInv, CatalogOrLegacy
    <2>5. QED BY <2>1, <2>2, <2>3, <2>4 DEF EngineInv
<1>3. CASE Settlement /\ UNCHANGED eng
    <2>1. /\ PoolsWellMade' /\ RowsWellMade' /\ RowTellsItsPool'
          /\ UNCHANGED <<worldVars, fixture, faults>>
          /\ DOMAIN pools' = DOMAIN pools
          /\ \A t \in DOMAIN pools : pools[t].state # "open" => pools'[t] = pools[t]
          /\ DOMAIN rows' = DOMAIN rows
          /\ \A id \in DOMAIN rows :
                rows'[id].origin = rows[id].origin /\ rows'[id].hasPool = rows[id].hasPool
        BY <1>3, SettlementSteps DEF EngineInv
    <2>2. UNCHANGED <<start, now, stats, fixture, faults>>
        BY <2>1 DEF worldVars
    <2>3. WorldTypeOK' /\ FixtureFollowsFeed'
        <3>1. StatusAt(fixture.lastTs)' = StatusAt(fixture.lastTs)
            BY <2>2 DEF StatusAt
        <3>2. QED BY <2>2, <3>1 DEF EngineInv, WorldTypeOK, FixtureFollowsFeed, Known
    <2>4. TickHolds'
        BY <1>3, <2>1, <2>2, TickStays DEF EngineInv
    <2>5. CatalogOrLegacy'
        BY <2>1 DEF EngineInv, CatalogOrLegacy
    <2>6. QED BY <2>1, <2>3, <2>4, <2>5 DEF EngineInv
<1>4. ASSUME NEW t \in CatalogTerms, AuthorTakes(t) PROVE EngineInv'
    <2>1. /\ Known /\ t \notin DOMAIN pools /\ faults' = faults /\ UNCHANGED eng
          /\ UNCHANGED <<worldVars, dbVars>>
        BY <1>4 DEF AuthorTakes
    <2>2. UNCHANGED start /\ start \in Int /\ now \in Int /\ Kickoff \in Int
        BY <2>1, StartsAreIntegers DEF EngineInv, worldVars
    <2>3. fixture.start \in {Kickoff, start} /\ fixture.start \in Int /\ PoolsWellMade
        BY <2>1, <2>2 DEF EngineInv, FixtureFollowsFeed
    <2> DEFINE st == fixture.start
    <2>4. /\ PoolsWellMade' /\ DOMAIN pools' = DOMAIN pools \cup {t}
          /\ \A u \in DOMAIN pools : pools'[u] = pools[u]
        <3>1. ASSUME NEW p \in PoolRecords, p.start = st, p.by # "live" => p.lock = st - LockLead,
                     pools' = Put(pools, t, p)
              PROVE  /\ PoolsWellMade' /\ DOMAIN pools' = DOMAIN pools \cup {t}
                     /\ \A u \in DOMAIN pools : pools'[u] = pools[u]
            BY <2>1, <2>2, <2>3, <3>1, NewPool
        <3>2. st - LockLead \in Int /\ now + 6 \in Int
            BY <2>2, <2>3 DEF LockLead
        <3>3. PICK by \in {"prematch", "live", "champion"} :
                pools' = Put(pools, t,
                  IF by = "live" THEN Pool(now + 6, fixture.start, "live", now, fixture.told)
                                 ELSE Pool(fixture.start - LockLead, fixture.start, by, 0, TRUE))
            BY <1>4 DEF AuthorTakes
        <3>4. CASE by # "live"
            <4> DEFINE p == Pool(st - LockLead, st, by, 0, TRUE)
            <4>2. pools' = Put(pools, t, p)
                BY <3>3, <3>4
            <4>4. st \in Int
                BY <2>3
            <4> HIDE DEF st
            <4>5. PICK lock \in Int : lock = st - LockLead
                BY <3>2
            <4>6. /\ Pool(lock, st, by, 0, TRUE) \in PoolRecords
                  /\ Pool(lock, st, by, 0, TRUE).start = st
                  /\ Pool(lock, st, by, 0, TRUE).lock = lock
                <5>1. by \in {"engine", "prematch", "champion"}
                    BY <3>4
                <5>2. QED BY <4>4, <5>1 DEF Pool, PoolRecords, resolveDeadline
            <4>1. p \in PoolRecords /\ p.start = st /\ p.lock = st - LockLead
                BY <4>5, <4>6
            <4> HIDE DEF p
            <4>3. QED BY <3>1, <4>1, <4>2
        <3>5. CASE by = "live"
            <4>1. fixture.told \in BOOLEAN
                BY DEF EngineInv, FixtureFollowsFeed, FixtureRows
            <4>2. PICK told \in BOOLEAN : told = fixture.told
                BY <4>1
            <4> DEFINE p == Pool(now + 6, st, "live", now, told)
            <4>3. pools' = Put(pools, t, p)
                BY <3>3, <3>5, <4>2
            <4>4. st \in Int
                BY <2>3
            <4> HIDE DEF st
            <4>5. p \in PoolRecords /\ p.start = st /\ p.by = "live"
                BY <2>2, <3>2, <4>4, PoolIsRecord
            <4> HIDE DEF p
            <4>6. QED BY <3>1, <4>3, <4>5
        <3>6. QED BY <3>4, <3>5
    <2>5. TickHolds'
        BY <2>1, <2>2, <2>4, TickStays DEF EngineInv
    <2>6. faults' \in 0..MaxFaults
        BY <2>1 DEF EngineInv, WorldTypeOK
    <2>7. QED BY <2>1, <2>4, <2>5, <2>6, OnlyPoolsAndTick
<1>5. ASSUME NEW lost \in BOOLEAN, Restart(lost) PROVE EngineInv'
    <2>1. Restarts(lost) /\ eng' = Idle
        BY <1>5 DEF Restart
    <2>2. /\ WorldTypeOK' /\ FixtureFollowsFeed' /\ PoolsWellMade' /\ RowsWellMade'
          /\ RowTellsItsPool' /\ (UNCHANGED rows \/ rows' = <<>>)
        BY <2>1, RestartKeeps DEF EngineInv
    <2>3. CatalogOrLegacy'
        BY <2>2 DEF EngineInv, CatalogOrLegacy
    <2>4. TickHolds'
        <3>1. Len(Defs) \in Nat
            BY MarketsAssumption
        <3>2. QED BY <2>1, <3>1 DEF TickHolds, TickRecords, Idle
    <2>5. QED BY <2>2, <2>3, <2>4 DEF EngineInv
<1>6. CASE UNCHANGED engineVars
    <2>1. UNCHANGED <<now, start, stats, pools, rows, fixture, faults, eng>>
        BY <1>6 DEF engineVars, marketVars, worldVars, dbVars
    <2>2. TickHolds'
        BY <2>1, TickStays DEF EngineInv
    <2>3. PoolsWellMade' /\ faults' \in 0..MaxFaults
        BY <2>1 DEF EngineInv, PoolsWellMade, WorldTypeOK
    <2>4. UNCHANGED <<worldVars, dbVars>>
        BY <2>1 DEF worldVars, dbVars
    <2>5. QED BY <2>1, <2>2, <2>3, <2>4, OnlyPoolsAndTick
<1>7. QED BY <1>1, <1>2, <1>3, <1>4, <1>5, <1>6 DEF EngineNext

-----------------------------------------------------------------------------
(***************************************************************************)
(* What follows.                                                           *)
(***************************************************************************)

\* The engine's invariant, whatever fails and whoever else makes pools.
THEOREM EngineInvariance == EngineSpec => []EngineInv
<1>1. QED BY EngineInitInv, EngineNextInv, PTL DEF EngineSpec

\* Every variable of Engine keeps its type.
THEOREM EngineTypeCorrect == EngineSpec => []EngineTypeOK
<1>1. EngineInv => EngineTypeOK
    <2> SUFFICES ASSUME EngineInv PROVE EngineTypeOK
        OBVIOUS
    <2>1. now \in Instants /\ start \in StartTimes /\ stats \in [StatKeys -> 0..MaxCount]
          /\ faults \in 0..MaxFaults
        BY DEF EngineInv, WorldTypeOK
    <2>2. \A t \in DOMAIN pools : pools[t].state \in {"open", "resolved", "void"}
        BY DEF EngineInv, PoolsWellMade, PoolRecords
    <2>3. \A id \in DOMAIN rows : rows[id].state \in {"Active", "Settled", "Void"}
        BY DEF EngineInv, RowsWellMade, RowFits
    <2>4. eng.pc \in {"idle", "next", "insert", "open", "resolved", "void"} /\ eng.i \in 0..Len(Defs)
        BY DEF EngineInv, TickHolds, TickRecords
    <2>5. QED BY <2>1, <2>2, <2>3, <2>4 DEF EngineTypeOK
<1>2. QED BY EngineInvariance, <1>1, PTL

\* A row that names a pool has one, and is settled only as its pool was,
\* however creates end and however often the database is lost and rebuilt.
THEOREM RowsTellTheirPools == EngineSpec => []RowTellsItsPool
<1>1. EngineInv => RowTellsItsPool
    BY DEF EngineInv
<1>2. QED BY EngineInvariance, <1>1, PTL

\* A pool made before the match locks before kickoff and its row says so,
\* unless the match was moved forward after the pool was made.
THEOREM PoolsLockBeforeKickoff == EngineSpec => []LocksBeforeKickoff
<1>1. EngineInv => LocksBeforeKickoff
    <2> SUFFICES ASSUME EngineInv PROVE LocksBeforeKickoff
        OBVIOUS
    <2>1. \A id \in DOMAIN rows : rows[id].hasPool => rows[id].origin = "catalog"
        BY DEF EngineInv, CatalogOrLegacy
    <2>2. QED BY <2>1, WellMadeLocks DEF EngineInv
<1>2. QED BY EngineInvariance, <1>1, PTL

\* The legs of every row of the catalog decide the question the row shows, for
\* all counts of goals, cards and corners.
THEOREM RowsAnswerTheirQuestions ==
    EngineSpec => [](/\ CatalogRowsAnswerTheirQuestion
                     /\ \A id \in DOMAIN rows : rows[id].origin = "catalog" =>
                           \A v \in [StatKeys -> Nat] : AllHold(rows[id].legs, v) <=> Asks(id, v))
<1> DEFINE Answers == \A id \in DOMAIN rows : rows[id].origin = "catalog" =>
                          \A v \in [StatKeys -> Nat] : AllHold(rows[id].legs, v) <=> Asks(id, v)
<1>1. EngineInv => Answers
    <2> SUFFICES ASSUME EngineInv, NEW id \in DOMAIN rows, rows[id].origin = "catalog",
                        NEW v \in [StatKeys -> Nat]
                 PROVE  AllHold(rows[id].legs, v) <=> Asks(id, v)
        OBVIOUS
    <2>1. PICK i \in 1..Len(Defs) : id = Defs[i].slug /\ rows[id].legs = Defs[i].legs
        BY DEF EngineInv, RowsWellMade, RowFits
    <2>2. Defs[i] \in classAMarkets
        BY DefsOfCatalog
    <2>3. QED BY <2>1, <2>2, CatalogAnswers
<1>2. Counts \subseteq [StatKeys -> Nat]
    BY DEF Counts
<1>3. Answers => CatalogRowsAnswerTheirQuestion
    BY <1>2 DEF CatalogRowsAnswerTheirQuestion
<1>4. QED BY EngineInvariance, <1>1, <1>3, PTL
=============================================================================
