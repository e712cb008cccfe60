------------------------------- MODULE Engine -------------------------------
(***************************************************************************)
(* The auto-market engine, on one fixture: it creates the pool and then    *)
(* the row of every market of the catalog, and after kickoff rebuilds lost *)
(* rows from the pools.                                                    *)
(*                                                                         *)
(* One tick is a sequence of awaits: between two of them time passes, the  *)
(* match goes on, others create pools, and the process may crash.  A call  *)
(* may fail, or land although it reports an error.                         *)
(***************************************************************************)
EXTENDS Markets

VARIABLE
    eng                 \* the engine's tick

engineVars == <<marketVars, eng>>

Idle == [pc |-> "idle", i |-> 0, start |-> 0, creating |-> FALSE]

\* A row minted by an older release with period-scoped terms: no proof leaf
\* matches them.
LegacyId == <<"ou-goals", 1, 9>>
Legacy == Row(<<>>, FALSE, 0, "Active", "legacy")

EngineInit == MarketsInit(Put(<<>>, LegacyId, Legacy)) /\ eng = Idle

-----------------------------------------------------------------------------
(***************************************************************************)
(* The engine's tick: retire legacy rows, upsert the fixture, then either  *)
(* create what is missing or, after kickoff, recover it from the chain.    *)
(* now and StartTime stay those of the tick's start.                       *)
(***************************************************************************)
\* The first def after the i-th that has no row; defs with a row are skipped.
Missing(i) == {j \in i+1..Len(Defs) : Defs[j].slug \notin DOMAIN rows}
GoOnPastTheEnd(e) == [e EXCEPT !.pc = "next", !.i = @ + 1]
GoOn(e) ==
    IF Missing(e.i) = {} THEN Idle
    ELSE [e EXCEPT !.pc = "next",
                   !.i = CHOOSE j \in Missing(e.i) : \A k \in Missing(e.i) : j <= k]
Advance == GoOn(eng)

\* Only a fixture the feed lists is looked at: the listing ends a day or two
\* after kickoff, before the recovery window does.
TickStart ==
    /\ eng = Idle
    /\ rows' = [id \in DOMAIN rows |->
                  IF rows[id].origin = "legacy" /\ rows[id].state = "Active"
                    THEN [rows[id] EXCEPT !.state = "Void"] ELSE rows[id]]
    /\ fixture' = IF Listed THEN Upserted ELSE fixture
    /\ eng' = IF \/ ~Listed
                 \/ start <= now - RECOVERY_WINDOW
                 \/ start > now + marketHorizon
                THEN Idle
                ELSE GoOn([Idle EXCEPT !.start = start, !.creating = start > now])
    /\ UNCHANGED <<worldVars, pools, faults>>

def == Defs[eng.i]
terms == def.legs[1]
Composite == Len(def.legs) > 1

InsertRow(state) ==
    rows' = Put(rows, def.slug,
                Row(def.legs, ~Composite, eng.start - LockLead, state, "catalog"))

\* A composite market has no pool; recovery writes it as AwaitingRoot.
InsertComposite ==
    /\ eng.pc = "next" /\ Composite
    /\ InsertRow("Active")
    /\ eng' = Advance
    /\ UNCHANGED <<worldVars, pools, fixture, faults>>

NeedsCreate == eng.pc = "next" /\ ~Composite /\ eng.creating
NeedsRecovery == eng.pc = "next" /\ ~Composite /\ ~eng.creating

CreatedWithoutLead == pools' = Put(pools, terms, Pool(eng.start + LockLead, eng.start, "engine", 0, TRUE))
Created == pools' = Put(pools, terms, Pool(eng.start - LockLead, eng.start, "engine", 0, TRUE))

\* createMarket succeeds; the row follows after the throttle.
Create ==
    /\ NeedsCreate /\ terms \notin DOMAIN pools
    /\ Created
    /\ eng' = [eng EXCEPT !.pc = "insert"]
    /\ UNCHANGED <<worldVars, dbVars, faults>>

Insert ==
    /\ eng.pc = "insert"
    /\ InsertRow("Active")
    /\ eng' = Advance
    /\ UNCHANGED <<worldVars, pools, fixture, faults>>

AdoptNothing ==
    /\ NeedsCreate /\ terms \in DOMAIN pools
    /\ eng' = Advance
    /\ UNCHANGED <<worldVars, pools, dbVars, faults>>

\* "already in use": the pool is there, from an earlier try or another author.
Adopt ==
    /\ NeedsCreate /\ terms \in DOMAIN pools
    /\ InsertRow("Active")
    /\ eng' = Advance
    /\ UNCHANGED <<worldVars, pools, fixture, faults>>

AdoptAnything ==
    /\ NeedsCreate /\ faults < MaxFaults
    /\ InsertRow("Active")
    /\ faults' = faults + 1
    /\ eng' = Advance
    /\ UNCHANGED <<worldVars, pools, fixture>>

\* Any other error: the market waits for the next tick.
CreateFails ==
    /\ NeedsCreate /\ faults < MaxFaults
    /\ \/ terms \notin DOMAIN pools /\ Created
       \/ UNCHANGED pools
    /\ faults' = faults + 1
    /\ eng' = Advance
    /\ UNCHANGED <<worldVars, dbVars>>

\* recoverFixtureMarkets: fetchNullable, and after a pause the row, with the
\* state the pool had at the fetch.
Recover ==
    /\ NeedsRecovery
    /\ eng' = IF terms \in DOMAIN pools
                THEN [eng EXCEPT !.pc = pools[terms].state] ELSE Advance
    /\ UNCHANGED <<worldVars, pools, dbVars, faults>>

RecoverFails ==
    /\ NeedsRecovery /\ faults < MaxFaults
    /\ faults' = faults + 1
    /\ eng' = Advance
    /\ UNCHANGED <<worldVars, pools, dbVars>>

InsertRecovered ==
    /\ eng.pc \in {"open", "resolved", "void"}
    /\ InsertRow([open |-> "Active", resolved |-> "Settled", void |-> "Void"][eng.pc])
    /\ eng' = Advance
    /\ UNCHANGED <<worldVars, pools, fixture, faults>>

EngineSteps ==
    \/ TickStart \/ InsertComposite \/ Create \/ Insert \/ Adopt
    \/ Recover \/ InsertRecovered

EngineFaults == CreateFails \/ RecoverFails

Restart(lost) == Restarts(lost) /\ eng' = Idle

\* The AI author creates a pool on terms of the catalog: before the match, in
\* play, or attaching a champion market.  Its rows are Author's.
AuthorTakes(t) ==
    /\ Known /\ t \notin DOMAIN pools
    /\ \E by \in {"prematch", "live", "champion"} :
        /\ CASE by = "prematch" -> Upcoming(fixture)
              [] by = "live"     -> Live(fixture) /\ fixture.stats # Unknown
              [] by = "champion" -> t \in ChampionTerms /\ fixture.status # 5
        /\ pools' = Put(pools, t,
              IF by = "live" THEN Pool(now + 6, fixture.start, "live", now, fixture.told)
                             ELSE Pool(fixture.start - LockLead, fixture.start, by, 0, TRUE))
    /\ UNCHANGED <<worldVars, dbVars, eng, faults>>

EngineNext ==
    \/ EngineSteps \/ EngineFaults
    \/ (World \/ Settlement) /\ UNCHANGED eng
    \/ \E t \in CatalogTerms : AuthorTakes(t)
    \/ \E lost \in BOOLEAN : Restart(lost)

\* The loop runs for ever; nothing makes time pass or a call succeed.
EngineSpec ==
    EngineInit /\ [][EngineNext]_engineVars /\ WF_engineVars(EngineSteps)

-----------------------------------------------------------------------------
EngineTypeOK ==
    /\ now \in Instants /\ start \in StartTimes
    /\ stats \in [StatKeys -> 0..MaxCount]
    /\ \A t \in DOMAIN pools : pools[t].state \in {"open", "resolved", "void"}
    /\ \A id \in DOMAIN rows : rows[id].state \in {"Active", "Settled", "Void"}
    /\ eng.pc \in {"idle", "next", "insert", "open", "resolved", "void"}
    /\ eng.i \in 0..Len(Defs)
    /\ faults \in 0..MaxFaults

TickRecords ==
    [pc : {"idle", "next", "insert", "open", "resolved", "void"},
     i : 0..Len(Defs), start : Int, creating : BOOLEAN]

\* What the tick holds across its awaits: the def it is at, a start the feed
\* gave, and, once it has created or looked up a pool, that pool.
TickHolds ==
    /\ eng \in TickRecords
    /\ eng.pc # "idle" => eng.i \in 1..Len(Defs) /\ eng.start \in {Kickoff, start}
    /\ eng.pc \in {"insert", "open", "resolved", "void"} =>
          ~Composite /\ terms \in DOMAIN pools
    /\ eng.pc = "resolved" => pools[terms].state = "resolved"

\* Every other row is a legacy one, without a pool.
CatalogOrLegacy ==
    \A id \in DOMAIN rows :
        rows[id].origin = "catalog" \/ (rows[id].origin = "legacy" /\ ~rows[id].hasPool)

\* The inductive invariant.
EngineInv ==
    /\ WorldTypeOK /\ FixtureFollowsFeed
    /\ PoolsWellMade /\ RowsWellMade /\ CatalogOrLegacy
    /\ RowTellsItsPool /\ TickHolds

\* The legs of a catalog row decide the question it shows, whatever the
\* match's counts (templates.ts 66-223).
Counts == {[k \in StatKeys |-> IF k % 2 = 1 THEN x ELSE y] : x, y \in 0..2}
CatalogRowsAnswerTheirQuestion ==
    \A id \in DOMAIN rows : rows[id].origin = "catalog" =>
        \A v \in Counts : AllHold(rows[id].legs, v) <=> Asks(id, v)

\* Within the horizon a pool of the catalog gets its row, however the create
\* ended, whoever made the pool and however often the database is lost, unless
\* the feed no longer lists the match (autoMarket.ts 128-209).
Shown(t) == \E id \in DOMAIN rows : rows[id].origin = "catalog" /\ rows[id].legs = <<t>>
PoolGetsItsRow ==
    \A t \in CatalogTerms :
        t \in DOMAIN pools /\ start <= now + marketHorizon ~> Shown(t) \/ ~Listed
=============================================================================
