------------------------------- MODULE Author -------------------------------
(***************************************************************************)
(* The AI author's in-play and pre-match markets, beside the engine.  Both *)
(* read the fixture's row and the existing markets, wait for the model,    *)
(* and then check, create and insert one proposal after the other against  *)
(* what they read before the wait.  The phases already authored are kept   *)
(* in memory only.  What the model answers is any short list of proposals. *)
(* Between two calls the author may attach champion markets to the match,  *)
(* if it is the final: which match that is, and the rest of their life, is *)
(* Tournament's.  Settlement does not matter here: neither the hashes nor  *)
(* the counts depend on a row's state.                                     *)
(***************************************************************************)
EXTENDS Markets

CONSTANTS
    Proposals,          \* what the model may propose
    MaxAnswer,          \* BOUND on the proposals in one answer
    LiveCap,            \* AI rows of a fixture beyond which nothing is authored in play
    PrematchCap,        \* pre-match markets of one call
    Champions           \* the teams with an open champion market, 1 or 2, if this is the final

ASSUME AuthorAssumption ==
    /\ MaxAnswer \in Nat /\ LiveCap \in Nat /\ PrematchCap \in Nat
    /\ Champions \subseteq 1..2

VARIABLES
    au,                 \* the author's loop and what it holds across its awaits
    fired               \* in memory: phases authored; "prematch" for prematchFired

authorVars == <<au, fired>>
allVars == <<marketVars, authorVars>>

Resting == [pc |-> "idle", kind |-> "live", now |-> 0, f |-> NoFixture,
            hashes |-> {}, count |-> 0, todo |-> <<>>]

AuthorInit == MarketsInit(<<>>) /\ au = Resting /\ fired = {}

AiRows == {id \in DOMAIN rows : rows[id].origin \in {"live", "prematch"}}
ChampionRows == {id \in DOMAIN rows : rows[id].origin = "champion"}
AiIdByPeriod(p) == <<"ai", p.period>>
AiId(p) == <<"ai", p.slug>>

\* The hashes of the rows: a composite's is that of its first leg.  A champion
\* market keeps the hash it had before it was attached.
Hashes == {rows[id].legs[1] : id \in {r \in DOMAIN rows \ ChampionRows : rows[r].legs # <<>>}}

-----------------------------------------------------------------------------
phaseFor(f) ==
    CASE f.status = 2 -> "kickoff"
      [] f.status = 3 -> "ht"
      [] f.status = 4 /\ f.minute >= 55 -> "h2"
      [] OTHER -> "none"

\* With no clock yet the author assumes one.
clock(f) ==
    IF f.minute # NoClock THEN f.minute
    ELSE [kickoff |-> 20, ht |-> 45, h2 |-> 60, none |-> 0][phaseFor(f)]

\* The count in play is of all AI rows of the fixture, champion rows included.
Asking(kind, f) ==
    [Resting EXCEPT !.pc = "asked", !.kind = kind, !.f = f, !.hashes = Hashes,
                    !.now = IF kind = "live" THEN now ELSE 0,
                    !.count = IF kind = "live" THEN Cardinality(AiRows \cup ChampionRows) ELSE 0]

AskLive ==
    /\ au = Resting /\ Known
    /\ Live(fixture) /\ fixture.stats # Unknown
    /\ phaseFor(fixture) # "none" /\ phaseFor(fixture) \notin fired
    /\ fired' = fired \cup {phaseFor(fixture)}
    /\ au' = Asking("live", [fixture EXCEPT !.minute = clock(fixture), !.lastTs = 0])
    /\ UNCHANGED marketVars

\* One call per fixture and process, and none where an earlier process
\* authored; a champion row looks like one of its markets.
AskPrematch ==
    /\ au = Resting /\ Known
    /\ Upcoming(fixture)
    /\ "prematch" \notin fired
    /\ fired' = fired \cup {"prematch"}
    /\ au' = IF \E id \in AiRows \cup ChampionRows : rows[id].origin # "live"
               THEN Resting
               ELSE Asking("prematch", [NoFixture EXCEPT !.start = fixture.start])
    /\ UNCHANGED marketVars

\* No answer, or one the schema rejects, is the empty list.
Answer(list) ==
    /\ au.pc = "asked"
    /\ au' = IF list = <<>> THEN Resting ELSE [au EXCEPT !.pc = "next", !.todo = list]
    /\ UNCHANGED <<marketVars, fired>>

-----------------------------------------------------------------------------
p == Head(au.todo)
pTerms == ProposedTerms(p)

NextAlways(a) == [a EXCEPT !.pc = "next", !.todo = Tail(@)]
NextProposal(a) ==
    IF Len(a.todo) = 1 THEN Resting ELSE [a EXCEPT !.pc = "next", !.todo = Tail(@)]

UnderAnyCap == TRUE
UnderCap == au.count < IF au.kind = "live" THEN LiveCap ELSE PrematchCap

\* The guard sees the counts of the row read before the call; before the
\* match, none.
Fair ==
    IF au.kind = "live" THEN inPlayGuard(p, au.f.stats, au.f.status, au.f.minute)
                        ELSE inPlayGuard(p, NoStats, 1, 0)
Accepted == InGrammar(p) /\ UnderCap /\ Fair /\ pTerms \notin au.hashes

lockTs ==
    IF au.kind = "prematch" THEN au.f.start - LockLead
    ELSE LET late == IF au.now + 25 < au.f.start + 85 THEN au.now + 25 ELSE au.f.start + 85
         IN IF au.now + 6 > late THEN au.now + 6 ELSE late

AiPool == pools' = Put(pools, pTerms, Pool(lockTs, au.f.start, au.kind, au.now, au.f.told))

Reject ==
    /\ au.pc = "next" /\ ~Accepted
    /\ au' = NextProposal(au)
    /\ UNCHANGED <<marketVars, fired>>

CreateAi ==
    /\ au.pc = "next" /\ Accepted /\ pTerms \notin DOMAIN pools
    /\ AiPool
    /\ au' = [au EXCEPT !.pc = "insert"]
    /\ UNCHANGED <<worldVars, dbVars, faults, fired>>

\* On a conflict the insert does nothing, and the pool stays without a row.
InsertAi ==
    /\ au.pc = "insert"
    /\ rows' = PutNew(rows, AiId(p), Row(<<pTerms>>, TRUE, lockTs, "Active", au.kind))
    /\ au' = NextProposal([au EXCEPT !.hashes = @ \cup {pTerms}, !.count = @ + 1])
    /\ UNCHANGED <<worldVars, pools, fixture, faults, fired>>

AdoptInUse ==
    /\ au.pc = "next" /\ Accepted /\ pTerms \in DOMAIN pools
    /\ au' = [au EXCEPT !.pc = "insert"]
    /\ UNCHANGED <<marketVars, fired>>

\* Any error, "already in use" among them, drops the proposal.
DropInUse ==
    /\ au.pc = "next" /\ Accepted /\ pTerms \in DOMAIN pools
    /\ au' = NextProposal(au)
    /\ UNCHANGED <<marketVars, fired>>

CreateAiFails ==
    /\ au.pc = "next" /\ Accepted /\ pTerms \notin DOMAIN pools
    /\ faults < MaxFaults /\ faults' = faults + 1
    /\ AiPool \/ UNCHANGED pools
    /\ au' = NextProposal(au)
    /\ UNCHANGED <<worldVars, dbVars, fired>>

\* A champion market is attached to the final: the author's tick and its
\* calls never overlap.  A pool already in use is not shown in its row.
ChampionAttaches(team) ==
    /\ au = Resting /\ Known /\ fixture.status # 5
    /\ <<"champion", team>> \notin DOMAIN rows
    /\ LET legs == ChampionLegs(team)  lock == fixture.start - LockLead IN
        /\ pools' = PutNew(pools, legs[1], Pool(lock, fixture.start, "champion", 0, TRUE))
        /\ \/ /\ rows' = Put(rows, <<"champion", team>>,
                            Row(legs, legs[1] \notin DOMAIN pools, lock, "Active", "champion"))
              /\ UNCHANGED faults
           \/ /\ faults < MaxFaults /\ faults' = faults + 1
              /\ UNCHANGED rows
    /\ UNCHANGED <<worldVars, fixture, authorVars>>

Restart(lost) == Restarts(lost) /\ au' = Resting /\ fired' = {}

\* The engine, whose steps are Engine's: it keeps the row of a listed fixture,
\* and creates, adopts or (after kickoff) recovers a pool of the catalog, with
\* its row or (a call that failed after it landed) without.  A tick begun
\* before kickoff, or before the match was moved, may act after it.
EngineSyncs ==
    /\ Listed /\ fixture' = Upserted
    /\ UNCHANGED <<worldVars, pools, rows, faults, authorVars>>

EngineMakes(d) ==
    /\ Known /\ Len(d.legs) = 1 /\ d.slug \notin DOMAIN rows
    /\ \E st \in {Kickoff, start} :
        /\ pools' = PutNew(pools, d.legs[1], Pool(st - LockLead, st, "engine", 0, TRUE))
        /\ rows' \in {rows, Put(rows, d.slug, Row(d.legs, TRUE, st - LockLead, "Active", "catalog"))}
    /\ UNCHANGED <<worldVars, fixture, faults, authorVars>>

Answers == UNION {[1..n -> Proposals] : n \in 0..MaxAnswer}

AuthorNext ==
    \/ World /\ UNCHANGED authorVars
    \/ EngineSyncs \/ (\E i \in 1..Len(Defs) : EngineMakes(Defs[i]))
    \/ AskLive \/ AskPrematch \/ (\E list \in Answers : Answer(list))
    \/ Reject \/ CreateAi \/ InsertAi \/ DropInUse \/ CreateAiFails
    \/ (\E team \in Champions : ChampionAttaches(team))
    \/ \E lost \in BOOLEAN : Restart(lost)

AuthorSpec == AuthorInit /\ [][AuthorNext]_allVars

-----------------------------------------------------------------------------
(***************************************************************************)
(* Properties                                                              *)
(***************************************************************************)
AuthorTypeOK ==
    /\ now \in Instants /\ start \in StartTimes
    /\ stats \in [StatKeys -> 0..MaxCount]
    /\ \A t \in DOMAIN pools : /\ pools[t].state \in {"open", "resolved", "void"}
                               /\ pools[t].by \in {"engine", "live", "prematch", "champion"}
    /\ \A id \in DOMAIN rows : /\ rows[id].state \in {"Active", "Settled", "Void"}
                               /\ rows[id].hasPool \in BOOLEAN
    /\ au.pc \in {"idle", "asked", "next", "insert"}
    /\ au.pc \in {"next", "insert"} <=> au.todo # <<>>
    /\ fired \subseteq {"kickoff", "ht", "h2", "prematch"}
    /\ faults \in 0..MaxFaults

\* Two rows share a pool only when the engine adopted the pool of an AI or
\* champion market for a catalog row: the author itself never takes over a
\* pool (autoMarket.ts 44-64, 201-206; aiMarkets.ts 545-569, 753-777, 954-967).
PoolsSharedByAdoptionOnly ==
    \A a, b \in DOMAIN rows :
        a # b /\ rows[a].hasPool /\ rows[b].hasPool /\ rows[a].legs[1] = rows[b].legs[1]
        => /\ {rows[a].origin, rows[b].origin} \cap {"live", "prematch", "champion"} # {}
           /\ {rows[a].origin, rows[b].origin} \cap {"catalog"} # {}
           /\ pools[rows[a].legs[1]].by # "engine"

\* However the answers, restarts and phases fall, a fixture never carries
\* more in-play and pre-match markets than the rent budget; but when the match
\* was moved forward, a replayed record may let pre-match ones follow
\* (aiMarkets.ts 511, 623-671).
AiRowsCapped ==
    start >= Kickoff =>
        Cardinality(AiRows) <= IF LiveCap > PrematchCap THEN LiveCap ELSE PrematchCap

\* An in-play market is authored from a match that has begun; and unless the
\* last record of the fixture's row had no documented status, from one that is
\* still on or ended less than the ten minutes ago that a record may be old.
\* Unless it is authored in the last minutes it locks before full time, so
\* that the final record can resolve it, except when the match was moved
\* forward and the row still has the later start (aiMarkets.ts 415-431, 535-544).
FullTime == start + FullTimeAfter
InPlayPoolsCanResolve ==
    \A t \in DOMAIN pools : pools[t].by = "live" =>
        /\ start <= pools[t].madeAt /\ pools[t].madeAt < pools[t].start + 150
        /\ pools[t].told => pools[t].madeAt < FullTime + 9
        /\ pools[t].start <= start /\ pools[t].lock >= FullTime =>
              pools[t].lock = pools[t].madeAt + 6

\* Unless something fails, a pool the author pays for in play or before the
\* match is shown to those who may stake in it, except when another market
\* has the slug of its proposal (aiMarkets.ts 562-602, 760-799).
Displays(t) == \E id \in DOMAIN rows : rows[id].hasPool /\ rows[id].legs[1] = t
SlugTaken(t) ==
    \E x, y \in Proposals : /\ x.slug = y.slug /\ ProposedTerms(x) = t
                            /\ ProposedTerms(y) # t /\ Displays(ProposedTerms(y))
AiPoolsShown ==
    faults = 0 =>
        \A t \in DOMAIN pools : pools[t].by \in {"live", "prematch"} =>
            (au.pc = "insert" /\ pTerms = t) \/ Displays(t) \/ SlugTaken(t)

-----------------------------------------------------------------------------
(***************************************************************************)
(* The inductive invariant.                                                *)
(***************************************************************************)
\* An instant at which the author may find the row f of the fixture in play.
InPlay(t, st, told) ==
    start <= t /\ t <= now /\ t < st + 150 /\ (told => t < FullTime + 9)

\* What an in-play pool was made with.
InPlayPoolsWellMade ==
    \A t \in DOMAIN pools : pools[t].by = "live" =>
        /\ InPlay(pools[t].madeAt, pools[t].start, pools[t].told)
        /\ pools[t].lock = pools[t].madeAt + 6 \/ pools[t].lock <= pools[t].start + 85

\* An AI row has the pool the author made for it, and that pool no other row
\* of the author; its legs are a proposal's, which its id names.
AiRowsWellMade ==
    /\ \A id \in DOMAIN rows : rows[id].origin \in {"catalog", "live", "prematch", "champion"}
    /\ \A id \in AiRows :
          /\ rows[id].hasPool
          /\ pools[rows[id].legs[1]].by = rows[id].origin
          /\ \E q \in Proposals : id = AiId(q) /\ rows[id].legs = <<ProposedTerms(q)>>
    /\ \A q \in Proposals : AiId(q) \in DOMAIN rows => AiId(q) \in AiRows
    /\ \A id \in ChampionRows :
          /\ rows[id].hasPool => pools[rows[id].legs[1]].by = "champion"
          /\ \E team \in Champions : id = <<"champion", team>> /\ rows[id].legs = ChampionLegs(team)
    /\ \A a, b \in AiRows : a # b => rows[a].legs[1] # rows[b].legs[1]
    /\ IsFiniteSet(AiRows) /\ AiRowsCapped

\* What the author holds across its awaits.
AuthorHolds ==
    /\ au = [pc |-> au.pc, kind |-> au.kind, now |-> au.now, f |-> au.f,
             hashes |-> au.hashes, count |-> au.count, todo |-> au.todo]
    /\ au.pc \in {"idle", "asked", "next", "insert"} /\ au.kind \in {"live", "prematch"}
    /\ au.now \in Int /\ au.f \in FixtureRows /\ au.count \in Nat
    /\ au.todo \in Seq(Proposals) /\ (au.pc \in {"next", "insert"} <=> au.todo # <<>>)
    /\ fired \subseteq {"kickoff", "ht", "h2", "prematch"}
    /\ au.pc # "idle" =>
          /\ au.f.start \in {Kickoff, start}
          /\ au.kind = "live" => InPlay(au.now, au.f.start, au.f.told)
          /\ start >= Kickoff => Cardinality(AiRows) <= au.count
    /\ au.pc = "insert" =>
          /\ UnderCap
          /\ pTerms \in DOMAIN pools /\ pools[pTerms].by = au.kind
          /\ \A id \in DOMAIN rows : rows[id].hasPool /\ rows[id].legs[1] = pTerms =>
                rows[id].origin = "catalog"

AuthorInv ==
    /\ WorldTypeOK /\ FixtureFollowsFeed
    /\ PoolsWellMade /\ RowsWellMade /\ RowTellsItsPool
    /\ InPlayPoolsWellMade /\ AiRowsWellMade /\ AuthorHolds /\ AiPoolsShown
=============================================================================
