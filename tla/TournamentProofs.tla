-------------------------- MODULE TournamentProofs --------------------------
(***************************************************************************)
(* Proofs about Session and Tournament, for every knock-out bracket, every *)
(* answer the model may give and any number of failed calls, crashes and   *)
(* lost records.                                                           *)
(***************************************************************************)
EXTENDS Tournament, TLAPS

(***************************************************************************)
(* The session.                                                            *)
(***************************************************************************)
LEMMA SessionStarts == SessionInit => SessionInv
BY SessionAssumption DEF SessionInit, SessionInv, SessionTypeOK

\* A call to the feed, or a step that makes none.
LEMMA CallsKeepSession ==
    SessionInv /\ UNCHANGED <<main, token, file, subs, lapsed>> /\ jwt' \in {jwt, "live"}
        /\ (UNCHANGED faults \/ Fault) => SessionInv'
BY SessionAssumption DEF SessionInv, SessionTypeOK, Fault

LEMMA SessionMoves ==
    SessionInv /\ (Boots \/ BuildContextThrows \/ SessionEnvironment \/ \E lost \in BOOLEAN : RestartSession(lost))
        => SessionInv'
<1> SUFFICES ASSUME SessionInv,
                    \/ Boots \/ BuildContextThrows \/ SessionEnvironment
                    \/ \E lost \in BOOLEAN : RestartSession(lost)
             PROVE  SessionInv'
    OBVIOUS
<1> USE SessionAssumption DEF SessionInv, SessionTypeOK, Fault
<1>1. CASE Probe
    <2>1. jwt' \in {jwt, "live"} /\ (UNCHANGED faults \/ Fault)
        BY <1>1 DEF Probe, Get, GetFails, Renewed
    <2>2. /\ main' \in {"up", "renew", "subscribe"}
          /\ token' = token /\ file' \in {token, file}
          /\ UNCHANGED <<subs, lapsed>>
        BY <1>1 DEF Probe, GoUp
    <2>3. QED BY <2>1, <2>2
<1>2. CASE RenewJwt
    BY <1>2 DEF RenewJwt
<1>3. CASE SubscribeFreeTier
    BY <1>3 DEF SubscribeFreeTier
<1>4. CASE Activate
    BY <1>4 DEF Activate, GoUp, NewToken
<1>5. CASE BuildContextThrows
    BY <1>5 DEF BuildContextThrows
<1>6. CASE JwtExpires
    BY <1>6 DEF JwtExpires
<1>7. CASE SubscriptionLapses
    <2>1. token \in 1..subs
        BY <1>7 DEF SubscriptionLapses
    <2>2. /\ lapsed' = lapsed \cup {token} /\ main # "activate"
          /\ UNCHANGED <<main, jwt, token, file, subs, faults>>
        BY <1>7 DEF SubscriptionLapses
    <2>3. QED BY <2>1, <2>2
<1>8. ASSUME NEW lost \in BOOLEAN, RestartSession(lost) PROVE SessionInv'
    BY <1>8 DEF RestartSession, Loaded
<1>9. QED BY <1>1, <1>2, <1>3, <1>4, <1>5, <1>6, <1>7, <1>8 DEF Boots, SessionEnvironment

(***************************************************************************)
(* What lasts: a match that is over, and the teams that entered.           *)
(***************************************************************************)
MatchesStand == \A f \in Fixtures : Ended(f) => phase'[f] = "over" /\ outcome'[f] = outcome[f]

LEMMA WinnersPlayed ==
    FixtureRowsLag => \A f \in Fixtures : GoalWinner(f) \subseteq Pair(f) /\ ScoredWinner(f) \subseteq Pair(f)
<1> SUFFICES ASSUME FixtureRowsLag, NEW f \in Fixtures
             PROVE  GoalWinner(f) \subseteq Pair(f) /\ ScoredWinner(f) \subseteq Pair(f)
    OBVIOUS
<1>1. GoalWinner(f) \subseteq Pair(f)
    BY DEF GoalWinner, Pair
<1>2. db[f].score \in {"none", "old", "final"}
    BY DEF FixtureRowsLag
<1>3. QED BY <1>1, <1>2 DEF ScoredWinner

LEMMA AliveEntered == FixtureRowsLag => aliveTeams \subseteq Entered
<1> SUFFICES ASSUME FixtureRowsLag, NEW t \in aliveTeams PROVE t \in Entered
    OBVIOUS
<1>1. CASE t \in WonBefore
    BY <1>1 DEF Entered
<1>2. ASSUME NEW f \in Fixtures, db[f].listed, t \in Pair(f) PROVE t \in Entered
    BY <1>2 DEF Entered
<1>3. QED BY <1>1, <1>2, WinnersPlayed DEF aliveTeams

LEMMA EnteredAreTeams == Entered \subseteq Teams
BY TournamentAssumption DEF Entered, Teams

\* A team that entered is alive, or it is out, or its win is not known.
LEMMA Fate ==
    ASSUME BracketFollowed, FixtureRowsLag, NEW t \in Entered, t \notin aliveTeams
    PROVE  Out(t) \/ WinUnknown(t)
<1>1. t \notin WonBefore
    BY DEF aliveTeams
<1>2. PICK f \in Fixtures : db[f].listed /\ t \in Pair(f)
    BY <1>1 DEF Entered
<1>3. fixtureDone(f) /\ t \notin ScoredWinner(f)
    BY <1>2 DEF aliveTeams
<1>4. Ended(f)
    BY <1>3 DEF fixtureDone, FixtureRowsLag, Ended
<1>5. CASE Victor(f) # t
    BY <1>2, <1>4, <1>5 DEF Out
<1>6. CASE Victor(f) = t /\ db[f].score # "final"
    BY <1>4, <1>6 DEF WinUnknown
<1>7. CASE Victor(f) = t /\ db[f].score = "final"
    <2>1. t \notin GoalWinner(f)
        BY <1>3, <1>7 DEF ScoredWinner
    <2>2. GoalWinner(f) = {}
        BY <1>7, <2>1 DEF GoalWinner, Victor, VictorIf
    <2>3. QED BY <1>4, <1>7, <2>2 DEF WinUnknown
<1>8. QED BY <1>5, <1>6, <1>7

LEMMA OutStaysOut == MatchesStand => \A t : Out(t) => Out(t)'
<1> SUFFICES ASSUME MatchesStand, NEW t, Out(t) PROVE Out(t)'
    OBVIOUS
<1>1. PICK f \in Fixtures : Ended(f) /\ t \in Pair(f) /\ Victor(f) # t
    BY DEF Out
<1>2. Ended(f)' /\ Victor(f)' = Victor(f)
    BY <1>1 DEF MatchesStand, Ended, Victor
<1>3. QED BY <1>1, <1>2 DEF Out

\* The rows of a match that is over are not written while the model is asked.
LEMMA UnknownStaysUnknown ==
    ASSUME MatchesStand, \A f \in Fixtures : Ended(f) => db'[f] = db[f]
    PROVE  \A t : WinUnknown(t) => WinUnknown(t)'
<1> SUFFICES ASSUME NEW t, WinUnknown(t) PROVE WinUnknown(t)'
    OBVIOUS
<1>1. PICK f \in Fixtures :
            /\ Ended(f) /\ Victor(f) = t
            /\ GoalWinner(f) = {} \/ db[f].score # "final"
    BY DEF WinUnknown
<1>2. phase'[f] = "over" /\ outcome'[f] = outcome[f] /\ db'[f] = db[f]
    BY <1>1 DEF MatchesStand
<1>3. Ended(f)' /\ Victor(f)' = t
    BY <1>1, <1>2 DEF Ended, Victor
<1>4. GoalWinner(f)' = GoalWinner(f)
    BY <1>2 DEF GoalWinner
<1>5. QED BY <1>1, <1>2, <1>3, <1>4 DEF WinUnknown

LEMMA FitsLater ==
    ASSUME MatchesStand, Entered \subseteq Entered', NEW r, ChampionFits(r)
    PROVE  ChampionFits(r)'
<1>1. /\ r \in ChampionRecords
      /\ r.class = "C" => r.team \in Teams /\ (Detached(r) => r.team \in Entered')
    BY DEF ChampionFits
<1>2. CASE r.at = None
    BY <1>1, <1>2 DEF ChampionFits
<1>3. CASE r.at # None
    <2>1. r.at \in Fixtures
        BY <1>3 DEF ChampionFits, ChampionRecords
    <2>2. Ended(r.at) => Ended(r.at)' /\ LeadHolds(r)' = LeadHolds(r)
        BY <2>1 DEF MatchesStand, Ended, LeadHolds, GoalWinner
    <2>3. QED BY <1>1, <1>3, <2>2 DEF ChampionFits
<1>4. QED BY <1>2, <1>3

\* Rows that stay are as good as before.
LEMMA RowsStay ==
    ASSUME RowsFit, MatchesStand, Entered \subseteq Entered',
           DOMAIN rows' \subseteq DOMAIN rows, \A id \in DOMAIN rows' : rows'[id] = rows[id]
    PROVE  RowsFit'
<1> SUFFICES ASSUME NEW id \in DOMAIN rows' PROVE ChampionFits(rows[id])'
    BY DEF RowsFit
<1>1. PICK r : r = rows[id]
    OBVIOUS
<1>2. ChampionFits(r)
    BY <1>1 DEF RowsFit
<1>3. ChampionFits(r)'
    BY <1>2, FitsLater
<1>4. rows'[id] = r
    BY <1>1
<1>5. QED BY <1>3, <1>4 DEF ChampionFits

LEMMA EnteredGrows ==
    (\A f \in Fixtures : db[f].listed => db'[f].listed) => Entered \subseteq Entered'
BY DEF Entered

\* What the tick remembers survives what leaves the tick and the rows alone,
\* and does not write the row of a match that is over.
LEMMA TickStays ==
    ASSUME TickRemembers, UNCHANGED <<rows, tk>>, MatchesStand,
           \A f \in Fixtures : /\ db[f].listed => db'[f].listed
                               /\ Ended(f) => db'[f] = db[f]
    PROVE  TickRemembers'
<1>1. Entered \subseteq Entered'
    BY EnteredGrows
<1>2. \A f \in tk'.stale : Ended(f)'
    BY DEF TickRemembers, MatchesStand, Ended
<1>3. ASSUME tk.pc = "asking", NEW id \in DOMAIN rows,
             rows[id].class = "C", Detached(rows[id]), rows[id].team \notin tk.teams
      PROVE  Out(rows[id].team)' \/ WinUnknown(rows[id].team)'
    <2>1. Out(rows[id].team) \/ WinUnknown(rows[id].team)
        BY <1>3 DEF TickRemembers
    <2>2. PICK t : t = rows[id].team
        OBVIOUS
    <2>3. Out(t) \/ WinUnknown(t)
        BY <2>1, <2>2
    <2>4. Out(t)' \/ WinUnknown(t)'
        BY <2>3, OutStaysOut, UnknownStaysUnknown
    <2>5. t = rows'[id].team
        BY <2>2
    <2>6. QED BY <2>4, <2>5 DEF Out, WinUnknown
<1>4. tk'.pc = "asking" =>
          /\ tk'.teams \subseteq Entered'
          /\ \A id \in DOMAIN rows' : rows'[id].class = "C" /\ Detached(rows[id])' =>
                rows'[id].team \in tk'.teams \/ Out(rows[id].team)' \/ WinUnknown(rows[id].team)'
    <2>1. tk.pc = "asking" => tk.teams \subseteq Entered
        BY DEF TickRemembers
    <2>2. QED BY <1>1, <1>3, <2>1 DEF Detached
<1>5. QED
    <2>1. tk \in [pc : {"idle", "refresh", "asking", "attach"}, stale : SUBSET Fixtures,
                  teams : SUBSET Teams, final : Fixtures \cup {None}, todo : SUBSET DOMAIN rows]
        BY DEF TickRemembers
    <2>2. /\ tk.pc = "attach" <=> tk.todo # {}
          /\ tk.pc = "attach" => tk.final \in Fixtures /\ db[tk.final].listed
          /\ \A id \in tk.todo : Detached(rows[id])
        BY DEF TickRemembers
    <2>3. QED BY <1>2, <1>4, <2>1, <2>2 DEF TickRemembers, Detached

(***************************************************************************)
(* The world.                                                              *)
(***************************************************************************)
LEMMA ListHolds ==
    ASSUME ServerInv, NEW f \in Fixtures, List(f)
    PROVE  ServerInv' /\ MatchesStand
<1>1. SessionInv'
    BY CallsKeepSession DEF ServerInv, List, sessionVars
<1>2. MatchesStand
    BY DEF ServerInv, BracketFollowed, List, MatchesStand, Ended
<1>3. BracketFollowed'
    BY TournamentAssumption DEF ServerInv, BracketFollowed, List, Ended
<1>4. FixtureRowsLag' /\ \A g \in Fixtures : /\ db[g].listed => db'[g].listed
                                             /\ Ended(g) => db'[g] = db[g]
    BY DEF ServerInv, BracketFollowed, FixtureRowsLag, List, Ended
<1>5. RowsFit'
    BY <1>2, <1>4, EnteredGrows, RowsStay DEF ServerInv, List
<1>6. TickRemembers'
    BY <1>2, <1>4, TickStays DEF ServerInv, List
<1>7. QED BY <1>1, <1>2, <1>3, <1>4, <1>5, <1>6 DEF ServerInv, List

LEMMA EndsHolds ==
    ASSUME ServerInv, NEW f \in Fixtures, NEW how, Ends(f, how)
    PROVE  ServerInv' /\ MatchesStand
<1>1. SessionInv'
    BY CallsKeepSession DEF ServerInv, Ends, sessionVars
<1>2. MatchesStand
    BY DEF ServerInv, BracketFollowed, Ends, MatchesStand, Ended
<1>3. BracketFollowed'
    <2>1. how \in Endings /\ how \in Bracket[f].outcomes
        BY TournamentAssumption DEF Ends
    <2>2. QED BY <2>1, TournamentAssumption DEF ServerInv, BracketFollowed, Ends, Ended
<1>4. FixtureRowsLag' /\ \A g \in Fixtures : /\ db[g].listed => db'[g].listed
                                             /\ Ended(g) => db'[g] = db[g]
    <2>1. \E d \in BOOLEAN, sc \in {"none", "old", "final"} :
            db' = [db EXCEPT ![f].done = d, ![f].score = sc]
        <3>1. /\ db[f].listed \in BOOLEAN /\ db[f].done \in BOOLEAN
              /\ db[f].score \in {"none", "old", "final"}
            BY DEF ServerInv, FixtureRowsLag
        <3>2. CASE db' = [db EXCEPT ![f].done = db[f].listed,
                                    ![f].score = IF db[f].listed THEN "final" ELSE db[f].score]
            BY <3>1, <3>2
        <3>3. CASE db' = [db EXCEPT ![f].score = "old"]
            <4>1. db' = [db EXCEPT ![f].done = db[f].done, ![f].score = "old"]
                BY <3>1, <3>3 DEF ServerInv, FixtureRowsLag
            <4>2. QED BY <3>1, <4>1
        <3>4. CASE db' = [db EXCEPT ![f].done = TRUE]
            <4>1. db' = [db EXCEPT ![f].done = TRUE, ![f].score = db[f].score]
                BY <3>1, <3>4 DEF ServerInv, FixtureRowsLag
            <4>2. QED BY <3>1, <4>1
        <3>5. QED BY <3>2, <3>3, <3>4 DEF Ends
    <2>2. PICK d \in BOOLEAN, sc \in {"none", "old", "final"} :
            db' = [db EXCEPT ![f].done = d, ![f].score = sc]
        BY <2>1
    <2>3. QED BY <2>2 DEF ServerInv, BracketFollowed, FixtureRowsLag, Ends, Ended
<1>5. RowsFit'
    BY <1>2, <1>4, EnteredGrows, RowsStay DEF ServerInv, Ends
<1>6. TickRemembers'
    BY <1>2, <1>4, TickStays DEF ServerInv, Ends
<1>7. QED BY <1>1, <1>2, <1>3, <1>4, <1>5, <1>6 DEF ServerInv, Ends

LEMMA FinalIsAFixture == Final \in Fixtures
<1>1. Len(Order) \in 1..Len(Order)
    BY TournamentAssumption
<1>2. QED BY <1>1, TournamentAssumption DEF Final

LEMMA EngineCreatesHolds ==
    ASSUME ServerInv, EngineCreates
    PROVE  ServerInv' /\ MatchesStand
<1>1. SessionInv'
    BY CallsKeepSession DEF ServerInv, EngineCreates, sessionVars
<1>2. MatchesStand
    BY DEF EngineCreates, bracketVars, MatchesStand, Ended
<1>3. BracketFollowed' /\ FixtureRowsLag'
    BY DEF ServerInv, BracketFollowed, FixtureRowsLag, EngineCreates, bracketVars, Ended
<1>4. RowsFit'
    BY <1>2, EnteredGrows, RowsStay DEF ServerInv, EngineCreates
<1>5. TickRemembers'
    BY <1>2, TickStays DEF ServerInv, EngineCreates
<1>6. pools' \subseteq Fixtures \X (1..2)
    BY FinalIsAFixture DEF ServerInv, EngineCreates
<1>7. QED BY <1>1, <1>2, <1>3, <1>4, <1>5, <1>6 DEF ServerInv

\* The participant that has to lead is the row's team.
LEMMA LeadIsTheTeam ==
    ASSUME NEW f \in Fixtures, NEW t \in Pair(f)
    PROVE  Lead(f, t) \in 1..2 /\ Participant(f, Lead(f, t)) = t
BY TournamentAssumption DEF Pair, Lead, Participant

\* Rows are one row's change away from rows that fit.
LEMMA OneRowChanges ==
    ASSUME RowsFit, MatchesStand, Entered \subseteq Entered',
           NEW id \in DOMAIN rows, DOMAIN rows' = DOMAIN rows,
           \A i \in DOMAIN rows : i # id => rows'[i] = rows[i],
           ChampionFits(rows[id])'
    PROVE  RowsFit'
<1> SUFFICES ASSUME NEW i \in DOMAIN rows, i # id PROVE ChampionFits(rows[i])'
    BY DEF RowsFit
<1>1. PICK r : r = rows[i]
    OBVIOUS
<1>2. ChampionFits(r)
    BY <1>1 DEF RowsFit
<1>3. ChampionFits(r)'
    BY <1>2, FitsLater
<1>4. rows'[i] = r
    BY <1>1
<1>5. QED BY <1>3, <1>4 DEF ChampionFits

\* What a row becomes when it is settled.
LEMMA SettledRowFits ==
    ASSUME UNCHANGED bracketVars, NEW r, ChampionFits(r), NEW b \in BOOLEAN,
           IF r.at = None THEN ~b ELSE Ended(r.at) /\ b = LeadHolds(r)
    PROVE  ChampionFits([r EXCEPT !.state = "Settled", !.winner = b])'
<1> DEFINE s == [r EXCEPT !.state = "Settled", !.winner = b]
<1>1. r \in ChampionRecords
    BY DEF ChampionFits
<1>2. /\ s \in ChampionRecords
      /\ s.class = r.class /\ s.team = r.team /\ s.at = r.at /\ s.lead = r.lead
      /\ s.state = "Settled" /\ s.winner = b
    BY <1>1 DEF ChampionRecords
<1> HIDE DEF s
<1>3. LeadHolds(s)' = LeadHolds(r) /\ (Ended(r.at) => Ended(r.at)')
    BY <1>2 DEF LeadHolds, GoalWinner, Ended, bracketVars
<1>4. ChampionFits(s)'
    BY <1>2, <1>3 DEF ChampionFits, Detached
<1>5. QED BY <1>4 DEF s

LEMMA SettleHolds ==
    ASSUME ServerInv, Settle
    PROVE  ServerInv' /\ MatchesStand
<1>1. PICK id \in DOMAIN rows :
            /\ Provable(rows[id])
            /\ rows' = [rows EXCEPT ![id].state = "Settled", ![id].winner = LeadHolds(rows[id])]
    <2> DEFINE chosen == CHOOSE i \in DOMAIN rows : Provable(rows[i])
    <2>1. chosen \in DOMAIN rows /\ Provable(rows[chosen])
        BY DEF Settle
    <2> HIDE DEF chosen
    <2>2. rows' = [rows EXCEPT ![chosen].state = "Settled", ![chosen].winner = LeadHolds(rows[chosen])]
        BY DEF Settle, chosen
    <2>3. QED BY <2>1, <2>2
<1>2. PICK r : r = rows[id]
    OBVIOUS
<1>3. PICK b \in BOOLEAN : b = LeadHolds(r)
    BY DEF LeadHolds
<1>4. ChampionFits([r EXCEPT !.state = "Settled", !.winner = b])'
    BY <1>1, <1>2, <1>3, SettledRowFits DEF ServerInv, RowsFit, Provable, Settle
<1>5. rows'[id] = [r EXCEPT !.state = "Settled", !.winner = b]
    BY <1>1, <1>2, <1>3
<1>6. ChampionFits(rows[id])'
    BY <1>4, <1>5 DEF ChampionFits
<1>7. MatchesStand
    BY DEF Settle, bracketVars, MatchesStand, Ended
<1>8. RowsFit'
    BY <1>1, <1>6, <1>7, EnteredGrows, OneRowChanges DEF ServerInv, Settle
<1>9. QED
    <2>1. SessionInv'
        BY CallsKeepSession DEF ServerInv, Settle, sessionVars
    <2>2. BracketFollowed' /\ FixtureRowsLag'
        BY DEF ServerInv, BracketFollowed, FixtureRowsLag, Settle, bracketVars, Ended
    <2>3. TickRemembers'
        BY DEF ServerInv, TickRemembers, Settle, Asleep
    <2>4. QED BY <1>7, <1>8, <2>1, <2>2, <2>3 DEF ServerInv, Settle

LEMMA WorldHolds == ServerInv /\ World => ServerInv' /\ MatchesStand
BY ListHolds, EndsHolds, EngineCreatesHolds, SettleHolds DEF World

(***************************************************************************)
(* The tick.                                                               *)
(***************************************************************************)
LEMMA TickStartHolds == ServerInv /\ TickStart => ServerInv'
<1> SUFFICES ASSUME ServerInv, TickStart PROVE ServerInv'
    OBVIOUS
<1>1. SessionInv'
    BY CallsKeepSession DEF ServerInv, TickStart, Goto, sessionVars
<1>2. BracketFollowed' /\ FixtureRowsLag' /\ MatchesStand
    BY DEF ServerInv, BracketFollowed, FixtureRowsLag, TickStart, Goto, bracketVars, MatchesStand, Ended
<1>3. RowsFit'
    BY <1>2, EnteredGrows, RowsStay DEF ServerInv, TickStart, Goto
<1>4. TickRemembers'
    <2> DEFINE behind == {f \in Fixtures : db[f].listed /\ phase[f] = "over" /\ ~db[f].done}
    <2>1. tk' = [tk EXCEPT !.pc = "refresh", !.stale = behind]
        BY DEF TickStart, Goto
    <2>2. behind \subseteq Fixtures /\ \A f \in behind : Ended(f)
        BY DEF Ended
    <2>3. \A f \in behind : Ended(f)'
        BY <1>2, <2>2 DEF MatchesStand, Ended
    <2> HIDE DEF behind
    <2>4. QED
        BY <2>1, <2>2, <2>3 DEF ServerInv, TickRemembers, TickStart, Goto, Asleep
<1>5. QED BY <1>1, <1>2, <1>3, <1>4 DEF ServerInv, TickStart, Goto

LEMMA RefreshHolds == ASSUME ServerInv, NEW f \in tk.stale, Refresh(f) PROVE ServerInv'
<1>1. f \in Fixtures /\ Ended(f)
    BY DEF ServerInv, TickRemembers
<1>2. jwt' \in {jwt, "live"} /\ (UNCHANGED faults \/ Fault)
    BY DEF Refresh, Get, GetFails, Renewed
<1>3. SessionInv'
    BY <1>2, CallsKeepSession DEF ServerInv, Refresh
<1>4. BracketFollowed' /\ MatchesStand
    BY DEF ServerInv, BracketFollowed, Refresh, bracketVars, MatchesStand, Ended
<1>5. FixtureRowsLag' /\ \A g \in Fixtures : db[g].listed => db'[g].listed
    <2>1. db[f].done \in BOOLEAN /\ db[f].score \in {"none", "old", "final"}
        BY <1>1 DEF ServerInv, FixtureRowsLag
    <2>2. PICK d \in BOOLEAN, sc \in {"none", "old", "final"} :
            db' = [db EXCEPT ![f].done = d, ![f].score = sc]
        <3>1. CASE db' = [db EXCEPT ![f].done = TRUE, ![f].score = "final"]
            BY <3>1
        <3>2. CASE UNCHANGED db
            <4>1. db' = [db EXCEPT ![f].done = db[f].done, ![f].score = db[f].score]
                BY <1>1, <3>2 DEF ServerInv, FixtureRowsLag
            <4>2. QED BY <2>1, <4>1
        <3>3. CASE db' = [db EXCEPT ![f].done = TRUE]
            <4>1. db' = [db EXCEPT ![f].done = TRUE, ![f].score = db[f].score]
                BY <1>1, <3>3 DEF ServerInv, FixtureRowsLag
            <4>2. QED BY <2>1, <4>1
        <3>4. CASE db' = [db EXCEPT ![f].score = "final"]
            <4>1. db' = [db EXCEPT ![f].done = db[f].done, ![f].score = "final"]
                BY <1>1, <3>4 DEF ServerInv, FixtureRowsLag
            <4>2. QED BY <2>1, <4>1
        <3>5. QED BY <3>1, <3>2, <3>3, <3>4 DEF Refresh
    <2>3. db' \in [Fixtures -> [listed : BOOLEAN, done : BOOLEAN, score : {"none", "old", "final"}]]
        BY <1>1, <2>2 DEF ServerInv, FixtureRowsLag
    <2>4. \A g \in Fixtures : db'[g].listed = db[g].listed /\ (g # f => db'[g] = db[g])
        BY <1>1, <2>2 DEF ServerInv, FixtureRowsLag
    <2>5. UNCHANGED phase
        BY DEF Refresh, bracketVars
    <2>6. QED BY <1>1, <2>3, <2>4, <2>5 DEF ServerInv, FixtureRowsLag, Ended
<1>6. RowsFit'
    BY <1>4, <1>5, EnteredGrows, RowsStay DEF ServerInv, Refresh
<1>7. TickRemembers'
    <2>1. tk.pc = "refresh" /\ tk' = [tk EXCEPT !.stale = @ \ {f}]
        BY DEF Refresh
    <2>2. QED BY <2>1, <1>4 DEF ServerInv, TickRemembers, Refresh, MatchesStand, Ended
<1>8. QED BY <1>3, <1>4, <1>5, <1>6, <1>7 DEF ServerInv, Refresh

LEMMA ReadTeamsHolds == ServerInv /\ ReadTeams => ServerInv'
<1> SUFFICES ASSUME ServerInv, ReadTeams PROVE ServerInv'
    OBVIOUS
<1>1. SessionInv'
    BY CallsKeepSession DEF ServerInv, ReadTeams, sessionVars
<1>2. BracketFollowed' /\ FixtureRowsLag' /\ MatchesStand
    BY DEF ServerInv, BracketFollowed, FixtureRowsLag, ReadTeams, bracketVars, MatchesStand, Ended
<1>3. DOMAIN rows' \subseteq DOMAIN rows /\ \A id \in DOMAIN rows' : rows'[id] = rows[id]
    BY DEF ReadTeams
<1>4. RowsFit'
    BY <1>2, <1>3, EnteredGrows, RowsStay DEF ServerInv, ReadTeams
<1>5. TickRemembers'
    <2> DEFINE alive == aliveTeams
    <2>1. alive \subseteq Entered /\ alive \subseteq Teams
        BY AliveEntered, EnteredAreTeams DEF ServerInv
    <2>2. \A t \in Entered : t \in alive \/ Out(t) \/ WinUnknown(t)
        BY Fate DEF ServerInv
    <2>3. ASSUME NEW id \in DOMAIN rows', rows'[id].class = "C", Detached(rows[id])'
          PROVE  rows'[id].team \in alive \/ Out(rows[id].team)' \/ WinUnknown(rows[id].team)'
        <3>1. PICK t : t = rows[id].team
            OBVIOUS
        <3>2. t \in Entered
            BY <1>3, <2>3, <3>1 DEF ServerInv, RowsFit, ChampionFits, Detached
        <3>3. t \in alive \/ Out(t)' \/ WinUnknown(t)'
            BY <1>2, <2>2, <3>2, OutStaysOut, UnknownStaysUnknown DEF ReadTeams
        <3>4. t = rows'[id].team
            BY <1>3, <2>3, <3>1
        <3>5. QED BY <3>3, <3>4 DEF Out, WinUnknown
    <2>4. tk.stale = {} /\ tk' = [tk EXCEPT !.pc = "asking", !.teams = alive] /\ Entered \subseteq Entered'
        BY EnteredGrows DEF ReadTeams
    <2> HIDE DEF alive
    <2>5. tk.pc = "refresh" /\ tk.todo = {}
        BY DEF ServerInv, TickRemembers, ReadTeams
    <2>6. QED BY <2>1, <2>3, <2>4, <2>5 DEF ServerInv, TickRemembers
<1>6. QED BY <1>1, <1>2, <1>4, <1>5 DEF ServerInv, ReadTeams

LEMMA AsleepHolds ==
    tk' = Asleep => TickRemembers'
BY DEF TickRemembers, Asleep

LEMMA NothingToDoHolds == ServerInv /\ NothingToDo => ServerInv'
<1> SUFFICES ASSUME ServerInv, NothingToDo PROVE ServerInv'
    OBVIOUS
<1>1. SessionInv'
    BY CallsKeepSession DEF ServerInv, NothingToDo, Goto, sessionVars
<1>2. BracketFollowed' /\ FixtureRowsLag' /\ MatchesStand
    BY DEF ServerInv, BracketFollowed, FixtureRowsLag, NothingToDo, Goto, bracketVars, MatchesStand, Ended
<1>3. RowsFit'
    BY <1>2, EnteredGrows, RowsStay DEF ServerInv, NothingToDo, Goto
<1>4. QED BY <1>1, <1>2, <1>3, AsleepHolds DEF ServerInv, NothingToDo, Goto

LEMMA NewChampionFits ==
    ASSUME NEW t \in Teams, t \in Entered'
    PROVE  ChampionFits(Champion(t))' /\ Detached(Champion(t))
BY DEF Champion, ChampionFits, ChampionRecords, Detached

LEMMA AuthorHolds ==
    ASSUME ServerInv, NEW answer, Author(answer)
    PROVE  ServerInv'
<1>1. SessionInv'
    BY CallsKeepSession DEF ServerInv, Author, sessionVars
<1>2. BracketFollowed' /\ FixtureRowsLag' /\ MatchesStand
    BY DEF ServerInv, BracketFollowed, FixtureRowsLag, Author, bracketVars, MatchesStand, Ended
<1>3. Entered \subseteq Entered'
    BY EnteredGrows DEF Author
<1>4. RowsFit'
    <2> SUFFICES ASSUME NEW id \in DOMAIN rows' PROVE ChampionFits(rows[id])'
        BY DEF RowsFit
    <2>1. CASE id \notin DOMAIN rows
        <3>1. id \in Proposed(answer) /\ rows'[id] = Champion(id[2])
            BY <2>1 DEF Author
        <3>2. PICK t : t = id[2]
            OBVIOUS
        <3>3. t \in Teams /\ t \in Entered'
            BY <1>3, <3>1, <3>2 DEF ServerInv, TickRemembers, Author, Proposed
        <3>4. ChampionFits(Champion(t))' /\ rows'[id] = Champion(t)
            BY <3>1, <3>2, <3>3, NewChampionFits
        <3>5. QED BY <3>4 DEF ChampionFits
    <2>2. CASE id \in DOMAIN rows
        <3>1. PICK r : r = rows[id]
            OBVIOUS
        <3>2. ChampionFits(r)
            BY <2>2, <3>1 DEF ServerInv, RowsFit
        <3>3. CASE id \in Eliminated
            <4>1. rows'[id] = [r EXCEPT !.state = "Settled", !.winner = FALSE]
                BY <2>2, <3>1, <3>3 DEF Author
            <4>2. r.at = None
                BY <3>1, <3>3 DEF Eliminated, Detached
            <4>3. ChampionFits([r EXCEPT !.state = "Settled", !.winner = FALSE])'
                BY <3>2, <4>2, SettledRowFits DEF Author
            <4>4. QED BY <4>1, <4>3 DEF ChampionFits
        <3>4. CASE id \notin Eliminated
            <4>1. rows'[id] = r
                BY <2>2, <3>1, <3>4 DEF Author
            <4>2. ChampionFits(r)'
                BY <1>2, <1>3, <3>2, FitsLater
            <4>3. QED BY <4>1, <4>2 DEF ChampionFits
        <3>5. QED BY <3>3, <3>4
    <2>3. QED BY <2>1, <2>2
<1>5. TickRemembers'
    <2> DEFINE todo == {id \in DOMAIN rows' : Detached(rows'[id])}
               final == CHOOSE f \in Fixtures : IsFinal(f)
    <2>1. CASE todo # {} /\ \E f \in Fixtures : IsFinal(f)
        <3>1. final \in Fixtures /\ IsFinal(final)
            BY <2>1
        <3>2. db'[final].listed
            BY <3>1 DEF IsFinal, Remaining, Author
        <3>3. tk' = [Asleep EXCEPT !.pc = "attach", !.todo = todo, !.final = final]
            BY <2>1 DEF Author
        <3>4. todo \subseteq DOMAIN rows' /\ \A id \in todo : Detached(rows[id])'
            BY DEF Detached
        <3> HIDE DEF todo, final
        <3>5. QED BY <2>1, <3>1, <3>2, <3>3, <3>4 DEF TickRemembers, Asleep
    <2>2. CASE ~(todo # {} /\ \E f \in Fixtures : IsFinal(f))
        BY <2>2, AsleepHolds DEF Author
    <2>3. QED BY <2>1, <2>2
<1>6. QED BY <1>1, <1>2, <1>4, <1>5 DEF ServerInv, Author

\* The turn of a row passes, and what the tick holds stays.
LEMMA TurnPasses ==
    ASSUME TickRemembers, NEW id \in tk.todo, Done(id), tk.pc = "attach",
           DOMAIN rows' = DOMAIN rows, \A i \in DOMAIN rows : i # id => rows'[i] = rows[i],
           UNCHANGED <<bracketVars, db>>
    PROVE  TickRemembers'
<1>1. CASE tk.todo = {id}
    BY <1>1, AsleepHolds DEF Done
<1>2. CASE tk.todo # {id}
    <2>1. tk' = [tk EXCEPT !.todo = @ \ {id}]
        BY <1>2 DEF Done
    <2>2. tk.todo \ {id} # {}
        BY <1>2
    <2>3. QED BY <2>1, <2>2 DEF TickRemembers, Detached, Ended, bracketVars
<1>3. QED BY <1>1, <1>2

LEMMA SettleAtAttachHolds ==
    ASSUME ServerInv, NEW id \in tk.todo, SettleAtAttach(id)
    PROVE  ServerInv'
<1>1. id \in DOMAIN rows /\ Detached(rows[id])
    BY DEF ServerInv, TickRemembers
<1>2. PICK r : r = rows[id]
    OBVIOUS
<1>3. ChampionFits([r EXCEPT !.state = "Settled", !.winner = FALSE])'
    BY <1>1, <1>2, SettledRowFits DEF ServerInv, RowsFit, Detached, SettleAtAttach
<1>4. rows' = [rows EXCEPT ![id] = [r EXCEPT !.state = "Settled", !.winner = FALSE]]
    BY <1>1, <1>2 DEF SettleAtAttach
<1>5. ChampionFits(rows[id])'
    BY <1>1, <1>3, <1>4 DEF ChampionFits
<1>6. BracketFollowed' /\ FixtureRowsLag' /\ MatchesStand
    BY DEF ServerInv, BracketFollowed, FixtureRowsLag, SettleAtAttach, bracketVars, MatchesStand, Ended
<1>7. RowsFit'
    BY <1>1, <1>4, <1>5, <1>6, EnteredGrows, OneRowChanges DEF ServerInv, SettleAtAttach
<1>8. TickRemembers'
    BY <1>4, TurnPasses DEF ServerInv, SettleAtAttach, Turn
<1>9. SessionInv'
    BY CallsKeepSession DEF ServerInv, SettleAtAttach, sessionVars
<1>10. QED BY <1>6, <1>7, <1>8, <1>9 DEF ServerInv, SettleAtAttach

LEMMA AttachHolds ==
    ASSUME ServerInv, NEW id \in tk.todo, Attach(id)
    PROVE  ServerInv'
<1>1. id \in DOMAIN rows /\ Detached(rows[id])
    BY DEF ServerInv, TickRemembers
<1>2. PICK r : r = rows[id]
    OBVIOUS
<1>3. PICK f : f = tk.final
    OBVIOUS
<1>4. PICK lead : lead = Lead(f, r.team)
    OBVIOUS
<1>5. f \in Fixtures /\ r.team \in Pair(f) /\ lead \in 1..2 /\ ChampionFits(r)
    BY <1>1, <1>2, <1>3, <1>4, LeadIsTheTeam DEF ServerInv, RowsFit, TickRemembers, Attach, Turn
<1>6. \/ UNCHANGED rows
      \/ \E b \in BOOLEAN :
            rows' = [rows EXCEPT ![id] = [r EXCEPT !.at = f, !.lead = lead, !.hasPool = b]]
    BY <1>1, <1>2, <1>3, <1>4 DEF Attach
<1>7. ASSUME NEW b \in BOOLEAN
      PROVE  ChampionFits([r EXCEPT !.at = f, !.lead = lead, !.hasPool = b])'
    <2> DEFINE s == [r EXCEPT !.at = f, !.lead = lead, !.hasPool = b]
    <2>1. r \in ChampionRecords
        BY <1>5 DEF ChampionFits
    <2>2. s \in ChampionRecords
        <3>1. lead \in 0..2 /\ f \in Fixtures \cup {None}
            BY <1>5
        <3>2. QED BY <2>1, <3>1 DEF ChampionRecords
    <2>3. s.class = r.class /\ s.team = r.team /\ s.at = f /\ s.lead = lead /\ s.state = r.state
        BY <2>1 DEF ChampionRecords
    <2>4. r.state = "Open" /\ f # None /\ (r.class = "C" => r.team \in Teams)
        BY <1>1, <1>2, <1>5, TournamentAssumption DEF ChampionFits, Detached
    <2> HIDE DEF s
    <2>5. ChampionFits(s)'
        BY <1>4, <1>5, <2>2, <2>3, <2>4 DEF ChampionFits, Detached
    <2>6. QED BY <2>5 DEF s
<1>8. BracketFollowed' /\ FixtureRowsLag' /\ MatchesStand
    BY DEF ServerInv, BracketFollowed, FixtureRowsLag, Attach, bracketVars, MatchesStand, Ended
<1>9. RowsFit'
    <2>1. Entered \subseteq Entered'
        BY EnteredGrows DEF Attach
    <2>2. CASE UNCHANGED rows
        BY <1>8, <2>1, <2>2, RowsStay DEF ServerInv
    <2>3. ASSUME NEW b \in BOOLEAN,
                 rows' = [rows EXCEPT ![id] = [r EXCEPT !.at = f, !.lead = lead, !.hasPool = b]]
          PROVE  RowsFit'
        <3>1. ChampionFits(rows[id])'
            BY <1>1, <1>7, <2>3 DEF ChampionFits
        <3>2. QED BY <1>1, <1>8, <2>1, <2>3, <3>1, OneRowChanges DEF ServerInv
    <2>4. QED BY <1>6, <2>2, <2>3
<1>10. pools' \subseteq Fixtures \X (1..2)
    BY <1>2, <1>3, <1>4, <1>5 DEF ServerInv, Attach
<1>11. TickRemembers'
    <2>1. DOMAIN rows' = DOMAIN rows /\ \A i \in DOMAIN rows : i # id => rows'[i] = rows[i]
        BY <1>6
    <2>2. QED BY <2>1, TurnPasses DEF ServerInv, Attach, Turn
<1>12. SessionInv'
    BY CallsKeepSession DEF ServerInv, Attach, sessionVars
<1>13. QED BY <1>8, <1>9, <1>10, <1>11, <1>12 DEF ServerInv

(***************************************************************************)
(* The invariant of the whole.                                             *)
(***************************************************************************)
LEMMA RestartHolds ==
    ASSUME ServerInv, NEW lost \in BOOLEAN, Restart(lost)
    PROVE  ServerInv'
<1>1. SessionInv'
    BY SessionMoves DEF ServerInv, Restart
<1>2. BracketFollowed' /\ MatchesStand
    BY DEF ServerInv, BracketFollowed, Restart, bracketVars, MatchesStand, Ended
<1>3. TickRemembers'
    BY AsleepHolds DEF Restart
<1>4. CASE lost
    <2>1. DOMAIN rows' = {}
        BY <1>4 DEF Restart
    <2>2. RowsFit'
        BY <2>1 DEF RowsFit
    <2>3. FixtureRowsLag'
        <3>1. PICK n \in 1..Len(Order)+1 : db' = Relisted(n)
            BY <1>4 DEF Restart
        <3>2. QED BY <1>2, <3>1
                  DEF Restart, Relisted, Absent, FixtureRowsLag, BracketFollowed, bracketVars, Ended
    <2>4. QED BY <1>1, <1>2, <1>3, <2>2, <2>3 DEF ServerInv, Restart
<1>5. CASE ~lost
    <2>1. UNCHANGED <<rows, db>>
        BY <1>5 DEF Restart
    <2>2. FixtureRowsLag'
        BY <2>1 DEF ServerInv, FixtureRowsLag, Restart, bracketVars, Ended
    <2>3. RowsFit'
        BY <1>2, <2>1, EnteredGrows, RowsStay DEF ServerInv
    <2>4. QED BY <1>1, <1>2, <1>3, <2>2, <2>3 DEF ServerInv, Restart
<1>6. QED BY <1>4, <1>5

LEMMA ServerStarts == TournamentInit => ServerInv
<1> SUFFICES ASSUME TournamentInit PROVE ServerInv
    OBVIOUS
<1>1. SessionInv
    BY SessionStarts DEF TournamentInit
<1>2. BracketFollowed
    BY TournamentAssumption DEF TournamentInit, BracketFollowed, Ended
<1>3. FixtureRowsLag
    BY DEF TournamentInit, FixtureRowsLag, Absent
<1>4. RowsFit
    <2>1. PICK c : c = Champion(0)
        OBVIOUS
    <2>2. PICK award : award = [c EXCEPT !.class = "B"]
        OBVIOUS
    <2>3. ChampionFits(award)
        <3>1. c \in ChampionRecords /\ c.at = None /\ c.state = "Open"
            BY <2>1 DEF Champion, ChampionRecords
        <3>2. award \in ChampionRecords /\ award.class = "B" /\ award.at = None /\ award.state = "Open"
            BY <2>2, <3>1 DEF ChampionRecords
        <3>3. QED BY <3>2 DEF ChampionFits
    <2>4. \A id \in DOMAIN rows : rows[id] = award
        BY <2>1, <2>2 DEF TournamentInit
    <2>5. QED BY <2>3, <2>4 DEF RowsFit
<1>5. TickRemembers
    BY DEF TournamentInit, TickRemembers, Asleep
<1>6. QED BY <1>1, <1>2, <1>3, <1>4, <1>5 DEF ServerInv, TournamentInit

\* The session's own steps, and none.
LEMMA TournamentIdle == ServerInv /\ SessionInv' /\ UNCHANGED tournamentVars => ServerInv'
<1> SUFFICES ASSUME ServerInv, SessionInv', UNCHANGED tournamentVars PROVE ServerInv'
    OBVIOUS
<1>1. BracketFollowed' /\ FixtureRowsLag' /\ MatchesStand
    BY DEF ServerInv, BracketFollowed, FixtureRowsLag, tournamentVars, bracketVars, MatchesStand, Ended
<1>2. RowsFit'
    BY <1>1, EnteredGrows, RowsStay DEF ServerInv, tournamentVars
<1>3. TickRemembers'
    BY <1>1, TickStays DEF ServerInv, tournamentVars
<1>4. QED BY <1>1, <1>2, <1>3 DEF ServerInv, tournamentVars

\* The invariant holds for every bracket, answer and course of the session.
THEOREM TournamentInvariance == ServerSpec => []ServerInv
<1>1. ServerInv /\ [ServerNext]_serverVars => ServerInv'
    <2> SUFFICES ASSUME ServerInv, [ServerNext]_serverVars PROVE ServerInv'
        OBVIOUS
    <2>1. CASE (Boots \/ BuildContextThrows) /\ UNCHANGED tournamentVars
        BY <2>1, SessionMoves, TournamentIdle DEF ServerInv
    <2>2. CASE CallIsDue /\ SessionEnvironment /\ UNCHANGED tournamentVars
        BY <2>2, SessionMoves, TournamentIdle DEF ServerInv
    <2>3. CASE World
        BY <2>3, WorldHolds
    <2>4. CASE TickSteps
        BY <2>4, TickStartHolds, RefreshHolds, ReadTeamsHolds, NothingToDoHolds, AuthorHolds,
           SettleAtAttachHolds, AttachHolds DEF TickSteps
    <2>5. CASE \E lost \in BOOLEAN : Restart(lost)
        BY <2>5, RestartHolds
    <2>6. CASE UNCHANGED serverVars
        BY <2>6, CallsKeepSession, TournamentIdle DEF ServerInv, serverVars, sessionVars
    <2>7. QED BY <2>1, <2>2, <2>3, <2>4, <2>5, <2>6 DEF ServerNext
<1>2. QED BY ServerStarts, <1>1, PTL DEF ServerSpec

\* Every variable keeps its type, and a tick has rows to attach exactly while
\* it attaches.
THEOREM TournamentTypeCorrect == ServerSpec => []TournamentTypeOK
<1>1. ServerInv => TournamentTypeOK
    <2> SUFFICES ASSUME ServerInv PROVE TournamentTypeOK
        OBVIOUS
    <2>1. \A id \in DOMAIN rows : /\ rows[id].class = "C" => rows[id].team \in Teams
                                  /\ rows[id].state \in {"Open", "Settled"}
        BY DEF ServerInv, RowsFit, ChampionFits, ChampionRecords
    <2>2. QED BY <2>1 DEF ServerInv, SessionInv, BracketFollowed, FixtureRowsLag, TickRemembers,
                          TournamentTypeOK
<1>2. QED BY TournamentInvariance, <1>1, PTL

\* A settled champion market says whether its team won on goals the match it
\* was attached to; one settled before it was attached says NO.
THEOREM ChampionsWonOnGoals == ServerSpec => []ChampionWonOnGoals
<1>1. ServerInv => ChampionWonOnGoals
    <2> SUFFICES ASSUME ServerInv, NEW id \in DOMAIN rows, rows[id].state = "Settled"
                 PROVE  rows[id].winner = (rows[id].at # None /\ GoalWinner(rows[id].at) = {rows[id].team})
        BY DEF ChampionWonOnGoals
    <2>1. ChampionFits(rows[id])
        BY DEF ServerInv, RowsFit
    <2>2. CASE rows[id].at = None
        BY <2>1, <2>2 DEF ChampionFits, ChampionRecords
    <2>3. CASE rows[id].at # None
        <3>1. Participant(rows[id].at, rows[id].lead) = rows[id].team
            BY <2>1, <2>3, LeadIsTheTeam DEF ChampionFits, ChampionRecords
        <3>2. rows[id].winner = LeadHolds(rows[id])
            BY <2>1, <2>3 DEF ChampionFits
        <3>3. QED BY <2>3, <3>1, <3>2 DEF LeadHolds
    <2>4. QED BY <2>2, <2>3
<1>2. QED BY TournamentInvariance, <1>1, PTL

\* The workers start only with a token the feed accepts.
THEOREM SessionIsAccepted == ServerSpec => StartsWithASession
<1> DEFINE Starts == main # "up" /\ main' = "up" => token' \notin lapsed \cup {0}
<1>1. ServerInv /\ [ServerNext]_serverVars => [Starts]_sessionVars
    <2> SUFFICES ASSUME ServerInv, ServerNext, main # "up", main' = "up"
                 PROVE  token' \notin lapsed \cup {0}
        BY DEF serverVars, sessionVars
    <2>1. Probe \/ Activate
        BY DEF ServerNext, Boots, RenewJwt, SubscribeFreeTier, BuildContextThrows, SessionEnvironment,
               JwtExpires, SubscriptionLapses, World, List, Ends, EngineCreates, Settle, TickSteps,
               TickStart, Goto, Refresh, ReadTeams, NothingToDo, Author, SettleAtAttach, Attach,
               Restart, RestartSession, sessionVars
    <2>2. CASE Probe
        BY <2>2 DEF Probe, Get, Allowed, GoUp
    <2>3. CASE Activate
        BY <2>3 DEF Activate, GoUp, NewToken, ServerInv, SessionInv
    <2>4. QED BY <2>1, <2>2, <2>3
<1>2. QED BY TournamentInvariance, <1>1, PTL DEF ServerSpec, StartsWithASession

\* Who is not in the final is out once the final is listed.
LEMMA OutOfTheFinal ==
    ASSUME BracketFollowed, FixtureRowsLag, db[Final].listed, NEW t \in Teams, t \notin Pair(Final)
    PROVE  Out(t)
<1>1. PICK f \in Bracket[Final].after :
            t \in Pair(f) /\ \A how \in Bracket[f].outcomes : VictorIf(f, how) # t
    BY KnockOut
<1>2. f \in Fixtures
    BY FinalIsAFixture, TournamentAssumption
<1>3. Ended(f)
    BY FinalIsAFixture DEF FixtureRowsLag, BracketFollowed
<1>4. Victor(f) # t
    BY <1>1, <1>2, <1>3 DEF BracketFollowed, Victor
<1>5. QED BY <1>1, <1>2, <1>3, <1>4 DEF Out

\* A market is settled NO before the final only when its team is out, when its
\* last win is one that the rows do not tell, or when another match was taken
\* for the final: although the tick reads the bracket before it waits, and
\* whatever ends in the meantime.
THEOREM NoMeansOut == ServerSpec => NoOnlyWhenOut
<1> DEFINE OnlyWhenOut ==
        \A id \in DOMAIN rows \cap DOMAIN rows' :
            (rows[id].class = "C" /\ Detached(rows[id]) /\ rows'[id].state = "Settled")
            => \/ Out(rows[id].team)
               \/ WinUnknown(rows[id].team)
               \/ tk.final \notin {None, Final}
<1>1. ServerInv /\ [ServerNext]_serverVars => [OnlyWhenOut]_serverVars
    <2> SUFFICES ASSUME ServerInv, ServerNext, NEW id \in DOMAIN rows \cap DOMAIN rows',
                        rows[id].class = "C", Detached(rows[id]), rows'[id].state = "Settled"
                 PROVE  \/ Out(rows[id].team)
                        \/ WinUnknown(rows[id].team)
                        \/ tk.final \notin {None, Final}
        OBVIOUS
    <2>1. rows'[id] # rows[id]
        BY DEF Detached
    <2>2. ASSUME NEW answer, Author(answer)
          PROVE  Out(rows[id].team) \/ WinUnknown(rows[id].team)
        <3>1. id \in Eliminated
            BY <2>1, <2>2 DEF Author
        <3>2. QED BY <2>2, <3>1 DEF Eliminated, Author, ServerInv, TickRemembers
    <2>3. ASSUME NEW i \in tk.todo, SettleAtAttach(i)
          PROVE  Out(rows[id].team) \/ tk.final \notin {None, Final}
        <3>1. i = id
            BY <2>1, <2>3 DEF SettleAtAttach
        <3>2. tk.final \in Fixtures /\ db[tk.final].listed /\ rows[id].team \notin Pair(tk.final)
            BY <2>3, <3>1 DEF SettleAtAttach, Turn, ServerInv, TickRemembers
        <3>3. rows[id].team \in Teams
            BY DEF ServerInv, RowsFit, ChampionFits
        <3>4. CASE tk.final = Final
            <4>1. PICK t : t = rows[id].team
                OBVIOUS
            <4>2. Out(t)
                BY <3>2, <3>3, <3>4, <4>1, OutOfTheFinal DEF ServerInv
            <4>3. QED BY <4>1, <4>2
        <3>5. CASE tk.final # Final
            BY <3>2, <3>5, TournamentAssumption
        <3>6. QED BY <3>4, <3>5
    <2>4. ASSUME NEW i \in tk.todo, Attach(i) PROVE FALSE
        <3>1. \E b \in BOOLEAN :
                rows' = [rows EXCEPT ![i].at = tk.final, ![i].lead = Lead(tk.final, rows[i].team),
                                     ![i].hasPool = b]
            BY <2>1, <2>4 DEF Attach
        <3>2. PICK r : r = rows[id]
            OBVIOUS
        <3>3. r \in ChampionRecords
            BY <3>2 DEF ServerInv, RowsFit, ChampionFits
        <3>4. rows'[id].state = r.state
            BY <2>1, <3>1, <3>2, <3>3 DEF ChampionRecords
        <3>5. QED BY <3>2, <3>4 DEF Detached
    <2>5. CASE Settle
        <3> DEFINE chosen == CHOOSE i \in DOMAIN rows : Provable(rows[i])
        <3>1. Provable(rows[chosen])
            BY <2>5 DEF Settle
        <3>2. chosen # id
            BY <3>1 DEF Provable, Detached
        <3> HIDE DEF chosen
        <3>3. rows' = [rows EXCEPT ![chosen].state = "Settled", ![chosen].winner = LeadHolds(rows[chosen])]
            BY <2>5 DEF Settle, chosen
        <3>4. QED BY <2>1, <3>2, <3>3
    <2>6. CASE TickStart \/ (\E f \in tk.stale : Refresh(f)) \/ ReadTeams \/ NothingToDo
        BY <2>1, <2>6 DEF TickStart, Refresh, ReadTeams, NothingToDo, Goto
    <2>7. CASE (\E f \in Fixtures : List(f) \/ \E how \in Bracket[f].outcomes : Ends(f, how)) \/ EngineCreates
        BY <2>1, <2>7 DEF List, Ends, EngineCreates
    <2>8. CASE UNCHANGED tournamentVars \/ \E lost \in BOOLEAN : Restart(lost)
        BY <2>1, <2>8 DEF tournamentVars, Restart
    <2>9. QED BY <2>2, <2>3, <2>4, <2>5, <2>6, <2>7, <2>8 DEF ServerNext, World, TickSteps
<1>2. QED BY TournamentInvariance, <1>1, PTL DEF ServerSpec, NoOnlyWhenOut
=============================================================================
