----------------------------- MODULE Tournament -----------------------------
(***************************************************************************)
(* The tournament part of the AI author: one champion market per team that *)
(* is still in, settled NO when the team is out, and attached to the final *)
(* when the final can be told.  It reads the bracket from the fixtures'    *)
(* rows, which lag behind the matches, over the session of Session.        *)
(*                                                                         *)
(* Fixtures are played in Order; a fixture is listed by the feed once its  *)
(* teams are known.  A match that is over counts as four hours old: until  *)
(* then the tick treats it as one that is still on.                        *)
(***************************************************************************)
EXTENDS Session, Sequences

CONSTANTS
    Bracket,            \* [fixture -> [home, away, homeIsP1, after, outcomes]]
    Order,              \* the fixtures in the order they are played
    WonBefore,          \* teams that won a match of an earlier round
    Answers             \* what the model may propose: sets of <<wording, team>>

None == "none"
Fixtures == DOMAIN Bracket
Final == Order[Len(Order)]
Endings == {"home", "away", "homeOnPens", "awayOnPens"}
Pair(f) == {Bracket[f].home, Bracket[f].away}
Teams == UNION {Pair(f) : f \in Fixtures}
VictorIf(f, how) ==
    IF how \in {"home", "homeOnPens"} THEN Bracket[f].home ELSE Bracket[f].away

ASSUME TournamentAssumption ==
    /\ Len(Order) \in Nat \ {0}
    /\ Fixtures = {Order[i] : i \in 1..Len(Order)} /\ None \notin Fixtures
    /\ WonBefore \subseteq Teams
    /\ \A f \in Fixtures : /\ Bracket[f].homeIsP1 \in BOOLEAN
                           /\ Bracket[f].after \subseteq Fixtures
                           /\ Bracket[f].outcomes \subseteq Endings

\* A knock-out: who is not in the final loses a match that has to be over
\* before the final's teams are known.
ASSUME KnockOut ==
    \A t \in Teams \ Pair(Final) : \E f \in Bracket[Final].after :
        t \in Pair(f) /\ \A how \in Bracket[f].outcomes : VictorIf(f, how) # t

VARIABLES
    phase,              \* feed: [fixture -> "unlisted", "coming", "over"]
    outcome,            \* [fixture -> how it ended, or None]
    db,                 \* fixtures: [fixture -> [listed, done, score]]
    pools,              \* chain: the lead-by-goals pools, <<fixture, participant>>
    rows,               \* markets of the tournament: [id -> row]
    tk                  \* the tick and what it holds across its awaits

bracketVars == <<phase, outcome>>
tournamentVars == <<bracketVars, db, pools, rows, tk>>
serverVars == <<sessionVars, faults, tournamentVars>>

Asleep == [pc |-> "idle", stale |-> {}, teams |-> {}, final |-> None, todo |-> {}]
Absent == [listed |-> FALSE, done |-> FALSE, score |-> "none"]
Award == <<"most-goals", 0>>      \* an award market of an older release, class B

\* lead is the participant that has to lead by goals, once attached.
Champion(team) ==
    [class |-> "C", team |-> team, at |-> None, lead |-> 0, hasPool |-> FALSE,
     state |-> "Open", winner |-> FALSE]

TournamentInit ==
    /\ SessionInit
    /\ phase = [f \in Fixtures |-> IF Bracket[f].after = {} THEN "coming" ELSE "unlisted"]
    /\ outcome = [f \in Fixtures |-> None]
    /\ db = [f \in Fixtures |-> [Absent EXCEPT !.listed = Bracket[f].after = {}]]
    /\ pools = {}
    /\ rows = [id \in {Award} |-> [Champion(0) EXCEPT !.class = "B"]]
    /\ tk = Asleep

Ended(f) == phase[f] = "over"

GoalWinner(f) ==
    CASE outcome[f] = "home" -> {Bracket[f].home}
      [] outcome[f] = "away" -> {Bracket[f].away}
      [] OTHER               -> {}
Victor(f) == VictorIf(f, outcome[f])

-----------------------------------------------------------------------------
(***************************************************************************)
(* The feed and the rest of the server.  The engine writes a listed        *)
(* fixture's row; the indexer writes its end, unless records are lost: the *)
(* row then keeps an old score, or is finished without one.                *)
(***************************************************************************)
List(f) ==
    /\ phase[f] = "unlisted" /\ \A g \in Bracket[f].after : Ended(g)
    /\ phase' = [phase EXCEPT ![f] = "coming"]
    /\ db' = [db EXCEPT ![f].listed = TRUE]
    /\ UNCHANGED <<sessionVars, faults, outcome, pools, rows, tk>>

Ends(f, how) ==
    /\ phase[f] = "coming" /\ how \in Bracket[f].outcomes
    /\ \A i, j \in 1..Len(Order) : i < j /\ Order[j] = f => phase[Order[i]] = "over"
    /\ phase' = [phase EXCEPT ![f] = "over"]
    /\ outcome' = [outcome EXCEPT ![f] = how]
    /\ \/ db' = [db EXCEPT ![f].done = db[f].listed, ![f].score = IF db[f].listed THEN "final" ELSE @]
          /\ UNCHANGED faults
       \/ /\ Fault /\ db[f].listed
          /\ \/ db' = [db EXCEPT ![f].score = "old"]
             \/ db' = [db EXCEPT ![f].done = TRUE]
    /\ UNCHANGED <<sessionVars, pools, rows, tk>>

\* The engine's home-win and away-win pools of the final.
EngineCreates ==
    /\ tk.pc \in {"idle", "attach"}
    /\ main = "up" /\ phase[Final] = "coming" /\ ~({Final} \X (1..2) \subseteq pools)
    /\ pools' = pools \cup {Final} \X (1..2)
    /\ UNCHANGED <<sessionVars, faults, bracketVars, db, rows, tk>>

\* The settler settles an attached row by the proof of its terms, with a pool
\* or without.  (It does so between two ticks, which look at other rows.)
Participant(f, n) == IF (n = 1) = Bracket[f].homeIsP1 THEN Bracket[f].home ELSE Bracket[f].away
LeadHolds(r) == GoalWinner(r.at) = {Participant(r.at, r.lead)}
Provable(r) == r.at # None /\ r.state = "Open" /\ Ended(r.at)
Settle ==
    /\ tk = Asleep /\ main = "up" /\ \E id \in DOMAIN rows : Provable(rows[id])
    /\ LET id == CHOOSE i \in DOMAIN rows : Provable(rows[i]) IN
       rows' = [rows EXCEPT ![id].state = "Settled", ![id].winner = LeadHolds(rows[id])]
    /\ UNCHANGED <<sessionVars, faults, bracketVars, db, pools, tk>>

-----------------------------------------------------------------------------
(***************************************************************************)
(* The tick.                                                               *)
(***************************************************************************)
fixtureDone(f) == db[f].done \/ (phase[f] = "over" /\ db[f].score # "none")

\* An old score has the losing team in the lead.
ScoredWinner(f) ==
    CASE db[f].score = "final" -> GoalWinner(f)
      [] db[f].score = "old"   -> Pair(f) \ {Victor(f)}
      [] db[f].score = "none"  -> {}

StillPlaying ==
    WonBefore \cup UNION {Pair(f) : f \in {g \in Fixtures : db[g].listed /\ ~fixtureDone(g)}}
\* Winners of finished matches and participants of the others.
aliveTeams ==
    WonBefore \cup UNION {IF fixtureDone(f) THEN ScoredWinner(f) ELSE Pair(f) :
                            f \in {g \in Fixtures : db[g].listed}}

Goto(e) == tk' = e /\ UNCHANGED <<sessionVars, faults, bracketVars, db, pools, rows>>

TickStart ==
    /\ main = "up" /\ tk = Asleep
    /\ Goto([tk EXCEPT !.pc = "refresh",
                       !.stale = {f \in Fixtures : db[f].listed /\ phase[f] = "over" /\ ~db[f].done}])

\* A snapshot may lack the status or the score; a call that fails is skipped.
Refresh(f) ==
    /\ tk.pc = "refresh" /\ f = CHOOSE g \in tk.stale : TRUE
    /\ tk' = [tk EXCEPT !.stale = @ \ {f}]
    /\ \/ Get(TRUE) /\ db' = [db EXCEPT ![f].done = TRUE, ![f].score = "final"]
       \/ Get(FALSE) /\ UNCHANGED db
       \/ GetFails /\ UNCHANGED db
       \/ /\ Fault /\ jwt' = Renewed(jwt) /\ Allowed
          /\ \/ db' = [db EXCEPT ![f].done = TRUE]
             \/ db' = [db EXCEPT ![f].score = "final"]
    /\ UNCHANGED <<main, token, file, subs, lapsed, bracketVars, pools, rows>>

\* The teams, and the award markets of an older release go; then two waits,
\* for the scorers' snapshots (they feed a table that no market reads) and
\* for the model.
ReadTeams ==
    /\ tk.pc = "refresh" /\ tk.stale = {} /\ aliveTeams # {}
    /\ tk' = [tk EXCEPT !.pc = "asking", !.teams = aliveTeams]
    /\ rows' = [id \in {i \in DOMAIN rows : rows[i].class # "B"} |-> rows[id]]
    /\ UNCHANGED <<sessionVars, faults, bracketVars, db, pools>>

NothingToDo ==
    /\ tk.pc = "refresh" /\ tk.stale = {} /\ aliveTeams = {}
    /\ Goto(Asleep)

Detached(r) == r.at = None /\ r.state = "Open"

\* One market per team the model or the code proposes, unless a market not
\* yet attached has the same rule; within one answer only slugs are compared.
Proposed(answer) ==
    {id \in {<<"champion", t>> : t \in tk.teams} \cup answer :
        /\ id \notin DOMAIN rows
        /\ id[2] \in tk.teams
        /\ \A i \in DOMAIN rows : rows[i].at = None => rows[i].team # id[2]}

\* Rows that were there and whose team is no longer in: settled NO.
Eliminated == {id \in DOMAIN rows : Detached(rows[id]) /\ rows[id].team \notin tk.teams}

Remaining == {f \in Fixtures : db[f].listed /\ ~fixtureDone(f)}

\* The one fixture that remains, or the one that pairs the two teams left.
IsFinal(f) ==
    \/ Remaining = {f}
    \/ /\ f \in Remaining /\ Cardinality(Remaining) > 1
       /\ Cardinality(tk.teams) = 2 /\ Pair(f) \subseteq tk.teams

Author(answer) ==
    /\ tk.pc = "asking"
    /\ rows' = [id \in DOMAIN rows \cup Proposed(answer) |->
                  IF id \notin DOMAIN rows THEN Champion(id[2])
                  ELSE IF id \in Eliminated
                    THEN [rows[id] EXCEPT !.state = "Settled", !.winner = FALSE]
                    ELSE rows[id]]
    /\ LET todo == {id \in DOMAIN rows' : Detached(rows'[id])} IN
       IF todo # {} /\ \E f \in Fixtures : IsFinal(f)
         THEN tk' = [Asleep EXCEPT !.pc = "attach", !.todo = todo,
                                   !.final = CHOOSE f \in Fixtures : IsFinal(f)]
         ELSE tk' = Asleep
    /\ UNCHANGED <<sessionVars, faults, bracketVars, db, pools>>

\* The rows in the order of the table.
Turn(id) == tk.pc = "attach" /\ id = CHOOSE i \in tk.todo : TRUE
DoneStays(id) == tk' = [tk EXCEPT !.todo = @ \ {id}]
Done(id) ==
    tk' = IF tk.todo = {id} THEN Asleep ELSE [tk EXCEPT !.todo = @ \ {id}]

\* A team that is not in the final: NO.
SettleAtAttach(id) ==
    /\ Turn(id)
    /\ rows[id].team \notin Pair(tk.final)
    /\ rows' = [rows EXCEPT ![id].state = "Settled", ![id].winner = FALSE]
    /\ Done(id)
    /\ UNCHANGED <<sessionVars, faults, bracketVars, db, pools>>

LeadHomeIsP1(f, team) == IF team = Bracket[f].home THEN 1 ELSE 2
Lead(f, team) == IF (team = Bracket[f].home) = Bracket[f].homeIsP1 THEN 1 ELSE 2

\* createMarket, then the row: without a pool's address when it is "already
\* in use"; after any other error the row stays as it is.
Attach(id) ==
    LET lead == Lead(tk.final, rows[id].team)
        terms == <<tk.final, lead>>
        Attached(hasPool) ==
            rows' = [rows EXCEPT ![id].at = tk.final, ![id].lead = lead, ![id].hasPool = hasPool]
    IN
    /\ Turn(id)
    /\ rows[id].team \in Pair(tk.final)
    /\ \/ terms \notin pools /\ Attached(TRUE) /\ pools' = pools \cup {terms} /\ UNCHANGED faults
       \/ terms \in pools /\ Attached(FALSE) /\ UNCHANGED <<pools, faults>>
       \/ /\ Fault /\ UNCHANGED rows
          /\ terms \notin pools /\ pools' \in {pools, pools \cup {terms}}
    /\ Done(id)
    /\ UNCHANGED <<sessionVars, bracketVars, db>>

TickSteps ==
    \/ TickStart \/ (\E f \in tk.stale : Refresh(f)) \/ ReadTeams \/ NothingToDo
    \/ \E answer \in Answers : Author(answer)
    \/ \E id \in tk.todo : SettleAtAttach(id) \/ Attach(id)

\* The disk may be lost with the process: the feed lists again the fixtures
\* to come, and of those played the ones since yesterday.
Relisted(n) == [f \in Fixtures |->
    [Absent EXCEPT !.listed = \/ phase[f] = "coming"
                              \/ phase[f] = "over" /\ f \in {Order[i] : i \in n..Len(Order)}]]
Restart(lost) ==
    /\ RestartSession(lost)
    /\ tk' = Asleep
    /\ rows' = IF lost THEN [id \in {} |-> rows[id]] ELSE rows
    /\ IF lost THEN \E n \in 1..Len(Order)+1 : db' = Relisted(n) ELSE UNCHANGED db
    /\ UNCHANGED <<bracketVars, pools>>

\* The session is looked at by calls only: when it runs out, it does so before one.
CallIsDue == main = "probe" \/ tk.stale # {}

World ==
    \/ \E f \in Fixtures : List(f) \/ \E how \in Bracket[f].outcomes : Ends(f, how)
    \/ EngineCreates \/ Settle

ServerNext ==
    \/ (Boots \/ BuildContextThrows) /\ UNCHANGED tournamentVars
    \/ CallIsDue /\ SessionEnvironment /\ UNCHANGED tournamentVars
    \/ World
    \/ TickSteps
    \/ \E lost \in BOOLEAN : Restart(lost)

\* The start and the loop go on; nothing makes a match end or a call succeed.
ServerSpec ==
    /\ TournamentInit /\ [][ServerNext]_serverVars
    /\ WF_serverVars(Boots /\ UNCHANGED tournamentVars)
    /\ WF_serverVars(TickSteps)

-----------------------------------------------------------------------------
(***************************************************************************)
(* Properties                                                              *)
(***************************************************************************)
TournamentTypeOK ==
    /\ SessionTypeOK
    /\ phase \in [Fixtures -> {"unlisted", "coming", "over"}]
    /\ \A f \in Fixtures : db[f].score \in {"none", "old", "final"}
    /\ pools \subseteq Fixtures \X (1..2)
    /\ \A id \in DOMAIN rows : /\ rows[id].class = "C" => rows[id].team \in Teams
                               /\ rows[id].state \in {"Open", "Settled"}
    /\ tk.pc \in {"idle", "refresh", "asking", "attach"}
    /\ tk.pc = "attach" <=> tk.todo # {}
    /\ tk.todo \subseteq DOMAIN rows

\* Once attached, a champion market says whether its team won that match on
\* goals, whichever of the two is participant 1, with a pool or without; a
\* winner on penalties is a NO (aiMarkets.ts 945-982).
ChampionWonOnGoals ==
    \A id \in DOMAIN rows : rows[id].class = "C" /\ rows[id].state = "Settled" =>
        rows[id].winner = (rows[id].at # None /\ GoalWinner(rows[id].at) = {rows[id].team})

\* A market is settled NO before the final only when its team is out; unless
\* its last win was on penalties or its score is not recorded (aliveTeams
\* knows neither), or another match was the only one listed (893-944).
Out(team) == \E f \in Fixtures : Ended(f) /\ team \in Pair(f) /\ Victor(f) # team
WinUnknown(team) ==
    \E f \in Fixtures : /\ Ended(f) /\ Victor(f) = team
                        /\ GoalWinner(f) = {} \/ db[f].score # "final"
NoOnlyWhenOut ==
    [][\A id \in DOMAIN rows \cap DOMAIN rows' :
          (rows[id].class = "C" /\ Detached(rows[id]) /\ rows'[id].state = "Settled")
          => \/ Out(rows[id].team)
             \/ WinUnknown(rows[id].team)
             \/ tk.final \notin {None, Final}]_serverVars

(***************************************************************************)
(* The inductive invariant: what each variable holds, and what the rows    *)
(* and the tick owe to the matches.                                        *)
(***************************************************************************)
BracketFollowed ==
    /\ phase \in [Fixtures -> {"unlisted", "coming", "over"}]
    /\ outcome \in [Fixtures -> Endings \cup {None}]
    /\ \A f \in Fixtures :
          /\ phase[f] # "unlisted" => \A g \in Bracket[f].after : Ended(g)
          /\ Ended(f) => outcome[f] \in Bracket[f].outcomes

FixtureRowsLag ==
    /\ db \in [Fixtures -> [listed : BOOLEAN, done : BOOLEAN, score : {"none", "old", "final"}]]
    /\ \A f \in Fixtures : /\ db[f].listed => phase[f] # "unlisted"
                           /\ db[f].done => Ended(f)

ChampionRecords ==
    [class : {"B", "C"}, team : Teams \cup {0}, at : Fixtures \cup {None}, lead : 0..2,
     hasPool : BOOLEAN, state : {"Open", "Settled"}, winner : BOOLEAN]

\* The teams the tick could have taken for alive, now or earlier.
Entered == WonBefore \cup UNION {Pair(f) : f \in {g \in Fixtures : db[g].listed}}

ChampionFits(r) ==
    /\ r \in ChampionRecords
    /\ r.class = "C" => r.team \in Teams /\ (Detached(r) => r.team \in Entered)
    /\ r.at # None => r.team \in Pair(r.at) /\ r.lead = Lead(r.at, r.team)
    /\ r.state = "Settled" => IF r.at = None THEN ~r.winner
                                             ELSE Ended(r.at) /\ r.winner = LeadHolds(r)
RowsFit == \A id \in DOMAIN rows : ChampionFits(rows[id])

\* What the tick read before it waited for the model stays true enough: a
\* team it does not hold for alive is out, or its win is not known.
TickRemembers ==
    /\ tk \in [pc : {"idle", "refresh", "asking", "attach"}, stale : SUBSET Fixtures,
               teams : SUBSET Teams, final : Fixtures \cup {None}, todo : SUBSET DOMAIN rows]
    /\ \A f \in tk.stale : Ended(f)
    /\ tk.pc = "asking" =>
          /\ tk.teams \subseteq Entered
          /\ \A id \in DOMAIN rows : rows[id].class = "C" /\ Detached(rows[id]) =>
                rows[id].team \in tk.teams \/ Out(rows[id].team) \/ WinUnknown(rows[id].team)
    /\ tk.pc = "attach" <=> tk.todo # {}
    /\ tk.pc = "attach" => tk.final \in Fixtures /\ db[tk.final].listed
    /\ \A id \in tk.todo : Detached(rows[id])

ServerInv ==
    SessionInv /\ BracketFollowed /\ FixtureRowsLag /\ pools \subseteq Fixtures \X (1..2)
        /\ RowsFit /\ TickRemembers

\* The end of a match that the indexer missed gets into its row, although the
\* JWT expires again and again, as long as the workers run and
\* the subscription lasts (aiMarkets.ts 122-176, client.ts 31-46).
Missed == \E f \in Fixtures : Ended(f) /\ db[f].listed /\ ~db[f].done
MissedEndIsFound == Missed ~> (~Missed \/ main = "apiOnly" \/ token \in lapsed)
=============================================================================
