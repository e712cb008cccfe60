------------------------------ MODULE Catalog -------------------------------
(***************************************************************************)
(* What a market asks: the terms of a predicate over a match's statistics, *)
(* the fixed catalog of every fixture, and the guard that in-play and      *)
(* pre-match proposals of the AI author have to pass.                      *)
(*                                                                         *)
(* A statistic's key is 1000 * period + base: base 1..8 are the goals,     *)
(* yellow cards, red cards and corners of participant 1 and of 2.  Terms   *)
(* carry period 0 whatever the key's period.  The hash of the terms, which *)
(* addresses the pool account, is injective: the terms stand for it.       *)
(***************************************************************************)
EXTENDS Integers, Sequences

Key(base, period) == 1000 * period + base
StatKeys == {Key(base, period) : base \in 1..8, period \in 0..2}

Goals   == <<1, 2>>
Yellows == <<3, 4>>
Reds    == <<5, 6>>
Corners == <<7, 8>>

NoKey == 0                        \* statBKey null

Terms(a, b, op, comparison, threshold) ==
    [a |-> a, b |-> b, op |-> op, comparison |-> comparison, threshold |-> threshold]

Single(a, threshold) == Terms(a, NoKey, "none", "GreaterThan", threshold)
Sum(keys, threshold) == Terms(keys[1], keys[2], "Add", "GreaterThan", threshold)
Lead(a, b, comparison, threshold) == Terms(a, b, "Subtract", comparison, threshold)

(***************************************************************************)
(* The value of the terms' statistic for the counts v, and the predicate.  *)
(* The legs of a market are ANDed; only a market with one leg has a pool.  *)
(***************************************************************************)
Value(t, v) ==
    CASE t.op = "none"     -> v[t.a]
      [] t.op = "Add"      -> v[t.a] + v[t.b]
      [] t.op = "Subtract" -> v[t.a] - v[t.b]

Holds(t, v) ==
    CASE t.comparison = "GreaterThan" -> Value(t, v) > t.threshold
      [] t.comparison = "LessThan"    -> Value(t, v) < t.threshold
      [] t.comparison = "EqualTo"     -> Value(t, v) = t.threshold

AllHold(legs, v) == \A i \in 1..Len(legs) : Holds(legs[i], v)

(***************************************************************************)
(* The catalog.  A slug is <<name, line in halves, period>>.               *)
(***************************************************************************)
Def(name, halves, period, legs) == [slug |-> <<name, halves, period>>, legs |-> legs]

OverUnder(period) ==
    {Def("ou-goals", halves, period,
         <<Sum(<<Key(1, period), Key(2, period)>>, halves \div 2)>>) :
        halves \in IF period = 0 THEN {3, 5, 7} ELSE {1, 3}}

TeamMarketsSwapped(team) ==
    LET own == Goals[3 - team]  other == Goals[team] IN
    {Def(<<"home-win", "away-win">>[team], 0, 0, <<Lead(own, other, "GreaterThan", 0)>>),
     Def(<<"home-scores", "away-scores">>[team], 0, 0, <<Single(own, 0)>>)}
TeamMarkets(team) ==
    LET own == Goals[team]  other == Goals[3 - team] IN
    {Def(<<"home-win", "away-win">>[team], 0, 0, <<Lead(own, other, "GreaterThan", 0)>>),
     Def(<<"home-scores", "away-scores">>[team], 0, 0, <<Single(own, 0)>>),
     Def(<<"home-wins-by-2", "away-wins-by-2">>[team], 0, 0, <<Lead(own, other, "GreaterThan", 1)>>)}

MatchMarkets ==
    {Def("draw", 0, 0, <<Lead(1, 2, "EqualTo", 0)>>),
     Def("ou-corners", 17, 0, <<Sum(Corners, 8)>>),
     Def("ou-corners", 21, 0, <<Sum(Corners, 10)>>),
     Def("home-most-corners", 0, 0, <<Lead(Corners[1], Corners[2], "GreaterThan", 0)>>),
     Def("ou-yellows", 7, 0, <<Sum(Yellows, 3)>>),
     Def("red-card", 0, 0, <<Sum(Reds, 0)>>)}

BothTeamsToScore == {Def("btts", 0, 0, <<Single(1, 0), Single(2, 0)>>)}

classAMarkets ==
    OverUnder(0) \cup OverUnder(1) \cup TeamMarkets(1) \cup TeamMarkets(2)
        \cup MatchMarkets \cup BothTeamsToScore

LockLead == 2                     \* minutes before kickoff

(***************************************************************************)
(* The grammar of a proposal: p.period, base keys p.a and p.b, one family. *)
(***************************************************************************)
STAT_FAMILY(base) == <<"goals", "goals", "yellows", "yellows",
                       "reds", "reds", "corners", "corners">>[base]
FAMILY_MAX_THRESHOLD == [goals |-> 8, yellows |-> 12, reds |-> 4, corners |-> 20]

InGrammar(p) ==
    /\ p.period \in 0..2 /\ p.a \in 1..8
    /\ p.op = "none" <=> p.b = NoKey
    /\ p.op # "none" => /\ p.b \in (1..8) \ {p.a}
                        /\ STAT_FAMILY(p.b) = STAT_FAMILY(p.a)
    /\ p.threshold \in 0..FAMILY_MAX_THRESHOLD[STAT_FAMILY(p.a)]

ProposedTerms(p) ==
    Terms(Key(p.a, p.period), IF p.b = NoKey THEN NoKey ELSE Key(p.b, p.period),
          p.op, p.comparison, p.threshold)

(***************************************************************************)
(* inPlayGuard.  Rates are hundredths per match of 90 minutes, bands are   *)
(* hundredths; times are minutes, so that everything is an integer.        *)
(***************************************************************************)
FAMILY_RATE == [goals |-> 260, yellows |-> 450, reds |-> 30, corners |-> 950]
FAMILY_BAND == [goals |-> 125, yellows |-> 150, reds |-> 75, corners |-> 350]

Decided(t, v) ==
    /\ t.op # "Subtract"
    /\ \/ t.comparison \in {"GreaterThan", "EqualTo"} /\ Value(t, v) > t.threshold
       \/ t.comparison = "LessThan" /\ Value(t, v) >= t.threshold

\* Minutes still to be played in the proposal's period; status 1 is NS, 3 HT.
Remaining(period, status, minute) ==
    IF period = 1 \/ (period = 2 /\ status <= 3) THEN 45
    ELSE IF minute > 90 THEN 0 ELSE 90 - minute

Rate(p) ==
    CASE p.op = "Add"      -> FAMILY_RATE[STAT_FAMILY(p.a)]
      [] p.op = "Subtract" -> 0
      [] p.op = "none"     -> FAMILY_RATE[STAT_FAMILY(p.a)] \div 2

Line(p) ==                        \* 9000 times the line
    9000 * p.threshold + CASE p.comparison = "GreaterThan" -> 4500
                           [] p.comparison = "LessThan"    -> -4500
                           [] p.comparison = "EqualTo"     -> 0

Balanced(p, v, status, minute) ==
    LET expected == 9000 * Value(ProposedTerms(p), v) + Rate(p) * Remaining(p.period, status, minute)
        gap == Line(p) - expected
    IN gap \in -90 * FAMILY_BAND[STAT_FAMILY(p.a)] .. 90 * FAMILY_BAND[STAT_FAMILY(p.a)]

inPlayGuard(p, v, status, minute) ==
    /\ p.period = 1 => status = 1
    /\ ~Decided(ProposedTerms(p), v)
    /\ Balanced(p, v, status, minute)

(***************************************************************************)
(* What a slug's question asks, in the words of the question.              *)
(***************************************************************************)
Asks(slug, v) ==
    LET name == slug[1]  halves == slug[2]  per == slug[3] IN
    CASE name = "ou-goals"          -> 2 * (v[Key(1, per)] + v[Key(2, per)]) > halves
      [] name = "home-win"          -> v[1] > v[2]
      [] name = "away-win"          -> v[2] > v[1]
      [] name = "draw"              -> v[1] = v[2]
      [] name = "home-scores"       -> v[1] >= 1
      [] name = "away-scores"       -> v[2] >= 1
      [] name = "home-wins-by-2"    -> v[1] >= v[2] + 2
      [] name = "away-wins-by-2"    -> v[2] >= v[1] + 2
      [] name = "ou-corners"        -> 2 * (v[7] + v[8]) > halves
      [] name = "home-most-corners" -> v[7] > v[8]
      [] name = "ou-yellows"        -> 2 * (v[3] + v[4]) > halves
      [] name = "red-card"          -> v[5] + v[6] >= 1
      [] name = "btts"              -> v[1] >= 1 /\ v[2] >= 1
=============================================================================
