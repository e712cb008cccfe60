--------------------------- MODULE MarketsProofs ----------------------------
(***************************************************************************)
(* Proofs about Catalog and Markets that Engine and Author share: what the *)
(* catalog's legs decide, for every count of goals, cards and corners, and *)
(* what the world and the feed can do to the fixture's row.                *)
(***************************************************************************)
EXTENDS Markets, TLAPS

(***************************************************************************)
(* The catalog.                                                            *)
(***************************************************************************)

LEMMA StatKeysOfCatalog ==
    /\ {1, 2, 3, 4, 5, 6, 7, 8, 1001, 1002} \subseteq StatKeys
    /\ Key(1, 0) = 1 /\ Key(2, 0) = 2 /\ Key(1, 1) = 1001 /\ Key(2, 1) = 1002
<1>1. Key(1, 0) = 1 /\ Key(2, 0) = 2 /\ Key(1, 1) = 1001 /\ Key(2, 1) = 1002
    BY DEF Key
<1>2. \A base \in 1..8 : Key(base, 0) = base /\ Key(base, 0) \in StatKeys
    BY DEF Key, StatKeys
<1>3. Key(1, 1) \in StatKeys /\ Key(2, 1) \in StatKeys
    BY DEF StatKeys
<1>4. QED BY <1>1, <1>2, <1>3

LEMMA OneLegDecides == ASSUME NEW t, NEW v PROVE AllHold(<<t>>, v) <=> Holds(t, v)
BY DEF AllHold

\* What the kinds of legs decide.
LEMMA SingleDecides ==
    ASSUME NEW v, NEW a, NEW threshold
    PROVE  AllHold(<<Single(a, threshold)>>, v) <=> v[a] > threshold
<1> DEFINE t == Single(a, threshold)
<1>1. /\ t.a = a /\ t.op = "none" /\ t.comparison = "GreaterThan"
      /\ t.threshold = threshold
    BY DEF Single, Terms
<1> HIDE DEF t
<1>2. Value(t, v) = v[a]
    BY <1>1 DEF Value
<1>3. Holds(t, v) <=> v[a] > threshold
    BY <1>1, <1>2 DEF Holds
<1>4. QED BY <1>3, OneLegDecides DEF t

LEMMA SumDecides ==
    ASSUME NEW v, NEW a, NEW b, NEW threshold
    PROVE  AllHold(<<Sum(<<a, b>>, threshold)>>, v) <=> v[a] + v[b] > threshold
<1> DEFINE t == Sum(<<a, b>>, threshold)
<1>1. /\ t.a = a /\ t.b = b /\ t.op = "Add" /\ t.comparison = "GreaterThan"
      /\ t.threshold = threshold
    BY DEF Sum, Terms
<1> HIDE DEF t
<1>2. Value(t, v) = v[a] + v[b]
    BY <1>1 DEF Value
<1>3. Holds(t, v) <=> v[a] + v[b] > threshold
    BY <1>1, <1>2 DEF Holds
<1>4. QED BY <1>3, OneLegDecides DEF t

LEMMA LeadDecides ==
    ASSUME NEW v, NEW a, NEW b, NEW threshold
    PROVE  AllHold(<<Lead(a, b, "GreaterThan", threshold)>>, v) <=> v[a] - v[b] > threshold
<1> DEFINE t == Lead(a, b, "GreaterThan", threshold)
<1>1. /\ t.a = a /\ t.b = b /\ t.op = "Subtract" /\ t.comparison = "GreaterThan"
      /\ t.threshold = threshold
    BY DEF Lead, Terms
<1> HIDE DEF t
<1>2. Value(t, v) = v[a] - v[b]
    BY <1>1 DEF Value
<1>3. Holds(t, v) <=> v[a] - v[b] > threshold
    BY <1>1, <1>2 DEF Holds
<1>4. QED BY <1>3, OneLegDecides DEF t

LEMMA DrawDecides ==
    ASSUME NEW v, NEW a, NEW b
    PROVE  AllHold(<<Lead(a, b, "EqualTo", 0)>>, v) <=> v[a] - v[b] = 0
<1> DEFINE t == Lead(a, b, "EqualTo", 0)
<1>1. /\ t.a = a /\ t.b = b /\ t.op = "Subtract" /\ t.comparison = "EqualTo"
      /\ t.threshold = 0
    BY DEF Lead, Terms
<1> HIDE DEF t
<1>2. Value(t, v) = v[a] - v[b]
    BY <1>1 DEF Value
<1>3. Holds(t, v) <=> v[a] - v[b] = 0
    BY <1>1, <1>2 DEF Holds
<1>4. QED BY <1>3, OneLegDecides DEF t

\* The lines of the over/under markets on goals.
LEMMA OverUnderAnswers ==
    ASSUME NEW v \in [StatKeys -> Nat], NEW period \in {0, 1}, NEW d \in OverUnder(period)
    PROVE  AllHold(d.legs, v) <=> Asks(d.slug, v)
<1>1. PICK halves \in {1, 3, 5, 7} :
         d = Def("ou-goals", halves, period,
                 <<Sum(<<Key(1, period), Key(2, period)>>, halves \div 2)>>)
    BY DEF OverUnder
<1> DEFINE x == v[Key(1, period)]
           y == v[Key(2, period)]
<1>2. Key(1, period) \in StatKeys /\ Key(2, period) \in StatKeys /\ x \in Nat /\ y \in Nat
    BY StatKeysOfCatalog
<1>3. AllHold(d.legs, v) <=> x + y > halves \div 2
    <2>1. d.legs = <<Sum(<<Key(1, period), Key(2, period)>>, halves \div 2)>>
        BY <1>1 DEF Def
    <2>2. QED BY <2>1, SumDecides
<1>4. Asks(d.slug, v) <=> 2 * (x + y) > halves
    <2>1. d.slug = <<"ou-goals", halves, period>>
        BY <1>1 DEF Def
    <2>2. QED BY <2>1 DEF Asks
<1>5. x + y > halves \div 2 <=> 2 * (x + y) > halves
    BY <1>2
<1>6. QED BY <1>3, <1>4, <1>5

\* The markets on one team's goals.
LEMMA TeamMarketsAnswer ==
    ASSUME NEW v \in [StatKeys -> Nat], NEW team \in {1, 2}, NEW d \in TeamMarkets(team)
    PROVE  AllHold(d.legs, v) <=> Asks(d.slug, v)
<1> DEFINE own == Goals[team]
           other == Goals[3 - team]
<1>1. /\ own \in StatKeys /\ other \in StatKeys /\ v[own] \in Nat /\ v[other] \in Nat
      /\ own = team /\ other = 3 - team
    BY StatKeysOfCatalog DEF Goals
<1>2. CASE d = Def(<<"home-win", "away-win">>[team], 0, 0, <<Lead(own, other, "GreaterThan", 0)>>)
    <2>1. AllHold(d.legs, v) <=> v[own] - v[other] > 0
        <3>1. d.legs = <<Lead(own, other, "GreaterThan", 0)>>
            BY <1>2 DEF Def
        <3>2. QED BY <3>1, LeadDecides
    <2>2. Asks(d.slug, v) <=> v[own] > v[other]
        <3>1. d.slug = <<<<"home-win", "away-win">>[team], 0, 0>>
            BY <1>2 DEF Def
        <3>2. CASE team = 1
            BY <1>1, <3>1, <3>2 DEF Asks
        <3>3. CASE team = 2
            BY <1>1, <3>1, <3>3 DEF Asks
        <3>4. QED BY <3>2, <3>3
    <2>3. QED BY <1>1, <2>1, <2>2
<1>3. CASE d = Def(<<"home-scores", "away-scores">>[team], 0, 0, <<Single(own, 0)>>)
    <2>1. AllHold(d.legs, v) <=> v[own] > 0
        <3>1. d.legs = <<Single(own, 0)>>
            BY <1>3 DEF Def
        <3>2. QED BY <3>1, SingleDecides
    <2>2. Asks(d.slug, v) <=> v[own] >= 1
        <3>1. d.slug = <<<<"home-scores", "away-scores">>[team], 0, 0>>
            BY <1>3 DEF Def
        <3>2. CASE team = 1
            BY <1>1, <3>1, <3>2 DEF Asks
        <3>3. CASE team = 2
            BY <1>1, <3>1, <3>3 DEF Asks
        <3>4. QED BY <3>2, <3>3
    <2>3. QED BY <1>1, <2>1, <2>2
<1>4. CASE d = Def(<<"home-wins-by-2", "away-wins-by-2">>[team], 0, 0,
                   <<Lead(own, other, "GreaterThan", 1)>>)
    <2>1. AllHold(d.legs, v) <=> v[own] - v[other] > 1
        <3>1. d.legs = <<Lead(own, other, "GreaterThan", 1)>>
            BY <1>4 DEF Def
        <3>2. QED BY <3>1, LeadDecides
    <2>2. Asks(d.slug, v) <=> v[own] >= v[other] + 2
        <3>1. d.slug = <<<<"home-wins-by-2", "away-wins-by-2">>[team], 0, 0>>
            BY <1>4 DEF Def
        <3>2. CASE team = 1
            BY <1>1, <3>1, <3>2 DEF Asks
        <3>3. CASE team = 2
            BY <1>1, <3>1, <3>3 DEF Asks
        <3>4. QED BY <3>2, <3>3
    <2>3. QED BY <1>1, <2>1, <2>2
<1>5. QED BY <1>2, <1>3, <1>4 DEF TeamMarkets

\* The draw, and the markets on corners and cards.
LEMMA MatchMarketsAnswer ==
    ASSUME NEW v \in [StatKeys -> Nat], NEW d \in MatchMarkets
    PROVE  AllHold(d.legs, v) <=> Asks(d.slug, v)
<1>1. \A k \in 1..8 : k \in StatKeys /\ v[k] \in Nat
    BY StatKeysOfCatalog
<1>2. CASE d = Def("draw", 0, 0, <<Lead(1, 2, "EqualTo", 0)>>)
    <2>1. AllHold(d.legs, v) <=> v[1] - v[2] = 0
        <3>1. d.legs = <<Lead(1, 2, "EqualTo", 0)>>
            BY <1>2 DEF Def
        <3>2. QED BY <3>1, DrawDecides
    <2>2. QED BY <1>1, <1>2, <2>1 DEF Def, Asks
<1>3. ASSUME NEW n \in {8, 10}, d = Def("ou-corners", 2 * n + 1, 0, <<Sum(Corners, n)>>)
      PROVE  AllHold(d.legs, v) <=> Asks(d.slug, v)
    <2>1. AllHold(d.legs, v) <=> v[7] + v[8] > n
        <3>1. d.legs = <<Sum(<<7, 8>>, n)>>
            BY <1>3 DEF Def, Corners
        <3>2. QED BY <3>1, SumDecides
    <2>2. Asks(d.slug, v) <=> 2 * (v[7] + v[8]) > 2 * n + 1
        BY <1>3 DEF Def, Asks
    <2>3. QED BY <1>1, <2>1, <2>2
<1>4. CASE d = Def("home-most-corners", 0, 0, <<Lead(Corners[1], Corners[2], "GreaterThan", 0)>>)
    <2>1. AllHold(d.legs, v) <=> v[7] - v[8] > 0
        <3>1. d.legs = <<Lead(7, 8, "GreaterThan", 0)>>
            BY <1>4 DEF Def, Corners
        <3>2. QED BY <3>1, LeadDecides
    <2>2. QED BY <1>1, <1>4, <2>1 DEF Def, Asks
<1>5. CASE d = Def("ou-yellows", 7, 0, <<Sum(Yellows, 3)>>)
    <2>1. AllHold(d.legs, v) <=> v[3] + v[4] > 3
        <3>1. d.legs = <<Sum(<<3, 4>>, 3)>>
            BY <1>5 DEF Def, Yellows
        <3>2. QED BY <3>1, SumDecides
    <2>2. Asks(d.slug, v) <=> 2 * (v[3] + v[4]) > 7
        BY <1>5 DEF Def, Asks
    <2>3. QED BY <1>1, <2>1, <2>2
<1>6. CASE d = Def("red-card", 0, 0, <<Sum(Reds, 0)>>)
    <2>1. AllHold(d.legs, v) <=> v[5] + v[6] > 0
        <3>1. d.legs = <<Sum(<<5, 6>>, 0)>>
            BY <1>6 DEF Def, Reds
        <3>2. QED BY <3>1, SumDecides
    <2>2. Asks(d.slug, v) <=> v[5] + v[6] >= 1
        BY <1>6 DEF Def, Asks
    <2>3. QED BY <1>1, <2>1, <2>2
<1>7. QED BY <1>2, <1>3, <1>4, <1>5, <1>6 DEF MatchMarkets

\* Every market of the catalog settles on the question it shows: its legs hold
\* exactly when the answer to the question is yes, whatever the counts
\* (templates.ts 66-223).
THEOREM CatalogAnswers ==
    ASSUME NEW d \in classAMarkets, NEW v \in [StatKeys -> Nat]
    PROVE  AllHold(d.legs, v) <=> Asks(d.slug, v)
<1>1. CASE d \in BothTeamsToScore
    <2>1. d.legs = <<Single(1, 0), Single(2, 0)>> /\ d.slug = <<"btts", 0, 0>>
        BY <1>1 DEF BothTeamsToScore, Def
    <2>2. AllHold(d.legs, v) <=>
             AllHold(<<Single(1, 0)>>, v) /\ AllHold(<<Single(2, 0)>>, v)
        BY <2>1 DEF AllHold
    <2>3. AllHold(d.legs, v) <=> v[1] > 0 /\ v[2] > 0
        BY <2>2, SingleDecides
    <2>4. Asks(d.slug, v) <=> v[1] >= 1 /\ v[2] >= 1
        BY <2>1 DEF Asks
    <2>5. QED BY <2>3, <2>4, StatKeysOfCatalog
<1>2. QED BY <1>1, OverUnderAnswers, TeamMarketsAnswer, MatchMarketsAnswer DEF classAMarkets
\* A pool of the catalog stands for one market: the terms name the slug.
SlugOf(t) ==
    LET halves == 2 * t.threshold + 1
        team == IF t.a = 1 THEN 1 ELSE 2
    IN CASE t.op = "none" -> <<<<"home-scores", "away-scores">>[team], 0, 0>>
         [] t.op = "Add" /\ t.a = 1 -> <<"ou-goals", halves, 0>>
         [] t.op = "Add" /\ t.a = 1001 -> <<"ou-goals", halves, 1>>
         [] t.op = "Add" /\ t.a = 3 -> <<"ou-yellows", halves, 0>>
         [] t.op = "Add" /\ t.a = 5 -> <<"red-card", 0, 0>>
         [] t.op = "Add" /\ t.a = 7 -> <<"ou-corners", halves, 0>>
         [] t.op = "Subtract" /\ t.a = 7 -> <<"home-most-corners", 0, 0>>
         [] t.op = "Subtract" /\ t.a # 7 /\ t.comparison = "EqualTo" -> <<"draw", 0, 0>>
         [] t.op = "Subtract" /\ t.a # 7 /\ t.comparison # "EqualTo" /\ t.threshold = 0 ->
               <<<<"home-win", "away-win">>[team], 0, 0>>
         [] t.op = "Subtract" /\ t.a # 7 /\ t.comparison # "EqualTo" /\ t.threshold = 1 ->
               <<<<"home-wins-by-2", "away-wins-by-2">>[team], 0, 0>>

\* A leg that counts decide.
LegOK(t) ==
    /\ t.comparison \in {"GreaterThan", "EqualTo"} /\ t.threshold \in Int
    /\ t.a \in StatKeys
    /\ t.op = "none" \/ (t.op \in {"Add", "Subtract"} /\ t.b \in StatKeys)

\* What every market of the catalog is made of.
LEMMA CatalogDefs ==
    ASSUME NEW d \in classAMarkets
    PROVE  /\ Len(d.legs) \in 1..2 /\ d.legs # <<>>
           /\ LegOK(d.legs[1])
           /\ Len(d.legs) = 1 => d.legs = <<d.legs[1]>> /\ d.slug = SlugOf(d.legs[1])
<1>1. ASSUME NEW period \in {0, 1}, d \in OverUnder(period)
      PROVE  \E t : /\ d.legs = <<t>> /\ d.slug = SlugOf(t)
                    /\ LegOK(t)
    <2>1. PICK halves \in {1, 3, 5, 7} :
             d = Def("ou-goals", halves, period,
                     <<Sum(<<Key(1, period), Key(2, period)>>, halves \div 2)>>)
        BY <1>1 DEF OverUnder
    <2> DEFINE t == Sum(<<Key(1, period), Key(2, period)>>, halves \div 2)
    <2>2. /\ t.op = "Add" /\ t.comparison = "GreaterThan" /\ t.a = 1000 * period + 1
          /\ t.threshold = halves \div 2 /\ t.threshold \in Int
          /\ t.a \in StatKeys /\ t.b \in StatKeys
        <3>1. Key(1, period) \in StatKeys /\ Key(2, period) \in StatKeys
            BY StatKeysOfCatalog
        <3>2. Key(1, period) = 1000 * period + 1
            BY DEF Key
        <3>3. QED BY <3>1, <3>2 DEF Sum, Terms
    <2>3. d.legs = <<t>> /\ d.slug = <<"ou-goals", halves, period>>
        BY <2>1 DEF Def
    <2>4. 2 * (halves \div 2) + 1 = halves
        OBVIOUS
    <2> HIDE DEF t
    <2>5. SlugOf(t) = <<"ou-goals", halves, period>>
        <3>1. CASE period = 0
            BY <2>2, <2>4, <3>1 DEF SlugOf
        <3>2. CASE period = 1
            BY <2>2, <2>4, <3>2 DEF SlugOf
        <3>3. QED BY <3>1, <3>2
    <2>6. LegOK(t)
        BY <2>2 DEF LegOK
    <2>7. QED BY <2>3, <2>5, <2>6
<1>2. ASSUME NEW team \in {1, 2}, d \in TeamMarkets(team)
      PROVE  \E t : /\ d.legs = <<t>> /\ d.slug = SlugOf(t)
                    /\ LegOK(t)
    <2>1. PICK name, t :
             /\ d = Def(name[team], 0, 0, <<t>>)
             /\ \/ /\ name = <<"home-win", "away-win">>
                   /\ t = Lead(Goals[team], Goals[3 - team], "GreaterThan", 0)
                \/ /\ name = <<"home-scores", "away-scores">>
                   /\ t = Single(Goals[team], 0)
                \/ /\ name = <<"home-wins-by-2", "away-wins-by-2">>
                   /\ t = Lead(Goals[team], Goals[3 - team], "GreaterThan", 1)
        BY <1>2 DEF TeamMarkets
    <2>2. d.legs = <<t>> /\ d.slug = <<name[team], 0, 0>>
        BY <2>1 DEF Def
    <2>3. /\ t.a = team /\ t.comparison = "GreaterThan"
          /\ \/ name = <<"home-win", "away-win">> /\ t.op = "Subtract" /\ t.threshold = 0
             \/ name = <<"home-scores", "away-scores">> /\ t.op = "none"
             \/ name = <<"home-wins-by-2", "away-wins-by-2">> /\ t.op = "Subtract" /\ t.threshold = 1
        BY <2>1 DEF Lead, Single, Terms, Goals
    <2>6. LegOK(t)
        <3>1. Goals[team] \in StatKeys /\ Goals[3 - team] \in StatKeys
            BY StatKeysOfCatalog DEF Goals
        <3>2. t.a \in StatKeys /\ (t.op = "none" \/ t.b \in StatKeys) /\ t.threshold \in Int
            BY <2>1, <3>1 DEF Lead, Single, Terms
        <3>3. QED BY <2>3, <3>2 DEF LegOK
    <2>4. SlugOf(t) = <<name[team], 0, 0>>
        BY <2>3 DEF SlugOf
    <2>5. QED BY <2>2, <2>4, <2>6
<1>3. ASSUME d \in MatchMarkets
      PROVE  \E t : /\ d.legs = <<t>> /\ d.slug = SlugOf(t)
                    /\ LegOK(t)
    <2>1. PICK slug, t :
             /\ d.slug = slug /\ d.legs = <<t>>
             /\ \/ slug = <<"draw", 0, 0>> /\ t = Lead(1, 2, "EqualTo", 0)
                \/ slug = <<"ou-corners", 17, 0>> /\ t = Sum(<<7, 8>>, 8)
                \/ slug = <<"ou-corners", 21, 0>> /\ t = Sum(<<7, 8>>, 10)
                \/ slug = <<"home-most-corners", 0, 0>> /\ t = Lead(7, 8, "GreaterThan", 0)
                \/ slug = <<"ou-yellows", 7, 0>> /\ t = Sum(<<3, 4>>, 3)
                \/ slug = <<"red-card", 0, 0>> /\ t = Sum(<<5, 6>>, 0)
        BY <1>3 DEF MatchMarkets, Def, Corners, Yellows, Reds
    <2>2. \/ /\ slug = <<"draw", 0, 0>>
             /\ t.op = "Subtract" /\ t.a = 1 /\ t.comparison = "EqualTo"
          \/ /\ slug = <<"home-most-corners", 0, 0>>
             /\ t.op = "Subtract" /\ t.a = 7 /\ t.comparison = "GreaterThan"
          \/ /\ t.op = "Add" /\ t.comparison = "GreaterThan"
             /\ \/ slug = <<"ou-corners", 17, 0>> /\ t.a = 7 /\ t.threshold = 8
                \/ slug = <<"ou-corners", 21, 0>> /\ t.a = 7 /\ t.threshold = 10
                \/ slug = <<"ou-yellows", 7, 0>> /\ t.a = 3 /\ t.threshold = 3
                \/ slug = <<"red-card", 0, 0>> /\ t.a = 5
        BY <2>1 DEF Lead, Sum, Terms
    <2>3. SlugOf(t) = slug
        BY <2>2 DEF SlugOf
    <2>4. LegOK(t)
        <3>1. t.a \in StatKeys /\ t.b \in StatKeys /\ t.threshold \in Int
            BY <2>1, StatKeysOfCatalog DEF Lead, Sum, Terms
        <3>2. QED BY <2>2, <3>1 DEF LegOK
    <2>5. QED BY <2>1, <2>3, <2>4
<1>4. ASSUME d \in BothTeamsToScore
      PROVE  /\ Len(d.legs) = 2 /\ d.legs # <<>>
             /\ LegOK(d.legs[1])
    <2>1. d.legs = <<Single(1, 0), Single(2, 0)>>
        BY <1>4 DEF BothTeamsToScore, Def
    <2>2. LegOK(Single(1, 0))
        BY StatKeysOfCatalog DEF Single, Terms, LegOK
    <2>3. QED BY <2>1, <2>2
<1>5. CASE d \in BothTeamsToScore
    BY <1>4, <1>5
<1>6. CASE d \notin BothTeamsToScore
    <2>1. PICK t : /\ d.legs = <<t>> /\ d.slug = SlugOf(t)
                   /\ LegOK(t)
        BY <1>1, <1>2, <1>3, <1>6 DEF classAMarkets
    <2>2. d.legs # <<>> /\ Len(d.legs) = 1 /\ d.legs[1] = t
        BY <2>1
    <2>3. QED BY <2>1, <2>2
<1>7. QED BY <1>5, <1>6
\* The sequence the tick visits.
LEMMA DefsOfCatalog == \A i \in 1..Len(Defs) : Defs[i] \in classAMarkets
BY MarketsAssumption

(***************************************************************************)
(* The world and the fixture's row.                                        *)
(***************************************************************************)
LEMMA StartsAreIntegers ==
    /\ Kickoff \in Int
    /\ WorldTypeOK => now \in Int /\ start \in Int
<1>1. Kickoff \in StartTimes /\ StartTimes \subseteq Int /\ Instants \subseteq Int
    BY MarketsAssumption
<1>2. QED BY <1>1 DEF WorldTypeOK

\* Once the match has begun it is in one of five states.
LEMMA StatusType ==
    ASSUME NEW t \in Int, start \in Int
    PROVE  /\ StatusAt(t) \in 1..5
           /\ MinuteAt(t) \in Int
           /\ StatusAt(t) >= 2 <=> start <= t
           /\ StatusAt(t) \in 2..4 => t < start + FullTimeAfter
BY DEF StatusAt, MinuteAt, FullTimeAfter

\* Time, the match and the feed: the start moves at most once, before the match.
LEMMA WorldSteps ==
    ASSUME WorldTypeOK, FixtureFollowsFeed, World
    PROVE  /\ WorldTypeOK' /\ FixtureFollowsFeed'
           /\ UNCHANGED <<pools, rows, faults>>
           /\ now <= now'
           /\ start' # start => start = Kickoff /\ now < start
<1>1. /\ now \in Int /\ start \in Int /\ Kickoff \in Int
      /\ StartTimes \subseteq Int /\ Instants \subseteq Int
    BY StartsAreIntegers, MarketsAssumption
<1>2. /\ fixture \in FixtureRows /\ fixture.lastTs \in Int /\ fixture.status \in 0..5
      /\ stats \in [StatKeys -> 0..MaxCount] /\ MaxCount \in Nat
    BY MarketsAssumption DEF FixtureFollowsFeed, FixtureRows, WorldTypeOK
<1>3. CASE Tick
    <2>1. now' \in Instants /\ now' \in Int /\ now < now'
          /\ UNCHANGED <<start, stats, pools, rows, fixture, faults>>
        BY <1>1, <1>3 DEF Tick, dbVars
    <2>2. StatusAt(fixture.lastTs)' = StatusAt(fixture.lastTs)
        BY <2>1 DEF StatusAt
    <2>3. QED BY <1>1, <1>2, <2>1, <2>2 DEF WorldTypeOK, FixtureFollowsFeed, Known
<1>4. ASSUME NEW s \in StartTimes, Reschedule(s)
      PROVE  /\ WorldTypeOK' /\ FixtureFollowsFeed'
             /\ UNCHANGED <<now, pools, rows, faults, fixture>>
             /\ start = Kickoff /\ now < start
    <2>1. /\ UNCHANGED <<now, stats, pools, rows, fixture, faults>>
          /\ start = Kickoff /\ now < start /\ start' = s
        BY <1>4 DEF Reschedule, dbVars
    <2>2. ~(fixture.status >= 2)
        BY <1>1, <1>2, <2>1 DEF FixtureFollowsFeed
    <2>3. QED BY <1>1, <1>2, <2>1, <2>2 DEF WorldTypeOK, FixtureFollowsFeed, Known
<1>6. ASSUME NEW base \in Counted, Count(base)
      PROVE  /\ WorldTypeOK' /\ FixtureFollowsFeed'
             /\ UNCHANGED <<now, start, pools, rows, faults>>
    <2> DEFINE half == Key(base, IF StatusAt(now) = 2 THEN 1 ELSE 2)
    <2>1. /\ UNCHANGED <<now, start, pools, rows, fixture, faults>>
          /\ stats[base] < MaxCount
          /\ stats' = [k \in StatKeys |-> IF k \in {base, half} THEN stats[k] + 1 ELSE stats[k]]
        BY <1>6 DEF Count, dbVars
    <2>2. /\ base \in 1..8 /\ base \in StatKeys
          /\ \A b \in 1..8, period \in 0..2 :
                /\ Key(b, period) \in StatKeys /\ b \in StatKeys
                /\ Key(b, period) \in {base, half} => b = base
          /\ \A k \in StatKeys : \E b \in 1..8, period \in 0..2 : k = Key(b, period)
        <3>1. base \in 1..8
            BY MarketsAssumption
        <3>2. \A b \in 1..8 : b \in StatKeys
            BY StatKeysOfCatalog
        <3>3. half \in {1000 + base, 2000 + base}
            BY <3>1 DEF Key
        <3>4. \A b \in 1..8, period \in 0..2 : Key(b, period) \in {base, half} => b = base
            BY <3>1, <3>3 DEF Key
        <3>5. QED BY <3>1, <3>2, <3>4 DEF StatKeys
    <2> HIDE DEF half
    <2>3. \A b \in 1..8, period \in 0..2 : stats[Key(b, period)] <= stats[b]
        BY DEF WorldTypeOK
    <2>4. stats' \in [StatKeys -> 0..MaxCount]
        <3> SUFFICES ASSUME NEW k \in StatKeys PROVE stats'[k] \in 0..MaxCount
            BY <2>1
        <3>1. PICK b \in 1..8, period \in 0..2 : k = Key(b, period)
            BY <2>2
        <3>2. stats[k] <= stats[b] /\ (k \in {base, half} => b = base)
            BY <2>2, <2>3, <3>1
        <3>3. QED BY <1>2, <2>1, <2>2, <3>2
    <2>5. \A b \in 1..8, period \in 0..2 : stats'[Key(b, period)] <= stats'[b]
        <3> SUFFICES ASSUME NEW b \in 1..8, NEW period \in 0..2
                     PROVE  stats'[Key(b, period)] <= stats'[b]
            OBVIOUS
        <3>1. /\ stats[Key(b, period)] <= stats[b]
              /\ Key(b, period) \in {base, half} => b = base
              /\ Key(b, period) \in StatKeys /\ b \in StatKeys
            BY <2>2, <2>3
        <3>2. \A k \in StatKeys : stats[k] \in Nat
            BY MarketsAssumption DEF WorldTypeOK
        <3> DEFINE k == Key(b, period)
        <3>3. stats'[k] = (IF k \in {base, half} THEN stats[k] + 1 ELSE stats[k])
            BY <2>1, <3>1
        <3>4. stats'[b] = (IF b \in {base, half} THEN stats[b] + 1 ELSE stats[b])
            BY <2>1, <3>1
        <3>5. stats[k] \in Nat /\ stats[b] \in Nat /\ stats[k] <= stats[b]
            BY <3>1, <3>2
        <3>6. k \in {base, half} => b \in {base, half}
            BY <3>1
        <3> HIDE DEF k
        <3>7. stats'[k] <= stats'[b]
            BY <3>3, <3>4, <3>5, <3>6
        <3>8. QED BY <3>7 DEF k
    <2>6. WorldTypeOK'
        BY <2>1, <2>4, <2>5 DEF WorldTypeOK
    <2>7. StatusAt(fixture.lastTs)' = StatusAt(fixture.lastTs)
        BY <2>1 DEF StatusAt
    <2>8. QED BY <2>1, <2>6, <2>7 DEF FixtureFollowsFeed, Known
<1>7. CASE Index
    <2>1. PICK ts \in Instants, lacks \in SUBSET Shortfalls, counts \in {stats, NoStats} :
             /\ ts <= now /\ fixture' = Latest(ts, lacks, counts)
        BY <1>7 DEF Index
    <2>2. UNCHANGED <<now, start, stats, pools, rows, faults>> /\ Known
        BY <1>7 DEF Index, worldVars
    <2> DEFINE told == "status" \notin lacks
               status == IF "status" \in lacks \/ fixture.status = 5
                           THEN fixture.status ELSE StatusAt(ts)
               minute == IF "clock" \in lacks \/ ts < start THEN fixture.minute ELSE MinuteAt(ts)
               new == IF "counts" \in lacks THEN fixture.stats ELSE counts
    <2>3. fixture' = [fixture EXCEPT !.status = status, !.minute = minute, !.stats = new,
                                     !.lastTs = ts, !.told = told]
        BY <2>1 DEF Latest
    <2>4. /\ ts \in Int /\ StatusAt(ts) \in 1..5 /\ MinuteAt(ts) \in Int
          /\ StatusAt(ts) >= 2 => start <= ts
        BY <1>1, StatusType
    <2>5. NoStats \in [StatKeys -> 0..MaxCount]
        BY <1>2 DEF NoStats
    <2>6. status \in 0..5 /\ minute \in Int
        BY <1>2, <2>4 DEF FixtureRows
    <2>7. new \in [StatKeys -> 0..MaxCount] \cup {Unknown} /\ told \in BOOLEAN
        BY <1>2, <2>5 DEF FixtureRows
    <2>8. /\ status >= 2 => start <= now
          /\ told /\ status \in 2..4 => status = StatusAt(ts)
        <3>1. fixture.status >= 2 => start <= now
            BY DEF FixtureFollowsFeed
        <3>2. QED BY <1>1, <1>2, <2>1, <2>4, <3>1
    <2> HIDE DEF status, minute, new, told
    <2>9. /\ fixture' \in FixtureRows /\ fixture'.start = fixture.start
          /\ fixture'.status = status /\ fixture'.lastTs = ts /\ fixture'.told = told
        BY <1>2, <2>3, <2>4, <2>6, <2>7 DEF FixtureRows
    <2>10. StatusAt(fixture.lastTs)' = StatusAt(ts)
        BY <2>2, <2>9 DEF StatusAt
    <2>11. FixtureFollowsFeed'
        <3>1. fixture.start \in {Kickoff, start}
            BY <2>2 DEF FixtureFollowsFeed
        <3>2. QED BY <2>1, <2>2, <2>8, <2>9, <2>10, <3>1 DEF FixtureFollowsFeed
    <2>12. WorldTypeOK'
        BY <2>2 DEF WorldTypeOK
    <2>13. QED BY <1>1, <2>2, <2>11, <2>12
<1>9. CASE \E s \in StartTimes : Reschedule(s)
    BY <1>1, <1>4, <1>9
<1>10. CASE \E base \in Counted : Count(base)
    BY <1>1, <1>6, <1>10
<1>11. QED BY <1>3, <1>7, <1>9, <1>10 DEF World

(***************************************************************************)
(* The pools and the rows.                                                 *)
(***************************************************************************)

\* What the world does leaves the markets well made.
LEMMA WorldKeepsMarkets ==
    ASSUME WorldTypeOK, FixtureFollowsFeed, World,
           PoolsWellMade, RowsWellMade, RowTellsItsPool
    PROVE  PoolsWellMade' /\ RowsWellMade' /\ RowTellsItsPool'
<1>1. UNCHANGED <<pools, rows>> /\ (start' # start => start = Kickoff)
    BY WorldSteps
<1>2. PoolsWellMade'
    BY <1>1 DEF PoolsWellMade
<1>3. RowsWellMade'
    BY <1>1 DEF RowsWellMade, RowFits, Row
<1>4. QED BY <1>1, <1>2, <1>3 DEF RowTellsItsPool

LEMMA PoolIsRecord ==
    ASSUME NEW lock \in Int, NEW st \in Int, NEW madeAt \in Int, NEW told \in BOOLEAN,
           NEW by \in {"engine", "live", "prematch", "champion"}
    PROVE  /\ Pool(lock, st, by, madeAt, told) \in PoolRecords
           /\ Pool(lock, st, by, madeAt, told).start = st
           /\ Pool(lock, st, by, madeAt, told).lock = lock
           /\ Pool(lock, st, by, madeAt, told).madeAt = madeAt
           /\ Pool(lock, st, by, madeAt, told).told = told
           /\ Pool(lock, st, by, madeAt, told).by = by
           /\ Pool(lock, st, by, madeAt, told).state = "open"
BY DEF Pool, PoolRecords, resolveDeadline

\* A new pool on terms that have none.
LEMMA NewPool ==
    ASSUME PoolsWellMade, UNCHANGED start,
           NEW t, t \notin DOMAIN pools, NEW p \in PoolRecords, pools' = Put(pools, t, p),
           p.start \in {Kickoff, start}, p.by # "live" => p.lock = p.start - LockLead
    PROVE  /\ PoolsWellMade'
           /\ DOMAIN pools' = DOMAIN pools \cup {t} /\ pools'[t] = p
           /\ \A u \in DOMAIN pools : pools'[u] = pools[u]
<1>1. /\ DOMAIN pools' = DOMAIN pools \cup {t} /\ pools'[t] = p
      /\ \A u \in DOMAIN pools : pools'[u] = pools[u]
    BY DEF Put
<1>2. PoolsWellMade'
    <2> SUFFICES ASSUME NEW u \in DOMAIN pools'
                 PROVE  /\ pools'[u] \in PoolRecords /\ pools'[u].start \in {Kickoff, start}
                        /\ pools'[u].by # "live" => pools'[u].lock = pools'[u].start - LockLead
        BY DEF PoolsWellMade
    <2>1. CASE u = t
        BY <1>1, <2>1
    <2>2. CASE u # t
        BY <1>1, <2>2 DEF PoolsWellMade
    <2>3. QED BY <2>1, <2>2
<1>3. QED BY <1>1, <1>2

\* Rows of the pools there were are told of as before.
LEMMA MorePools ==
    ASSUME RowTellsItsPool, UNCHANGED rows, DOMAIN pools \subseteq DOMAIN pools',
           \A u \in DOMAIN pools : pools'[u] = pools[u]
    PROVE  RowTellsItsPool'
BY DEF RowTellsItsPool

\* A new row, or a def's row written again.
LEMMA NewRow ==
    ASSUME RowsWellMade, RowTellsItsPool, UNCHANGED start, UNCHANGED pools,
           NEW id, NEW r, rows' = Put(rows, id, r), RowFits(id, r),
           r.hasPool => /\ r.legs[1] \in DOMAIN pools
                        /\ r.state = "Settled" => pools[r.legs[1]].state = "resolved"
    PROVE  /\ RowsWellMade' /\ RowTellsItsPool'
           /\ DOMAIN rows' = DOMAIN rows \cup {id} /\ rows'[id] = r
           /\ \A x \in DOMAIN rows \ {id} : rows'[x] = rows[x]
<1>1. /\ DOMAIN rows' = DOMAIN rows \cup {id} /\ rows'[id] = r
      /\ \A x \in DOMAIN rows \ {id} : rows'[x] = rows[x]
    BY DEF Put
<1>2. ASSUME NEW x, NEW y, RowFits(x, y) PROVE RowFits(x, y)'
    BY <1>2 DEF RowFits
<1>3. RowsWellMade'
    <2> SUFFICES ASSUME NEW x \in DOMAIN rows' PROVE RowFits(x, rows'[x])
        BY <1>2 DEF RowsWellMade, RowFits
    <2>1. QED BY <1>1 DEF RowsWellMade
<1>4. RowTellsItsPool'
    <2> SUFFICES ASSUME NEW x \in DOMAIN rows', rows'[x].hasPool
                 PROVE  /\ rows'[x].legs[1] \in DOMAIN pools
                        /\ rows'[x].state = "Settled" =>
                              pools[rows'[x].legs[1]].state = "resolved"
        BY DEF RowTellsItsPool
    <2>1. CASE x = id
        BY <1>1, <2>1
    <2>2. CASE x # id
        BY <1>1, <2>2 DEF RowTellsItsPool
    <2>3. QED BY <2>1, <2>2
<1>5. QED BY <1>1, <1>3, <1>4

\* The chain resolves or voids a pool once; the settler then follows it.
LEMMA SettlementSteps ==
    ASSUME WorldTypeOK, PoolsWellMade, RowsWellMade, RowTellsItsPool, Settlement
    PROVE  /\ PoolsWellMade' /\ RowsWellMade' /\ RowTellsItsPool'
           /\ UNCHANGED <<worldVars, fixture, faults>>
           /\ DOMAIN pools' = DOMAIN pools
           /\ \A t \in DOMAIN pools :
                 /\ pools[t].state # "open" => pools'[t] = pools[t]
                 /\ pools'[t].by = pools[t].by /\ pools'[t].start = pools[t].start
                 /\ pools'[t].lock = pools[t].lock
           /\ DOMAIN rows' = DOMAIN rows
           /\ \A id \in DOMAIN rows :
                 /\ rows'[id].origin = rows[id].origin /\ rows'[id].hasPool = rows[id].hasPool
                 /\ rows'[id].legs = rows[id].legs
<1>1. ASSUME NEW t \in CatalogTerms \cap DOMAIN pools, Proved(t) \/ Voided(t)
      PROVE  /\ UNCHANGED <<worldVars, rows, fixture, faults>>
             /\ pools[t].state = "open"
             /\ \E state \in {"resolved", "void"} : pools' = [pools EXCEPT ![t].state = state]
    BY <1>1 DEF Proved, Voided, dbVars
<1>2. ASSUME NEW t \in DOMAIN pools, pools[t].state = "open",
             NEW state \in {"resolved", "void"}, pools' = [pools EXCEPT ![t].state = state],
             UNCHANGED <<worldVars, rows, fixture, faults>>
      PROVE  /\ PoolsWellMade' /\ RowsWellMade' /\ RowTellsItsPool'
             /\ DOMAIN pools' = DOMAIN pools
             /\ \A u \in DOMAIN pools :
                   /\ pools[u].state # "open" => pools'[u] = pools[u]
                   /\ pools'[u].by = pools[u].by /\ pools'[u].start = pools[u].start
                   /\ pools'[u].lock = pools[u].lock
    <2>1. /\ DOMAIN pools' = DOMAIN pools
          /\ \A u \in DOMAIN pools \ {t} : pools'[u] = pools[u]
          /\ pools'[t] = [pools[t] EXCEPT !.state = state]
        BY <1>2
    <2>2. pools[t] \in PoolRecords
        BY DEF PoolsWellMade
    <2>3. /\ pools'[t] \in PoolRecords
          /\ pools'[t].by = pools[t].by /\ pools'[t].start = pools[t].start
          /\ pools'[t].lock = pools[t].lock
        BY <2>1, <2>2 DEF PoolRecords
    <2>4. UNCHANGED start
        BY <1>2 DEF worldVars
    <2>5. PoolsWellMade'
        <3> SUFFICES ASSUME NEW u \in DOMAIN pools'
                     PROVE  /\ pools'[u] \in PoolRecords /\ pools'[u].start \in {Kickoff, start}
                            /\ pools'[u].by # "live" => pools'[u].lock = pools'[u].start - LockLead
            BY <2>4 DEF PoolsWellMade
        <3>1. CASE u = t
            BY <2>3, <3>1 DEF PoolsWellMade
        <3>2. CASE u # t
            BY <2>1, <3>2 DEF PoolsWellMade
        <3>3. QED BY <3>1, <3>2
    <2>6. RowsWellMade'
        BY <1>2, <2>4 DEF RowsWellMade, RowFits, Row
    <2>7. RowTellsItsPool'
        BY <1>2, <2>1 DEF RowTellsItsPool
    <2>8. QED BY <1>2, <2>1, <2>3, <2>5, <2>6, <2>7
<1>3. ASSUME NEW id \in DOMAIN rows, Settles(id)
      PROVE  /\ UNCHANGED <<worldVars, pools, fixture, faults>>
             /\ RowsWellMade' /\ RowTellsItsPool' /\ DOMAIN rows' = DOMAIN rows
             /\ \A x \in DOMAIN rows :
                 /\ rows'[x].origin = rows[x].origin /\ rows'[x].hasPool = rows[x].hasPool
                 /\ rows'[x].legs = rows[x].legs
    <2>1. PICK outcome \in {"Settled", "Void"} :
             /\ rows[id].hasPool /\ outcome = "Settled" =>
                   pools[rows[id].legs[1]].state = "resolved"
             /\ rows' = [rows EXCEPT ![id].state = outcome]
        BY <1>3 DEF Settles
    <2>2. UNCHANGED <<worldVars, pools, fixture, faults>>
        BY <1>3 DEF Settles
    <2> DEFINE r == rows[id]
    <2>3. r = Row(r.legs, r.hasPool, r.lock, r.state, r.origin)
        BY DEF RowsWellMade, RowFits
    <2>4. /\ DOMAIN rows' = DOMAIN rows
          /\ \A x \in DOMAIN rows \ {id} : rows'[x] = rows[x]
          /\ rows'[id] = [r EXCEPT !.state = outcome]
        BY <2>1
    <2>5. rows'[id] = Row(r.legs, r.hasPool, r.lock, outcome, r.origin)
        BY <2>3, <2>4 DEF Row
    <2>6. /\ rows'[id].legs = r.legs /\ rows'[id].hasPool = r.hasPool
          /\ rows'[id].lock = r.lock /\ rows'[id].origin = r.origin
          /\ rows'[id].state = outcome
        BY <2>5 DEF Row
    <2>7. UNCHANGED start
        BY <2>2 DEF worldVars
    <2>8. RowsWellMade'
        <3> SUFFICES ASSUME NEW x \in DOMAIN rows' PROVE RowFits(x, rows'[x])
            BY <2>7 DEF RowsWellMade, RowFits
        <3>1. CASE x = id
            <4>1. RowFits(id, r)
                BY DEF RowsWellMade
            <4> DEFINE new == rows'[id]
            <4>2. /\ new.legs = r.legs /\ new.hasPool = r.hasPool
                  /\ new.lock = r.lock /\ new.origin = r.origin
                  /\ new.state = outcome
                BY <2>6
            <4>3. new = Row(new.legs, new.hasPool, new.lock, new.state, new.origin)
                BY <2>5, <4>2
            <4> HIDE DEF new, r
            <4>4. RowFits(id, new)
                BY <4>1, <4>2, <4>3 DEF RowFits
            <4>5. QED BY <3>1, <4>4 DEF new
        <3>2. CASE x # id
            BY <2>4, <3>2 DEF RowsWellMade
        <3>3. QED BY <3>1, <3>2
    <2>9. RowTellsItsPool'
        BY <2>1, <2>2, <2>4, <2>6 DEF RowTellsItsPool
    <2>10. QED BY <2>2, <2>4, <2>6, <2>8, <2>9
<1>4. CASE \E t \in CatalogTerms \cap DOMAIN pools : Proved(t) \/ Voided(t)
    <2>1. PICK t \in CatalogTerms \cap DOMAIN pools : Proved(t) \/ Voided(t)
        BY <1>4
    <2>2. PICK state \in {"resolved", "void"} :
             /\ UNCHANGED <<worldVars, rows, fixture, faults>>
             /\ pools[t].state = "open"
             /\ pools' = [pools EXCEPT ![t].state = state]
        BY <1>1, <2>1
    <2>3. QED BY <1>2, <2>2
<1>5. CASE \E id \in DOMAIN rows : Settles(id)
    <2>1. PICK id \in DOMAIN rows : Settles(id)
        BY <1>5
    <2>2. UNCHANGED start
        BY <1>3, <2>1 DEF worldVars
    <2>3. PoolsWellMade'
        BY <1>3, <2>1, <2>2 DEF PoolsWellMade
    <2>4. QED BY <1>3, <2>1, <2>3
<1>6. QED BY <1>4, <1>5 DEF Settlement

\* What a row says of its lock agrees with its pool.
LEMMA WellMadeLocks == WorldTypeOK /\ PoolsWellMade /\ RowsWellMade /\ RowTellsItsPool /\
    (\A id \in DOMAIN rows : rows[id].hasPool => rows[id].origin = "catalog") => LocksBeforeKickoff
<1> SUFFICES ASSUME WorldTypeOK, PoolsWellMade, RowsWellMade,
                    \A id \in DOMAIN rows : rows[id].hasPool => rows[id].origin = "catalog",
                    NEW t \in DOMAIN pools, pools[t].by # "live"
             PROVE  /\ pools[t].lock >= start => start < Kickoff /\ pools[t].start = Kickoff
                    /\ start = Kickoff => \A id \in DOMAIN rows :
                          rows[id].hasPool /\ rows[id].legs[1] = t => rows[id].lock = pools[t].lock
    BY DEF LocksBeforeKickoff
<1>1. Kickoff \in Int /\ start \in Int
    BY StartsAreIntegers
<1>2. pools[t].start \in {Kickoff, start} /\ pools[t].lock = pools[t].start - LockLead
    BY DEF PoolsWellMade
<1>3. start = Kickoff => \A id \in DOMAIN rows : rows[id].hasPool => rows[id].lock = start - LockLead
    BY DEF RowsWellMade, RowFits
<1>4. QED BY <1>1, <1>2, <1>3 DEF LockLead

\* No row of a fixture is well typed too.
LEMMA NoFixtureIsRow ==
    /\ NoFixture \in FixtureRows
    /\ NoFixture.status = 0 /\ NoFixture.told = TRUE
BY DEF FixtureRows, NoFixture, NoClock

\* The upsert of the fixture's row gives it the start of now.
LEMMA UpsertKeeps ==
    ASSUME WorldTypeOK, FixtureFollowsFeed, UNCHANGED worldVars, fixture' \in {fixture, Upserted}
    PROVE  FixtureFollowsFeed'
<1>1. UNCHANGED start /\ UNCHANGED now /\ start \in StartTimes
    BY DEF worldVars, WorldTypeOK
<1>2. fixture \in FixtureRows
    BY DEF FixtureFollowsFeed
<1>3. CASE UNCHANGED fixture
    <2>1. StatusAt(fixture.lastTs)' = StatusAt(fixture.lastTs)
        BY <1>1, <1>3 DEF StatusAt
    <2>2. QED BY <1>1, <1>3, <2>1 DEF FixtureFollowsFeed, Known
<1>4. CASE Known /\ fixture' = Upserted
    <2>1. fixture' = [fixture EXCEPT !.start = start]
        BY <1>4 DEF Upserted
    <2>2. /\ fixture' \in FixtureRows /\ fixture'.start = start
          /\ fixture'.status = fixture.status /\ fixture'.lastTs = fixture.lastTs
          /\ fixture'.told = fixture.told
        BY <1>1, <1>2, <2>1 DEF FixtureRows
    <2>3. StatusAt(fixture.lastTs)' = StatusAt(fixture.lastTs)
        BY <1>1, <2>2 DEF StatusAt
    <2>4. QED BY <1>1, <2>2, <2>3 DEF FixtureFollowsFeed
<1>5. CASE ~Known /\ fixture' = Upserted
    <2>1. fixture' = [NoFixture EXCEPT !.start = start, !.lastTs = 0]
        BY <1>5 DEF Upserted
    <2> DEFINE none == NoFixture
    <2>2. none \in FixtureRows /\ none.status = 0
        BY NoFixtureIsRow
    <2> HIDE DEF none
    <2>3. fixture' = [none EXCEPT !.start = start, !.lastTs = 0]
        BY <2>1 DEF none
    <2>4. fixture' = [start |-> start, status |-> 0, minute |-> none.minute,
                      stats |-> none.stats, lastTs |-> 0, told |-> none.told]
        BY <2>2, <2>3 DEF FixtureRows
    <2>5. /\ none.minute \in Int /\ none.told \in BOOLEAN
          /\ none.stats \in [StatKeys -> 0..MaxCount] \cup {Unknown}
        BY <2>2 DEF FixtureRows
    <2>6. fixture'.start = start /\ fixture'.status = 0
        BY <2>4
    <2>7. fixture' \in FixtureRows
        BY <1>1, <2>4, <2>5 DEF FixtureRows
    <2>8. QED BY <1>1, <2>6, <2>7 DEF FixtureFollowsFeed
<1>6. QED BY <1>3, <1>4, <1>5

\* A restart loses the rows, or it loses nothing.
LEMMA RestartKeeps ==
    ASSUME WorldTypeOK, FixtureFollowsFeed, PoolsWellMade, RowsWellMade, RowTellsItsPool,
           NEW lost \in BOOLEAN, Restarts(lost)
    PROVE  /\ WorldTypeOK' /\ FixtureFollowsFeed'
           /\ PoolsWellMade' /\ RowsWellMade' /\ RowTellsItsPool'
           /\ UNCHANGED start /\ UNCHANGED pools /\ UNCHANGED now
           /\ UNCHANGED rows \/ rows' = <<>>
<1>1. /\ UNCHANGED start /\ UNCHANGED pools /\ UNCHANGED now /\ UNCHANGED stats
      /\ faults < MaxFaults /\ faults' = faults + 1
      /\ \/ UNCHANGED rows /\ UNCHANGED fixture
         \/ rows' = <<>> /\ fixture' = NoFixture
    BY DEF Restarts, worldVars, dbVars
<1>2. WorldTypeOK'
    <2>1. MaxFaults \in Nat
        BY MarketsAssumption
    <2>2. faults' \in 0..MaxFaults
        BY <1>1, <2>1 DEF WorldTypeOK
    <2>3. QED BY <1>1, <2>2 DEF WorldTypeOK
<1>3. FixtureFollowsFeed'
    <2>1. CASE UNCHANGED fixture
        <3>1. StatusAt(fixture.lastTs)' = StatusAt(fixture.lastTs)
            BY <1>1, <2>1 DEF StatusAt
        <3>2. QED BY <1>1, <2>1, <3>1 DEF FixtureFollowsFeed, Known
    <2>2. CASE fixture' = NoFixture
        BY <2>2, NoFixtureIsRow DEF FixtureFollowsFeed, Known
    <2>3. QED BY <1>1, <2>1, <2>2
<1>4. PoolsWellMade'
    BY <1>1 DEF PoolsWellMade
<1>5. RowsWellMade' /\ RowTellsItsPool'
    <2>1. CASE UNCHANGED rows
        BY <1>1, <2>1 DEF RowsWellMade, RowFits, Row, RowTellsItsPool
    <2>2. CASE rows' = <<>>
        BY <2>2 DEF RowsWellMade, RowTellsItsPool
    <2>3. QED BY <1>1, <2>1, <2>2
<1>6. QED BY <1>1, <1>2, <1>3, <1>4, <1>5
=============================================================================
