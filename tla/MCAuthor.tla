----------------------------- MODULE MCAuthor -------------------------------
(***************************************************************************)
(* One match, kicking off at 19:00, which is the final for team 1; the     *)
(* home-win market of the catalog and four proposals: the catalog's        *)
(* home-win in other words, two markets that share a slug, and one that    *)
(* only stands before the match.  The instants: a day before, the first    *)
(* half, and just after the time by which a record of the match in play    *)
(* is no longer fresh.                                                     *)
(***************************************************************************)
EXTENDS Author

MCDefs == <<CHOOSE d \in classAMarkets : d.slug = <<"home-win", 0, 0>>>>

Proposal(slug, period, a, b, op, comparison, threshold) ==
    [slug |-> slug, period |-> period, a |-> a, b |-> b, op |-> op,
     comparison |-> comparison, threshold |-> threshold]

MCProposals ==
    { Proposal("x", 0, 1, 2, "Subtract", "GreaterThan", 0),
      Proposal("y", 2, 1, NoKey, "none", "GreaterThan", 0),
      Proposal("y", 0, 1, 2, "Add", "LessThan", 2),
      Proposal("z", 1, 1, NoKey, "none", "GreaterThan", 0) }

MCStartTimes == {1140}
MCInstants == {-300, 1170, 1256}

\* Every def of the catalog decides what its question asks.
AllCounts == {[k \in 1..2008 |-> IF k % 2 = 1 THEN x ELSE y] : x, y \in 0..12}
ASSUME CatalogAssumption ==
    \A d \in classAMarkets : \A v \in AllCounts : AllHold(d.legs, v) <=> Asks(d.slug, v)
=============================================================================
