------------------------------- MODULE Stakes -------------------------------
(***************************************************************************)
(* Sums of stakes.  A stake of n tokens on position p is the n units       *)
(* <<p, 1>>, ..., <<p, n>>; the total of a set of positions is the number  *)
(* of units they hold.  Counting units instead of folding lets the proofs  *)
(* use the library's facts about finite sets and cardinalities.            *)
(***************************************************************************)
EXTENDS Naturals, FiniteSets

(* The side_yes flag of a position, and winner_yes of a market. *)
Sides == {"yes", "no"}
Other(side) == IF side = "yes" THEN "no" ELSE "yes"

Units(stake, P) == UNION {{p} \X (1..stake[p]) : p \in P}

Total(stake, P) == Cardinality(Units(stake, P))
=============================================================================
