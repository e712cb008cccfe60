------------------------------- MODULE MCPool -------------------------------
(***************************************************************************)
(* Values for model-checking Pool.                                         *)
(*                                                                         *)
(* One fixture, kicking off at second 1 and over at second 2, with two     *)
(* statistics.  The feed's records of it: one of the first half (period    *)
(* 2), the full-time totals (period 0, ts 2500: between two seconds), the  *)
(* archival record (period 100) that corrects the result, and one record   *)
(* of another fixture.                                                     *)
(***************************************************************************)
EXTENDS Pool, TLC

CONSTANTS u1, u2, u3

MCTerms == [fixture |-> 1, period |-> 0, statA |-> 1, statB |-> 2, negation |-> FALSE]

Leaf(k, per) == [key |-> k, period |-> per]
Record(f, per, ms, h) ==
    [fixture |-> f, ts |-> ms, a |-> Leaf(1, per), b |-> Leaf(2, per), holds |-> h]

MCRecords ==
    { Record(1, 2, 1400, TRUE),
      Record(1, 0, 2500, TRUE),
      Record(1, 100, 3000, FALSE),
      Record(2, 0, 1400, FALSE) }

Symmetry == Permutations(Users)
=============================================================================
