------------------------------ MODULE MCBoard -------------------------------
(***************************************************************************)
(* Values for model-checking Board.                                        *)
(*                                                                         *)
(* One market on the full-time totals.  The feed's records: the totals at  *)
(* second 2 and the archival record of second 3 that corrects the result.  *)
(***************************************************************************)
EXTENDS Board, TLC

CONSTANTS u1, u2

MCTerms == [fixture |-> 1, period |-> 0, statA |-> 1, statB |-> NoStat, negation |-> FALSE]

Record(per, ms, h) ==
    [fixture |-> 1, ts |-> ms, a |-> [key |-> 1, period |-> per], b |-> NoStat, holds |-> h]

MCRecords == {Record(0, 1000, TRUE), Record(100, 2000, FALSE)}
=============================================================================
