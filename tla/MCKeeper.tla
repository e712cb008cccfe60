------------------------------ MODULE MCKeeper ------------------------------
(***************************************************************************)
(* Values for model-checking Keeper.                                       *)
(*                                                                         *)
(* A match that locks at second 1 and is over at second 2.  The feed's     *)
(* records that may decide the market: the full-time totals (period 0) and *)
(* a later archival record (period 100) that corrects the result.          *)
(***************************************************************************)
EXTENDS Keeper, TLC

CONSTANTS u1

MCTerms == [fixture |-> 1, period |-> 0, statA |-> 1, statB |-> NoStat, negation |-> FALSE]

Record(per, ms, h) ==
    [fixture |-> 1, ts |-> ms, a |-> [key |-> 1, period |-> per], b |-> NoStat, holds |-> h]

MCRecords == {Record(0, 2000, TRUE), Record(100, 3000, FALSE)}

\* Not started, second half, full time (its coverage may be cancelled later),
\* abandoned or cancelled.
MCMatchAfter == (1 :> {4, 15}) @@ (4 :> {5, 15}) @@ (5 :> {15}) @@ (15 :> {})
=============================================================================
