----------------------------- MODULE MCIndexer ------------------------------
(***************************************************************************)
(* Values for model-checking Indexer: one market made before the match and *)
(* one in-play market, which locks later.  Both are on final totals: every *)
(* market the server authors has terms.period 0 (a half is told by the     *)
(* statistic's key).  StaleAfter, three hours after kickoff, lies where    *)
(* every market has locked; in the runs that are to show the poll and the  *)
(* overlap of records alone the clock never passes it.                     *)
(***************************************************************************)
EXTENDS Indexer, TLC

MCMarketList ==
    << [period |-> 0, inPlay |-> FALSE, lock |-> 1],
       [period |-> 0, inPlay |-> TRUE, lock |-> 2] >>

\* Not started, second half, then full time, waiting for extra time, or
\* abandoned.
MCMatchAfter == (1 :> {4}) @@ (4 :> {5, 6, 15}) @@ (5 :> {}) @@ (6 :> {}) @@ (15 :> {})
=============================================================================
