---------------------------- MODULE MCTournament ----------------------------
(***************************************************************************)
(* The last four matches of the tournament: two semi-finals, one of them   *)
(* decided on penalties, the match for the third place, and the final, in  *)
(* which the home team is participant 2.  The model proposes one market,   *)
(* in words of its own, whenever it is asked.                              *)
(***************************************************************************)
EXTENDS Tournament

Match(home, away, homeIsP1, after, outcomes) ==
    [home |-> home, away |-> away, homeIsP1 |-> homeIsP1, after |-> after, outcomes |-> outcomes]

MCBracket ==
    [sf1   |-> Match(1, 2, TRUE, {}, {"homeOnPens"}),
     sf2   |-> Match(3, 4, TRUE, {}, {"home"}),
     third |-> Match(2, 4, TRUE, {"sf1", "sf2"}, {"home"}),
     final |-> Match(1, 3, FALSE, {"sf1", "sf2"}, {"home", "awayOnPens"})]

MCOrder == <<"sf1", "sf2", "third", "final">>

MCAnswers == {{<<"winner", 1>>}}
=============================================================================
