--------------------------- MODULE MarketContract ---------------------------
(***************************************************************************)
(* What a market promises its bettors, with no clock, no evidence and no   *)
(* stored pools.                                                           *)
(*                                                                         *)
(* Stakes go into one pot while the market is staking.  A winner is then   *)
(* announced provisionally and may be corrected until it becomes final;    *)
(* or the market is void.  After that each position is paid at most once,  *)
(* out of the pot: its stake when stakes are refunded, and otherwise, to a *)
(* winning position, the largest whole number of tokens within its         *)
(* proportional part of all stakes.  A losing position is never paid.      *)
(***************************************************************************)
EXTENDS Integers, Stakes

CONSTANTS Users, MaxStake

VARIABLES
    phase,      \* where the market stands
    winner,     \* the announced side, meaningful from "provisional" on
    stake,      \* what each position staked
    pot,        \* tokens the market holds
    paid        \* positions that were paid

cvars == <<phase, winner, stake, pot, paid>>

Positions == Users \X Sides

Backing(side) == Total(stake, {p \in Positions : p[2] = side})
AllStakes == Total(stake, Positions)

Init ==
    /\ phase = "absent"
    /\ winner = "no"
    /\ stake = [p \in Positions |-> 0]
    /\ pot = 0
    /\ paid = {}

Open ==
    /\ phase = "absent"
    /\ phase' = "staking"
    /\ UNCHANGED <<winner, stake, pot, paid>>

Stake(p, amt) ==
    /\ phase = "staking"
    /\ stake' = [stake EXCEPT ![p] = @ + amt]
    /\ pot' = pot + amt
    /\ UNCHANGED <<phase, winner, paid>>

Announce(side) ==
    /\ phase \in {"staking", "provisional"}
    /\ phase' = "provisional"
    /\ winner' = side
    /\ UNCHANGED <<stake, pot, paid>>

Finalise ==
    /\ phase = "provisional"
    /\ phase' = "final"
    /\ UNCHANGED <<winner, stake, pot, paid>>

Abandon ==
    /\ phase = "staking"
    /\ phase' = "void"
    /\ UNCHANGED <<winner, stake, pot, paid>>

Refunds == phase = "void" \/ (phase = "final" /\ Backing(winner) = 0)

\* amt is the largest whole number with amt / AllStakes within the position's
\* part of the winning side.
FairShare(p, amt) ==
    /\ p[2] = winner
    /\ amt * Backing(winner) <= stake[p] * AllStakes
    /\ stake[p] * AllStakes < (amt + 1) * Backing(winner)

Pay(p, amt) ==
    /\ phase \in {"final", "void"}
    /\ p \notin paid
    /\ amt \in 1..pot
    /\ IF Refunds THEN amt = stake[p] ELSE FairShare(p, amt)
    /\ pot' = pot - amt
    /\ paid' = paid \cup {p}
    /\ UNCHANGED <<phase, winner, stake>>

Next ==
    \/ Open \/ Finalise \/ Abandon
    \/ \E p \in Positions, amt \in 1..MaxStake : Stake(p, amt) \/ Pay(p, amt)
    \/ \E side \in Sides : Announce(side)

Spec == Init /\ [][Next]_cvars
=============================================================================
