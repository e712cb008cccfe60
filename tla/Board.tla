------------------------------- MODULE Board --------------------------------
(***************************************************************************)
(* What the users see of one pool market: the market's row with its pool   *)
(* totals, the mirrored positions, the price history and the leaderboard   *)
(* (services/positions.ts), and the portfolio page with its claim button   *)
(* (web, Profile.tsx).                                                     *)
(*                                                                         *)
(* The chain is Pool, and its market is open at the start.  The position   *)
(* indexer reads the rows, waits for the position accounts of the chain,   *)
(* and then writes everything without another wait: the database is        *)
(* synchronous.  The settler closes the row in the meantime (Keeper models *)
(* it; here it closes the row at any time it could).  A stake is           *)
(* sent from a card that may be old, so it is Pool's Deposit at any time;  *)
(* a claim is sent from the page as it was last loaded.                    *)
(***************************************************************************)
EXTENDS Pool

CONSTANTS
    Lock, Deadline,     \* the market's lock and resolve deadline
    NoRow

ASSUME BoardAssumption == Lock \in Nat /\ Deadline \in Nat /\ Lock < Deadline

VARIABLES
    row,        \* the markets row: state, winnerYes, pool totals, participants
    mirror,     \* the positions table: amount and claimed of each position
    history,    \* the last point of pool_history, [yes |-> 0, no |-> 0] for none
    profile,    \* wallet_profiles
    seen,       \* the row as the tick read it before the fetch, NoRow between ticks
    offered     \* positions whose claim button the loaded pages show

boardVars == <<row, mirror, history, profile, seen, offered>>
bvars == <<vars, boardVars>>

Closed == {"Settled", "Void"}
NoPools == [yes |-> 0, no |-> 0]
NoProfile == [pnl |-> 0, wins |-> 0, losses |-> 0]

Rows == [state : {"Pending"} \cup Closed, winner : Sides \cup {"null"},
         pool : [Sides -> 0..MaxU64], participants : 0..Cardinality(Users)]

BoardTypeOK ==
    /\ row \in Rows
    /\ seen = NoRow \/ seen \in Rows
    /\ (row.winner # "null") <=> (row.state = "Settled")
    /\ mirror \in [Positions -> [amount : 0..MaxU64, claimed : BOOLEAN]]
    /\ \A p \in Positions : mirror[p].amount <= amount[p] /\ (mirror[p].claimed => p \in claimed)
    /\ history = row.pool
    /\ profile \in [Users -> [pnl : Int, wins : Nat, losses : Nat]]
    /\ offered \subseteq Positions

BoardInit ==
    /\ clock = 0 /\ provable = {}
    /\ state = "Open" /\ lockTs = Lock /\ resolveDeadlineTs = Deadline
    /\ evidenceTs = 0 /\ disputeUntilTs = 0 /\ winner = "no"
    /\ pool = NoPools /\ amount = [p \in Positions |-> 0]
    /\ claimed = {} /\ vault = 0 /\ wallet = [u \in Users |-> Funds] /\ lastDeposit = -1
    /\ row = [state |-> "Pending", winner |-> "null", pool |-> NoPools, participants |-> 0]
    /\ mirror = [p \in Positions |-> [amount |-> 0, claimed |-> FALSE]]
    /\ history = NoPools
    /\ profile = [u \in Users |-> NoProfile]
    /\ seen = NoRow
    /\ offered = {}

-----------------------------------------------------------------------------
(***************************************************************************)
(* The chain, without claims, and the settler's writes to the row: Settled *)
(* with the winner of the moment, once; Void for an abandoned match or an  *)
(* unprovable result, or when the chain is void.                           *)
(***************************************************************************)
ChainMoves ==
    /\ \/ Tick
       \/ \E e \in Records : PostRoot(e) \/ Resolve(e)
       \/ \E user \in Users, side \in Sides, amt \in Amounts : Deposit(user, side, amt)
       \/ VoidMarket
    /\ UNCHANGED boardVars

SettleRow ==
    /\ row.state = "Pending" /\ state = "Resolved"
    /\ row' = [row EXCEPT !.state = "Settled", !.winner = winner]
    /\ UNCHANGED <<vars, mirror, history, profile, seen, offered>>

VoidRowAnyTime ==
    /\ row.state # "Void"
    /\ row' = [row EXCEPT !.state = "Void"]
    /\ UNCHANGED <<vars, mirror, history, profile, seen, offered>>
VoidRow ==
    /\ row.state = "Pending"
    /\ row' = [row EXCEPT !.state = "Void"]
    /\ UNCHANGED <<vars, mirror, history, profile, seen, offered>>

-----------------------------------------------------------------------------
(***************************************************************************)
(* The tick of the position indexer.                                       *)
(***************************************************************************)
Accounts == {p \in Positions : amount[p] > 0}

\* The position accounts, inserted or updated in the positions table.
AmountOnly(p) == [amount |-> amount[p], claimed |-> mirror[p].claimed]
Upserted(p) == [amount |-> amount[p], claimed |-> p \in claimed]

\* The totals of the accounts fetched, by side.
UnclaimedTotals == [side \in Sides |-> Total(amount, On(side) \ claimed)]
Totals == [side \in Sides |-> Total(amount, On(side))]

Participants == Cardinality({p[1] : p \in Accounts})

(***************************************************************************)
(* recomputeLeaderboard: profit and loss of the mirrored positions by the  *)
(* row as the tick read it, totals included.  Shares are in whole units.   *)
(***************************************************************************)
Won(p) == p[2] = seen.winner
BackedTotal == seen.pool[seen.winner]
RowShare(p) ==
    IF BackedTotal > 0 THEN (amount[p] * seen.pool[Other(seen.winner)]) \div BackedTotal ELSE 0
Gain(p) == IF Won(p) THEN RowShare(p) ELSE -amount[p]

PositionsOf(u) == {p \in Accounts : p[1] = u}
ProfileOf(u) ==
    IF seen.state # "Settled" THEN NoProfile
    ELSE [pnl |-> (IF <<u, "yes">> \in Accounts THEN Gain(<<u, "yes">>) ELSE 0)
                    + (IF <<u, "no">> \in Accounts THEN Gain(<<u, "no">>) ELSE 0),
          wins |-> Cardinality({p \in PositionsOf(u) : Won(p)}),
          losses |-> Cardinality({p \in PositionsOf(u) : ~Won(p)})]

RankedOnChange == IF Totals = seen.pool THEN profile ELSE [u \in Users |-> ProfileOf(u)]
Ranked == [u \in Users |-> ProfileOf(u)]

StartTick ==
    /\ seen = NoRow
    /\ seen' = row
    /\ UNCHANGED <<vars, row, mirror, history, profile, offered>>

\* The RPC refuses (429) or the process restarts: the next tick starts over.
FetchFails ==
    /\ seen # NoRow
    /\ seen' = NoRow
    /\ UNCHANGED <<vars, row, mirror, history, profile, offered>>

Fetched ==
    /\ seen # NoRow
    /\ seen' = NoRow
    /\ mirror' = [p \in Positions |-> IF p \in Accounts THEN Upserted(p) ELSE mirror[p]]
    /\ IF Accounts # {} /\ (seen.pool # Totals \/ seen.participants # Participants)
         THEN /\ row' = [row EXCEPT !.pool = Totals, !.participants = Participants]
              /\ history' = Totals
         ELSE UNCHANGED <<row, history>>
    /\ profile' = Ranked
    /\ UNCHANGED <<vars, offered>>

-----------------------------------------------------------------------------
(***************************************************************************)
(* The portfolio page of a wallet.                                         *)
(***************************************************************************)
ShownWon(p) == row.state = "Settled" /\ p[2] = row.winner

OfferedIfWon(p) == mirror[p].amount > 0 /\ ShownWon(p) /\ ~mirror[p].claimed
Offered(p) ==
    /\ mirror[p].amount > 0
    /\ ShownWon(p) \/ row.state = "Void"
    /\ ~mirror[p].claimed

Shown(u) == (offered \ ({u} \X Sides)) \cup {p \in {u} \X Sides : Offered(p)}

LoadPage(u) ==
    /\ offered' = Shown(u)
    /\ UNCHANGED <<vars, row, mirror, history, profile, seen>>

\* The claim goes through and the page is fetched again.  A claim the program
\* refuses only shows its error: the button stays.
ClaimFromPage(p) ==
    /\ p \in offered
    /\ Claim(p)
    /\ offered' = Shown(p[1])
    /\ UNCHANGED <<row, mirror, history, profile, seen>>

-----------------------------------------------------------------------------
BoardNext ==
    \/ ChainMoves
    \/ SettleRow \/ VoidRow
    \/ StartTick \/ FetchFails \/ Fetched
    \/ \E u \in Users : LoadPage(u)
    \/ \E p \in Positions : ClaimFromPage(p)

(***************************************************************************)
(* Time passes and the keeper voids; the indexer's loop never ends and its *)
(* RPC does not refuse for ever; a wallet's holder looks at the page again *)
(* and again and presses the buttons it shows.                             *)
(***************************************************************************)
BoardFairness ==
    /\ WF_bvars(Tick /\ UNCHANGED boardVars)
    /\ WF_bvars(VoidMarket /\ UNCHANGED boardVars)
    /\ WF_bvars(StartTick) /\ SF_bvars(Fetched)
    /\ \A u \in Users : WF_bvars(LoadPage(u))
    /\ \A p \in Positions : WF_bvars(ClaimFromPage(p))

BoardSpec == BoardInit /\ [][BoardNext]_bvars /\ BoardFairness

-----------------------------------------------------------------------------
(***************************************************************************)
(* Properties.                                                             *)
(***************************************************************************)

\* The inductive invariant behind the properties that are proved: the market's
\* own (Pool), the types, and a row that never shows more stakes than there are
\* (positions.ts 52-66).
RowTrailsChain == \A side \in Sides : row.pool[side] <= pool[side]
BoardInv == IInv /\ BoardTypeOK /\ RowTrailsChain

\* The rows of Settled and chain disagree: the chain took newer evidence in the
\* dispute window after the row had settled.  The row is never read again.
Superseded == row.state = "Settled" /\ row.winner # winner

\* The price history only ever moves on new stakes: the volume of each point is
\* above that of the point before, also while winners claim (positions.ts:66-70).
HistoryVolumeGrows ==
    [][history' # history =>
         history'["yes"] + history'["no"] > history["yes"] + history["no"]]_bvars

\* However the indexer's reads interleave with the settler's write of the row and
\* with the last stakes, from some time on the leaderboard shows what each wallet
\* really made (positions.ts:85-142).  It does not when the chain went on to
\* another winner, nor when nobody backed the winner: it counts a loss of the
\* stakes that are refunded.
Realised(p) == IF amount[p] > 0 THEN Payout(p) - amount[p] ELSE 0
LeaderboardCatchesUp ==
    (row.state = "Settled") ~>
        [](\/ Superseded
           \/ WinnerPool = 0
           \/ \A u \in Users :
                  profile[u].pnl = Realised(<<u, "yes">>) + Realised(<<u, "no">>))

\* A holder who only has the portfolio page gets what is due: once the row is
\* closed and the chain would pay, the button appears and the claim is paid
\* (Profile.tsx:69-72).  It never appears when the row names the other side, nor
\* when nobody backed the winner: the page says LOST though the chain refunds.
EveryPayoutIsOffered ==
    (row.state \in Closed /\ Claimable) ~>
        \/ Claimable /\ \A p \in Positions : Payout(p) > 0 => p \in claimed
        \/ Superseded
        \/ row.state = "Settled" /\ WinnerPool = 0

\* Positions that were paid are in the end shown as claimed, and their buttons do
\* not come back (positions.ts:42-45, Profile.tsx:44).
PaidIsNoLongerOffered == <>[](offered \cap claimed = {})
=============================================================================
