----------------------------- MODULE BoardProofs -----------------------------
(***************************************************************************)
(* Proofs about Board, for every set of users, every choice of amounts and *)
(* times, and every feed of records.  The chain's part is PoolProofs'.     *)
(***************************************************************************)
EXTENDS Board, PoolProofs

(***************************************************************************)
(* The chain.                                                              *)
(***************************************************************************)

\* The market starts open, and nothing else is different from Pool's start.
LEMMA BoardInitIInv == BoardInit => IInv
<1> SUFFICES ASSUME BoardInit PROVE IInv
    OBVIOUS
<1>1. TypeOK
    <2>1. 0 \in 0..MaxU64
        BY AmountsAssumption
    <2>2. /\ pool \in [Sides -> 0..MaxU64]
          /\ amount \in [Positions -> 0..MaxU64]
          /\ wallet \in [Users -> Nat]
        BY <2>1, AmountsAssumption DEF BoardInit, NoPools, Sides
    <2>3. QED BY <2>1, <2>2, BoardAssumption DEF BoardInit, TypeOK, Sides
<1>2. PoolsAreStakes
    <2>1. \A side \in Sides : \A p \in On(side) : amount[p] = 0
        BY DEF BoardInit, On
    <2>2. \A side \in Sides : Total(amount, On(side)) = 0
        BY <2>1, TotalZero
    <2>3. QED BY <2>2 DEF BoardInit, NoPools, PoolsAreStakes, Sides
<1>3. PaidOnlyWhenFinal /\ VaultFullUntilPaid /\ StakesBeforeLock
    BY BoardAssumption
       DEF BoardInit, NoPools, PaidOnlyWhenFinal, VaultFullUntilPaid, StakesBeforeLock
<1>4. RefundBacked /\ WinnersBacked /\ DustBounded /\ ProvedByThePast
    BY DEF BoardInit, RefundBacked, WinnersBacked, DustBounded, ProvedByThePast
<1>5. QED BY <1>1, <1>2, <1>3, <1>4 DEF IInv

\* Every step of Board is one of the chain or leaves the chain alone.
LEMMA BoardStepsOnChain ==
    ASSUME [BoardNext]_bvars
    PROVE  [Next]_vars
<1>1. CASE ChainMoves
    BY <1>1 DEF ChainMoves, Next
<1>2. CASE SettleRow \/ VoidRow \/ StartTick \/ FetchFails \/ Fetched
    BY <1>2 DEF SettleRow, VoidRow, StartTick, FetchFails, Fetched, vars
<1>3. ASSUME NEW u \in Users, LoadPage(u) PROVE [Next]_vars
    BY <1>3 DEF LoadPage, vars
<1>4. ASSUME NEW p \in Positions, ClaimFromPage(p) PROVE [Next]_vars
    BY <1>4 DEF ClaimFromPage, Next
<1>5. CASE UNCHANGED bvars
    BY <1>5 DEF bvars
<1>6. QED BY <1>1, <1>2, <1>3, <1>4, <1>5 DEF BoardNext

\* The pools and the stakes only grow, and paid positions stay paid.
LEMMA ChainGrows ==
    ASSUME IInv, [Next]_vars
    PROVE  /\ \A side \in Sides : pool[side] <= pool'[side]
           /\ \A p \in Positions : amount[p] <= amount'[p]
           /\ claimed \subseteq claimed'
<1> USE DEF termsVars, outcomeVars, stakeVars, tokenVars
<1>1. ASSUME UNCHANGED <<pool, amount>>
      PROVE  /\ \A side \in Sides : pool[side] <= pool'[side]
             /\ \A p \in Positions : amount[p] <= amount'[p]
    BY <1>1, AmountsAssumption DEF IInv, TypeOK
<1>2. CASE Tick \/ VoidMarket \/ UNCHANGED vars
    BY <1>1, <1>2 DEF Tick, VoidMarket, vars
<1>3. ASSUME NEW e \in Records, PostRoot(e) \/ Retip(e) \/ Resolve(e)
      PROVE  UNCHANGED <<pool, amount, claimed>>
    BY <1>3 DEF PostRoot, Retip, Resolve
<1>4. ASSUME NEW lock \in LockTimes, NEW deadline \in Deadlines, CreateMarket(lock, deadline)
      PROVE  UNCHANGED <<pool, amount, claimed>>
    BY <1>4 DEF CreateMarket
<1>5. ASSUME NEW user \in Users, NEW side \in Sides, NEW amt \in Amounts,
             Deposit(user, side, amt)
      PROVE  /\ \A s \in Sides : pool[s] <= pool'[s]
             /\ \A p \in Positions : amount[p] <= amount'[p]
             /\ claimed \subseteq claimed'
    <2>1. claimed = {}
        BY <1>5 DEF IInv, PaidOnlyWhenFinal, Claimable, Deposit, StakingOpen
    <2>2. amt \in Nat
        BY AmountsAssumption
    <2>3. /\ pool' = [pool EXCEPT ![side] = @ + amt]
          /\ amount' = [amount EXCEPT ![<<user, side>>] = @ + amt]
        BY <1>5 DEF Deposit, Credit
    <2>4. QED BY <2>1, <2>2, <2>3, AmountsAssumption DEF IInv, TypeOK
<1>6. ASSUME NEW p \in Positions, Claim(p)
      PROVE  UNCHANGED <<pool, amount>> /\ claimed \subseteq claimed'
    BY <1>6 DEF Claim
<1>7. QED BY <1>1, <1>2, <1>3, <1>4, <1>5, <1>6 DEF Next

(***************************************************************************)
(* The rows, the mirror and the page.                                      *)
(***************************************************************************)

\* What the indexer counts is what the chain holds.
LEMMA TotalsArePools ==
    ASSUME IInv
    PROVE  Totals = pool
BY DEF IInv, TypeOK, PoolsAreStakes, Totals

LEMMA ParticipantsType == Participants \in 0..Cardinality(Users)
<1>1. {p[1] : p \in Accounts} \subseteq Users
    BY DEF Accounts, Positions
<1>2. /\ IsFiniteSet({p[1] : p \in Accounts})
      /\ Cardinality({p[1] : p \in Accounts}) <= Cardinality(Users)
    BY <1>1, UsersAssumption, FS_Subset
<1>3. QED BY <1>2, UsersAssumption, FS_CardinalityType DEF Participants

\* Profit and loss are integers: a share is paid only where somebody backed the
\* winner in the row as it was read.
LEMMA RankedType ==
    ASSUME IInv, BoardTypeOK, seen # NoRow
    PROVE  Ranked \in [Users -> [pnl : Int, wins : Nat, losses : Nat]]
<1> SUFFICES ASSUME NEW u \in Users
             PROVE  ProfileOf(u) \in [pnl : Int, wins : Nat, losses : Nat]
    BY DEF Ranked
<1>1. CASE seen.state # "Settled"
    BY <1>1 DEF ProfileOf, NoProfile
<1>2. CASE seen.state = "Settled"
    <2>1. \A p \in Positions : Gain(p) \in Int
        <3> SUFFICES ASSUME NEW p \in Positions PROVE Gain(p) \in Int
            OBVIOUS
        <3>1. amount[p] \in Nat
            BY AmountsAssumption DEF IInv, TypeOK
        <3>2. CASE Won(p)
            <4>1. seen \in Rows /\ seen.winner \in Sides
                BY <3>2 DEF BoardTypeOK, Won, Positions
            <4>2. seen.pool[seen.winner] \in Nat /\ seen.pool[Other(seen.winner)] \in Nat
                BY <4>1, AmountsAssumption DEF Rows, Other, Sides
            <4>3. amount[p] * seen.pool[Other(seen.winner)] \in Nat
                BY <3>1, <4>2
            <4>4. RowShare(p) \in Int
                BY <4>2, <4>3, FloorDivision DEF RowShare, BackedTotal
            <4>5. QED BY <3>2, <4>4 DEF Gain
        <3>3. CASE ~Won(p)
            BY <3>1, <3>3 DEF Gain
        <3>4. QED BY <3>2, <3>3
    <2>2. /\ IsFiniteSet({p \in PositionsOf(u) : Won(p)})
          /\ IsFiniteSet({p \in PositionsOf(u) : ~Won(p)})
        <3>1. /\ {p \in PositionsOf(u) : Won(p)} \subseteq Positions
              /\ {p \in PositionsOf(u) : ~Won(p)} \subseteq Positions
            BY DEF PositionsOf, Accounts
        <3>2. QED BY <3>1, PositionsFinite, FS_Subset
    <2>3. /\ Cardinality({p \in PositionsOf(u) : Won(p)}) \in Nat
          /\ Cardinality({p \in PositionsOf(u) : ~Won(p)}) \in Nat
        BY <2>2, FS_CardinalityType
    <2>4. <<u, "yes">> \in Positions /\ <<u, "no">> \in Positions
        BY DEF Positions, Sides
    <2> DEFINE gain == (IF <<u, "yes">> \in Accounts THEN Gain(<<u, "yes">>) ELSE 0)
                           + (IF <<u, "no">> \in Accounts THEN Gain(<<u, "no">>) ELSE 0)
    <2>5. gain \in Int
        BY <2>1, <2>4
    <2>6. QED BY <1>2, <2>3, <2>5 DEF ProfileOf
<1>3. QED BY <1>1, <1>2

\* The tick's single write.
LEMMA FetchedKeepsBoard ==
    ASSUME BoardInv, Fetched
    PROVE  BoardTypeOK' /\ RowTrailsChain'
<1>1. /\ seen # NoRow /\ seen' = NoRow /\ UNCHANGED <<vars, offered>>
      /\ profile' = Ranked
      /\ mirror' = [p \in Positions |-> IF p \in Accounts THEN Upserted(p) ELSE mirror[p]]
    BY DEF Fetched
<1>2. UNCHANGED <<pool, amount, claimed>>
    BY <1>1 DEF vars, stakeVars
<1>3. Totals = pool /\ pool \in [Sides -> 0..MaxU64] /\ Participants \in 0..Cardinality(Users)
    BY TotalsArePools, ParticipantsType DEF BoardInv, IInv, TypeOK
<1>4. profile' \in [Users -> [pnl : Int, wins : Nat, losses : Nat]]
    BY <1>1, RankedType DEF BoardInv
<1>5. /\ mirror' \in [Positions -> [amount : 0..MaxU64, claimed : BOOLEAN]]
      /\ \A p \in Positions :
            mirror'[p].amount <= amount[p] /\ (mirror'[p].claimed => p \in claimed)
    <2>1. \A p \in Positions : amount[p] \in 0..MaxU64 /\ amount[p] <= amount[p]
        BY AmountsAssumption DEF BoardInv, IInv, TypeOK
    <2>2. QED BY <1>1, <2>1 DEF BoardInv, BoardTypeOK, Upserted
<1>6. CASE UNCHANGED <<row, history>>
    BY <1>1, <1>2, <1>4, <1>5, <1>6 DEF BoardInv, BoardTypeOK, RowTrailsChain
<1>7. CASE row' = [row EXCEPT !.pool = Totals, !.participants = Participants] /\ history' = Totals
    <2>1. row' \in Rows /\ row'.pool = pool /\ row'.state = row.state /\ row'.winner = row.winner
        BY <1>3, <1>7 DEF BoardInv, BoardTypeOK, Rows
    <2>2. RowTrailsChain'
        BY <1>2, <1>3, <2>1, AmountsAssumption DEF RowTrailsChain
    <2>3. QED BY <1>1, <1>2, <1>3, <1>4, <1>5, <1>7, <2>1, <2>2 DEF BoardInv, BoardTypeOK
<1>8. QED BY <1>6, <1>7 DEF Fetched

\* The other steps: the chain grows under the row, or the settler closes the
\* row, or a page is loaded.
LEMMA NextKeepsBoardInv == BoardInv /\ [BoardNext]_bvars => BoardInv'
<1> SUFFICES ASSUME BoardInv, [BoardNext]_bvars PROVE BoardInv'
    OBVIOUS
<1> USE DEF boardVars
<1>1. IInv'
    BY BoardStepsOnChain, NextKeepsIInv DEF BoardInv
<1> SUFFICES BoardTypeOK' /\ RowTrailsChain'
    BY <1>1 DEF BoardInv
<1>2. /\ \A side \in Sides : pool[side] <= pool'[side]
      /\ \A p \in Positions : amount[p] <= amount'[p]
      /\ claimed \subseteq claimed'
    BY BoardStepsOnChain, ChainGrows DEF BoardInv
<1>3. /\ \A side \in Sides : {row.pool[side], pool[side], pool'[side]} \subseteq Nat
      /\ \A p \in Positions : {mirror[p].amount, amount[p], amount'[p]} \subseteq Nat
    BY <1>1, AmountsAssumption DEF BoardInv, BoardTypeOK, Rows, IInv, TypeOK
<1>4. ASSUME UNCHANGED <<row, mirror, history, profile, seen>>, offered' \subseteq Positions
      PROVE  BoardTypeOK' /\ RowTrailsChain'
    <2>1. \A p \in Positions :
             mirror'[p].amount <= amount'[p] /\ (mirror'[p].claimed => p \in claimed')
        BY <1>2, <1>3, <1>4 DEF BoardInv, BoardTypeOK
    <2>2. RowTrailsChain'
        BY <1>2, <1>3, <1>4 DEF BoardInv, RowTrailsChain
    <2>3. QED BY <1>4, <2>1, <2>2 DEF BoardInv, BoardTypeOK
<1>5. \A u \in Users : Shown(u) \subseteq Positions
    BY DEF Shown, Positions, BoardInv, BoardTypeOK
<1>6. CASE ChainMoves
    <2>1. UNCHANGED boardVars /\ offered \subseteq Positions
        BY <1>6 DEF ChainMoves, BoardInv, BoardTypeOK
    <2>2. QED BY <1>4, <2>1
<1>7. CASE SettleRow \/ VoidRow
    <2>1. winner \in Sides /\ "null" \notin Sides
        BY DEF BoardInv, IInv, TypeOK, Sides
    <2>2. /\ row' \in Rows /\ row'.pool = row.pool
          /\ (row'.winner # "null") <=> (row'.state = "Settled")
        BY <1>7, <2>1 DEF SettleRow, VoidRow, BoardInv, BoardTypeOK, Rows, Closed
    <2>3. UNCHANGED <<pool, amount, claimed, mirror, history, profile, seen, offered>>
        BY <1>7 DEF SettleRow, VoidRow, vars, stakeVars
    <2>4. QED BY <2>2, <2>3 DEF BoardInv, BoardTypeOK, RowTrailsChain
<1>8. CASE StartTick \/ FetchFails
    <2>1. UNCHANGED <<pool, amount, claimed, row, mirror, history, profile, offered>>
        BY <1>8 DEF StartTick, FetchFails, vars, stakeVars
    <2>2. seen' = NoRow \/ seen' \in Rows
        BY <1>8 DEF StartTick, FetchFails, BoardInv, BoardTypeOK
    <2>3. QED BY <2>1, <2>2 DEF BoardInv, BoardTypeOK, RowTrailsChain
<1>9. CASE Fetched
    BY <1>9, FetchedKeepsBoard
<1>10. ASSUME NEW u \in Users, LoadPage(u) PROVE BoardTypeOK' /\ RowTrailsChain'
    BY <1>4, <1>5, <1>10 DEF LoadPage
<1>11. ASSUME NEW p \in Positions, ClaimFromPage(p) PROVE BoardTypeOK' /\ RowTrailsChain'
    BY <1>4, <1>5, <1>11 DEF ClaimFromPage, Positions
<1>12. CASE UNCHANGED bvars
    <2>1. UNCHANGED boardVars /\ offered \subseteq Positions
        BY <1>12 DEF bvars, BoardInv, BoardTypeOK
    <2>2. QED BY <1>4, <2>1
<1>13. QED BY <1>1, <1>6, <1>7, <1>8, <1>9, <1>10, <1>11, <1>12 DEF BoardNext

LEMMA InitBoardInv == BoardInit => BoardInv
<1> SUFFICES ASSUME BoardInit PROVE BoardInv
    OBVIOUS
<1>1. NoPools \in [Sides -> 0..MaxU64] /\ 0 \in 0..Cardinality(Users)
    BY AmountsAssumption, UsersAssumption, FS_CardinalityType DEF NoPools, Sides
<1>2. row \in Rows /\ row.winner = "null" /\ row.state = "Pending"
    BY <1>1 DEF BoardInit, Rows
<1>3. /\ mirror \in [Positions -> [amount : 0..MaxU64, claimed : BOOLEAN]]
      /\ \A p \in Positions : mirror[p].amount <= amount[p] /\ ~mirror[p].claimed
    BY AmountsAssumption DEF BoardInit
<1>4. profile \in [Users -> [pnl : Int, wins : Nat, losses : Nat]]
    BY DEF BoardInit, NoProfile
<1>5. BoardTypeOK
    BY <1>2, <1>3, <1>4 DEF BoardInit, BoardTypeOK
<1>6. RowTrailsChain
    BY DEF BoardInit, NoPools, Sides, RowTrailsChain
<1>7. QED BY <1>5, <1>6, BoardInitIInv DEF BoardInv

(***************************************************************************)
(* The theorems.                                                           *)
(***************************************************************************)

\* The chain's invariant, the types and the trailing row, in every reachable
\* state.
THEOREM BoardInvariance == BoardSpec => []BoardInv
<1>1. BoardInv /\ [BoardNext]_bvars => BoardInv'
    BY NextKeepsBoardInv
<1>2. QED BY InitBoardInv, <1>1, PTL DEF BoardSpec

\* The mirror never shows more than the chain: no larger stake, and no position
\* as claimed that was not paid.
THEOREM BoardTypeCorrect == BoardSpec => []BoardTypeOK
<1>1. BoardInv => BoardTypeOK
    BY DEF BoardInv
<1>2. QED BY BoardInvariance, <1>1, PTL

\* Every new point of the price history has a higher volume than the last.
THEOREM VolumeGrows == BoardSpec => HistoryVolumeGrows
<1> DEFINE Grows ==
        history' # history =>
            history'["yes"] + history'["no"] > history["yes"] + history["no"]
<1>1. BoardInv /\ [BoardNext]_bvars => [Grows]_bvars
    <2> SUFFICES ASSUME BoardInv, BoardNext, history' # history
                 PROVE  history'["yes"] + history'["no"] > history["yes"] + history["no"]
        OBVIOUS
    <2>1. Fetched
        BY DEF BoardNext, ChainMoves, SettleRow, VoidRow, StartTick, FetchFails, LoadPage,
               ClaimFromPage, boardVars
    <2>2. history' = pool
        BY <2>1, TotalsArePools DEF Fetched, BoardInv
    <2>3. /\ history \in [Sides -> 0..MaxU64] /\ pool \in [Sides -> 0..MaxU64]
          /\ \A side \in Sides : history[side] <= pool[side]
        BY DEF BoardInv, BoardTypeOK, Rows, RowTrailsChain, IInv, TypeOK
    <2>4. \E side \in Sides : history[side] # pool[side]
        BY <2>2, <2>3
    <2>5. /\ history["yes"] <= pool["yes"] /\ history["no"] <= pool["no"]
          /\ history["yes"] # pool["yes"] \/ history["no"] # pool["no"]
          /\ {history["yes"], history["no"], pool["yes"], pool["no"]} \subseteq Nat
        BY <2>3, <2>4, AmountsAssumption DEF Sides
    <2>6. QED BY <2>2, <2>5
<1>2. QED BY BoardInvariance, <1>1, PTL DEF BoardSpec, HistoryVolumeGrows
=============================================================================
