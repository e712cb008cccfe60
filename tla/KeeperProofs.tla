---------------------------- MODULE KeeperProofs ----------------------------
(***************************************************************************)
(* Proofs about Keeper, for every feed of records, every course of the     *)
(* match, every lock and deadline and any number of crashes.  The chain's  *)
(* part is PoolProofs'.                                                    *)
(***************************************************************************)
EXTENDS Keeper, PoolProofs

(***************************************************************************)
(* The chain.                                                              *)
(***************************************************************************)

\* The market starts open; nothing else is different from Pool's start.
LEMMA KeeperInitIInv == KeeperInit => IInv
<1> SUFFICES ASSUME KeeperInit PROVE IInv
    OBVIOUS
<1>1. TypeOK
    <2>1. 0 \in 0..MaxU64
        BY AmountsAssumption
    <2>2. /\ pool \in [Sides -> 0..MaxU64]
          /\ amount \in [Positions -> 0..MaxU64]
          /\ wallet \in [Users -> Nat]
        BY <2>1, AmountsAssumption DEF KeeperInit
    <2>3. QED BY <2>1, <2>2, KeeperAssumption DEF KeeperInit, TypeOK, Sides
<1>2. PoolsAreStakes
    <2>1. \A side \in Sides : \A p \in On(side) : amount[p] = 0
        BY DEF KeeperInit, On
    <2>2. \A side \in Sides : Total(amount, On(side)) = 0
        BY <2>1, TotalZero
    <2>3. QED BY <2>2 DEF KeeperInit, PoolsAreStakes
<1>3. PaidOnlyWhenFinal /\ VaultFullUntilPaid /\ StakesBeforeLock
    BY KeeperAssumption
       DEF KeeperInit, PaidOnlyWhenFinal, VaultFullUntilPaid, StakesBeforeLock, Sides
<1>4. RefundBacked /\ WinnersBacked /\ DustBounded /\ ProvedByThePast
    BY DEF KeeperInit, RefundBacked, WinnersBacked, DustBounded, ProvedByThePast
<1>5. QED BY <1>1, <1>2, <1>3, <1>4 DEF IInv

LEMMA PublishedRecords == Published \subseteq Records /\ Newest \subseteq Records
BY DEF Published, Newest, Deciding

\* The steps that leave the whole chain as it is.
QuietStep ==
    \/ \E s \in Statuses : MatchMoves(s) \/ Apply(s)
    \/ StartTick \/ FetchProof \/ NoProof \/ ResolveFails \/ ResolveImpossible \/ AfterResolve
    \/ BackfillReceipt \/ RecoverResolveTx \/ CheckOverdue \/ VoidRejected \/ VoidFails
    \/ RecoverRow
    \/ \E lost \in BOOLEAN : Crash(lost)
    \/ \E listed \in BOOLEAN : Boot(listed) \/ BootWithoutWorkers(listed)

LEMMA QuietStepsOnChain == QuietStep => UNCHANGED vars
<1> SUFFICES ASSUME QuietStep PROVE UNCHANGED vars
    OBVIOUS
<1>1. ASSUME NEW s \in Statuses, MatchMoves(s) \/ Apply(s) PROVE UNCHANGED vars
    BY <1>1 DEF MatchMoves, Apply
<1>2. CASE StartTick \/ FetchProof \/ NoProof \/ ResolveFails \/ ResolveImpossible \/ AfterResolve
    BY <1>2 DEF StartTick, FetchProof, NoProof, ResolveFails, ResolveImpossible, AfterResolve
<1>3. CASE BackfillReceipt \/ RecoverResolveTx \/ CheckOverdue \/ VoidRejected \/ VoidFails
           \/ RecoverRow
    BY <1>3 DEF BackfillReceipt, RecoverResolveTx, CheckOverdue, VoidRejected, VoidFails, RecoverRow
<1>4. ASSUME NEW b \in BOOLEAN, Crash(b) \/ Boot(b) \/ BootWithoutWorkers(b)
      PROVE  UNCHANGED vars
    BY <1>4 DEF Crash, Boot, BootWithoutWorkers
<1>5. QED BY <1>1, <1>2, <1>3, <1>4 DEF QuietStep

\* Every step of Keeper is one of the chain or leaves the chain alone.
LEMMA KeeperStepsOnChain ==
    ASSUME KeeperTypeOK, [KeeperNext]_kvars
    PROVE  [Next]_vars
<1>1. CASE ChainMoves
    BY <1>1, PublishedRecords DEF ChainMoves, Next
<1>2. CASE ResolveConfirmed \/ ResolveUnconfirmed
    BY <1>2 DEF ResolveConfirmed, ResolveUnconfirmed, Next, KeeperTypeOK
<1>3. CASE VoidConfirmed \/ VoidUnconfirmed
    BY <1>3 DEF VoidConfirmed, VoidUnconfirmed, Next
<1>4. CASE QuietStep
    BY <1>4, QuietStepsOnChain
<1>5. CASE UNCHANGED kvars
    BY <1>5 DEF kvars
<1>6. QED BY <1>1, <1>2, <1>3, <1>4, <1>5 DEF KeeperNext, SettlerStep, QuietStep

\* A decided market is never open again, a resolved one stays resolved, and its
\* evidence only grows newer; the winner changes only with it.
LEMMA OutcomeGrows ==
    ASSUME TypeOK, [Next]_vars
    PROVE  /\ state # "Absent" => state' # "Absent"
           /\ state \notin {"Absent", "Open"} => state' # "Open"
           /\ state = "Resolved" =>
                 /\ state' = "Resolved"
                 /\ evidenceTs <= evidenceTs'
                 /\ evidenceTs' = evidenceTs => winner' = winner
<1> USE DEF termsVars, outcomeVars, stakeVars, tokenVars
<1>1. ASSUME NEW e \in Records, PostRoot(e) \/ Retip(e)
      PROVE  UNCHANGED <<state, evidenceTs, winner>>
    BY <1>1 DEF PostRoot, Retip
<1>2. CASE Tick \/ UNCHANGED vars
    BY <1>2 DEF Tick, vars, TypeOK
<1>3. ASSUME NEW lock \in LockTimes, NEW deadline \in Deadlines, CreateMarket(lock, deadline)
      PROVE  state = "Absent"
    BY <1>3 DEF CreateMarket
<1>4. ASSUME NEW user \in Users, NEW side \in Sides, NEW amt \in Amounts,
             Deposit(user, side, amt)
      PROVE  UNCHANGED <<state, evidenceTs, winner>>
    BY <1>4 DEF Deposit
<1>5. ASSUME NEW e \in Records, Resolve(e)
      PROVE  state' = "Resolved" /\ (state = "Resolved" => evidenceTs < evidenceTs')
    <2>1. state' = "Resolved" /\ evidenceTs' = e.ts
        BY <1>5 DEF Resolve
    <2>2. state = "Resolved" => e.ts > evidenceTs
        BY <1>5 DEF Resolve, ResolveAccepts, MayFirstResolve, MaySupersede
    <2>3. QED BY <2>1, <2>2, RecordsAssumption DEF TypeOK
<1>6. CASE VoidMarket
    BY <1>6 DEF VoidMarket
<1>7. ASSUME NEW p \in Positions, Claim(p)
      PROVE  UNCHANGED <<state, evidenceTs, winner>>
    BY <1>7 DEF Claim
<1>8. evidenceTs \in Nat
    BY DEF TypeOK
<1>9. CASE UNCHANGED <<state, evidenceTs, winner>>
    BY <1>8, <1>9
<1>10. ASSUME NEW e \in Records, Resolve(e) PROVE evidenceTs' \in Nat
    BY <1>10, RecordsAssumption DEF Resolve
<1>11. QED BY <1>1, <1>2, <1>3, <1>4, <1>5, <1>6, <1>7, <1>8, <1>10 DEF Next

(***************************************************************************)
(* The row.                                                                *)
(***************************************************************************)

\* An indexed row stays indexed or becomes void, and one that awaits its root
\* has nowhere else to go.
LEMMA StateAfterType ==
    ASSUME NEW old \in Indexed, NEW s, NEW pastLock, NEW inPlayRule, NEW period
    PROVE  /\ StateAfter(old, s, pastLock, inPlayRule, period) \in Indexed \cup {"Void"}
           /\ old = "AwaitingRoot" =>
                 StateAfter(old, s, pastLock, inPlayRule, period) \in {"AwaitingRoot", "Void"}
BY DEF StateAfter, Indexed

\* What a settled row and its receipt say stays true whatever the chain does.
LEMMA SettledRowLasts ==
    ASSUME KeeperInv, [Next]_vars, receipt' = receipt,
           row'.state = row.state, row'.winnerYes = row.winnerYes,
           row'.evidenceTs = row.evidenceTs, row'.recovered = row.recovered
    PROVE  SettledRowWasProved'
<1>1. row.evidenceTs \in Nat /\ evidenceTs \in Nat /\ evidenceTs' \in Nat
    <2>1. IInv'
        BY NextKeepsIInv DEF KeeperInv
    <2>2. QED BY <2>1 DEF KeeperInv, KeeperTypeOK, IInv, TypeOK
<1>2. row.evidenceTs \div MsPerSec \in Nat
    BY <1>1 DEF MsPerSec
<1>3. ASSUME NEW ts \in Nat, AcceptedAt(ts), state = "Resolved" PROVE AcceptedAt(ts)'
    <2>1. evidenceTs <= evidenceTs' /\ (evidenceTs' = evidenceTs => winner' = winner)
        BY <1>3, OutcomeGrows DEF KeeperInv, IInv
    <2>2. QED BY <1>1, <1>3, <2>1 DEF AcceptedAt
<1>4. row.state = "Settled" => state' = "Resolved"
    BY OutcomeGrows DEF KeeperInv, IInv, SettledRowWasProved
<1>5. QED BY <1>1, <1>2, <1>3, <1>4 DEF KeeperInv, SettledRowWasProved, AcceptedAt, Outcome

\* A row that is not settled has no receipt; when it does not become settled,
\* nothing is claimed of it.
LEMMA UnsettledRowClaimsNothing ==
    ASSUME KeeperInv, row.state # "Settled", row'.state # "Settled", receipt' = receipt
    PROVE  SettledRowWasProved'
BY DEF KeeperInv, SettledRowWasProved

\* The two rows the engine inserts before it knows anything of the market.
LEMMA NewRows ==
    /\ Created.state = "Open" /\ Missing.state = "Missing"
    /\ {Created, Missing} \subseteq
          [state : RowStates, winnerYes : Sides \cup {"null"}, evidenceTs : Nat,
           resolveTx : BOOLEAN, finalized : BOOLEAN, recovered : BOOLEAN]
<1>1. Created \in [state : RowStates, winnerYes : Sides \cup {"null"}, evidenceTs : Nat,
                   resolveTx : BOOLEAN, finalized : BOOLEAN, recovered : BOOLEAN]
    BY DEF Created, RowStates, Indexed
<1>2. Created.state = "Open" /\ "Missing" \in RowStates
    BY DEF Created, RowStates
<1>3. QED BY <1>1, <1>2 DEF Missing

(***************************************************************************)
(* Each step keeps the invariant.  First what is due to the chain alone.   *)
(***************************************************************************)
LEMMA ChainUnderKeeper ==
    ASSUME KeeperInv, [KeeperNext]_kvars
    PROVE  /\ IInv' /\ TypeOK' /\ MarketExists'
           /\ state # "Open" => state' # "Open"
           /\ (pc = "recording" /\ proof' = proof) =>
                 /\ state' = "Resolved"
                 /\ proof.ts <= evidenceTs'
                 /\ proof.ts = evidenceTs' => Outcome(proof) = winner'
<1>1. [Next]_vars
    BY KeeperStepsOnChain DEF KeeperInv
<1>2. IInv' /\ TypeOK'
    BY <1>1, NextKeepsIInv DEF KeeperInv, IInv
<1>3. evidenceTs \in Nat /\ evidenceTs' \in Nat
    BY <1>2 DEF KeeperInv, IInv, TypeOK
<1>4. pc = "recording" => proof.ts \in Nat
    BY RecordsAssumption DEF KeeperInv, KeeperTypeOK
<1>5. QED BY <1>1, <1>2, <1>3, <1>4, OutcomeGrows
          DEF KeeperInv, IInv, MarketExists, RecordsWhatWasAccepted

\* The chain moves under the server, or the server's transaction does it, or
\* nothing happens.
LEMMA TransactionsKeepKeeperInv ==
    ASSUME KeeperInv,
           \/ ChainMoves \/ ResolveConfirmed \/ ResolveUnconfirmed \/ VoidUnconfirmed
           \/ UNCHANGED kvars
    PROVE  KeeperInv'
<1> USE DEF procVars, memVars, matchVars, dbVars, rowVars
<1>1. [KeeperNext]_kvars
    BY DEF KeeperNext, SettlerStep
<1>2. /\ UNCHANGED <<match, emitted, fixtureStatus, row, receipt, up, crashes, held, proof,
                     decidingSeqCache, finalizedVoid>>
      /\ pc' \in {pc, "recording", "closing", "idle"}
      /\ pc' = "recording" /\ pc # "recording" => pc = "resolving" /\ Resolve(proof)
    BY DEF ChainMoves, ResolveConfirmed, ResolveUnconfirmed, VoidUnconfirmed, kvars
<1>3. KeeperTypeOK'
    BY <1>1, <1>2, ChainUnderKeeper DEF KeeperInv, KeeperTypeOK
<1>4. RowIsHeld' /\ NeverDownWithoutCrash'
    BY <1>2 DEF KeeperInv, RowIsHeld, NeverDownWithoutCrash
<1>5. RecordsWhatWasAccepted'
    <2>1. CASE pc' = "recording" /\ pc # "recording"
        <3>1. /\ state' = "Resolved" /\ evidenceTs' = proof.ts /\ winner' = Outcome(proof)
              /\ proof \in Records
            BY <1>2, <2>1 DEF Resolve, KeeperInv, KeeperTypeOK
        <3>2. QED BY <1>2, <3>1, RecordsAssumption DEF RecordsWhatWasAccepted, Outcome
    <2>2. CASE ~(pc' = "recording" /\ pc # "recording")
        BY <1>1, <1>2, <2>2, ChainUnderKeeper DEF RecordsWhatWasAccepted, Outcome
    <2>3. QED BY <2>1, <2>2
<1>6. SettledRowWasProved'
    BY <1>1, <1>2, SettledRowLasts, KeeperStepsOnChain DEF KeeperInv
<1>7. GivesUpOnlyWhenDecided'
    BY <1>1, <1>2, ChainUnderKeeper DEF KeeperInv, GivesUpOnlyWhenDecided
<1>8. QED BY <1>1, <1>3, <1>4, <1>5, <1>6, <1>7, ChainUnderKeeper DEF KeeperInv

\* The match, the indexer, and the settler's sweep and its search for a proof.
LEMMA IndexingKeepsKeeperInv ==
    ASSUME KeeperInv,
           \/ \E s \in Statuses : MatchMoves(s) \/ Apply(s)
           \/ StartTick \/ FetchProof \/ NoProof \/ ResolveFails
    PROVE  KeeperInv'
<1> USE DEF procVars, memVars, matchVars, dbVars, rowVars
<1>1. [KeeperNext]_kvars
    BY DEF KeeperNext, SettlerStep
<1>2. /\ UNCHANGED <<receipt, up, crashes, held, finalizedVoid>>
      /\ match' \in Statuses /\ emitted' \subseteq Statuses
      /\ pc' \in {pc, "proving", "closing", "resolving"}
    BY DEF MatchMoves, Apply, StartTick, FetchProof, NoProof, ResolveFails, AfterFailure,
           KeeperInv, KeeperTypeOK
<1>3. /\ proof' \in Records \cup {NoRecord}
      /\ decidingSeqCache' \in Records \cup {NoRecord}
      /\ pc' = "resolving" => proof' # NoRecord
      /\ pc' = "recording" => pc = "recording" /\ proof' = proof
    <2>1. CASE FetchProof
        BY <2>1, PublishedRecords, KeeperAssumption DEF FetchProof, Found, KeeperInv, KeeperTypeOK
    <2>2. CASE ~FetchProof
        BY <2>2 DEF MatchMoves, Apply, StartTick, NoProof, ResolveFails, AfterFailure,
                    KeeperInv, KeeperTypeOK
    <2>3. QED BY <2>1, <2>2
<1>4. fixtureStatus' \in Statuses \cup {NoStatus}
    <2>1. ASSUME NEW s \in Statuses, Apply(s) PROVE fixtureStatus' \in Statuses \cup {NoStatus}
        BY <2>1 DEF Apply, StatusAfter, Trusted, KeeperInv, KeeperTypeOK
    <2>2. QED BY <2>1 DEF MatchMoves, StartTick, FetchProof, NoProof, ResolveFails,
                          KeeperInv, KeeperTypeOK
<1>5. /\ row' = [row EXCEPT !.state = row'.state]
      /\ row'.state \in RowStates
      /\ row'.state # row.state => row.state \in Indexed /\ row'.state \in Indexed \cup {"Void"}
      /\ row.state = "AwaitingRoot" => row'.state \in {"AwaitingRoot", "Void"}
      /\ pc' = "proving" /\ pc # "proving" => row'.state = "AwaitingRoot"
    <2>1. row = [row EXCEPT !.state = row.state] /\ row.state \in RowStates
        BY DEF KeeperInv, KeeperTypeOK
    <2>2. ASSUME NEW s \in Statuses, Apply(s)
          PROVE  /\ row' = [row EXCEPT !.state = row'.state]
                 /\ row'.state # row.state => row.state \in Indexed
                 /\ row.state \in Indexed => row'.state \in Indexed \cup {"Void"}
                 /\ row.state = "AwaitingRoot" => row'.state \in {"AwaitingRoot", "Void"}
                 /\ pc' = pc
        <3>1. CASE row.state \in Indexed
            <4> DEFINE new == StateAfter(row.state, fixtureStatus', clock >= Lock, InPlayRule,
                                        Terms.period)
            <4>1. row' = [row EXCEPT !.state = new] /\ pc' = pc
                BY <2>2, <3>1 DEF Apply
            <4>2. /\ new \in Indexed \cup {"Void"}
                  /\ row.state = "AwaitingRoot" => new \in {"AwaitingRoot", "Void"}
                BY <3>1, StateAfterType
            <4>3. row'.state = new
                BY <4>1 DEF KeeperInv, KeeperTypeOK
            <4> HIDE DEF new
            <4>4. QED BY <3>1, <4>1, <4>2, <4>3
        <3>2. CASE row.state \notin Indexed
            BY <2>1, <2>2, <3>2 DEF Apply, Indexed
        <3>3. QED BY <3>1, <3>2
    <2>3. CASE StartTick
        BY <2>1, <2>3 DEF StartTick, SweepLock, Indexed, RowStates, KeeperInv, KeeperTypeOK
    <2>4. CASE row' = row /\ pc' \in {pc, "closing", "resolving"}
        BY <2>1, <2>4
    <2>5. QED BY <2>1, <2>2, <2>3, <2>4
              DEF MatchMoves, FetchProof, NoProof, ResolveFails, AfterFailure, RowStates
<1>6. KeeperTypeOK'
    BY <1>1, <1>2, <1>3, <1>4, <1>5, ChainUnderKeeper DEF KeeperInv, KeeperTypeOK
<1>7. RowIsHeld' /\ NeverDownWithoutCrash'
    <2>1. pc' = "resolving" /\ pc # "resolving" => pc = "proving" /\ row' = row
        BY DEF MatchMoves, Apply, StartTick, FetchProof, NoProof, ResolveFails, AfterFailure
    <2>2. QED BY <1>2, <1>3, <1>5, <2>1
              DEF KeeperInv, RowIsHeld, NeverDownWithoutCrash, Indexed, OverdueStates
<1>8. RecordsWhatWasAccepted'
    BY <1>1, <1>3, ChainUnderKeeper DEF RecordsWhatWasAccepted, Outcome
<1>9. SettledRowWasProved'
    <2>1. CASE row.state = "Settled"
        <3>1. row' = row
            BY <1>5, <2>1 DEF Indexed, KeeperInv, KeeperTypeOK
        <3>2. QED BY <1>1, <1>2, <3>1, SettledRowLasts, KeeperStepsOnChain DEF KeeperInv
    <2>2. CASE row.state # "Settled"
        BY <1>2, <1>5, <2>2, UnsettledRowClaimsNothing DEF Indexed
    <2>3. QED BY <2>1, <2>2
<1>10. GivesUpOnlyWhenDecided'
    BY <1>1, <1>2, ChainUnderKeeper DEF KeeperInv, GivesUpOnlyWhenDecided
<1>11. QED BY <1>1, <1>6, <1>7, <1>8, <1>9, <1>10, ChainUnderKeeper DEF KeeperInv
\* What the settler writes about the outcome: the row of an impossible market,
\* the settled row with its receipt, and what a rebuilt row lacked.
LEMMA RecordingKeepsKeeperInv ==
    ASSUME KeeperInv,
           ResolveImpossible \/ AfterResolve \/ BackfillReceipt \/ RecoverResolveTx
    PROVE  KeeperInv'
<1> USE DEF procVars, memVars, matchVars, dbVars, rowVars
<1>1. [KeeperNext]_kvars
    BY DEF KeeperNext, SettlerStep
<1>2. UNCHANGED vars /\ UNCHANGED <<matchVars, fixtureStatus, up, crashes, held, proof>>
    BY DEF ResolveImpossible, AfterResolve, BackfillReceipt, RecoverResolveTx
<1> USE DEF vars, outcomeVars
<1>3. /\ pc' \in {pc, "closing"} /\ pc' # "recording"
      /\ pc' = "voiding" => row' = row
    BY DEF ResolveImpossible, AfterResolve, BackfillReceipt, RecoverResolveTx
<1>4. row.state \in RowStates /\ row.evidenceTs \in Nat
    BY DEF KeeperInv, KeeperTypeOK
<1>5. CASE ResolveImpossible
    <2>1. /\ row' = [row EXCEPT !.state = "Void"] /\ pc' = "closing"
          /\ row.state \in {"AwaitingRoot", "Void"}
          /\ UNCHANGED <<receipt, decidingSeqCache, finalizedVoid>>
        BY <1>5 DEF ResolveImpossible, KeeperInv, RowIsHeld
    <2>2. KeeperTypeOK'
        BY <1>1, <1>2, <2>1, ChainUnderKeeper DEF KeeperInv, KeeperTypeOK, RowStates
    <2>3. row'.state = "Void"
        BY <2>1 DEF KeeperInv, KeeperTypeOK
    <2>4. SettledRowWasProved'
        BY <2>1, <2>3, UnsettledRowClaimsNothing
    <2>5. QED BY <1>1, <1>2, <2>1, <2>2, <2>4, ChainUnderKeeper
              DEF KeeperInv, RowIsHeld, RecordsWhatWasAccepted, NeverDownWithoutCrash,
                  GivesUpOnlyWhenDecided
<1>6. CASE AfterResolve
    <2>1. /\ pc = "recording" /\ pc' = "closing" /\ finalizedVoid' = TRUE
          /\ receipt' = IF receipt = NoRecord THEN proof ELSE receipt
          /\ row' = [row EXCEPT !.state = "Settled", !.winnerYes = Outcome(proof),
                                !.evidenceTs = proof.ts, !.resolveTx = TRUE, !.finalized = TRUE]
          /\ UNCHANGED decidingSeqCache
        BY <1>6 DEF AfterResolve, Settled
    <2>2. /\ proof \in Records /\ proof # NoRecord /\ proof.ts \in Nat
          /\ Outcome(proof) \in Sides
        BY <2>1, RecordsAssumption, KeeperAssumption DEF KeeperInv, KeeperTypeOK, Outcome, Sides
    <2>3. receipt = NoRecord /\ receipt' = proof
        BY <2>1 DEF KeeperInv, RowIsHeld, SettledRowWasProved
    <2>4. KeeperTypeOK'
        BY <1>1, <1>2, <2>1, <2>2, <2>3, ChainUnderKeeper DEF KeeperInv, KeeperTypeOK, RowStates
    <2>5. /\ row'.state = "Settled" /\ row'.winnerYes = Outcome(proof)
          /\ row'.evidenceTs = proof.ts
        BY <2>1 DEF KeeperInv, KeeperTypeOK
    <2>6. /\ state = "Resolved"
          /\ proof.ts <= evidenceTs
          /\ proof.ts = evidenceTs => Outcome(proof) = winner
        BY <2>1 DEF KeeperInv, RecordsWhatWasAccepted
    <2>7. SettledRowWasProved'
        BY <1>2, <2>2, <2>3, <2>5, <2>6 DEF SettledRowWasProved, AcceptedAt, Outcome
    <2>8. QED BY <1>1, <1>2, <2>1, <2>4, <2>6, <2>7, ChainUnderKeeper
              DEF KeeperInv, RowIsHeld, RecordsWhatWasAccepted, NeverDownWithoutCrash,
                  GivesUpOnlyWhenDecided
<1>7. CASE BackfillReceipt
    <2>1. /\ pc = "closing" /\ pc' = "closing" /\ finalizedVoid' = TRUE
          /\ row.state = "Settled" /\ receipt = NoRecord
        BY <1>7 DEF BackfillReceipt, LacksReceipt, Settled
    <2>2. PICK e \in Found : /\ decidingSeqCache' = e /\ receipt' = e
                             /\ row' = [row EXCEPT !.state = "Settled", !.winnerYes = Outcome(e),
                                                   !.evidenceTs = e.ts, !.resolveTx = row.resolveTx,
                                                   !.finalized = TRUE]
        BY <1>7, <2>1 DEF BackfillReceipt, Settled
    <2>3. e \in Records /\ e # NoRecord /\ e.ts \in Nat /\ Outcome(e) \in Sides
        BY PublishedRecords, RecordsAssumption, KeeperAssumption
           DEF Found, KeeperInv, KeeperTypeOK, Outcome, Sides
    <2>4. KeeperTypeOK'
        BY <1>1, <1>2, <2>1, <2>2, <2>3, ChainUnderKeeper DEF KeeperInv, KeeperTypeOK, RowStates
    <2>5. /\ row'.state = "Settled" /\ row'.winnerYes = Outcome(e)
          /\ row'.evidenceTs = e.ts /\ row'.recovered = row.recovered
        BY <2>2 DEF KeeperInv, KeeperTypeOK
    <2>6. state = "Resolved" /\ row.recovered
        BY <2>1 DEF KeeperInv, SettledRowWasProved
    <2>7. SettledRowWasProved'
        BY <1>2, <2>2, <2>3, <2>5, <2>6 DEF SettledRowWasProved, Outcome
    <2>8. QED BY <1>1, <1>2, <2>1, <2>4, <2>6, <2>7, ChainUnderKeeper
              DEF KeeperInv, RowIsHeld, RecordsWhatWasAccepted, NeverDownWithoutCrash,
                  GivesUpOnlyWhenDecided
<1>8. CASE RecoverResolveTx
    <2>1. /\ row' = [row EXCEPT !.resolveTx = TRUE] /\ pc = "closing" /\ pc' = pc
          /\ UNCHANGED <<receipt, decidingSeqCache, finalizedVoid>>
        BY <1>8 DEF RecoverResolveTx
    <2>2. KeeperTypeOK'
        BY <1>1, <1>2, <2>1, ChainUnderKeeper DEF KeeperInv, KeeperTypeOK
    <2>3. /\ row'.state = row.state /\ row'.winnerYes = row.winnerYes
          /\ row'.evidenceTs = row.evidenceTs /\ row'.recovered = row.recovered
        BY <2>1 DEF KeeperInv, KeeperTypeOK
    <2>4. SettledRowWasProved'
        BY <1>1, <2>1, <2>3, SettledRowLasts, KeeperStepsOnChain DEF KeeperInv
    <2>5. QED BY <1>1, <1>2, <2>1, <2>2, <2>4, ChainUnderKeeper
              DEF KeeperInv, RowIsHeld, RecordsWhatWasAccepted, NeverDownWithoutCrash,
                  GivesUpOnlyWhenDecided
<1>9. QED BY <1>5, <1>6, <1>7, <1>8

\* The end of the tick: the market is voided, or found decided, or left for later.
LEMMA VoidingKeepsKeeperInv ==
    ASSUME KeeperInv,
           CheckOverdue \/ VoidConfirmed \/ VoidRejected \/ VoidFails
    PROVE  KeeperInv'
<1> USE DEF procVars, memVars, matchVars, dbVars, rowVars
<1>1. [KeeperNext]_kvars
    BY DEF KeeperNext, SettlerStep
<1>2. /\ UNCHANGED <<match, emitted, fixtureStatus, receipt, up, crashes, proof,
                     decidingSeqCache>>
      /\ held' \in RowStates
    BY DEF CheckOverdue, VoidConfirmed, VoidRejected, VoidFails, KeeperInv, KeeperTypeOK
<1>3. CASE CheckOverdue \/ VoidFails
    <2>1. /\ row' = row /\ finalizedVoid' = finalizedVoid
          /\ pc' = "idle" \/ (pc' = "voiding" /\ row.state \in OverdueStates)
        BY <1>3 DEF CheckOverdue, VoidFails, Overdue
    <2>2. KeeperTypeOK'
        BY <1>1, <1>2, <2>1, ChainUnderKeeper DEF KeeperInv, KeeperTypeOK
    <2>3. SettledRowWasProved'
        BY <1>1, <1>2, <2>1, SettledRowLasts, KeeperStepsOnChain DEF KeeperInv
    <2>4. QED BY <1>1, <1>2, <2>1, <2>2, <2>3, ChainUnderKeeper
              DEF KeeperInv, RowIsHeld, RecordsWhatWasAccepted, NeverDownWithoutCrash,
                  GivesUpOnlyWhenDecided
<1>4. CASE VoidConfirmed \/ VoidRejected
    <2>1. /\ pc = "voiding" /\ pc' = "idle" /\ finalizedVoid' = TRUE
          /\ row' = [row EXCEPT !.finalized = TRUE,
                                !.state = IF held # "Void" THEN "Void" ELSE row.state]
        BY <1>4 DEF VoidConfirmed, VoidRejected, FinishVoid, KeeperInv, KeeperTypeOK
    <2>2. state' # "Open"
        BY <1>1, <1>4, ChainUnderKeeper DEF VoidConfirmed, VoidRejected, VoidMarket, MarketNotOpen
    <2>3. row.state \in OverdueStates /\ row'.state \in OverdueStates
        BY <2>1 DEF KeeperInv, KeeperTypeOK, RowIsHeld, OverdueStates
    <2>4. KeeperTypeOK'
        BY <1>1, <1>2, <2>1, ChainUnderKeeper DEF KeeperInv, KeeperTypeOK, RowStates
    <2>5. SettledRowWasProved'
        BY <1>2, <2>3, UnsettledRowClaimsNothing DEF OverdueStates, Indexed
    <2>6. QED BY <1>1, <1>2, <2>1, <2>2, <2>4, <2>5, ChainUnderKeeper
              DEF KeeperInv, RowIsHeld, RecordsWhatWasAccepted, NeverDownWithoutCrash,
                  GivesUpOnlyWhenDecided
<1>5. QED BY <1>3, <1>4

\* The row is rebuilt from the chain: its evidence time is the chain's, multiplied.
LEMMA RecoveryKeepsKeeperInv ==
    ASSUME KeeperInv, RecoverRow
    PROVE  KeeperInv'
<1> USE DEF procVars, memVars, matchVars, dbVars, rowVars
<1>1. [KeeperNext]_kvars
    BY DEF KeeperNext
<1>2. /\ UNCHANGED <<vars, matchVars, fixtureStatus, receipt, procVars>>
      /\ row.state = "Missing"
      /\ row' \in {Created, RecoveredRow}
    BY DEF RecoverRow
<1> USE DEF vars, outcomeVars
<1>3. receipt = NoRecord /\ pc \notin {"proving", "resolving", "recording", "voiding"}
    BY <1>2 DEF KeeperInv, SettledRowWasProved, RowIsHeld, OverdueStates, Indexed
<1>4. evidenceTs \in Nat /\ winner \in Sides /\ state \in {"Open", "Resolved", "Void"}
    BY DEF KeeperInv, IInv, TypeOK, MarketExists
<1>5. (evidenceTs * MsPerSec) \div MsPerSec = evidenceTs /\ evidenceTs * MsPerSec \in Nat
    BY <1>4 DEF MsPerSec
<1>6. /\ row' \in [state : RowStates, winnerYes : Sides \cup {"null"}, evidenceTs : Nat,
                   resolveTx : BOOLEAN, finalized : BOOLEAN, recovered : BOOLEAN]
      /\ row'.state = "Settled" =>
            /\ state = "Resolved" /\ row'.recovered /\ row'.winnerYes = winner
            /\ row'.evidenceTs = evidenceTs * MsPerSec
    <2>1. CASE row' = Created
        BY <2>1, NewRows
    <2>2. CASE row' = RecoveredRow
        <3> DEFINE newState == CASE state = "Resolved" -> "Settled" [] state = "Void" -> "Void"
                                 [] state = "Open" -> "AwaitingRoot"
                   newWinner == IF state = "Resolved" THEN winner ELSE Missing.winnerYes
                   newTs == IF state = "Resolved" THEN evidenceTs * MsPerSec
                                                  ELSE Missing.evidenceTs
        <3>1. RecoveredRow = [Missing EXCEPT !.recovered = (state = "Resolved"),
                                            !.state = newState, !.winnerYes = newWinner,
                                            !.evidenceTs = newTs]
            BY Zenon DEF RecoveredRow
        <3>2. /\ newState \in {"Settled", "Void", "AwaitingRoot"}
              /\ newState = "Settled" => state = "Resolved"
              /\ newWinner \in Sides \cup {"null"} /\ (state = "Resolved" => newWinner = winner)
              /\ newTs \in Nat /\ (state = "Resolved" => newTs = evidenceTs * MsPerSec)
            BY <1>4, <1>5, NewRows
        <3> HIDE DEF newState, newWinner, newTs
        <3>3. QED BY <2>2, <3>1, <3>2, NewRows DEF RowStates, Indexed
    <2>3. QED BY <1>2, <2>1, <2>2
<1>7. KeeperTypeOK'
    BY <1>1, <1>2, <1>6, ChainUnderKeeper DEF KeeperInv, KeeperTypeOK
<1>8. SettledRowWasProved'
    BY <1>2, <1>3, <1>4, <1>5, <1>6 DEF SettledRowWasProved, AcceptedAt
<1>9. QED BY <1>1, <1>2, <1>3, <1>7, <1>8, ChainUnderKeeper
          DEF KeeperInv, RowIsHeld, RecordsWhatWasAccepted, NeverDownWithoutCrash,
              GivesUpOnlyWhenDecided

\* A restart forgets what the settler held, and may lose the database.
LEMMA RestartKeepsKeeperInv ==
    ASSUME KeeperInv,
           \/ \E lost \in BOOLEAN : Crash(lost)
           \/ \E listed \in BOOLEAN : Boot(listed) \/ BootWithoutWorkers(listed)
    PROVE  KeeperInv'
<1> USE DEF procVars, memVars, matchVars, dbVars, rowVars
<1>1. [KeeperNext]_kvars
    BY DEF KeeperNext
<1>2. UNCHANGED vars /\ UNCHANGED matchVars
    BY DEF Crash, Boot, BootWithoutWorkers
<1>3. ASSUME NEW lost \in BOOLEAN, Crash(lost) PROVE KeeperInv'
    <2>1. /\ pc' = "idle" /\ finalizedVoid' = FALSE /\ crashes' = crashes + 1
          /\ held' = "Open" /\ up' = "down" /\ proof' = NoRecord /\ decidingSeqCache' = NoRecord
          /\ crashes \in Nat /\ crashes' \in 0..MaxCrashes
        BY <1>3, KeeperAssumption DEF Crash, KeeperInv, KeeperTypeOK
    <2>2. \/ UNCHANGED <<fixtureStatus, row, receipt>>
          \/ fixtureStatus' = NoStatus /\ row' = Missing /\ receipt' = NoRecord
        BY <1>3 DEF Crash
    <2>3. KeeperTypeOK'
        BY <1>1, <1>2, <2>1, <2>2, ChainUnderKeeper, NewRows
           DEF KeeperInv, KeeperTypeOK, RowStates, Indexed
    <2>4. SettledRowWasProved'
        <3>1. CASE UNCHANGED <<fixtureStatus, row, receipt>>
            BY <1>1, <3>1, SettledRowLasts, KeeperStepsOnChain DEF KeeperInv
        <3>2. CASE row' = Missing /\ receipt' = NoRecord
            BY <3>2, NewRows DEF SettledRowWasProved
        <3>3. QED BY <2>2, <3>1, <3>2
    <2>5. QED BY <1>1, <2>1, <2>3, <2>4, ChainUnderKeeper
              DEF KeeperInv, RowIsHeld, RecordsWhatWasAccepted, NeverDownWithoutCrash,
                  GivesUpOnlyWhenDecided
<1>4. ASSUME NEW listed \in BOOLEAN, Boot(listed) \/ BootWithoutWorkers(listed)
      PROVE  KeeperInv'
    <2> DEFINE requeued == IF listed THEN Requeue(row) ELSE row
    <2>1. /\ up = "down" /\ up' \in {"running", "apiOnly"}
          /\ UNCHANGED <<fixtureStatus, receipt, crashes, pc, held, proof, decidingSeqCache>>
          /\ row' \in {Seed(requeued), requeued}
          /\ finalizedVoid' \in {finalizedVoid, row'.finalized}
        BY <1>4 DEF Boot, BootWithoutWorkers
    <2>2. /\ row' \in [state : RowStates, winnerYes : Sides \cup {"null"}, evidenceTs : Nat,
                       resolveTx : BOOLEAN, finalized : BOOLEAN, recovered : BOOLEAN]
          /\ row.state # "Void" =>
                row'.state = row.state /\ row'.winnerYes = row.winnerYes
          /\ row.state = "Void" => row'.state \in {"Void", "AwaitingRoot"}
          /\ row'.evidenceTs = row.evidenceTs /\ row'.recovered = row.recovered
        <3>1. /\ requeued \in [state : RowStates, winnerYes : Sides \cup {"null"},
                              evidenceTs : Nat, resolveTx : BOOLEAN, finalized : BOOLEAN,
                              recovered : BOOLEAN]
              /\ row.state # "Void" => requeued = row
              /\ row.state = "Void" => requeued.state \in {"Void", "AwaitingRoot"}
              /\ requeued.evidenceTs = row.evidenceTs /\ requeued.recovered = row.recovered
            BY DEF Requeue, KeeperInv, KeeperTypeOK, RowStates, Indexed
        <3> HIDE DEF requeued
        <3>2. row' = requeued \/ row' = [requeued EXCEPT !.finalized = TRUE]
            BY <2>1 DEF Seed
        <3>3. QED BY <3>1, <3>2
    <2>3. KeeperTypeOK'
        BY <1>1, <1>2, <2>1, <2>2, ChainUnderKeeper DEF KeeperInv, KeeperTypeOK
    <2>4. SettledRowWasProved'
        <3>1. CASE row.state # "Void"
            BY <1>1, <2>1, <2>2, <3>1, SettledRowLasts, KeeperStepsOnChain DEF KeeperInv
        <3>2. CASE row.state = "Void"
            BY <2>1, <2>2, <3>2, UnsettledRowClaimsNothing
        <3>3. QED BY <3>1, <3>2
    <2>5. RowIsHeld'
        BY <2>1, <2>2 DEF KeeperInv, RowIsHeld, OverdueStates, Indexed
    <2>6. crashes' > 0
        BY <2>1 DEF KeeperInv, NeverDownWithoutCrash
    <2>7. QED BY <1>1, <2>1, <2>3, <2>4, <2>5, <2>6, ChainUnderKeeper
              DEF KeeperInv, RecordsWhatWasAccepted, NeverDownWithoutCrash,
                  GivesUpOnlyWhenDecided, Outcome
<1>5. QED BY <1>3, <1>4
LEMMA InitKeeperInv == KeeperInit => KeeperInv
<1> SUFFICES ASSUME KeeperInit PROVE KeeperInv
    OBVIOUS
<1>1. KeeperTypeOK
    <2>1. /\ NS \in Statuses /\ {NS} \subseteq Statuses /\ 0 \in 0..MaxCrashes
          /\ "Open" \in RowStates
        BY KeeperAssumption DEF Statuses, RowStates, Indexed
    <2>2. TypeOK
        BY KeeperInitIInv DEF IInv
    <2>3. row \in [state : RowStates, winnerYes : Sides \cup {"null"}, evidenceTs : Nat,
                  resolveTx : BOOLEAN, finalized : BOOLEAN, recovered : BOOLEAN]
        BY NewRows DEF KeeperInit
    <2>4. QED BY <2>1, <2>2, <2>3 DEF KeeperInit, KeeperTypeOK
<1>2. SettledRowWasProved
    BY NewRows DEF KeeperInit, SettledRowWasProved
<1>3. QED BY <1>1, <1>2, KeeperInitIInv
          DEF KeeperInit, KeeperInv, RowIsHeld, RecordsWhatWasAccepted, NeverDownWithoutCrash,
              MarketExists, GivesUpOnlyWhenDecided

LEMMA NextKeepsKeeperInv == KeeperInv /\ [KeeperNext]_kvars => KeeperInv'
<1> SUFFICES ASSUME KeeperInv, [KeeperNext]_kvars PROVE KeeperInv'
    OBVIOUS
<1> QED BY TransactionsKeepKeeperInv, IndexingKeepsKeeperInv, RecordingKeepsKeeperInv,
             VoidingKeepsKeeperInv, RecoveryKeepsKeeperInv, RestartKeepsKeeperInv
          DEF KeeperNext, SettlerStep

(***************************************************************************)
(* The theorems.                                                           *)
(***************************************************************************)

\* The chain's invariant, the types, and what the settler and its rows claim of
\* the chain, in every reachable state.
THEOREM KeeperInvariance == KeeperSpec => []KeeperInv
BY InitKeeperInv, NextKeepsKeeperInv, PTL DEF KeeperSpec

THEOREM KeeperTypeCorrect == KeeperSpec => []KeeperTypeOK
<1>1. KeeperInv => KeeperTypeOK
    BY DEF KeeperInv
<1>2. QED BY KeeperInvariance, <1>1, PTL

\* A settled row says what the chain accepted, and its receipt proves it, however
\* transactions are lost, confirmations late and processes restarted.
THEOREM SettledRowsAreProved == KeeperSpec => []SettledRowWasProved
<1>1. KeeperInv => SettledRowWasProved
    BY DEF KeeperInv
<1>2. QED BY KeeperInvariance, <1>1, PTL

\* A process that never restarted gives no open market up.
THEOREM NoOpenMarketGivenUp == KeeperSpec => []GivesUpOnlyWhenDecided
<1>1. KeeperInv => GivesUpOnlyWhenDecided
    BY DEF KeeperInv
<1>2. QED BY KeeperInvariance, <1>1, PTL

\* A settled row stays settled as it was, until the database is lost.
THEOREM SettledRowIsLeftAlone == KeeperSpec => SettledRowStays
<1> DEFINE Stays ==
        row.state = "Settled" /\ row'.state # "Missing" =>
            /\ row'.state = "Settled"
            /\ row'.winnerYes = row.winnerYes \/ (row.recovered /\ LacksReceipt)
            /\ row.resolveTx => row'.resolveTx
<1>1. KeeperInv /\ [KeeperNext]_kvars => [Stays]_kvars
    <2> SUFFICES ASSUME KeeperInv, KeeperNext, row.state = "Settled", row'.state # "Missing"
                 PROVE  /\ row'.state = "Settled"
                        /\ row'.winnerYes = row.winnerYes \/ (row.recovered /\ LacksReceipt)
                        /\ row.resolveTx => row'.resolveTx
        OBVIOUS
    <2> USE DEF procVars, memVars, matchVars, dbVars, rowVars
    <2>1. /\ pc \notin {"proving", "resolving", "recording", "voiding"}
          /\ row.state \notin Indexed
        BY DEF KeeperInv, RowIsHeld, OverdueStates, Indexed
    <2>2. CASE row' = row
        BY <2>2
    <2>3. CASE BackfillReceipt
        <3>1. row.recovered /\ LacksReceipt
            BY <2>3 DEF BackfillReceipt, LacksReceipt, KeeperInv, SettledRowWasProved
        <3>2. row'.state = "Settled" /\ row'.resolveTx = row.resolveTx
            BY <2>3 DEF BackfillReceipt, Settled, KeeperInv, KeeperTypeOK
        <3>3. QED BY <3>1, <3>2
    <2>4. CASE RecoverResolveTx
        BY <2>4 DEF RecoverResolveTx, KeeperInv, KeeperTypeOK
    <2>5. ASSUME NEW lost \in BOOLEAN, Crash(lost) PROVE row' = row
        BY <2>5, NewRows DEF Crash
    <2>6. ASSUME NEW listed \in BOOLEAN, Boot(listed) \/ BootWithoutWorkers(listed)
          PROVE  row' \in {row, [row EXCEPT !.finalized = TRUE]}
        BY <2>6 DEF Boot, BootWithoutWorkers, Seed, Requeue
    <2>7. CASE row' = [row EXCEPT !.finalized = TRUE]
        BY <2>7 DEF KeeperInv, KeeperTypeOK
    <2>8. ASSUME NEW s \in Statuses, MatchMoves(s) \/ Apply(s) PROVE row' = row
        BY <2>1, <2>8 DEF MatchMoves, Apply
    <2>9. CASE \/ ChainMoves \/ StartTick \/ FetchProof \/ NoProof \/ CheckOverdue
               \/ ResolveConfirmed \/ ResolveUnconfirmed \/ ResolveFails \/ VoidUnconfirmed
               \/ VoidFails
        BY <2>9 DEF ChainMoves, StartTick, SweepLock, FetchProof, NoProof, CheckOverdue,
                    ResolveConfirmed, ResolveUnconfirmed, ResolveFails, VoidUnconfirmed, VoidFails
    <2>10. ~(ResolveImpossible \/ AfterResolve \/ VoidConfirmed \/ VoidRejected \/ RecoverRow)
        BY <2>1 DEF ResolveImpossible, AfterResolve, VoidConfirmed, VoidRejected, RecoverRow
    <2>11. QED BY <2>2, <2>3, <2>4, <2>5, <2>6, <2>7, <2>8, <2>9, <2>10
               DEF KeeperNext, SettlerStep
<1>2. QED BY KeeperInvariance, <1>1, PTL DEF KeeperSpec, SettledRowStays
=============================================================================
