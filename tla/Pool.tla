-------------------------------- MODULE Pool --------------------------------
(***************************************************************************)
(* The groundtruth_pool program: one parimutuel market on chain.           *)
(*                                                                         *)
(* A market account is addressed by the hash of its terms, so the terms    *)
(* are a constant and the account is created at most once.  Anyone may     *)
(* send any instruction; every instruction is one atomic transaction: it   *)
(* takes full effect or, when a require! fails, none.                      *)
(*                                                                         *)
(* Times of the market are in seconds, the ts of a scores record is in     *)
(* milliseconds, as in the code.                                           *)
(*                                                                         *)
(* External to the repository: the clock, the txoracle program (which of   *)
(* the feed's records can be proved against its posted roots) and the SPL  *)
(* token program.                                                          *)
(***************************************************************************)
EXTENDS Integers, Stakes

CONSTANTS
    Users,              \* who may stake
    Amounts,            \* amounts a deposit may carry
    Funds,              \* tokens each user holds at the start
    MaxU64,             \* largest value of a u64
    LockTimes,          \* lock_ts values a creator may choose
    Deadlines,          \* resolve_deadline_ts values a creator may choose
    DisputeWindowSecs,  \* DISPUTE_WINDOW_SECS
    FinalPeriodFloor,   \* FINAL_PERIOD_FLOOR
    Terms,              \* the market's terms
    NoStat,             \* None, for the optional second statistic
    Records,            \* the feed's signed records, as resolve's arguments
    Horizon             \* BOUND on the clock

MsPerSec == 1000

(***************************************************************************)
(* A record carries what resolve looks at: its ts, its fixture, the proved *)
(* leaves a and b (key and period) and whether the terms' predicate holds  *)
(* of their values.                                                        *)
(***************************************************************************)
ASSUME UsersAssumption == IsFiniteSet(Users)
ASSUME AmountsAssumption == Amounts \subseteq Nat /\ Funds \in Nat /\ MaxU64 \in Nat
ASSUME TimesAssumption ==
    /\ LockTimes \subseteq Nat
    /\ Deadlines \subseteq Nat
    /\ DisputeWindowSecs \in Nat \ {0}
    /\ Horizon \in Nat
ASSUME TermsAssumption == Terms.negation \in BOOLEAN
ASSUME RecordsAssumption ==
    \A e \in Records : e.ts \in Nat /\ e.holds \in BOOLEAN

VARIABLES
    clock,              \* Clock::get()?.unix_timestamp
    provable,           \* records whose proofs validate against posted roots
    state,              \* MarketState, "Absent" before create_market
    lockTs,
    resolveDeadlineTs,
    pool,               \* pool["yes"] is yes_pool, pool["no"] is no_pool
    evidenceTs,
    disputeUntilTs,
    winner,             \* the side winner_yes stands for
    amount,             \* Position.amount
    claimed,            \* positions whose claimed flag is set
    vault,              \* balance of the vault's token account
    wallet,             \* balance of each user's token account
    lastDeposit         \* history: time of the last deposit, -1 for none

termsVars == <<lockTs, resolveDeadlineTs>>
outcomeVars == <<evidenceTs, disputeUntilTs, winner>>
stakeVars == <<pool, amount, lastDeposit>>
tokenVars == <<vault, wallet>>
vars == <<clock, provable, state, termsVars, outcomeVars, stakeVars, claimed, tokenVars>>

Positions == Users \X Sides
On(side) == {p \in Positions : p[2] = side}
Unclaimed == Positions \ claimed

TypeOK ==
    /\ clock \in Nat
    /\ provable \subseteq Records
    /\ state \in {"Absent", "Open", "Resolved", "Void"}
    /\ lockTs \in Nat
    /\ resolveDeadlineTs \in Nat
    /\ pool \in [Sides -> 0..MaxU64]
    /\ evidenceTs \in Nat
    /\ disputeUntilTs \in Nat
    /\ winner \in Sides
    /\ amount \in [Positions -> 0..MaxU64]
    /\ claimed \subseteq Positions
    /\ vault \in 0..MaxU64
    /\ wallet \in [Users -> Nat]
    /\ lastDeposit \in Nat \cup {-1}

Init ==
    /\ clock = 0
    /\ provable = {}
    /\ state = "Absent"
    /\ lockTs = 0
    /\ resolveDeadlineTs = 0
    /\ pool = [side \in Sides |-> 0]
    /\ evidenceTs = 0
    /\ disputeUntilTs = 0
    /\ winner = "no"
    /\ amount = [p \in Positions |-> 0]
    /\ claimed = {}
    /\ vault = 0
    /\ wallet = [u \in Users |-> Funds]
    /\ lastDeposit = -1

-----------------------------------------------------------------------------
(***************************************************************************)
(* The environment.                                                        *)
(***************************************************************************)

\* Time passes up to the BOUND, and to the end of a dispute window beyond it.
Tick ==
    /\ clock < Horizon \/ clock < disputeUntilTs
    /\ clock' = clock + 1
    /\ UNCHANGED <<provable, state, termsVars, outcomeVars, stakeVars, claimed, tokenVars>>

\* The oracle posts or re-tips a daily root: a record of the past becomes
\* provable, or the proof of one no longer validates (RootNotAvailable).
PostRoot(e) ==
    /\ e \notin provable
    /\ e.ts <= clock * MsPerSec
    /\ provable' = provable \cup {e}
    /\ UNCHANGED <<clock, state, termsVars, outcomeVars, stakeVars, claimed, tokenVars>>

Retip(e) ==
    /\ e \in provable
    /\ provable' = provable \ {e}
    /\ UNCHANGED <<clock, state, termsVars, outcomeVars, stakeVars, claimed, tokenVars>>

-----------------------------------------------------------------------------
(***************************************************************************)
(* create_market                                                           *)
(***************************************************************************)
CreateMarket(lock, deadline) ==
    /\ state = "Absent"
    /\ lock < deadline
    /\ state' = "Open"
    /\ lockTs' = lock
    /\ resolveDeadlineTs' = deadline
    /\ UNCHANGED <<clock, provable, outcomeVars, stakeVars, claimed, tokenVars>>

(***************************************************************************)
(* deposit.  The account of <<user, side>> is created on the first stake,  *)
(* which is the only one that resets its claimed flag.                     *)
(***************************************************************************)
StakingOpenAtLock == state = "Open" /\ clock <= lockTs
StakingOpen == state = "Open" /\ clock < lockTs

UncheckedAdd(a, b) == TRUE
CheckedAddOk(a, b) == a + b <= MaxU64

ClaimedAfterInit(p) == IF amount[p] = 0 THEN claimed \ {p} ELSE claimed

Credit(side, amt) == [pool EXCEPT ![side] = @ + amt]

Deposit(user, side, amt) ==
    LET p == <<user, side>> IN
    /\ StakingOpen
    /\ amt > 0
    /\ amt <= wallet[user] /\ CheckedAddOk(vault, amt)  \* token::transfer
    /\ p \notin ClaimedAfterInit(p)
    /\ CheckedAddOk(amount[p], amt)
    /\ CheckedAddOk(pool[side], amt)
    /\ wallet' = [wallet EXCEPT ![user] = @ - amt]
    /\ vault' = vault + amt
    /\ claimed' = ClaimedAfterInit(p)
    /\ amount' = [amount EXCEPT ![p] = @ + amt]
    /\ pool' = Credit(side, amt)
    /\ lastDeposit' = clock
    /\ UNCHANGED <<clock, provable, state, termsVars, outcomeVars>>

(***************************************************************************)
(* resolve                                                                 *)
(***************************************************************************)
AnyPeriodOk(period) == TRUE
PeriodOk(period) == period = Terms.period \/ period >= FinalPeriodFloor

StatOk(leaf, key) == leaf.key = key /\ PeriodOk(leaf.period)

AboutThisMarket(e) ==
    /\ e.fixture = Terms.fixture
    /\ StatOk(e.a, Terms.statA)
    /\ IF Terms.statB = NoStat
         THEN e.b = NoStat
         ELSE e.b # NoStat /\ StatOk(e.b, Terms.statB)

MayFirstResolve == state = "Open" /\ clock >= lockTs
MaySupersedeAtClose(e) ==
    state = "Resolved" /\ clock <= disputeUntilTs /\ e.ts > evidenceTs
MaySupersede(e) ==
    /\ state = "Resolved"
    /\ clock < disputeUntilTs
    /\ e.ts > evidenceTs

PostdatesLock(ts) == ts \div MsPerSec >= lockTs

Outcome(e) == IF e.holds # Terms.negation THEN "yes" ELSE "no"

ResolveAccepts(e) ==
    /\ MayFirstResolve \/ MaySupersede(e)
    /\ AboutThisMarket(e)
    /\ PostdatesLock(e.ts)
    /\ e \in provable                                   \* validate_stat CPI

Resolve(e) ==
    /\ ResolveAccepts(e)
    /\ disputeUntilTs' = IF state = "Open" THEN clock + DisputeWindowSecs
                                           ELSE disputeUntilTs
    /\ state' = "Resolved"
    /\ evidenceTs' = e.ts
    /\ winner' = Outcome(e)
    /\ UNCHANGED <<clock, provable, termsVars, stakeVars, claimed, tokenVars>>

(***************************************************************************)
(* void_market                                                             *)
(***************************************************************************)
VoidMarket ==
    /\ state = "Open"
    /\ clock >= resolveDeadlineTs
    /\ state' = "Void"
    /\ UNCHANGED <<clock, provable, termsVars, outcomeVars, stakeVars, claimed, tokenVars>>

(***************************************************************************)
(* claim                                                                   *)
(***************************************************************************)
WinnerPool == pool[winner]
LoserPool == pool[Other(winner)]

\* Stakes go back: the market is void, or nobody backed the winning side.
Refunding == state = "Void" \/ (state = "Resolved" /\ WinnerPool = 0)

ShareRoundedUp(amt) == (amt * LoserPool + WinnerPool - 1) \div WinnerPool
Share(amt) == (amt * LoserPool) \div WinnerPool

PayoutEmptySide(p) ==
    IF state = "Void" THEN amount[p]
    ELSE IF p[2] = winner /\ amount[p] > 0 THEN amount[p] + Share(amount[p])
    ELSE 0
Payout(p) ==
    IF Refunding THEN amount[p]
    ELSE IF p[2] = winner THEN amount[p] + Share(amount[p])
    ELSE 0

ClaimableDuringDispute == state \in {"Resolved", "Void"}
ClaimableIfResolved == state = "Resolved" /\ clock >= disputeUntilTs
Claimable == state = "Void" \/ (state = "Resolved" /\ clock >= disputeUntilTs)

Claim(p) ==
    /\ p \notin claimed
    /\ Claimable
    /\ Payout(p) > 0
    /\ Payout(p) <= MaxU64                              \* checked_add, try_from
    /\ Payout(p) <= vault                               \* token::transfer
    /\ claimed' = claimed \cup {p}
    /\ vault' = vault - Payout(p)
    /\ wallet' = [wallet EXCEPT ![p[1]] = @ + Payout(p)]
    /\ UNCHANGED <<clock, provable, state, termsVars, outcomeVars, stakeVars>>

-----------------------------------------------------------------------------
Next ==
    \/ Tick
    \/ \E e \in Records : PostRoot(e) \/ Retip(e)
    \/ \E lock \in LockTimes, deadline \in Deadlines : CreateMarket(lock, deadline)
    \/ \E user \in Users, side \in Sides, amt \in Amounts : Deposit(user, side, amt)
    \/ \E e \in Records : Resolve(e)
    \/ VoidMarket
    \/ \E p \in Positions : Claim(p)

Spec == Init /\ [][Next]_vars

(***************************************************************************)
(* Time passes, the keeper (or anyone) cranks void_market once it may, and *)
(* the holder of a position claims it.                                     *)
(***************************************************************************)
Fairness ==
    /\ WF_vars(Tick)
    /\ WF_vars(VoidMarket)
    /\ \A p \in Positions : WF_vars(Claim(p))

FairSpec == Spec /\ Fairness

-----------------------------------------------------------------------------
(***************************************************************************)
(* Properties.                                                             *)
(***************************************************************************)

\* Whatever claims were paid before, in whatever order, the vault still covers
\* the payout of every position that has not claimed, and the u64 arithmetic of
\* claim does not overflow on it: no claim that is due can fail for lack of
\* tokens (lib.rs claim).
Solvent ==
    state \in {"Resolved", "Void"} =>
        \A p \in Unclaimed : Payout(p) <= vault

(***************************************************************************)
(* Why the vault never runs dry: the inductive invariant behind Solvent.   *)
(* The pools are the sums of the stakes; nothing leaves the vault before   *)
(* the outcome is final; from then on the vault holds the unclaimed stakes *)
(* when stakes are refunded, and otherwise, per unclaimed winning stake,   *)
(* its proportional part of both pools and what rounding left of the parts *)
(* already paid.                                                           *)
(***************************************************************************)
PoolsAreStakes == \A side \in Sides : pool[side] = Total(amount, On(side))

PaidOnlyWhenFinal == claimed # {} => Claimable

VaultFullUntilPaid == claimed = {} => vault = pool["yes"] + pool["no"]

RefundBacked ==
    (state \in {"Resolved", "Void"} /\ Refunding) => vault = Total(amount, Unclaimed)

WinnersBacked ==
    (state \in {"Resolved", "Void"} /\ ~Refunding) =>
        Total(amount, Unclaimed \cap On(winner)) * (WinnerPool + LoserPool)
            <= vault * WinnerPool

\* Every share paid was rounded down by less than one token.
Backers == {p \in On(winner) : amount[p] > 0}
DustBounded ==
    (state \in {"Resolved", "Void"} /\ ~Refunding) =>
        vault * WinnerPool
            <= Total(amount, Unclaimed \cap On(winner)) * (WinnerPool + LoserPool)
                   + Cardinality(claimed \cap Backers) * (WinnerPool - 1)

StakesBeforeLock ==
    /\ state = "Absent" => lastDeposit = -1
    /\ lastDeposit < lockTs
    /\ state = "Resolved" => PostdatesLock(evidenceTs)

\* What was proved lies in the past, and the outcome is what one proved record
\* of this market says.
ProvedByThePast ==
    /\ \A e \in provable : e.ts <= clock * MsPerSec
    /\ state = "Resolved" =>
          \E e \in Records : /\ AboutThisMarket(e)
                             /\ e.ts <= clock * MsPerSec
                             /\ evidenceTs = e.ts
                             /\ winner = Outcome(e)

\* All of the above together with the types (lib.rs deposit, resolve,
\* void_market and claim each keep it).
IInv ==
    /\ TypeOK
    /\ PoolsAreStakes
    /\ PaidOnlyWhenFinal
    /\ VaultFullUntilPaid
    /\ RefundBacked
    /\ WinnersBacked
    /\ DustBounded
    /\ StakesBeforeLock
    /\ ProvedByThePast

\* When every position that is owed something has claimed, nothing stays in the
\* vault but the rounding of the shares: less than one token per winning
\* position, and nothing at all after a refund.
NothingStranded ==
    (Claimable /\ \A p \in Unclaimed : Payout(p) = 0) =>
        IF Refunding THEN vault = 0
        ELSE vault < Cardinality(Backers)

\* No stake was placed at or after the instant of the record that decides the
\* market: nobody bet knowing the result (deposit's lock against resolve's
\* EvidenceTooEarly, across seconds and milliseconds).
EvidencePostdatesStakes ==
    state = "Resolved" => lastDeposit * MsPerSec < evidenceTs

\* A market on the whole match settles as a record of the final totals says, one
\* that lies in the past: never on how a phase of the match stood, which is as
\* provable (lib.rs FINAL_PERIOD_FLOOR, resolve).
FinalTotals ==
    {e \in Records : \A leaf \in {e.a, e.b} \ {NoStat} :
                        leaf.period = 0 \/ leaf.period >= FinalPeriodFloor}

FullTimeDecides ==
    (state = "Resolved" /\ Terms.period = 0) =>
        \E e \in FinalTotals : /\ e.fixture = Terms.fixture
                               /\ e.ts <= clock * MsPerSec
                               /\ winner = Outcome(e)

\* The recorded winner changes only on strictly newer evidence, inside the
\* dispute window of the first resolution, and never once somebody was paid.
OutcomeMovesForward ==
    [][(state = "Resolved" /\ winner' # winner) =>
         /\ evidenceTs' > evidenceTs
         /\ clock < disputeUntilTs
         /\ claimed = {}]_vars

\* The program keeps the contract with the bettors: MarketContract, with the
\* phases read off the account and the clock.
Phase ==
    CASE state = "Absent" -> "absent"
      [] state = "Open" -> "staking"
      [] state = "Resolved" -> IF clock < disputeUntilTs THEN "provisional" ELSE "final"
      [] state = "Void" -> "void"

Contract == INSTANCE MarketContract
    WITH MaxStake <- MaxU64, phase <- Phase, winner <- winner, stake <- amount,
         pot <- vault, paid <- claimed

KeepsContract == Contract!Spec

\* A market with a stake in it never stays undecided, and every position that
\* is owed something is eventually paid (README: every market either settles by
\* proof or refunds).
EveryStakeIsSettled ==
    \A p \in Positions :
        amount[p] > 0 ~> (Claimable /\ (p \in claimed \/ Payout(p) = 0))
=============================================================================
