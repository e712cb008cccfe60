----------------------------- MODULE PoolProofs -----------------------------
(***************************************************************************)
(* Proofs about Pool, for every set of users, every choice of amounts and  *)
(* times, and every feed of records.                                       *)
(***************************************************************************)
EXTENDS Pool, FiniteSetTheorems, TLAPS

(***************************************************************************)
(* Totals of stakes.                                                       *)
(***************************************************************************)

\* The units held by finitely many positions are finitely many, so their
\* total is a natural number.
LEMMA TotalType ==
    ASSUME NEW P, IsFiniteSet(P), NEW f, \A p \in P : f[p] \in Nat
    PROVE  IsFiniteSet(Units(f, P)) /\ Total(f, P) \in Nat
<1> DEFINE Held(p) == {p} \X (1..f[p])
           S == {Held(p) : p \in P}
<1>1. IsFiniteSet(S)
    <2> DEFINE F == [p \in P |-> Held(p)]
    <2>1. F \in Surjection(P, S)
        BY DEF Surjection
    <2>2. QED BY <2>1, FS_Surjection
<1>2. \A T \in S : IsFiniteSet(T)
    <2>1. SUFFICES ASSUME NEW p \in P PROVE IsFiniteSet(Held(p))
        OBVIOUS
    <2>2. IsFiniteSet(1..f[p])
        BY FS_Interval
    <2>3. IsFiniteSet({p})
        BY FS_Singleton
    <2>4. QED BY <2>2, <2>3, FS_Product
<1>3. IsFiniteSet(UNION S)
    BY <1>1, <1>2, FS_UNION
<1>4. QED BY <1>3, FS_CardinalityType DEF Units, Total

\* One position's total is its stake.
LEMMA TotalSingle ==
    ASSUME NEW p, NEW f, f[p] \in Nat
    PROVE  Total(f, {p}) = f[p]
<1>1. Units(f, {p}) = {p} \X (1..f[p])
    BY DEF Units
<1>2. IsFiniteSet({p}) /\ Cardinality({p}) = 1
    BY FS_Singleton
<1>3. IsFiniteSet(1..f[p]) /\ Cardinality(1..f[p]) = f[p]
    BY FS_Interval
<1> DEFINE I == 1..f[p]
<1> HIDE DEF I
<1>4. Cardinality({p} \X I) = Cardinality({p}) * Cardinality(I)
    <2>1. IsFiniteSet(I)
        BY <1>3 DEF I
    <2>2. QED BY <1>2, <2>1, FS_Product
<1>5. Cardinality(I) = f[p]
    BY <1>3 DEF I
<1>6. Cardinality({p} \X I) = f[p]
    BY <1>2, <1>4, <1>5
<1>7. QED BY <1>1, <1>6 DEF Total, I

\* Totals of disjoint sets of positions add up.
LEMMA TotalSplit ==
    ASSUME NEW P, IsFiniteSet(P), NEW Q, IsFiniteSet(Q), P \cap Q = {},
           NEW f, \A p \in P \cup Q : f[p] \in Nat
    PROVE  Total(f, P \cup Q) = Total(f, P) + Total(f, Q)
<1>1. IsFiniteSet(Units(f, P)) /\ IsFiniteSet(Units(f, Q))
    BY TotalType
<1>2. Units(f, P \cup Q) = Units(f, P) \cup Units(f, Q)
    BY DEF Units
<1>3. Units(f, P) \cap Units(f, Q) = {}
    BY DEF Units
<1>4. Cardinality({}) = 0
    BY FS_EmptySet
<1>5. Cardinality(Units(f, P)) \in Nat /\ Cardinality(Units(f, Q)) \in Nat
    BY <1>1, FS_CardinalityType
<1>6. Cardinality(Units(f, P) \cup Units(f, Q)) =
        Cardinality(Units(f, P)) + Cardinality(Units(f, Q)) - Cardinality({})
    BY <1>1, <1>3, FS_Union
<1>7. /\ Total(f, P \cup Q) = Cardinality(Units(f, P) \cup Units(f, Q))
      /\ Total(f, P) = Cardinality(Units(f, P))
      /\ Total(f, Q) = Cardinality(Units(f, Q))
    BY <1>2 DEF Total
<1>8. QED BY <1>4, <1>5, <1>6, <1>7

\* Taking one position out of a set takes its stake out of the total.
LEMMA TotalRemove ==
    ASSUME NEW P, IsFiniteSet(P), NEW p \in P,
           NEW f, \A q \in P : f[q] \in Nat
    PROVE  /\ Total(f, P) = f[p] + Total(f, P \ {p})
           /\ Total(f, P \ {p}) \in Nat
<1>1. IsFiniteSet({p}) /\ IsFiniteSet(P \ {p})
    BY FS_Singleton, FS_RemoveElement
<1>2. P = {p} \cup (P \ {p}) /\ {p} \cap (P \ {p}) = {}
    OBVIOUS
<1>3. Total(f, {p} \cup (P \ {p})) = Total(f, {p}) + Total(f, P \ {p})
    <2>1. \A q \in {p} \cup (P \ {p}) : f[q] \in Nat
        OBVIOUS
    <2>2. QED BY <1>1, <1>2, <2>1, TotalSplit
<1>4. Total(f, {p}) = f[p]
    BY TotalSingle
<1>5. Total(f, P \ {p}) \in Nat
    BY <1>1, TotalType
<1>6. QED BY <1>2, <1>3, <1>4, <1>5

\* A total depends on the stakes of its own positions alone.
LEMMA TotalSame ==
    ASSUME NEW P, NEW f, NEW g, \A p \in P : f[p] = g[p]
    PROVE  Total(f, P) = Total(g, P)
<1>1. Units(f, P) = Units(g, P)
    BY DEF Units
<1>2. QED BY <1>1 DEF Total

\* When nobody staked, the total is zero.
LEMMA TotalZero ==
    ASSUME NEW P, NEW f, \A p \in P : f[p] = 0
    PROVE  Total(f, P) = 0
<1>1. Units(f, P) = {}
    BY DEF Units
<1>2. QED BY <1>1, FS_EmptySet DEF Total

\* A deposit on a position of the set raises the total by its amount.
LEMMA TotalRaise ==
    ASSUME NEW P, IsFiniteSet(P), NEW p \in P, NEW amt \in Nat,
           NEW f, \A q \in P : f[q] \in Nat,
           NEW g, \A q \in P \ {p} : g[q] = f[q], g[p] = f[p] + amt
    PROVE  Total(g, P) = Total(f, P) + amt
<1>1. \A q \in P : g[q] \in Nat
    OBVIOUS
<1>2. Total(f, P \ {p}) = Total(g, P \ {p})
    BY TotalSame
<1>3. Total(f, P) = f[p] + Total(f, P \ {p}) /\ Total(f, P \ {p}) \in Nat
    BY TotalRemove
<1>4. Total(g, P) = g[p] + Total(g, P \ {p})
    BY <1>1, TotalRemove
<1>5. QED BY <1>2, <1>3, <1>4

(***************************************************************************)
(* Arithmetic of the shares.                                               *)
(***************************************************************************)

\* Integer division rounds down.
LEMMA FloorDivision ==
    ASSUME NEW x \in Nat, NEW w \in Nat \ {0}
    PROVE  x \div w \in Nat /\ (x \div w) * w <= x
OBVIOUS

\* ... by less than one.
LEMMA FloorIsClose ==
    ASSUME NEW x \in Nat, NEW w \in Nat \ {0}
    PROVE  x < (x \div w + 1) * w
OBVIOUS

\* If the vault v covers, in proportion (w + l) / w, the unclaimed winning
\* stakes a + u, then it covers the payout a + s of one of them, where s is at
\* most a's part of the losing pool, and what is left covers the rest.
LEMMA PayoutKeepsBacking ==
    ASSUME NEW v \in Nat, NEW w \in Nat \ {0}, NEW l \in Nat,
           NEW a \in Nat, NEW u \in Nat, NEW s \in Nat,
           (a + u) * (w + l) <= v * w,
           s * w <= a * l
    PROVE  a + s <= v /\ u * (w + l) <= (v - (a + s)) * w
<1>1. (a + u) * (w + l) = a * w + a * l + u * (w + l)
    OBVIOUS
<1>2. (v - (a + s)) * w = v * w - a * w - s * w
    OBVIOUS
<1>3. a * l \in Nat /\ a * w \in Nat /\ s * w \in Nat /\ v * w \in Nat /\ u * (w + l) \in Nat
    OBVIOUS
<1>4. u * (w + l) <= (v - (a + s)) * w
    <2>1. a * w + a * l + u * (w + l) <= v * w
        BY <1>1
    <2>2. u * (w + l) <= v * w - a * w - s * w
        BY <2>1, <1>3
    <2>3. QED BY <2>2, <1>2
<1>5. a + s <= v
    <2>1. SUFFICES ASSUME v - (a + s) <= -1 PROVE FALSE
        OBVIOUS
    <2>2. (v - (a + s)) * w <= (-1) * w
        BY <2>1
    <2>3. QED BY <2>2, <1>3, <1>4
<1>6. QED BY <1>4, <1>5

\* If the vault v holds no more than the unclaimed winners' parts and the
\* rounding w - 1 of each of n shares paid, then after the share s of the
\* stake a, rounded down, it holds no more than that for n + 1 shares.
LEMMA PayoutKeepsDustBound ==
    ASSUME NEW v \in Nat, NEW w \in Nat \ {0}, NEW l \in Nat, NEW n \in Nat,
           NEW a \in Nat, NEW u \in Nat, NEW s \in Nat,
           v * w <= (a + u) * (w + l) + n * (w - 1),
           a * l < (s + 1) * w
    PROVE  (v - (a + s)) * w <= u * (w + l) + (n + 1) * (w - 1)
<1>1. (a + u) * (w + l) = a * w + a * l + u * (w + l)
    OBVIOUS
<1>2. (v - (a + s)) * w = v * w - a * w - s * w
    OBVIOUS
<1>3. (s + 1) * w = s * w + w /\ (n + 1) * (w - 1) = n * (w - 1) + w - 1
    OBVIOUS
<1> DEFINE vw == v * w
           aw == a * w
           al == a * l
           sw == s * w
           rest == u * (w + l)
           dust == n * (w - 1)
<1>4. vw \in Nat /\ aw \in Nat /\ al \in Nat /\ sw \in Nat /\ rest \in Nat /\ dust \in Nat
    OBVIOUS
<1>5. vw <= aw + al + rest + dust /\ al < sw + w
    BY <1>1, <1>3
<1> HIDE DEF vw, aw, al, sw, rest, dust
<1>6. vw - aw - sw <= rest + dust + w - 1
    BY <1>4, <1>5
<1>7. QED BY <1>2, <1>3, <1>6 DEF vw, aw, sw, rest, dust

(***************************************************************************)
(* Positions.                                                              *)
(***************************************************************************)

\* Finitely many users hold finitely many positions.
LEMMA PositionsFinite ==
    /\ IsFiniteSet(Positions)
    /\ \A side \in Sides : IsFiniteSet(On(side))
<1>1. IsFiniteSet(Sides)
    <2>1. IsFiniteSet({"yes"}) /\ IsFiniteSet({"no"})
        BY FS_Singleton
    <2>2. Sides = {"yes"} \cup {"no"}
        BY DEF Sides
    <2>3. IsFiniteSet({"yes"} \cup {"no"})
        BY <2>1, FS_Union
    <2>4. QED BY <2>2, <2>3
<1>2. IsFiniteSet(Positions)
    BY <1>1, UsersAssumption, FS_Product DEF Positions
<1>3. \A side \in Sides : On(side) \subseteq Positions
    BY DEF On
<1>4. QED BY <1>2, <1>3, FS_Subset

\* All stakes are the stakes on YES and the stakes on NO.
LEMMA AllStakes ==
    ASSUME NEW f, \A p \in Positions : f[p] \in Nat
    PROVE  /\ Total(f, Positions) = Total(f, On("yes")) + Total(f, On("no"))
           /\ Total(f, On("yes")) \in Nat
           /\ Total(f, On("no")) \in Nat
<1>1. /\ Positions = On("yes") \cup On("no")
      /\ On("yes") \cap On("no") = {}
    BY DEF Positions, On, Sides
<1>2. Total(f, On("yes") \cup On("no")) = Total(f, On("yes")) + Total(f, On("no"))
    <2>1. IsFiniteSet(On("yes")) /\ IsFiniteSet(On("no"))
        BY PositionsFinite DEF Sides
    <2>2. \A p \in On("yes") \cup On("no") : f[p] \in Nat
        BY <1>1
    <2>3. QED BY <1>1, <2>1, <2>2, TotalSplit
<1>3. "yes" \in Sides /\ "no" \in Sides
    BY DEF Sides
<1>4. QED BY <1>1, <1>2, <1>3, PositionsFinite, TotalType

(***************************************************************************)
(* The inductive invariant holds initially.                                *)
(***************************************************************************)
LEMMA InitIInv == Init => IInv
<1> SUFFICES ASSUME Init PROVE IInv
    OBVIOUS
<1>1. TypeOK
    <2>1. 0 \in 0..MaxU64
        BY AmountsAssumption
    <2>2. /\ pool \in [Sides -> 0..MaxU64]
          /\ amount \in [Positions -> 0..MaxU64]
          /\ wallet \in [Users -> Nat]
        BY <2>1, AmountsAssumption DEF Init
    <2>3. QED BY <2>1, <2>2 DEF Init, TypeOK, Sides
<1>2. PoolsAreStakes
    <2>1. \A side \in Sides : \A p \in On(side) : amount[p] = 0
        BY DEF Init, On
    <2>2. \A side \in Sides : Total(amount, On(side)) = 0
        BY <2>1, TotalZero
    <2>3. QED BY <2>2 DEF Init, PoolsAreStakes
<1>3. PaidOnlyWhenFinal /\ VaultFullUntilPaid /\ StakesBeforeLock
    BY DEF Init, PaidOnlyWhenFinal, VaultFullUntilPaid, StakesBeforeLock, Sides
<1>4. RefundBacked /\ WinnersBacked /\ DustBounded
    BY DEF Init, RefundBacked, WinnersBacked, DustBounded
<1>5. ProvedByThePast
    BY DEF Init, ProvedByThePast
<1>6. QED BY <1>1, <1>2, <1>3, <1>4, <1>5 DEF IInv

(***************************************************************************)
(* Each action keeps it.                                                   *)
(***************************************************************************)

\* Time passing, the oracle and stuttering touch none of the market.
LEMMA EnvironmentKeepsIInv ==
    ASSUME IInv,
           UNCHANGED <<state, termsVars, outcomeVars, stakeVars, claimed, tokenVars>>,
           clock' \in Nat, clock <= clock', provable' \subseteq Records,
           \A e \in provable' : e.ts <= clock' * MsPerSec
    PROVE  IInv'
<1> USE DEF termsVars, outcomeVars, stakeVars, tokenVars
<1>1. TypeOK'
    BY DEF IInv, TypeOK
<1>2. PoolsAreStakes' /\ VaultFullUntilPaid'
    BY DEF IInv, PoolsAreStakes, VaultFullUntilPaid, On
<1>3. PaidOnlyWhenFinal'
    BY DEF IInv, TypeOK, PaidOnlyWhenFinal, Claimable
<1>4. RefundBacked' /\ WinnersBacked' /\ DustBounded'
    BY DEF IInv, RefundBacked, WinnersBacked, DustBounded, Refunding, WinnerPool, LoserPool,
           Unclaimed, Backers, On
<1>5. StakesBeforeLock'
    BY DEF IInv, StakesBeforeLock, PostdatesLock
<1>6. ProvedByThePast'
    <2>1. \A e \in Records : e.ts <= clock * MsPerSec => e.ts <= clock' * MsPerSec
        BY RecordsAssumption DEF IInv, TypeOK, MsPerSec
    <2>2. QED BY <2>1 DEF IInv, ProvedByThePast
<1>7. QED BY <1>1, <1>2, <1>3, <1>4, <1>5, <1>6 DEF IInv

\* create_market.
LEMMA CreateMarketKeepsIInv ==
    ASSUME IInv, NEW lock \in LockTimes, NEW deadline \in Deadlines,
           CreateMarket(lock, deadline)
    PROVE  IInv'
<1> USE DEF CreateMarket, outcomeVars, stakeVars, tokenVars
<1>1. TypeOK'
    BY TimesAssumption DEF IInv, TypeOK
<1>2. PoolsAreStakes' /\ VaultFullUntilPaid'
    BY DEF IInv, PoolsAreStakes, VaultFullUntilPaid, On
<1>3. PaidOnlyWhenFinal'
    BY DEF IInv, PaidOnlyWhenFinal, Claimable
<1>4. RefundBacked' /\ WinnersBacked' /\ DustBounded'
    BY DEF RefundBacked, WinnersBacked, DustBounded
<1>5. StakesBeforeLock'
    BY TimesAssumption DEF IInv, StakesBeforeLock
<1>6. ProvedByThePast'
    BY DEF IInv, ProvedByThePast
<1>7. QED BY <1>1, <1>2, <1>3, <1>4, <1>5, <1>6 DEF IInv

\* deposit: one position, its pool and the vault grow by the same amount.
LEMMA DepositKeepsIInv ==
    ASSUME IInv, NEW user \in Users, NEW side \in Sides, NEW amt \in Amounts,
           Deposit(user, side, amt)
    PROVE  IInv'
<1> DEFINE p == <<user, side>>
<1>1. /\ StakingOpen /\ amt > 0 /\ amt \in Nat
      /\ p \in Positions /\ p \in On(side)
      /\ amt <= wallet[user]
      /\ CheckedAddOk(vault, amt) /\ CheckedAddOk(amount[p], amt)
      /\ CheckedAddOk(pool[side], amt)
      /\ wallet' = [wallet EXCEPT ![user] = @ - amt]
      /\ vault' = vault + amt
      /\ claimed' = ClaimedAfterInit(p)
      /\ amount' = [amount EXCEPT ![p] = @ + amt]
      /\ pool' = [pool EXCEPT ![side] = @ + amt]
      /\ lastDeposit' = clock
      /\ UNCHANGED <<clock, provable, state, termsVars, outcomeVars>>
    BY AmountsAssumption DEF Deposit, Credit, Positions, On
<1>2. claimed = {} /\ claimed' = {}
    BY <1>1 DEF IInv, PaidOnlyWhenFinal, Claimable, StakingOpen, ClaimedAfterInit
<1> HIDE DEF p
<1>3. TypeOK'
    <2>1. /\ wallet' \in [Users -> Nat]
          /\ vault' \in 0..MaxU64
          /\ amount' \in [Positions -> 0..MaxU64]
          /\ pool' \in [Sides -> 0..MaxU64]
        BY <1>1, AmountsAssumption DEF IInv, TypeOK, CheckedAddOk
    <2>2. QED BY <1>1, <1>2, <2>1 DEF IInv, TypeOK, termsVars, outcomeVars
<1>4. PoolsAreStakes'
    <2>1. SUFFICES ASSUME NEW s \in Sides PROVE pool'[s] = Total(amount', On(s))
        BY DEF PoolsAreStakes, On
    <2>2. /\ IsFiniteSet(On(s))
          /\ \A q \in On(s) : amount[q] \in Nat
          /\ pool[s] = Total(amount, On(s))
        BY PositionsFinite DEF IInv, TypeOK, PoolsAreStakes, On
    <2>3. CASE s = side
        <3>1. \A q \in On(s) \ {p} : amount'[q] = amount[q]
            BY <1>1 DEF IInv, TypeOK, On
        <3>2. amount'[p] = amount[p] + amt
            BY <1>1 DEF IInv, TypeOK
        <3>3. Total(amount', On(s)) = Total(amount, On(s)) + amt
            <4>1. p \in On(s)
                BY <1>1, <2>3
            <4>2. amt \in Nat
                BY <1>1
            <4>3. QED BY <2>2, <3>1, <3>2, <4>1, <4>2, TotalRaise
        <3>4. pool'[s] = pool[s] + amt
            BY <1>1, <2>3 DEF IInv, TypeOK
        <3>5. QED BY <2>2, <3>3, <3>4
    <2>4. CASE s # side
        <3>1. \A q \in On(s) : amount'[q] = amount[q]
            BY <1>1, <2>4 DEF IInv, TypeOK, On, p
        <3>2. Total(amount', On(s)) = Total(amount, On(s))
            BY <3>1, TotalSame
        <3>3. pool'[s] = pool[s]
            BY <1>1, <2>4 DEF IInv, TypeOK
        <3>4. QED BY <2>2, <3>2, <3>3
    <2>5. QED BY <2>3, <2>4
<1>5. PaidOnlyWhenFinal'
    BY <1>2 DEF PaidOnlyWhenFinal
<1>6. VaultFullUntilPaid'
    <2>1. vault = pool["yes"] + pool["no"]
        BY <1>2 DEF IInv, VaultFullUntilPaid
    <2>2. pool'["yes"] + pool'["no"] = pool["yes"] + pool["no"] + amt
        BY <1>1 DEF IInv, TypeOK, Sides
    <2>3. QED BY <1>1, <2>1, <2>2 DEF VaultFullUntilPaid
<1>7. RefundBacked' /\ WinnersBacked' /\ DustBounded'
    BY <1>1 DEF StakingOpen, RefundBacked, WinnersBacked, DustBounded
<1>8. StakesBeforeLock'
    BY <1>1 DEF StakingOpen, StakesBeforeLock, termsVars
<1>9. ProvedByThePast'
    BY <1>1 DEF StakingOpen, IInv, ProvedByThePast
<1>10. QED BY <1>3, <1>4, <1>5, <1>6, <1>7, <1>8, <1>9 DEF IInv

\* Until the first payment, all stakes lie in the vault: so refunds, and the
\* winners' parts of both pools, are covered at the instant of the decision.
LEMMA DecisionIsBacked ==
    ASSUME TypeOK, PoolsAreStakes, claimed = {}, VaultFullUntilPaid,
           NEW side \in Sides
    PROVE  /\ vault = Total(amount, Unclaimed)
           /\ Total(amount, Unclaimed \cap On(side)) * (pool[side] + pool[Other(side)])
                  = vault * pool[side]
           /\ vault * pool[side] \in Nat
<1>1. \A p \in Positions : amount[p] \in Nat
    BY AmountsAssumption DEF TypeOK
<1>2. Unclaimed = Positions /\ Unclaimed \cap On(side) = On(side)
    BY DEF Unclaimed, On
<1>3. vault = pool["yes"] + pool["no"]
    BY DEF VaultFullUntilPaid
<1>4. vault = Total(amount, Unclaimed)
    BY <1>1, <1>2, <1>3, AllStakes DEF PoolsAreStakes, Sides
<1>5. vault = pool[side] + pool[Other(side)] /\ pool[side] \in Nat /\ vault \in Nat
    BY <1>3, AmountsAssumption DEF TypeOK, Sides, Other
<1>6. Total(amount, Unclaimed \cap On(side)) = pool[side]
    BY <1>2 DEF PoolsAreStakes
<1>7. pool[side] * vault = vault * pool[side] /\ vault * pool[side] \in Nat
    BY <1>5
<1>8. QED BY <1>4, <1>5, <1>6, <1>7

\* resolve, first or superseding: nobody has been paid, so the vault is full.
LEMMA ResolveKeepsIInv ==
    ASSUME IInv, NEW e \in Records, Resolve(e)
    PROVE  IInv'
<1> USE DEF termsVars, stakeVars, tokenVars, ResolveAccepts
<1>1. claimed = {}
    BY DEF IInv, TypeOK, PaidOnlyWhenFinal, Claimable, Resolve, MayFirstResolve, MaySupersede
<1>2. TypeOK'
    BY RecordsAssumption, TimesAssumption DEF IInv, TypeOK, Resolve, Outcome, Sides
<1>3. PoolsAreStakes' /\ VaultFullUntilPaid'
    BY DEF IInv, PoolsAreStakes, VaultFullUntilPaid, On, Resolve
<1>4. PaidOnlyWhenFinal'
    BY <1>1 DEF PaidOnlyWhenFinal, Resolve
<1>5. RefundBacked' /\ WinnersBacked' /\ DustBounded'
    <2>1. winner' \in Sides
        BY <1>2 DEF TypeOK
    <2>2. /\ vault = Total(amount, Unclaimed)
          /\ Total(amount, Unclaimed \cap On(winner')) * (pool[winner'] + pool[Other(winner')])
                  = vault * pool[winner']
          /\ vault * pool[winner'] \in Nat
        BY <1>1, <2>1, DecisionIsBacked DEF IInv
    <2>3. UNCHANGED <<vault, amount, claimed, pool>>
        BY DEF Resolve
    <2>4. Unclaimed' = Unclaimed /\ On(winner)' = On(winner')
        BY <2>3 DEF Unclaimed, On
    <2>5. RefundBacked'
        BY <2>2, <2>3, <2>4 DEF RefundBacked
    <2>6. WinnersBacked'
        BY <2>2, <2>3, <2>4 DEF WinnersBacked, WinnerPool, LoserPool
    <2>7. DustBounded'
        <3>1. (claimed \cap Backers)' = {}
            BY <1>1, <2>3
        <3>2. pool[winner'] \in Nat
            BY <2>1, AmountsAssumption DEF IInv, TypeOK
        <3>3. Cardinality(claimed \cap Backers)' = 0
            BY <3>1, FS_EmptySet
        <3>4. Cardinality(claimed \cap Backers)' * (pool[winner'] - 1) = 0
            BY <3>2, <3>3
        <3>5. QED BY <2>2, <2>3, <2>4, <3>4 DEF DustBounded, WinnerPool, LoserPool
    <2>8. QED BY <2>5, <2>6, <2>7
<1>6. StakesBeforeLock'
    BY DEF IInv, StakesBeforeLock, PostdatesLock, Resolve
<1>7. ProvedByThePast'
    BY DEF IInv, ProvedByThePast, Resolve
<1>8. QED BY <1>2, <1>3, <1>4, <1>5, <1>6, <1>7 DEF IInv

\* void_market: from Open, so nobody has been paid.
LEMMA VoidMarketKeepsIInv ==
    ASSUME IInv, VoidMarket
    PROVE  IInv'
<1> USE DEF termsVars, outcomeVars, stakeVars, tokenVars
<1>1. claimed = {}
    BY DEF IInv, PaidOnlyWhenFinal, Claimable, VoidMarket
<1>2. TypeOK'
    BY DEF IInv, TypeOK, VoidMarket
<1>3. PoolsAreStakes' /\ VaultFullUntilPaid'
    BY DEF IInv, PoolsAreStakes, VaultFullUntilPaid, On, VoidMarket
<1>4. PaidOnlyWhenFinal'
    BY <1>1 DEF PaidOnlyWhenFinal, VoidMarket
<1>5. RefundBacked'
    <2>1. vault = Total(amount, Unclaimed)
        BY <1>1, DecisionIsBacked DEF IInv, TypeOK
    <2>2. QED BY <2>1 DEF VoidMarket, RefundBacked, Unclaimed
<1>6. WinnersBacked' /\ DustBounded'
    BY DEF VoidMarket, WinnersBacked, DustBounded, Refunding
<1>7. StakesBeforeLock'
    BY DEF IInv, StakesBeforeLock, VoidMarket
<1>8. ProvedByThePast'
    BY DEF IInv, ProvedByThePast, VoidMarket
<1>9. QED BY <1>2, <1>3, <1>4, <1>5, <1>6, <1>7, <1>8 DEF IInv

\* When stakes are refunded, the unclaimed stake of p is part of the vault and
\* leaves the other unclaimed stakes in it.
LEMMA RefundIsCovered ==
    ASSUME IInv, state \in {"Resolved", "Void"}, Refunding, NEW p \in Unclaimed
    PROVE  /\ Payout(p) \in Nat
           /\ Payout(p) <= vault
           /\ vault - Payout(p) = Total(amount, Unclaimed \ {p})
<1>1. \A q \in Unclaimed : amount[q] \in Nat
    BY AmountsAssumption DEF IInv, TypeOK, Unclaimed
<1>2. IsFiniteSet(Unclaimed)
    BY PositionsFinite, FS_Subset DEF Unclaimed
<1>3. /\ Total(amount, Unclaimed) = amount[p] + Total(amount, Unclaimed \ {p})
      /\ Total(amount, Unclaimed \ {p}) \in Nat
    BY <1>1, <1>2, TotalRemove
<1>4. vault = Total(amount, Unclaimed)
    BY DEF IInv, RefundBacked
<1>5. Payout(p) = amount[p] /\ amount[p] \in Nat
    BY <1>1 DEF Payout
<1>6. QED BY <1>3, <1>4, <1>5

\* The payout of an unclaimed winning position is in the vault, and paying it
\* keeps the other winners' parts covered and leaves less than a token of it.
LEMMA ShareIsCovered ==
    ASSUME IInv, state \in {"Resolved", "Void"}, ~Refunding,
           NEW p \in Unclaimed, p \in On(winner)
    PROVE  /\ Payout(p) \in Nat
           /\ Payout(p) <= vault
           /\ Total(amount, (Unclaimed \ {p}) \cap On(winner)) * (WinnerPool + LoserPool)
                  <= (vault - Payout(p)) * WinnerPool
           /\ \A n \in Nat :
                  vault * WinnerPool
                      <= Total(amount, Unclaimed \cap On(winner)) * (WinnerPool + LoserPool)
                             + n * (WinnerPool - 1)
                  => (vault - Payout(p)) * WinnerPool
                      <= Total(amount, (Unclaimed \ {p}) \cap On(winner)) * (WinnerPool + LoserPool)
                             + (n + 1) * (WinnerPool - 1)
<1> DEFINE a == amount[p]
           others == (Unclaimed \ {p}) \cap On(winner)
           u == Total(amount, others)
           s == Share(a)
<1>1. /\ a \in Nat /\ vault \in Nat
      /\ WinnerPool \in Nat \ {0} /\ LoserPool \in Nat
    <2>1. a \in Nat /\ vault \in Nat /\ WinnerPool \in Nat /\ LoserPool \in Nat
        BY AmountsAssumption
           DEF IInv, TypeOK, Unclaimed, WinnerPool, LoserPool, Other, Sides
    <2>2. WinnerPool # 0
        BY DEF Refunding
    <2>3. QED BY <2>1, <2>2
<1>2. Total(amount, Unclaimed \cap On(winner)) = a + u /\ u \in Nat
    <2>1. winner \in Sides
        BY DEF IInv, TypeOK
    <2>2. IsFiniteSet(Unclaimed \cap On(winner)) /\ p \in Unclaimed \cap On(winner)
        BY <2>1, PositionsFinite, FS_Subset
    <2>3. \A q \in Unclaimed \cap On(winner) : amount[q] \in Nat
        BY AmountsAssumption DEF IInv, TypeOK, Unclaimed
    <2>4. others = (Unclaimed \cap On(winner)) \ {p}
        OBVIOUS
    <2>5. QED BY <2>2, <2>3, <2>4, TotalRemove
<1>3. (a + u) * (WinnerPool + LoserPool) <= vault * WinnerPool
    BY <1>2 DEF IInv, WinnersBacked
<1>4. s \in Nat /\ s * WinnerPool <= a * LoserPool /\ a * LoserPool < (s + 1) * WinnerPool
    <2>1. a * LoserPool \in Nat
        BY <1>1
    <2>2. QED BY <1>1, <2>1, FloorDivision, FloorIsClose DEF Share
<1>5. Payout(p) = a + s
    BY DEF Payout, On
<1> HIDE DEF a, u, s
<1>6. a + s <= vault /\ u * (WinnerPool + LoserPool) <= (vault - (a + s)) * WinnerPool
    BY <1>1, <1>2, <1>3, <1>4, PayoutKeepsBacking
<1>7. ASSUME NEW n \in Nat,
             vault * WinnerPool <= (a + u) * (WinnerPool + LoserPool) + n * (WinnerPool - 1)
      PROVE  (vault - (a + s)) * WinnerPool
                 <= u * (WinnerPool + LoserPool) + (n + 1) * (WinnerPool - 1)
    BY <1>1, <1>2, <1>4, <1>7, PayoutKeepsDustBound
<1>8. ASSUME NEW n \in Nat,
             vault * WinnerPool
                 <= Total(amount, Unclaimed \cap On(winner)) * (WinnerPool + LoserPool)
                        + n * (WinnerPool - 1)
      PROVE  (vault - Payout(p)) * WinnerPool
                 <= Total(amount, others) * (WinnerPool + LoserPool) + (n + 1) * (WinnerPool - 1)
    BY <1>2, <1>5, <1>7, <1>8 DEF u
<1>9. Total(amount, others) * (WinnerPool + LoserPool) <= (vault - Payout(p)) * WinnerPool
    BY <1>5, <1>6 DEF u
<1>10. Payout(p) \in Nat /\ Payout(p) <= vault
    BY <1>1, <1>4, <1>5, <1>6
<1>11. QED BY <1>8, <1>9, <1>10

\* claim.
LEMMA ClaimKeepsIInv ==
    ASSUME IInv, NEW p \in Positions, Claim(p)
    PROVE  IInv'
<1> USE DEF termsVars, outcomeVars, stakeVars, tokenVars
<1>1. /\ p \in Unclaimed
      /\ Claimable
      /\ state \in {"Resolved", "Void"}
      /\ claimed' = claimed \cup {p}
      /\ vault' = vault - Payout(p)
      /\ Unclaimed' = Unclaimed \ {p}
      /\ UNCHANGED <<clock, provable, state, termsVars, outcomeVars, stakeVars>>
    BY DEF Claim, Unclaimed, Claimable
<1>2. Payout(p) \in Nat /\ Payout(p) <= vault
    <2>1. CASE Refunding
        BY <1>1, <2>1, RefundIsCovered
    <2>2. CASE ~Refunding
        BY <1>1, <2>2, ShareIsCovered DEF Claim, Payout, On
    <2>3. QED BY <2>1, <2>2
<1>3. TypeOK'
    <2>1. vault' \in 0..MaxU64
        BY <1>1, <1>2, AmountsAssumption DEF IInv, TypeOK
    <2>2. wallet' \in [Users -> Nat]
        BY <1>2 DEF IInv, TypeOK, Claim, Positions
    <2>3. QED BY <1>1, <2>1, <2>2 DEF IInv, TypeOK
<1>4. PoolsAreStakes' /\ VaultFullUntilPaid'
    BY <1>1 DEF IInv, PoolsAreStakes, VaultFullUntilPaid, On
<1>5. PaidOnlyWhenFinal'
    BY <1>1 DEF PaidOnlyWhenFinal, Claimable
<1>6. UNCHANGED <<Refunding, WinnerPool, LoserPool, On(winner), amount, state>>
    BY <1>1 DEF Refunding, WinnerPool, LoserPool, On
<1>7. RefundBacked'
    BY <1>1, <1>6, RefundIsCovered DEF RefundBacked
<1>8. WinnersBacked'
    <2>1. SUFFICES ASSUME ~Refunding
                   PROVE  Total(amount, (Unclaimed \ {p}) \cap On(winner)) * (WinnerPool + LoserPool)
                              <= vault' * WinnerPool
        BY <1>1, <1>6 DEF WinnersBacked
    <2>2. p \in On(winner)
        BY <1>1, <2>1 DEF Claim, Payout, On
    <2>3. QED BY <1>1, <2>1, <2>2, ShareIsCovered
<1>9. DustBounded'
    <2>1. SUFFICES ASSUME state \in {"Resolved", "Void"}, ~Refunding
                   PROVE  vault' * WinnerPool
                              <= Total(amount, (Unclaimed \ {p}) \cap On(winner))
                                     * (WinnerPool + LoserPool)
                                 + Cardinality(claimed' \cap Backers) * (WinnerPool - 1)
        BY <1>1, <1>6 DEF DustBounded, Backers
    <2>2. p \in On(winner)
        BY <1>1, <2>1 DEF Claim, Payout, On
    <2>3. amount[p] \in Nat /\ pool[winner] \in Nat /\ pool[Other(winner)] \in Nat
        BY AmountsAssumption DEF IInv, TypeOK, Other, Sides
    <2>4. amount[p] > 0
        <3>1. SUFFICES ASSUME amount[p] = 0 PROVE Payout(p) = 0
            BY <2>3 DEF Claim
        <3>2. WinnerPool \in Nat \ {0} /\ LoserPool \in Nat
            BY <2>1, <2>3 DEF Refunding, WinnerPool, LoserPool
        <3>3. (0 * LoserPool) \div WinnerPool = 0
            BY <3>2
        <3>4. QED BY <2>1, <3>1, <3>3 DEF Payout, Share
    <2>5. Cardinality(claimed' \cap Backers) = Cardinality(claimed \cap Backers) + 1
        <3>1. claimed' \cap Backers = (claimed \cap Backers) \cup {p}
            BY <1>1, <2>2, <2>4 DEF Backers
        <3>2. IsFiniteSet(claimed \cap Backers)
            BY PositionsFinite, FS_Subset DEF IInv, TypeOK
        <3>3. QED BY <1>1, <3>1, <3>2, FS_AddElement DEF Unclaimed
    <2>6. Cardinality(claimed \cap Backers) \in Nat
        <3>1. IsFiniteSet(claimed \cap Backers)
            BY PositionsFinite, FS_Subset DEF IInv, TypeOK
        <3>2. QED BY <3>1, FS_CardinalityType
    <2>7. QED BY <1>1, <2>1, <2>2, <2>5, <2>6, ShareIsCovered DEF IInv, DustBounded
<1>10. StakesBeforeLock'
    BY <1>1 DEF IInv, StakesBeforeLock, PostdatesLock
<1>11. ProvedByThePast'
    BY <1>1 DEF IInv, ProvedByThePast
<1>12. QED BY <1>3, <1>4, <1>5, <1>7, <1>8, <1>9, <1>10, <1>11 DEF IInv

(***************************************************************************)
(* The theorems.                                                           *)
(***************************************************************************)

\* No step of the program or of its environment breaks the invariant.
LEMMA NextKeepsIInv == IInv /\ [Next]_vars => IInv'
<1> SUFFICES ASSUME IInv, [Next]_vars PROVE IInv'
    OBVIOUS
<1> USE DEF termsVars, outcomeVars, stakeVars, tokenVars
<1>1. CASE Tick
    <2>1. \A e \in provable' : e.ts <= clock' * MsPerSec
        BY <1>1, RecordsAssumption DEF Tick, IInv, TypeOK, ProvedByThePast, MsPerSec
    <2>2. QED BY <1>1, <2>1, EnvironmentKeepsIInv DEF Tick, IInv, TypeOK
<1>2. ASSUME NEW e \in Records, PostRoot(e) \/ Retip(e) PROVE IInv'
    BY <1>2, EnvironmentKeepsIInv DEF PostRoot, Retip, IInv, TypeOK, ProvedByThePast
<1>3. ASSUME NEW lock \in LockTimes, NEW deadline \in Deadlines, CreateMarket(lock, deadline)
      PROVE  IInv'
    BY <1>3, CreateMarketKeepsIInv
<1>4. ASSUME NEW user \in Users, NEW side \in Sides, NEW amt \in Amounts,
             Deposit(user, side, amt)
      PROVE  IInv'
    BY <1>4, DepositKeepsIInv
<1>5. ASSUME NEW e \in Records, Resolve(e) PROVE IInv'
    BY <1>5, ResolveKeepsIInv
<1>6. CASE VoidMarket
    BY <1>6, VoidMarketKeepsIInv
<1>7. ASSUME NEW p \in Positions, Claim(p) PROVE IInv'
    BY <1>7, ClaimKeepsIInv
<1>8. CASE UNCHANGED vars
    BY <1>8, EnvironmentKeepsIInv DEF vars, IInv, TypeOK, ProvedByThePast
<1>9. QED BY <1>1, <1>2, <1>3, <1>4, <1>5, <1>6, <1>7, <1>8 DEF Next

\* The invariant holds in every reachable state.
THEOREM Invariance == Spec => []IInv
<1>1. IInv /\ [Next]_vars => IInv'
    BY NextKeepsIInv
<1>2. QED BY InitIInv, <1>1, PTL DEF Spec

\* Every variable keeps its type; in particular pools, positions and vault
\* never leave the range of a u64.
THEOREM TypeCorrect == Spec => []TypeOK
<1>1. IInv => TypeOK
    BY DEF IInv
<1>2. QED BY Invariance, <1>1, PTL

\* Whatever was claimed before, in whatever order, every claim that is due can
\* be paid from the vault.
THEOREM Solvency == Spec => []Solvent
<1>1. IInv => Solvent
    <2> SUFFICES ASSUME IInv, state \in {"Resolved", "Void"}, NEW p \in Unclaimed
                 PROVE  Payout(p) <= vault
        BY DEF Solvent
    <2>1. CASE Refunding
        BY <2>1, RefundIsCovered
    <2>2. CASE ~Refunding /\ p \in On(winner)
        BY <2>2, ShareIsCovered
    <2>3. CASE ~Refunding /\ p \notin On(winner)
        <3>1. Payout(p) = 0
            BY <2>3 DEF Payout, On, Unclaimed
        <3>2. 0 <= vault
            BY AmountsAssumption DEF IInv, TypeOK
        <3>3. QED BY <3>1, <3>2
    <2>4. QED BY <2>1, <2>2, <2>3
<1>2. QED BY Invariance, <1>1, PTL

\* Once the outcome is final, a position without a payout has no stake, unless
\* it lost.
LEMMA StakesAreOwed ==
    ASSUME IInv, Claimable, NEW p \in Positions,
           Refunding \/ p \in On(winner), Payout(p) = 0
    PROVE  amount[p] = 0
<1>1. amount[p] \in Nat /\ WinnerPool \in Nat /\ LoserPool \in Nat
    BY AmountsAssumption DEF IInv, TypeOK, WinnerPool, LoserPool, Other, Sides
<1>2. CASE Refunding
    BY <1>2 DEF Payout
<1>3. CASE ~Refunding
    <2>1. amount[p] + Share(amount[p]) = 0 /\ WinnerPool # 0
        BY <1>3 DEF Payout, On, Refunding, Claimable
    <2>2. amount[p] * LoserPool \in Nat
        BY <1>1
    <2>3. Share(amount[p]) \in Nat
        BY <1>1, <2>1, <2>2, FloorDivision DEF Share
    <2>4. QED BY <1>1, <2>1, <2>3
<1>4. QED BY <1>2, <1>3

\* n shares of pools of w leave less than n tokens, and none more than there
\* are backers.
LEMMA DustIsSmall ==
    ASSUME NEW v \in Nat, NEW w \in Nat \ {0}, NEW n \in Nat, NEW m \in Nat \ {0},
           n <= m, v * w <= n * (w - 1)
    PROVE  v < m
<1>1. SUFFICES ASSUME v >= m PROVE FALSE
    OBVIOUS
<1>2. m * w <= v * w
    BY <1>1
<1>3. n * (w - 1) <= m * (w - 1)
    OBVIOUS
<1>4. m * (w - 1) = m * w - m /\ m * w \in Nat /\ v * w \in Nat
    OBVIOUS
<1>5. QED BY <1>2, <1>3, <1>4

\* When every position that is owed something has claimed, only the rounding of
\* the shares is left in the vault: less than one token per winning position.
THEOREM NoDustBeyondRounding == Spec => []NothingStranded
<1>1. IInv => NothingStranded
    <2> SUFFICES ASSUME IInv, Claimable, \A p \in Unclaimed : Payout(p) = 0
                 PROVE  IF Refunding THEN vault = 0 ELSE vault < Cardinality(Backers)
        BY DEF NothingStranded
    <2>1. state \in {"Resolved", "Void"}
        BY DEF Claimable
    <2>2. CASE Refunding
        <3>1. \A p \in Unclaimed : amount[p] = 0
            BY <2>2, StakesAreOwed DEF Unclaimed
        <3>2. QED BY <2>1, <2>2, <3>1, TotalZero DEF IInv, RefundBacked
    <2>3. CASE ~Refunding
        <3> DEFINE n == Cardinality(claimed \cap Backers)
        <3>1. vault \in Nat /\ WinnerPool \in Nat \ {0} /\ LoserPool \in Nat /\ winner \in Sides
            BY <2>1, <2>3, AmountsAssumption
               DEF IInv, TypeOK, WinnerPool, LoserPool, Other, Sides, Refunding
        <3>2. IsFiniteSet(Backers) /\ claimed \cap Backers \subseteq Backers
            BY <3>1, PositionsFinite, FS_Subset DEF Backers
        <3>3. n \in Nat /\ Cardinality(Backers) \in Nat /\ n <= Cardinality(Backers)
            BY <3>2, FS_Subset, FS_CardinalityType
        <3>4. Cardinality(Backers) # 0
            <4>1. SUFFICES ASSUME Backers = {} PROVE FALSE
                BY <3>2, FS_EmptySet
            <4>2. \A p \in On(winner) : amount[p] = 0
                BY <4>1, AmountsAssumption DEF Backers, On, IInv, TypeOK
            <4>3. Total(amount, On(winner)) = 0
                BY <4>2, TotalZero
            <4>4. QED BY <3>1, <4>3 DEF IInv, PoolsAreStakes, WinnerPool
        <3>5. Total(amount, Unclaimed \cap On(winner)) = 0
            <4>1. \A p \in Unclaimed \cap On(winner) : amount[p] = 0
                BY StakesAreOwed DEF Unclaimed
            <4>2. QED BY <4>1, TotalZero
        <3>6. vault * WinnerPool <= 0 * (WinnerPool + LoserPool) + n * (WinnerPool - 1)
            BY <2>1, <2>3, <3>5 DEF IInv, DustBounded
        <3> HIDE DEF n
        <3>7. vault * WinnerPool <= n * (WinnerPool - 1)
            BY <3>1, <3>3, <3>6
        <3>8. QED BY <2>3, <3>1, <3>3, <3>4, <3>7, DustIsSmall
    <2>4. QED BY <2>2, <2>3
<1>2. QED BY Invariance, <1>1, PTL

\* A market on the whole match settles as a record of the final totals says, one
\* that lies in the past (lib.rs FINAL_PERIOD_FLOOR, resolve).
THEOREM SettledByFinalTotals == Spec => []FullTimeDecides
<1>1. IInv => FullTimeDecides
    <2> SUFFICES ASSUME IInv, state = "Resolved", Terms.period = 0
                 PROVE  \E e \in FinalTotals : /\ e.fixture = Terms.fixture
                                               /\ e.ts <= clock * MsPerSec
                                               /\ winner = Outcome(e)
        BY DEF FullTimeDecides
    <2>1. PICK e \in Records : AboutThisMarket(e) /\ e.ts <= clock * MsPerSec /\ winner = Outcome(e)
        BY DEF IInv, ProvedByThePast
    <2>2. e \in FinalTotals /\ e.fixture = Terms.fixture
        BY <2>1 DEF AboutThisMarket, StatOk, PeriodOk, FinalTotals
    <2>3. QED BY <2>1, <2>2
<1>2. QED BY Invariance, <1>1, PTL

\* Every stake was placed before the instant of the deciding record.
THEOREM NoStakeAfterEvidence == Spec => []EvidencePostdatesStakes
<1>1. IInv => EvidencePostdatesStakes
    <2> SUFFICES ASSUME IInv, state = "Resolved"
                 PROVE  lastDeposit * MsPerSec < evidenceTs
        BY DEF EvidencePostdatesStakes
    <2>1. lastDeposit < lockTs /\ evidenceTs \div 1000 >= lockTs
        BY DEF IInv, StakesBeforeLock, PostdatesLock, MsPerSec
    <2>2. evidenceTs \in Nat /\ lockTs \in Nat /\ lastDeposit \in Int
        BY DEF IInv, TypeOK
    <2>3. (evidenceTs \div 1000) * 1000 <= evidenceTs /\ evidenceTs \div 1000 \in Nat
        BY <2>2, FloorDivision
    <2>4. QED BY <2>1, <2>2, <2>3 DEF MsPerSec
<1>2. QED BY Invariance, <1>1, PTL

\* The winner changes only on strictly newer evidence, inside the dispute
\* window, and never once somebody was paid.
THEOREM NoRollback == Spec => OutcomeMovesForward
<1> DEFINE Forward ==
        (state = "Resolved" /\ winner' # winner) =>
            /\ evidenceTs' > evidenceTs
            /\ clock < disputeUntilTs
            /\ claimed = {}
<1>1. IInv /\ [Next]_vars => [Forward]_vars
    <2> SUFFICES ASSUME IInv, Next, state = "Resolved", winner' # winner
                 PROVE  Forward
        BY DEF Forward
    <2> USE DEF termsVars, outcomeVars, stakeVars, tokenVars
    <2>1. ASSUME NEW e \in Records, Resolve(e) PROVE Forward
        BY <2>1 DEF Forward, Resolve, ResolveAccepts, MayFirstResolve, MaySupersede, IInv, TypeOK,
                    PaidOnlyWhenFinal, Claimable
    <2>2. ~Tick /\ ~VoidMarket
        BY DEF Tick, VoidMarket
    <2>3. \A e \in Records : ~PostRoot(e) /\ ~Retip(e)
        BY DEF PostRoot, Retip
    <2>4. \A lock \in LockTimes, deadline \in Deadlines : ~CreateMarket(lock, deadline)
        BY DEF CreateMarket
    <2>5. \A user \in Users, side \in Sides, amt \in Amounts : ~Deposit(user, side, amt)
        BY DEF Deposit
    <2>6. \A p \in Positions : ~Claim(p)
        BY DEF Claim
    <2>7. QED BY <2>1, <2>2, <2>3, <2>4, <2>5, <2>6 DEF Next
<1>2. QED BY Invariance, <1>1, PTL DEF Spec, OutcomeMovesForward

(***************************************************************************)
(* The program implements MarketContract, step by step.                    *)
(***************************************************************************)

\* The contract counts positions and stakes as the program does.
LEMMA ContractCounts ==
    ASSUME IInv
    PROVE  /\ Contract!Positions = Positions
           /\ \A side \in Sides : Contract!Backing(side) = pool[side]
           /\ Contract!AllStakes = pool["yes"] + pool["no"]
           /\ winner \in Sides
           /\ \A p \in Positions : amount[p] \in 0..MaxU64
<1> USE DEF Contract!Positions, Contract!Sides, Positions, Sides
<1>1. \A P : Contract!Total(amount, P) = Total(amount, P)
    BY DEF Contract!Total, Contract!Units, Contract!Cardinality, Total, Units, Cardinality
<1>2. winner \in Sides /\ \A p \in Positions : amount[p] \in 0..MaxU64
    BY DEF IInv, TypeOK
<1>3. \A side \in Sides : Contract!Backing(side) = pool[side]
    BY <1>1 DEF Contract!Backing, IInv, PoolsAreStakes, On
<1>4. Contract!AllStakes = Total(amount, Positions)
    BY <1>1 DEF Contract!AllStakes
<1>5. Total(amount, Positions) = pool["yes"] + pool["no"]
    <2>1. \A p \in Positions : amount[p] \in Nat
        BY <1>2, AmountsAssumption
    <2>2. QED BY <2>1, AllStakes DEF IInv, PoolsAreStakes
<1>6. QED BY <1>2, <1>3, <1>4, <1>5

\* The payout of claim is the stake or the fair share of the contract.
LEMMA PayoutIsFair ==
    ASSUME IInv, NEW p \in Positions, Claimable, Payout(p) > 0
    PROVE  IF Contract!Refunds THEN Payout(p) = amount[p]
                               ELSE Contract!FairShare(p, Payout(p))
<1>1. Contract!Refunds <=> Refunding
    BY ContractCounts DEF Contract!Refunds, Refunding, Claimable, Phase, WinnerPool, IInv, TypeOK
<1>2. CASE Refunding
    BY <1>1, <1>2 DEF Payout
<1>3. CASE ~Refunding
    <2> DEFINE a == amount[p]
               w == WinnerPool
               l == LoserPool
               s == Share(a)
    <2>1. p[2] = winner /\ Payout(p) = a + s
        BY <1>3 DEF Payout
    <2>2. a \in Nat /\ w \in Nat \ {0} /\ l \in Nat
        BY <1>3, AmountsAssumption, ContractCounts
           DEF IInv, TypeOK, WinnerPool, LoserPool, Other, Sides, Refunding, Claimable
    <2>3. Contract!Backing(winner) = w /\ Contract!AllStakes = w + l
        <3>1. pool["yes"] + pool["no"] = w + l
            BY AmountsAssumption DEF IInv, TypeOK, WinnerPool, LoserPool, Other, Sides
        <3>2. QED BY <3>1, ContractCounts DEF WinnerPool
    <2>4. s \in Nat /\ s * w <= a * l /\ a * l < (s + 1) * w
        <3>1. a * l \in Nat
            BY <2>2
        <3>2. QED BY <2>2, <3>1, FloorDivision, FloorIsClose DEF Share
    <2> HIDE DEF a, w, l, s
    <2>5. (a + s) * w <= a * (w + l) /\ a * (w + l) < (a + s + 1) * w
        <3>1. (a + s) * w = a * w + s * w /\ a * (w + l) = a * w + a * l
            BY <2>2, <2>4
        <3>2. (a + s + 1) * w = a * w + (s + 1) * w
            BY <2>2, <2>4
        <3>3. a * w \in Nat /\ s * w \in Nat /\ a * l \in Nat /\ (s + 1) * w \in Nat
            BY <2>2, <2>4
        <3>4. QED BY <2>4, <3>1, <3>2, <3>3
    <2>6. Contract!FairShare(p, Payout(p))
        BY <2>1, <2>3, <2>5 DEF Contract!FairShare, a
    <2>7. QED BY <1>1, <1>3, <2>6
<1>4. QED BY <1>2, <1>3

\* Time makes a provisional outcome final.
LEMMA TickKeepsContract ==
    ASSUME IInv, clock' \in Nat, clock <= clock',
           UNCHANGED <<state, outcomeVars, stakeVars, claimed, tokenVars>>
    PROVE  Contract!Finalise \/ UNCHANGED Contract!cvars
BY DEF IInv, TypeOK, outcomeVars, stakeVars, tokenVars, Phase, Contract!Finalise, Contract!cvars

LEMMA DepositKeepsContract ==
    ASSUME IInv, NEW user \in Users, NEW side \in Sides, NEW amt \in Amounts,
           Deposit(user, side, amt)
    PROVE  \E p \in Contract!Positions, n \in 1..MaxU64 : Contract!Stake(p, n)
<1>1. claimed' = claimed
    BY DEF IInv, PaidOnlyWhenFinal, Claimable, StakingOpen, ClaimedAfterInit, Deposit
<1>2. <<user, side>> \in Contract!Positions
    BY ContractCounts DEF Positions
<1>3. amt \in 1..MaxU64
    BY AmountsAssumption DEF Deposit, CheckedAddOk, IInv, TypeOK
<1>4. Contract!Stake(<<user, side>>, amt)
    BY <1>1 DEF Deposit, StakingOpen, Contract!Stake, Phase, outcomeVars, termsVars
<1>5. QED BY <1>2, <1>3, <1>4

\* A first resolve announces a winner, a superseding one corrects it.
LEMMA ResolveKeepsContract ==
    ASSUME IInv, NEW e \in Records, Resolve(e)
    PROVE  \E side \in Contract!Sides : Contract!Announce(side)
<1>1. Outcome(e) \in Contract!Sides
    BY DEF Outcome, Contract!Sides
<1>2. clock < clock + DisputeWindowSecs
    BY TimesAssumption DEF IInv, TypeOK
<1>3. Contract!Announce(Outcome(e))
    BY <1>2 DEF Resolve, ResolveAccepts, MayFirstResolve, MaySupersede, Phase, Contract!Announce,
                stakeVars, tokenVars, termsVars
<1>4. QED BY <1>1, <1>3

LEMMA ClaimKeepsContract ==
    ASSUME IInv, NEW p \in Positions, Claim(p)
    PROVE  \E q \in Contract!Positions, n \in 1..MaxU64 : Contract!Pay(q, n)
<1>1. Claimable /\ Payout(p) > 0 /\ Payout(p) <= MaxU64 /\ Payout(p) <= vault
    BY DEF Claim
<1>2. Payout(p) \in Nat
    <2>1. p \in Unclaimed /\ state \in {"Resolved", "Void"}
        BY <1>1 DEF Claim, Unclaimed, Claimable
    <2>2. CASE Refunding
        BY <2>1, <2>2, RefundIsCovered
    <2>3. CASE ~Refunding
        BY <1>1, <2>1, <2>3, ShareIsCovered DEF Payout, On
    <2>4. QED BY <2>2, <2>3
<1>3. Payout(p) \in 1..MaxU64 /\ Payout(p) \in 1..vault
    BY <1>1, <1>2, AmountsAssumption DEF IInv, TypeOK
<1>4. Phase \in {"final", "void"} /\ Phase' = Phase
    BY <1>1 DEF Claim, Claimable, Phase, outcomeVars, IInv, TypeOK
<1>5. Contract!Pay(p, Payout(p))
    BY <1>1, <1>3, <1>4, PayoutIsFair DEF Claim, Contract!Pay, outcomeVars, stakeVars
<1>6. QED BY <1>3, <1>5, ContractCounts

\* What bettors are promised is what the program does: every stake, outcome and
\* payment is one the contract allows, and nothing else moves the money.
THEOREM Refinement == Spec => KeepsContract
<1>1. Init => Contract!Init
    BY DEF Init, Contract!Init, Phase, Contract!Positions, Contract!Sides, Positions, Sides
<1>2. IInv /\ [Next]_vars => [Contract!Next]_(Contract!cvars)
    <2> SUFFICES ASSUME IInv, [Next]_vars
                 PROVE  Contract!Next \/ UNCHANGED Contract!cvars
        OBVIOUS
    <2> USE DEF termsVars, outcomeVars, stakeVars, tokenVars
    <2>1. CASE Tick
        BY <2>1, TickKeepsContract DEF Tick, IInv, TypeOK, Contract!Next
    <2>2. ASSUME NEW e \in Records, PostRoot(e) \/ Retip(e) PROVE UNCHANGED Contract!cvars
        BY <2>2 DEF PostRoot, Retip, Phase, Contract!cvars
    <2>3. ASSUME NEW lock \in LockTimes, NEW deadline \in Deadlines, CreateMarket(lock, deadline)
          PROVE  Contract!Open
        BY <2>3 DEF CreateMarket, Phase, Contract!Open
    <2>4. ASSUME NEW user \in Users, NEW side \in Sides, NEW amt \in Amounts,
                 Deposit(user, side, amt)
          PROVE  Contract!Next
        BY <2>4, DepositKeepsContract DEF Contract!Next
    <2>5. ASSUME NEW e \in Records, Resolve(e) PROVE Contract!Next
        BY <2>5, ResolveKeepsContract DEF Contract!Next
    <2>6. CASE VoidMarket
        BY <2>6 DEF VoidMarket, Phase, Contract!Abandon, Contract!Next
    <2>7. ASSUME NEW p \in Positions, Claim(p) PROVE Contract!Next
        BY <2>7, ClaimKeepsContract DEF Contract!Next
    <2>8. CASE UNCHANGED vars
        BY <2>8 DEF vars, Phase, Contract!cvars
    <2>9. QED
        BY <2>1, <2>2, <2>3, <2>4, <2>5, <2>6, <2>7, <2>8 DEF Next, Contract!Next
<1>3. QED BY Invariance, <1>1, <1>2, PTL DEF Spec, KeepsContract, Contract!Spec
=============================================================================
