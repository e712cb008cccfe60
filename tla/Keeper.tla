------------------------------- MODULE Keeper -------------------------------
(***************************************************************************)
(* The server that drives one pool market to its end: the market's row in  *)
(* the database, the indexer that moves the row with the match, and the    *)
(* settler, which fetches the deciding proof, sends resolve or void_market *)
(* and writes what happened back to the row.                               *)
(*                                                                         *)
(* The chain is Pool.  A transaction of the settler may be lost before it  *)
(* executes, or execute while its confirmation is lost; anyone else may    *)
(* send resolve and void_market too.  The process may crash whenever it    *)
(* waits for the network or a timer, and start again; the chain survives,  *)
(* and the database unless it is lost (a fresh deploy, a wiped volume).    *)
(* The auto-market engine then rebuilds the row from the chain, and the    *)
(* settler what the chain does not hold: the receipt and the signature of  *)
(* the resolve transaction.  Database calls that follow each other without *)
(* such a wait are one step: the database is synchronous.  Stakes and      *)
(* claims are Pool's alone and do not occur here.                          *)
(***************************************************************************)
EXTENDS Pool, MarketRow

CONSTANTS
    Lock, Deadline,     \* the market's lock and resolve deadline
    SettlingEnd,        \* kickoff plus 2.5 hours: when TimestampMismatch is final
    InPlayRule,         \* TRUE: lockRule = 'in-play'
    MatchAfter,         \* [status -> statuses the match may enter next]
    NoRecord,
    MaxCrashes          \* BOUND on the number of crashes

ASSUME KeeperAssumption ==
    /\ Lock \in Nat /\ Deadline \in Nat /\ Lock < Deadline
    /\ SettlingEnd \in Nat
    /\ InPlayRule \in BOOLEAN
    /\ NS \in DOMAIN MatchAfter
    /\ NoRecord \notin Records
    /\ MaxCrashes \in Nat

VARIABLES
    match,              \* external: the status of the match
    emitted,            \* external: statuses whose records are in the feed
    fixtureStatus,      \* fixtures.statusId
    row,                \* the markets row; recovered is a history field: the row
                        \* was rebuilt as settled
    receipt,            \* receipts: the record it proves, or NoRecord
    up,                 \* "down", "running", or "apiOnly": serving without its workers
    pc,                 \* where the settler's loop is
    held,               \* the row as the settler read it before an await
    proof,              \* the record whose proof the settler holds
    decidingSeqCache,   \* the deciding record found last, NoRecord when expired
    finalizedVoid,      \* the market is in the in-memory finalizedVoids
    crashes

matchVars == <<match, emitted>>
rowVars == <<row, receipt>>
dbVars == <<fixtureStatus, rowVars>>
memVars == <<pc, held, proof, decidingSeqCache, finalizedVoid>>
procVars == <<up, crashes, memVars>>
kvars == <<vars, matchVars, dbVars, procVars>>

Statuses == DOMAIN MatchAfter

RowStates == Indexed \cup {"Settled", "Void", "Missing"}

Created ==
    [state |-> "Open", winnerYes |-> "null", evidenceTs |-> 0, resolveTx |-> FALSE,
     finalized |-> FALSE, recovered |-> FALSE]
Missing == [Created EXCEPT !.state = "Missing"]

KeeperTypeOK ==
    /\ TypeOK
    /\ match \in Statuses
    /\ emitted \subseteq Statuses
    /\ fixtureStatus \in Statuses \cup {NoStatus}
    /\ row \in [state : RowStates, winnerYes : Sides \cup {"null"}, evidenceTs : Nat,
                resolveTx : BOOLEAN, finalized : BOOLEAN, recovered : BOOLEAN]
    /\ receipt \in Records \cup {NoRecord}
    /\ up \in {"down", "running", "apiOnly"}
    /\ pc \in {"idle", "proving", "resolving", "recording", "closing", "voiding"}
    /\ held \in RowStates
    /\ proof \in Records \cup {NoRecord}
    /\ pc \in {"resolving", "recording"} => proof # NoRecord
    /\ decidingSeqCache \in Records \cup {NoRecord}
    /\ finalizedVoid \in BOOLEAN
    /\ crashes \in 0..MaxCrashes

\* The auto-market engine has created the pool market and inserted its row.
KeeperInit ==
    /\ clock = 0 /\ provable = {}
    /\ state = "Open" /\ lockTs = Lock /\ resolveDeadlineTs = Deadline
    /\ evidenceTs = 0 /\ disputeUntilTs = 0 /\ winner = "no"
    /\ pool = [side \in Sides |-> 0] /\ amount = [p \in Positions |-> 0]
    /\ claimed = {} /\ vault = 0 /\ wallet = [u \in Users |-> Funds] /\ lastDeposit = -1
    /\ match = NS /\ emitted = {NS}
    /\ fixtureStatus = NoStatus
    /\ row = Created /\ receipt = NoRecord
    /\ up = "running" /\ crashes = 0
    /\ pc = "idle" /\ held = "Open" /\ proof = NoRecord
    /\ decidingSeqCache = NoRecord /\ finalizedVoid = FALSE

-----------------------------------------------------------------------------
(***************************************************************************)
(* The environment: time, the match, the oracle, other users of the chain. *)
(***************************************************************************)
IsFinal(e) == PeriodOk(e.a.period)

Published == {e \in Records :
                 /\ e.ts <= clock * MsPerSec
                 /\ IsFinal(e) => emitted \cap FINISHED_STATUSES # {}}

MatchMoves(s) ==
    /\ s \in MatchAfter[match]
    /\ match' = s
    /\ emitted' = emitted \cup {s}
    /\ UNCHANGED <<vars, dbVars, procVars>>

ChainMoves ==
    /\ \/ Tick
       \/ \E e \in Published : PostRoot(e)
       \/ \E e \in Records : Retip(e) \/ Resolve(e)
       \/ VoidMarket
    /\ UNCHANGED <<matchVars, dbVars, procVars>>

-----------------------------------------------------------------------------
(***************************************************************************)
(* The indexer applies a record of the feed, new or replayed.              *)
(***************************************************************************)
Apply(raw) ==
    /\ up = "running"
    /\ raw \in emitted
    /\ fixtureStatus' = StatusAfter(raw, fixtureStatus)
    /\ row' = IF row.state \in Indexed
                THEN [row EXCEPT !.state = StateAfter(@, fixtureStatus', clock >= Lock,
                                                      InPlayRule, Terms.period)]
                ELSE row
    /\ UNCHANGED <<vars, matchVars, receipt, procVars>>

-----------------------------------------------------------------------------
(***************************************************************************)
(* The settler's tick.  First the lock sweep, then the pending markets.    *)
(***************************************************************************)
SweepLock(r) == IF r.state = "Open" /\ clock >= Lock THEN [r EXCEPT !.state = "Locked"] ELSE r

StartTick ==
    /\ up = "running" /\ pc = "idle"
    /\ row' = SweepLock(row)
    /\ pc' = IF row'.state = "AwaitingRoot" /\ fixtureStatus # NoStatus
               THEN "proving" ELSE "closing"
    /\ UNCHANGED <<vars, matchVars, fixtureStatus, receipt, up, crashes,
                   held, proof, decidingSeqCache, finalizedVoid>>

\* The newest record that may decide the market.
Deciding == {e \in Published : IsFinal(e)}
Newest == {e \in Deciding : \A f \in Deciding : f.ts <= e.ts}

\* findDecidingSeq: the newest record, or, for up to two minutes, the one found
\* before.
FoundUnchecked == Newest \cup {decidingSeqCache}
Found == Newest \cup ({decidingSeqCache} \ {NoRecord})

\* settleOne fetches the proof of that record.
FetchProof ==
    /\ up = "running" /\ pc = "proving"
    /\ \E e \in Found :
          /\ proof' = e
          /\ decidingSeqCache' = e
    /\ pc' = "resolving"
    /\ UNCHANGED <<vars, matchVars, dbVars, up, crashes, held, finalizedVoid>>

\* No record decides the market yet, or a call of the proof API fails.
NoProof ==
    /\ up = "running" /\ pc = "proving"
    /\ pc' = "closing"
    /\ UNCHANGED <<vars, matchVars, dbVars, up, crashes, held, proof,
                   decidingSeqCache, finalizedVoid>>

(***************************************************************************)
(* The resolve transaction: it executes and is confirmed, executes without *)
(* its confirmation arriving, never executes, or is rejected.              *)
(***************************************************************************)
ResolveConfirmed ==
    /\ up = "running" /\ pc = "resolving"
    /\ Resolve(proof)
    /\ pc' = "recording"
    /\ UNCHANGED <<matchVars, dbVars, up, crashes, held, proof, decidingSeqCache,
                   finalizedVoid>>

ResolveUnconfirmed ==
    /\ up = "running" /\ pc = "resolving"
    /\ Resolve(proof)
    /\ pc' = "closing"
    /\ UNCHANGED <<matchVars, dbVars, up, crashes, held, proof, decidingSeqCache,
                   finalizedVoid>>

\* Errors that match no pattern of settleOne are logged and left to the next
\* tick; so is RootNotAvailable.
AfterFailureRecord == "recording"
AfterFailure == "closing"

ResolveFails ==
    /\ up = "running" /\ pc = "resolving"
    /\ pc' = AfterFailure
    /\ UNCHANGED <<vars, matchVars, dbVars, up, crashes, held, proof, decidingSeqCache,
                   finalizedVoid>>

\* EvidenceTooEarly, and TimestampMismatch once the match is well over: the row
\* is voided at once, the chain only at the deadline.
EvidenceTooEarly ==
    /\ MayFirstResolve \/ MaySupersede(proof)
    /\ AboutThisMarket(proof)
    /\ ~PostdatesLock(proof.ts)

TimestampMismatch ==
    /\ MayFirstResolve \/ MaySupersede(proof)
    /\ AboutThisMarket(proof)
    /\ PostdatesLock(proof.ts)
    /\ proof \notin provable

ResolveImpossible ==
    /\ up = "running" /\ pc = "resolving"
    /\ EvidenceTooEarly \/ (TimestampMismatch /\ clock > SettlingEnd)
    /\ row' = [row EXCEPT !.state = "Void"]
    /\ pc' = "closing"
    /\ UNCHANGED <<vars, matchVars, fixtureStatus, receipt, up, crashes, held, proof,
                   decidingSeqCache, finalizedVoid>>

\* afterResolve: the receipt, unless there is one, and the row, with the
\* outcome computed from the proof's own values.
Settled(e, resolveTx) ==
    /\ receipt' = IF receipt = NoRecord THEN e ELSE receipt
    /\ row' = [row EXCEPT !.state = "Settled", !.winnerYes = Outcome(e), !.evidenceTs = e.ts,
                          !.resolveTx = resolveTx, !.finalized = TRUE]
    /\ finalizedVoid' = TRUE

AfterResolve ==
    /\ up = "running" /\ pc = "recording"
    /\ Settled(proof, TRUE)
    /\ pc' = "closing"
    /\ UNCHANGED <<vars, matchVars, fixtureStatus, up, crashes, held, proof, decidingSeqCache>>

(***************************************************************************)
(* Settled rows that were rebuilt from the chain: their receipt, from the  *)
(* newest record that decides the market, and the signature of their       *)
(* resolve transaction, from the account's history.  Nobody else writes a  *)
(* settled row, so the wait for the network in between does not show.      *)
(***************************************************************************)
LacksReceipt == row.state = "Settled" /\ receipt = NoRecord
LacksResolveTx == row.state = "Settled" /\ ~row.resolveTx

BackfillReceipt ==
    /\ up = "running" /\ pc = "closing" /\ LacksReceipt
    /\ \E e \in Found :
          /\ decidingSeqCache' = e
          /\ Settled(e, row.resolveTx)
    /\ UNCHANGED <<vars, matchVars, fixtureStatus, up, crashes, pc, held, proof>>

RecoverResolveTx ==
    /\ up = "running" /\ pc = "closing" /\ LacksResolveTx
    /\ row' = [row EXCEPT !.resolveTx = TRUE]
    /\ UNCHANGED <<vars, matchVars, fixtureStatus, receipt, procVars>>

(***************************************************************************)
(* The end of the tick: a row past its deadline, and a void row, is voided *)
(* on chain once the deadline has passed.                                  *)
(***************************************************************************)
OverdueStatesLive == Indexed
OverdueStates == Indexed \cup {"Void"}

Overdue ==
    /\ row.state \in OverdueStates
    /\ ~finalizedVoid
    /\ clock >= Deadline

CheckOverdue ==
    /\ up = "running" /\ pc = "closing"
    /\ pc' = IF Overdue THEN "voiding" ELSE "idle"
    /\ held' = row.state
    /\ UNCHANGED <<vars, matchVars, dbVars, up, crashes, proof, decidingSeqCache,
                   finalizedVoid>>

\* markFinalized, then the row of a market that was not void before.
MarkFinalizedOnly ==
    /\ finalizedVoid' = TRUE
    /\ row' = [row EXCEPT !.finalized = TRUE]
FinishVoid ==
    /\ finalizedVoid' = TRUE
    /\ row' = [row EXCEPT !.finalized = TRUE,
                          !.state = IF held # "Void" THEN "Void" ELSE @]

VoidConfirmed ==
    /\ up = "running" /\ pc = "voiding"
    /\ VoidMarket
    /\ FinishVoid
    /\ pc' = "idle"
    /\ UNCHANGED <<matchVars, fixtureStatus, receipt, up, crashes, held, proof, decidingSeqCache>>

VoidUnconfirmed ==
    /\ up = "running" /\ pc = "voiding"
    /\ VoidMarket
    /\ pc' = "idle"
    /\ UNCHANGED <<matchVars, dbVars, up, crashes, held, proof, decidingSeqCache, finalizedVoid>>

\* MarketNotOpen is taken to mean that the market is void already.
AnyRejection == TRUE
MarketNotOpen == state # "Open"

VoidRejected ==
    /\ up = "running" /\ pc = "voiding"
    /\ MarketNotOpen
    /\ FinishVoid
    /\ pc' = "idle"
    /\ UNCHANGED <<vars, matchVars, fixtureStatus, receipt, up, crashes, held, proof, decidingSeqCache>>

VoidFails ==
    /\ up = "running" /\ pc = "voiding"
    /\ pc' = "idle"
    /\ UNCHANGED <<vars, matchVars, dbVars, up, crashes, held, proof, decidingSeqCache,
                   finalizedVoid>>

-----------------------------------------------------------------------------
(***************************************************************************)
(* Crash, redeployment and restart.  Starting requeues the void row when   *)
(* its fixture is listed in REQUEUE_VOID_FIXTURES, then builds the TxLINE  *)
(* session, then starts the workers, and the settler seeds its finalized   *)
(* set.  When the session cannot be built, the API serves without workers. *)
(***************************************************************************)
Crash(lost) ==
    /\ up # "down" /\ crashes < MaxCrashes
    /\ up' = "down"
    /\ crashes' = crashes + 1
    /\ pc' = "idle" /\ held' = "Open" /\ proof' = NoRecord
    /\ decidingSeqCache' = NoRecord /\ finalizedVoid' = FALSE
    /\ IF lost THEN fixtureStatus' = NoStatus /\ row' = Missing /\ receipt' = NoRecord
               ELSE UNCHANGED dbVars
    /\ UNCHANGED <<vars, matchVars>>

Requeue(r) ==
    IF r.state = "Void" /\ clock < Deadline
      THEN [r EXCEPT !.state = "AwaitingRoot", !.winnerYes = "null"] ELSE r

Seed(r) ==
    IF r.state \in {"Settled", "Void"} /\ Deadline < clock
      THEN [r EXCEPT !.finalized = TRUE] ELSE r

Boot(listed) ==
    /\ up = "down"
    /\ up' = "running"
    /\ row' = Seed(IF listed THEN Requeue(row) ELSE row)
    /\ finalizedVoid' = row'.finalized
    /\ UNCHANGED <<vars, matchVars, fixtureStatus, receipt, crashes, pc, held, proof, decidingSeqCache>>

BootWithoutWorkers(listed) ==
    /\ up = "down"
    /\ up' = "apiOnly"
    /\ row' = IF listed THEN Requeue(row) ELSE row
    /\ UNCHANGED <<vars, matchVars, fixtureStatus, receipt, crashes, memVars>>

\* The auto-market engine: before kickoff it creates the market anew and finds
\* its account in use; afterwards it reads the account (Engine has the steps of
\* both).  The evidence time is multiplied as if it were in seconds.  Rows of
\* in-play markets are not rebuilt.
RecoveredRow ==
    [Missing EXCEPT !.recovered = (state = "Resolved"),
        !.state = CASE state = "Resolved" -> "Settled" [] state = "Void" -> "Void"
                    [] state = "Open" -> "AwaitingRoot",
        !.winnerYes = IF state = "Resolved" THEN winner ELSE @,
        !.evidenceTs = IF state = "Resolved" THEN evidenceTs * MsPerSec ELSE @]

RecoverRow ==
    /\ up = "running" /\ row.state = "Missing" /\ ~InPlayRule
    /\ \/ clock <= Lock /\ row' = Created
       \/ clock >= Lock /\ row' = RecoveredRow
    /\ UNCHANGED <<vars, matchVars, fixtureStatus, receipt, procVars>>

-----------------------------------------------------------------------------
SettlerStep ==
    \/ StartTick \/ FetchProof \/ NoProof
    \/ ResolveConfirmed \/ ResolveUnconfirmed \/ ResolveFails \/ ResolveImpossible
    \/ AfterResolve \/ BackfillReceipt \/ RecoverResolveTx \/ CheckOverdue
    \/ VoidConfirmed \/ VoidUnconfirmed \/ VoidRejected \/ VoidFails

KeeperNext ==
    \/ ChainMoves
    \/ \E s \in Statuses : MatchMoves(s) \/ Apply(s)
    \/ SettlerStep
    \/ RecoverRow
    \/ \E lost \in BOOLEAN : Crash(lost)
    \/ \E listed \in BOOLEAN : Boot(listed) \/ BootWithoutWorkers(listed)

KeeperSpec == KeeperInit /\ [][KeeperNext]_kvars

(***************************************************************************)
(* Time passes; a crashed process is restarted; the settler's loop goes on *)
(* (setTimeout and await always come back), and so does the engine's; a    *)
(* call that is retried over and over is at last answered.                 *)
(***************************************************************************)
KeeperFairness ==
    /\ WF_kvars(Tick /\ UNCHANGED <<matchVars, dbVars, procVars>>)
    /\ WF_kvars(\E listed \in BOOLEAN : Boot(listed) \/ BootWithoutWorkers(listed))
    /\ WF_kvars(SettlerStep)
    /\ WF_kvars(RecoverRow)
    /\ SF_kvars(VoidConfirmed)
    /\ SF_kvars(VoidRejected)

KeeperFairSpec == KeeperSpec /\ KeeperFairness

-----------------------------------------------------------------------------
(***************************************************************************)
(* Properties.                                                             *)
(***************************************************************************)

\* What the row says, the chain accepted as its outcome at the evidence time ts:
\* the chain still says so, unless somebody superseded it later.
AcceptedAt(ts) == ts <= evidenceTs /\ (ts = evidenceTs => row.winnerYes = winner)

\* A settled row records a resolution that the chain accepted: its evidence is
\* the chain's, with the same winner, unless somebody superseded it later; and
\* its receipt proves what the row says.  A row rebuilt after a lost database
\* says what the chain said, with the evidence time multiplied; only its receipt
\* may get ahead of the chain, for it is made from the newest record, which the
\* chain need not have seen (settler.ts 92-93, 149-159).
SettledRowWasProved ==
    /\ row.state = "Settled" =>
          /\ state = "Resolved"
          /\ ~row.recovered => AcceptedAt(row.evidenceTs)
          /\ receipt = NoRecord => row.recovered /\ AcceptedAt(row.evidenceTs \div MsPerSec)
    /\ receipt # NoRecord =>
          row.state = "Settled" /\ row.winnerYes = Outcome(receipt) /\ row.evidenceTs = receipt.ts

(***************************************************************************)
(* What the settler knows between two awaits: the inductive invariant      *)
(* behind SettledRowWasProved, SettledRowStays and GivesUpOnlyWhenDecided. *)
(* While it works on a row, the row may at most become void under it; what *)
(* it is about to record the chain has accepted, though it may have        *)
(* accepted newer evidence since; and only a process that never restarted  *)
(* knows why a market is in finalizedVoids.                                *)
(***************************************************************************)
RowIsHeld ==
    /\ pc \in {"proving", "resolving", "recording"} => row.state \in {"AwaitingRoot", "Void"}
    /\ pc = "voiding" => row.state \in OverdueStates

RecordsWhatWasAccepted ==
    pc = "recording" =>
        /\ state = "Resolved"
        /\ proof.ts <= evidenceTs
        /\ proof.ts = evidenceTs => Outcome(proof) = winner

NeverDownWithoutCrash == up = "down" => crashes > 0

MarketExists == state # "Absent"

\* As long as the process has never restarted, the settler stops looking at a
\* market only when the chain has decided it.
GivesUpOnlyWhenDecided ==
    (finalizedVoid /\ crashes = 0) => state # "Open"

\* All of the above together with the chain's invariant and the types (each
\* step of settler.ts, of the indexer and of the recovery keeps it).
KeeperInv ==
    /\ IInv
    /\ KeeperTypeOK
    /\ RowIsHeld
    /\ RecordsWhatWasAccepted
    /\ NeverDownWithoutCrash
    /\ MarketExists
    /\ SettledRowWasProved
    /\ GivesUpOnlyWhenDecided

\* Once a row is settled, neither a late record of the indexer nor the deadline
\* nor a restart changes its state or winner or drops the link to its
\* resolution; a lost database does, and the first receipt of a rebuilt row may
\* name another winner (settler.ts 159, 276-288, 437-439).
SettledRowStays ==
    [][row.state = "Settled" /\ row'.state # "Missing" =>
          /\ row'.state = "Settled"
          /\ row'.winnerYes = row.winnerYes \/ (row.recovered /\ LacksReceipt)
          /\ row.resolveTx => row'.resolveTx]_kvars

\* Without restarts, every market is decided on chain: proved or refunded.
MarketIsDecided == [](crashes = 0) => <>(state \in {"Resolved", "Void"})

\* With restarts and a lost database too, the row ends settled or void and is
\* then left alone, unless the server ends up without its workers.  (A rebuilt
\* settled row is finalized with its receipt, for which the record must be found.)
RowIsClosed ==
    \/ <>[](up = "apiOnly")
    \/ <>[](/\ row.state \in {"Settled", "Void"}
            /\ row.finalized \/ (row.recovered /\ row.state = "Settled"))

\* A market that is marked finalized needs no more transactions: "its on-chain
\* void is done or moot" (settler.ts loop).
FinalizedIsDecided == row.finalized => state # "Open"

\* A row that is finalized as void stands for a market that is void on chain:
\* "Already void on-chain" (settler.ts voidOne).
FinalizedVoidIsVoid == (row.finalized /\ row.state = "Void") => state # "Resolved"
=============================================================================
