----------------------------- MODULE MarketRow ------------------------------
(***************************************************************************)
(* What the live indexer writes into the database for one scores record:   *)
(* the status of the fixture and the state of a market on that fixture.    *)
(* Status ids are the feed's (catalog/status.ts).                          *)
(***************************************************************************)
EXTENDS Integers

NS == 1
FINISHED_STATUSES == {5, 10, 13}
VOID_STATUSES == {15, 16, 17, 18, 19}

\* statusId null, in a fixture row, or absent, in a record.
NoStatus == 0

(***************************************************************************)
(* First statuses at which a market on the given period has final values.  *)
(***************************************************************************)
DecidingStatusFromFullTime(period) ==
    IF period = 1 THEN 3..13 ELSE 5..13
DecidingStatusFor(period) ==
    CASE period = 1 -> 3..13
      [] period = 2 -> 5..13
      [] period = 3 -> 8..13
      [] period = 4 -> 10..13
      [] period = 5 -> {13}
      [] OTHER -> FINISHED_STATUSES

(***************************************************************************)
(* The fixture's status after a record: undocumented ids are ignored, and  *)
(* a finished match stays finished unless the record voids it.             *)
(***************************************************************************)
AnyTrusted(raw, old) == raw
Trusted(raw, old) == IF raw \in 1..19 THEN raw ELSE old

StatusIgnoringFinished(raw, old) == Trusted(raw, old)
StatusAfter(raw, old) ==
    LET s == Trusted(raw, old) IN
    IF old \in FINISHED_STATUSES /\ s \notin FINISHED_STATUSES \cup VOID_STATUSES
      THEN old ELSE s

(***************************************************************************)
(* The market's state after that status; the indexer looks only at rows    *)
(* whose state is one of Indexed.                                          *)
(***************************************************************************)
IndexedAll == {"Open", "Locked", "InPlay", "AwaitingRoot", "Settled"}
Indexed == {"Open", "Locked", "InPlay", "AwaitingRoot"}

LockedBy(s, pastLock, inPlayRule) ==
    pastLock \/ (s # NoStatus /\ s # NS /\ ~inPlayRule)

StateAfterOneStep(old, s, pastLock, inPlayRule, period) ==
    IF s \in VOID_STATUSES THEN "Void"
    ELSE IF old = "Open" /\ LockedBy(s, pastLock, inPlayRule) THEN "Locked"
    ELSE IF old = "Locked" /\ s \in 2..13 THEN "InPlay"
    ELSE IF old = "InPlay" /\ s \in DecidingStatusFor(period) THEN "AwaitingRoot"
    ELSE old
StateAfter(old, s, pastLock, inPlayRule, period) ==
    LET locked == IF old = "Open" /\ LockedBy(s, pastLock, inPlayRule)
                    THEN "Locked" ELSE old
        played == IF locked = "Locked" /\ s \in 2..13 THEN "InPlay" ELSE locked
        over   == IF played = "InPlay" /\ s \in DecidingStatusFor(period)
                    THEN "AwaitingRoot" ELSE played
    IN IF s \in VOID_STATUSES THEN "Void" ELSE over
=============================================================================
