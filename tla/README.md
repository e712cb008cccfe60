# GroundTruth in TLA+

GroundTruth is a parimutuel prediction market on football matches. Bettors
stake on YES or NO in a Solana program; a market is settled by a Merkle proof
of a match statistic, checked against roots that the TxLINE oracle posts, or
refunded. A Node server creates the markets, follows the matches, sends the
proofs and serves a web application from a SQLite database.

This directory models the parts of that system in which a step at the wrong
moment costs somebody money or leaves a market in limbo.

## 1. The system

| Part | Source | State it keeps | What it does |
|---|---|---|---|
| On-chain pool program | `program/programs/groundtruth_pool/src/lib.rs` | market account (state, lock, deadline, pools, evidence time, dispute window, winner), position accounts, vault | `create_market`, `deposit`, `resolve`, `void_market`, `claim` |
| Settler | `apps/server/src/services/settler.ts` | the rows it writes; in memory the deciding-record cache and the finalized set | lock sweep, proof and resolve for `AwaitingRoot`, void past the deadline, receipts and their backfill |
| Live indexer | `services/indexer.ts`, `packages/catalog/src/status.ts` | fixture rows, states of market rows | applies scores records from a stream, from snapshots at startup and from a poll |
| Startup | `main.ts` | none | requeue of void rows, API first, then the workers |
| Catalog | `packages/catalog` | none | templates of markets with their terms, statistic keys, sets of statuses |
| Auto-market engine | `services/autoMarket.ts` | fixture and market rows | creates the catalog's pools, retires legacy markets, rebuilds rows from the chain |
| AI author | `services/aiMarkets.ts`, `gemini.ts` | market rows; in memory the phases done and the key rotation | in-play, pre-match and tournament markets |
| Position indexer, leaderboard | `services/positions.ts` | positions, pool history, wallet profiles | copies positions from the chain, recomputes profits |
| TxLINE session | `packages/txline-client`, `services/txline.ts` | token, JWT, auth file, event id | HTTP calls, event stream |
| Portfolio page | `apps/web/src/pages/Profile.tsx` | the page as loaded | shows positions, offers claims |
| Other pages, API, shared and chain packages, scripts | the rest | none of their own | queries, rendering, transaction building |

How they interact. The chain is the authority on money; the server's database
is a copy of it that the web application shows. The settler and the indexer
write the same market rows without locks; the two, the engine, the author and
the position indexer share one Node process and its event loop, so they
interleave where they wait for the network or a timer. The settler talks to the
chain by transactions that may fail, or succeed while the answer is lost.
Every instruction of the program is open to everybody.

What is hard: the arithmetic and ordering of payouts; evidence that comes late,
twice or corrected; transactions whose confirmation is lost; other senders of
the same instruction; restarts, which forget the caches; records that are
repeated, lost or applied concurrently; rows used after an await.
`PROJECT.json` lists each of these hazards at its line, with the properties
that watch over it.

What makes the parts correct, in one line each:

* program: it always can pay what it owes, pays nothing early or twice, never
  takes a bet after the deciding moment, and strands no stake;
* settler: a row says settled only if the chain is, and every market is decided
  on chain and closed in the database;
* indexer: rows follow the match, never ahead of it, and catch up after losses,
  except where the author's refresh gets there first;
* engine: a row names a pool that exists and is not settled before it, and every pool
  of the catalog gets its row, across half-failed calls, crashes and a lost database,
  while the feed lists the match;
* author: bounded numbers, no pool without a row, and locks early enough that the
  market can still resolve; a tournament market falls with its team, not before;
* session: the workers start with one the feed accepts, however it was stored;
* leaderboard and portfolio: profits are what the chain pays, and what is due can
  be claimed.

## 2. The modules

| Module | Models | Built on |
|---|---|---|
| `Stakes` | sides of a market, totals of stakes (as cardinalities, for the proofs) | |
| `Pool` | the program, one market account, any number of bettors | `Stakes` |
| `MarketContract` | abstract: what a market promises its bettors | `Stakes` |
| `MarketRow` | the indexer's decisions: status of a fixture and state of a market after a record | |
| `Keeper` | the server driving one market: row, receipt, indexer, settler, crashes, a lost database, beside the chain | `Pool`, `MarketRow` |
| `Indexer` | concurrent application of records to the rows of one fixture | `MarketRow` |
| `Catalog` | the templates with their terms, predicates over counts, the author's grammar and guard | |
| `Markets` | what engine and author share: time, the match, pools and rows of one fixture | `Catalog` |
| `Engine` | the auto-market engine's tick and its recovery of lost rows | `Markets` |
| `Author` | in-play and pre-match authoring | `Markets` |
| `Session` | the start of the server, JWT, subscription and auth file | |
| `Tournament` | champion markets over the last matches of the tournament | `Session` |
| `Board` | position indexer, price history, leaderboard and portfolio page of one market | `Pool` |
| `PoolProofs` | theorems about the program and its contract | `Pool` |
| `KeeperProofs`, `BoardProofs` | theorems about the server beside the chain | `Keeper`, `Board`, `PoolProofs` |
| `MarketsProofs`, `EngineProofs`, `AuthorProofs` | theorems about the catalog, the engine and the author | `Markets`, `Engine`, `Author` |
| `TournamentProofs` | theorems about session and tournament | `Tournament` |
| `IndexerProofs` | theorems about overlapping records | `Indexer` |
| `MCPool`, `MCKeeper`, `MCIndexer`, `MCEngine`, `MCAuthor`, `MCTournament`, `MCBoard` | values for TLC | the above |

**Pool.** One action per instruction. An instruction is atomic on Solana, so an
action is the whole handler with all of its `require!`s. The terms of a market
are a constant, since its address is the hash of them. Statistics and
predicate are abstracted to one Boolean per record, `holds`; what decides
whether a record is admitted (fixture, keys, periods, time, provability) is
kept. Seconds and milliseconds are kept apart as in the code. The 64-bit limit
is the constant `MaxU64`. `PostRoot` and `Retip` stand for the oracle: a record
becomes provable when its root is posted and may stop being so when the daily
root moves on. `lastDeposit` is a history variable. `MarketContract` knows no
clock, evidence or stored pools; `Phase` in `Pool` maps the account and the
clock to its phases. Some definitions are preceded by a variant with the same
parameters (`Share` by `ShareRoundedUp`, for instance): those are plausible
mistakes, used to see that the properties notice them; no specification refers
to them.

**Keeper.** The variables of `Pool` are the chain; `row` is the market's row
and `receipt` the record its receipt proves; `pc`, `held`, `proof`, `decidingSeqCache` and `finalizedVoid` are the settler's
loop. One action runs from one wait for the network to the next; a transaction
is confirmed, executed without its confirmation, or not executed. Statements on
the database that follow one another without such a wait are one step, because
the database is synchronous and the event loop does not turn in between.
`ChainMoves` lets anybody else resolve and void. `Crash`, `Boot` and
`BootWithoutWorkers` are restarts, with the requeue of void rows and the seed of
the finalized set; the workers may fail to start. A crash may take the database
with it: the row is then `Missing` until `RecoverRow`, the engine's sweep in one
step, rebuilds it from the account, and the settler gives it a receipt and the
signature of its resolve transaction (`BackfillReceipt`, `RecoverResolveTx`).
`recovered` is a history field: the row was rebuilt from an account that was
resolved already, so the settler has not seen what settled it.
`Apply` is the indexer applying any record of the feed again at any moment.

**Indexer.** `apply` is cut at its awaits. The stream's callback starts a call
per record and does not wait, so the records of one chunk run in turns, in the
order of the microtask queue `inFlight`. A call keeps the rows as it listed them
(`open`) and the writes it has left (`todo`): one of a row, 1, and one of the
notification after it, 2, in the table's order. A snapshot's records run one after the
other in one call chain. The stream may drop, skip or repeat. `Author` and
`InsertInPlay` are the AI author's decision and, after its waits, the insertion
of an in-play market; the fixture may have changed in between. The wait is
taken to end before the market's lock, which is at least six minutes later.
`RefreshReads` and `RefreshWrites` are the author's `refreshStaleFixtures`, from three
hours after kickoff (`StaleAfter`): it reads the snapshot and, whatever `apply` wrote
meanwhile, writes the last documented status in it. It moves no market, and a finished
status ends the poll; `refreshed` is history and says that the status of the row is one
of its. The author's tick is one sequence, so it does not author while it refreshes. In `Keeper` the
same decisions (`MarketRow`) are atomic; `Indexer` is where their
interleaving is examined.

**Catalog.** A template is its slug, class, lock rule and legs; a leg is the terms
of one predicate: period, up to two statistic keys, operator, comparison,
threshold, negation. `Holds` and `AllHold` evaluate legs over counts as the
settler does; `Asks` says what the question of each template asks. Labels and
wording are left out. A match is counted by eight statistics, for the whole and for
each half (`StatKeys`). `inPlayGuard` and `InGrammar` are the author's checks of a
proposal: the fair lines by minute and score, and what a proof can decide.

**Markets, Engine.** `pools` maps the terms of a market to its account, `rows` a
slug to its row. `Count` moves one of the statistics `Counted`, for the match and for
its half, up to `MaxCount`. An account can be created once for given terms. Who won is
left to `Pool` and `Keeper`: pools and rows here have no winner, so that a superseding
resolve and a backfilled receipt, which change nothing else, are no steps. `Index` writes the
fixture's row from the newest record or from an older one that is replayed, and a
record may lack a documented status, a clock or counts (`Shortfalls`): what it lacks
stays as it was, its time is always taken. `told` is history: whether the last record
had a status. `Listed` is what the feed is asked for, from yesterday's day on; a match
leaves the listing 24 to 48 hours after kickoff, so the recovery window of three days is
never used up. Times are minutes since a midnight. The engine's
`eng` is its tick: which template it has come to, and what it read at the start
of the tick. One action runs between two awaits: the pool is created (`Create`),
and after the throttle its row is inserted (`Insert`); a failed call may have
landed (`CreateFails`); an account in use is adopted (`Adopt`). After kickoff the
account is read (`Recover`) and the row inserted after a pause
(`InsertRecovered`) in the state the account had when it was read; by then the chain may
have moved. `Restart` forgets
the tick, and with `lost` the database. `AuthorTakes` is the AI author creating
a pool on the same terms, before the match, in play or for a champion market; settlement is abbreviated (`Settlement`), since
`Keeper` has it.

**Author.** `au` holds what the author's call read before it asked the model:
the fixture's row, the hashes of the existing markets, the number of AI markets.
The answer is any short list of proposals, and each is judged, created and
inserted against that. `fired` are the phases authored, which a restart forgets.
The engine acts beside it: `EngineMakes` is a pool created, adopted or recovered, with its
row or without. If the match is the final, `ChampionAttaches` moves champion markets of the
`Champions` to it; their rows count against the cap and stop pre-match authoring, and keep
the hash they had before. A proposal whose slug another row has gets a pool and no row.

**Session, Tournament.** `Session` is `buildContext`: the stored session is
probed, its JWT renewed, then a new subscription made; `Get` is the client's
call with its one renewal after a refusal. `Tournament` adds the bracket as the
matches really went (`phase`, `outcome`), as the rows know it (`db`: an end may be
missed, a score be old or missing), and the tick of the tournament author: refresh
of missed ends over the session, teams still in, markets for them, NO for the
others, attachment to the final, where the statistic's sign depends on which team
is participant 1. A match that is over counts as four hours old: until then the tick
treats it as still on. The session runs out only when a call is due, for only
then can anyone tell. After a lost disk the feed lists again what is still to come and,
of the matches played, those since yesterday (`Relisted`). The settler settles an attached row between ticks, which do not look at
attached rows.

**Board.** The chain is `Pool`, with a market that is open at the start; a stake is
`Pool`'s `Deposit` at any time, since a card may be old. `StartTick` reads the rows, `Fetched`
gets the accounts and writes positions, totals, history and leaderboard without another
wait. `seen` is what was read before. `FetchFails` also stands for a restart. The settler is reduced to the
moment at which it writes `Settled` or `Void`. `LoadPage` and `ClaimFromPage` are the
portfolio page: buttons stay as they were when it was loaded. Shares are in whole
units, rounded down.

## 3. Runs

| Run | Instance | Shows |
|---|---|---|
| `pool_safety` | 3 bettors with 2 tokens each, `MaxU64` 5, two locks, two deadlines, 4 records, clock to 5 | `TypeOK`, `IInv`, `Solvent`, `NothingStranded`, `EvidencePostdatesStakes`, `FullTimeDecides`, `OutcomeMovesForward`, `KeepsContract` |
| `pool_liveness` | 2 bettors, fairness | `EveryStakeIsSettled` |
| `keeper` | one market, 2 deciding records, one crash with or without the database, fairness | `SettledRowWasProved`, `SettledRowStays`, `GivesUpOnlyWhenDecided`, `MarketIsDecided`, `RowIsClosed` |
| `indexer` | 2 markets, feed of 3 records, chunks of 2, refresh from the last instant on | `AwaitingMeansOver`, `RowsAgree`, `FixtureCatchesUp`, `RowsCatchUp` |
| `engine` | one match that may be moved 40 minutes forward, 2 templates (one composite), 7 instants, one fault, fairness | `RowTellsItsPool`, `LocksBeforeKickoff`, `CatalogRowsAnswerTheirQuestion`, `PoolGetsItsRow` |
| `author` | one match, one template, one champion market, 4 proposals in answers of up to 2, 3 instants, records replayed or without a status, one fault | `PoolsSharedByAdoptionOnly`, `AiRowsCapped`, `InPlayPoolsCanResolve`, `AiPoolsShown` |
| `tournament` | two semi-finals, third place, final, 4 teams, one fault, fairness | `ChampionWonOnGoals`, `StartsWithASession`, `NoOnlyWhenOut`, `MissedEndIsFound` |
| `board` | 2 users with 2 tokens each, stakes of 1, 2 records, clock to 3, fairness | `HistoryVolumeGrows`, `LeaderboardCatchesUp`, `EveryPayoutIsOffered`, `PaidIsNoLongerOffered` |
| `keeper_stranded`, `keeper_voided`, `indexer_terminal`, `indexer_late_lock` | as above | four places where the code does not do what its comment says (section 4) |

Bounds, and why they are enough. Three bettors with one or two tokens give
three winners with unequal stakes, so rounding and the order of claims matter;
the sum of all funds (6) exceeds `MaxU64` (5), so every checked addition fails
somewhere. The four records are a mid-match record, the full-time totals
between two seconds, an archival correction and a record of another fixture.
`Deadlines` contains values at, before and after the locks, so `CreateMarket`'s
guard, resolve after the deadline and void before any evidence all occur. The
bettors are symmetric. In `keeper`, the deadline falls after both records and
before the clock's end; one crash at every point suffices for each recovery
path, since nothing but the database survives it. In `indexer`, three records
are a live one, a closing one and one after it, in any grouping. The in-play
market locks a second later than the other, before or after the end. The live
window is assumed open throughout. `StaleAfter` is an instant after which every market
has locked, as three hours after kickoff is; in `indexer_terminal` and `indexer_late_lock`
the clock never passes it, so that what they show is `apply`'s and the poll's alone.

In `engine`, the instants are the branches of the tick: beyond the horizon, a day
and ten minutes before kickoff, in play, after the match, past the deadline on the
next day, and past the listing on the day after that. `Shortfalls` is empty there, for
no property of the engine depends on what the fixture's row reports of the match. The match is moved once, by more than the lock lead, so a
lock can end up after kickoff. A single-leg and a composite template are the two
paths. One fault (a failed or half-failed call, a restart, a lost database) at
every point; a second would repeat a path, for nothing but rows and pools
survives. In `author`, the proposals are the catalog's home-win in other words,
two that share a slug, and a fourth, so that each kind of duplicate occurs; the
caps are 2 in play and 1 before the match (8 and 5 in the code), and answers of
2 exceed the second and reach the first in two phases. The instants are a day
before, the first half, and the moment after the match at which its last record in
play is no longer fresh enough to be believed, unless records without a status keep
coming. The phase of the second half does not occur there, since it behaves as that
of the first; the proofs cover it. `MCAuthor` also checks, as an assumption, every
template of the catalog against its question for all counts from 0 to 12 (the
theorem `CatalogAnswers` says so for every count). In
`tournament`, one semi-final and one outcome of the final are decided on
penalties, and the final's home team is participant 2; one fault is a failed
call, a lost record, an old score, a restart or a lost disk. In `board`, the
second record corrects the first within the dispute window, so the winner may
change before and after the row settles, and sides without a winner occur.

`CHECK_DEADLOCK FALSE` is set because these
systems end: the clock is bounded, and a paid market has no further steps.

Fairness. `Pool`: time passes; `void_market` is cranked once it is allowed
(the settler's tick does, every 90 seconds); a holder claims. No fairness for
resolve: proofs may never come. `Keeper`: the loop's `setTimeout` and awaits
return (weak fairness of the settler's step); a crashed process is restarted by
its platform; a void transaction that is sent again and again is answered at
last (strong fairness, as each tick passes through other steps). No fairness
for resolve, the indexer or other users. `Indexer`: microtasks run; the poll
comes round and not all of its calls fail (strong fairness, since repeated
records keep the loop busy). None for the stream. `Engine`: only its own steps; calls may fail until
the bound on faults, and time need not pass. `Author` states safety only.
`Tournament`: the start and the tick go on. No match has to end, no call to
succeed beyond the bound on faults. `Board`: time passes and `void_market` is cranked as in
`Pool`; the indexer's loop never ends, and its RPC does not refuse for ever
(strong fairness of `Fetched`: each tick asks again); a holder looks at the
page and presses the buttons it shows. `Keeper` also has the engine's sweep
come round while the row is missing.

Exceptions stated in the properties are behaviours of the code that TLC found
when they were left out:

* `SettledRowWasProved`, `SettledRowStays`: the receipt of a row rebuilt from the
  chain is made from the newest deciding record, which may not be the one the
  chain accepted, and the row then takes that record's winner.
* `LocksBeforeKickoff`: a match moved forward after creation leaves locks behind.
* `InPlayPoolsCanResolve`: a market authored in the last minutes locks at or after full
  time; as a record counts as live for ten minutes, it may even be authored after full time,
  and, when the last record had no documented status, until 150 minutes after the start:
  such a record keeps the live status of the row and renews its time.
* `RowsAgree`, `RowsCatchUp`: a status that `refreshStaleFixtures` wrote moves no market,
  and a finished one ends the poll.
* `PoolGetsItsRow`: the feed lists a match until a day or two after kickoff.
* `AiPoolsShown`: a pool whose proposal has the slug of another row stays without a row.
* `AiRowsCapped`: a match moved forward after in-play markets may, by a replayed record, look
  as if it were still to come, and pre-match markets follow; champion rows count against
  the cap, and are not bounded by it.
* `BoardTypeOK` bounds no profit: while fetches fail a row may be settled with totals that
  miss the last stakes; the next tick shares out the losing pool by those totals, and a
  profit may until the tick after be larger than all stakes together.
* `NoOnlyWhenOut`: a winner on penalties, or of a match whose score is missing or old,
  counts as out until its next fixture is listed; a semi-final or third-place
  match that is the only fixture listed is taken for the final.
* `LeaderboardCatchesUp`, `EveryPayoutIsOffered`: when nobody backed the winner the
  chain refunds, but the leaderboard counts a loss and the page says LOST; and a
  row superseded on chain is not read again.
* `MissedEndIsFound`: the workers never started, or the subscription ran out while
  they run; only a restart makes a new one.
* `PoolsSharedByAdoptionOnly`: the engine adopts an AI market's pool for its own row, and two
  rows then share one account.

## 4. Where code and comments disagree

* `keeper_stranded`: the seed at startup (`settler.ts:344`) finalizes every void
  row past its deadline, "its on-chain void is done or moot". A row voided early
  whose deadline passes while the process is down is never voided on chain.
* `keeper_voided`: `MarketNotOpen` is read as "Already void on-chain"
  (`settler.ts:323`). A resolved market answers the same, so a lost confirmation,
  or somebody else's resolve, ends as a void row over a market that pays winners.
* `indexer_terminal`: "Finished is terminal" (`indexer.ts:35`), but two records in
  one chunk are applied concurrently and the second writes back the live status
  it derived from the row as it was. The poll repairs it.
* `indexer_late_lock`: the poll exists so that markets do not stay behind when the
  stream loses records (`indexer.ts:176`), but it ends with the fixture's finished
  status; an in-play market that locks later and misses the records after its
  lock stays `Locked` until it is voided, although they would settle it.

Others were met and have no run of their own. Some are the exceptions listed in section 3.

* `main.ts:58` says that workers retry after a failed start, and nothing retries
  (`BootWithoutWorkers` and `BuildContextThrows` are final until the next start,
  which is why `RowIsClosed` and `MissedEndIsFound` except it).
* With two in-play markets the extra await for a notification lets one record's
  writes overtake another's (`indexer.ts:105`): when an interrupted-match record
  and the closing record come in one chunk, a market may stay `Locked` although the
  comment on the poll promises otherwise. `Indexer` has the steps; the instance of the runs does not.
* `afterResolve` says "the chain already verified it for pool markets"
  (`settler.ts:195`); for a backfilled receipt it verified another record, perhaps.
* Recovery takes the evidence time for seconds (`autoMarket.ts:58`); the program
  stores milliseconds.
* The author's duplicate check extends its list of slugs, but not of rules, within
  one answer: two tournament markets on the same team can come from one answer.
* An AI pool whose row was not inserted (a crash, a lost confirmation, a slug already
  taken with `onConflictDoNothing`) is never listed; AI rows are not rebuilt after
  a lost database.
* The refreshed session is saved with the old subscription's signature
  (`txline.ts:46`); nothing reads it.
* `disputeUntilTs` of a row is never set by the settler, so the page offers claims
  that the program still refuses; and a row that is void before its market offers
  a reclaim that fails. The button stays, and works later.

## 5. Proofs

The theorems hold for all values of the constants that satisfy the named assumptions of
the modules: any finite set of users, any records, feeds, catalogs of defs from the
templates, proposals and answers, brackets of a knock-out, any caps, instants and number
of faults. Each component has an inductive invariant, a conjunction of named parts at the
end of its module; TLC has checked each on the instance of its run before it was proved.
A proof has one lemma per action (`DepositKeepsIInv`, `CreateHolds`, ...) with a step per
part that the action can disturb, a theorem `...Invariance`, and the properties of the
runs as consequences.

**The program (`PoolProofs`).** Assumptions: finitely many users; natural
amounts and times; a positive dispute window; records have natural times.

* `Invariance`: `Spec => []IInv`. `TypeOK` and `Solvent` are not inductive: after some
  claims the balance must still cover the rest, which depends on what was paid. `IInv`
  adds that the pools are the sums of the stakes, that nothing is paid before the outcome
  is final, that the vault is full until then, and that afterwards the unclaimed winning
  stakes times both pools are at most the vault times the winning pool (or, for refunds,
  that the vault is exactly the unclaimed stakes). A claim keeps that by the inequality of
  floor division (`FloorDivision`, `PayoutKeepsBacking`). `DustBounded` is the same from the
  other side: the vault keeps at most the unclaimed shares and less than one unit for each
  winner already paid. `ProvedByThePast` ties a resolved market to a record that was
  provable and not in the future.
* `TypeCorrect` and `Solvency` follow: each unclaimed share is covered
  (`RefundIsCovered`, `ShareIsCovered`), so no claim fails on the vault or overflows.
* `NoDustBeyondRounding` (`NothingStranded`): when everybody due is paid, less than one
  unit per winner is left, and nothing of a refunded market.
* `SettledByFinalTotals` (`FullTimeDecides`): a market on the whole match settles as a record of
  the final totals says, one that lies in the past.
* `NoStakeAfterEvidence`, from the lock and the evidence guard across the two units of
  time. `NoRollback`: the winner changes only on newer evidence, within the window and
  before a payment.
* `Refinement`: `Spec => KeepsContract`. Each instruction is a step of `MarketContract` or
  leaves it alone, under the mapping `Phase`; a time step may close the contract's window.

The lemmas on totals come first: adding to one stake, removing a position, splitting by
side.

**The server beside the chain (`KeeperProofs`, `BoardProofs`).** Both reuse the program's
lemmas, since their chain is `Pool`.

* `KeeperInv` adds to `IInv` what is true in the middle of the settler's work: a row it
  works on may at most become void under it (`RowIsHeld`), and what it is about to record
  has been accepted, though newer evidence may have been since (`RecordsWhatWasAccepted`).
  From it: `KeeperTypeCorrect`, `SettledRowsAreProved`, `NoOpenMarketGivenUp`, and
  `SettledRowIsLeftAlone` as an action property. The proof attempt showed that a rebuilt row
  needs the history field `recovered`: without it nothing tells why the row is settled.
* `BoardInv` adds that a row never shows more stakes than the chain (`RowTrailsChain`).
  `BoardTypeCorrect` includes that the mirror never shows a claim that was not paid;
  `VolumeGrows` is `HistoryVolumeGrows`.

**The catalog (`MarketsProofs`).** `CatalogAnswers`: for every def of `classAMarkets` and
all counts of a match, the conjunction of its legs is the answer to the question of its
slug. The same module has the lemmas on pools, rows and the fixture's row that engine and
author share. `WorldTypeOK`, `FixtureFollowsFeed`, `PoolsWellMade` and `RowsWellMade` are
their parts of the invariant: the fixture's row knows a start that was announced, once it
reports play the match has begun, since a match that has begun is no longer moved, and the
status is that of the record's time, as long as the record had one (`told`). `RowTellsItsPool`
is inductive as it stands with these; it speaks of a pool's being resolved, not of its winner.

**Engine (`EngineProofs`).** `EngineInv` adds what a tick holds across its waits
(`TickHolds`: the def it looks at, the start it read, a pool on its terms). From it
`EngineTypeCorrect`, `RowsTellTheirPools`, `PoolsLockBeforeKickoff` and
`RowsAnswerTheirQuestions`, the last for every count and not only for those a run reaches.
That a tick finds the first missing def needs the least element of a set of naturals,
which is proved from the finiteness of initial segments (`LeastNatural`), since an
induction rule takes an operator for its parameter.

**Author (`AuthorProofs`).** `AuthorInv` adds what the author read before it asked
(`AuthorHolds`: the number of AI markets is still at least the number there are, the match
had begun and, where the row's last record had a status, was on or just over), that each AI
row has a pool of its own (`AiRowsWellMade`), and that without faults a pool of the author
is on its way to a row or has one (`AiPoolsShown`, inductive together with the rest). From
it `AuthorTypeCorrect`, `SharedByAdoptionOnly`, `AiRowsWithinCap`, `InPlayPoolsResolvable`
and `AiPoolsAlwaysShown`. An attached champion market adds a row and a pool under the
author's feet only while its call is at rest (`ChampionAttachesInv`), and its id is never a
proposal's (`AiIdsApart`).

**Session and tournament (`TournamentProofs`).** `ServerInv`: the subscription just made has
not run out; a listed fixture's teams are known and a finished one's end is; an attached row
names its match, its team plays there, and the lead it asks for is its team's
(`ChampionFits`); while the tick waits for the model, a team it does not hold for alive
is out, or its win is one that the rows do not tell (`TickRemembers`). From it
`TournamentTypeCorrect`, `ChampionsWonOnGoals`, and as action properties
`SessionIsAccepted` and `NoMeansOut`. The assumption `KnockOut` says what a knock-out is:
who is not in the final loses a match that has to be over before the final is known.

**Indexer (`IndexerProofs`).** Any number of markets and of records in a chunk, feeds of any
length. Markets are assumed to be on the full game or on a half, which is all that the
server authors; a market on extra time would stay in play after a match that ended without.
`IndexerInv` says what holds between two microtasks:

* `InStep`, `ListsBeforeWrites`: the calls of a chunk are at the same await or at the next
  one, so that no row is written before all have listed the rows.
* `KickoffLocks`: if the fixture's row is live, by a status of `apply`'s, and a market that kickoff should have locked is
  open, a call is on its way that will lock it.
* `FinishedCovers`: if the fixture's row is finished, by a status of `apply`'s, no row is or will be put in play, or the
  call that wrote the status is the last to list (`ListsLast`), or it is the last to write
  (`WritesLast`): whatever row another call will put in play, this one writes too, and it has
  no fewer writes before it (and more, if its turn comes first). That a record of the finished
  match writes every row that one of a match under way would is `FinishedWritesMore`;
  a call that puts a row in play inserts no notification, which would delay its later writes
  past the other's. Only a call that locks inserts one, and so the overtaking of section 4
  leaves a row `Locked` and never `InPlay`.
* `OverWasReported`: a final status anywhere has a record behind it.

`IndexerTypeCorrect`, `WaitsOnlyWhenOver` and `RowsAlwaysAgree` follow.

Only model-checked is liveness, which is out of the prover's reach with `ENABLED`:
`EveryStakeIsSettled`, `MarketIsDecided`, `RowIsClosed`, `FixtureCatchesUp`, `RowsCatchUp`,
`PoolGetsItsRow`, `MissedEndIsFound`, `LeaderboardCatchesUp`, `EveryPayoutIsOffered`,
`PaidIsNoLongerOffered`.

Induction over data is out of the prover's reach too; no module here needs it, for none
declares a recursive operator.

## 6. Not modelled, and what is left

Not modelled, and why:

* Rent, address derivation, account validation and the encoding of terms and proofs belong to
  Anchor; addresses and hashes stand for what they are made from. The IDL modules
  are generated.
* `intents.ts`, `faucet.ts` and the scripts (probes, seeding, manual runs) are not part of the
  running system.
* Notifications, follows and evidence snapshots are written and never decide anything;
  scorers' standings feed a table that no market reads; explanation texts, prompts and the wording
  checks of questions, the event bus, read-only routes and the other pages have no
  influence on money or states.
* The rotation of API keys (`gemini.ts`) only decides whether the model answers; in
  `Author` it may always fail to.
* The rate-limit backoff of the settler only lengthens a wait, and the budget of
  three backfills in a tick only spreads them.
* The parsing of the event stream: `Indexer` may lose, repeat or regroup records
  whatever the parser does.
* A hard kill between two synchronous database statements, which needs the machine
  to stop within a turn of the event loop.
* Composite markets have no pool; `Engine` has their rows and `Catalog` their outcome.

What could follow:

1. A finding of its own for the overtaking of section 4. With two in-play markets
   that lock at second 1, an interrupted match (status 14) and no other market,
   TLC refutes `RowsCatchUp` on `Indexer`: the closing record's write is followed
   by the older record's `Locked`, and the poll has stopped. Adding the second
   in-play market and the interruption to the run `indexer`, with that case
   excepted, holds but needs more than three times its states.
2. Two markets in one tick of `Keeper`, which share the deciding-record cache.
3. Proofs: the safety facts that the liveness properties rest on, as that a call with
   writes left has a first one, so that `WriteRow` is never blocked.
