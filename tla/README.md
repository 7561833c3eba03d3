# Ollie in TLA+

A verification project kept beside Ollie: what the orchestrator does between a
bar and the public record of a trade, and the services around it, modelled in TLA+, model-checked with TLC
on small instances, and proved with TLAPS for every instance. Paths below are
relative to `src/backend/src/` unless they start with `docs/` or `src/`.

## 1. Inventory

Ollie is a single TypeScript process (`index.ts`) over one Postgres database,
with a second, read-only process for subscribers (`signal-server/`). Every
component keeps its state in the database; in-process state lasts one request or
one cron firing. Concurrency is that of `async` code: a handler runs alone up to
its next `await`, and any other handler, cron firing, script (a separate
process) or owner request may run in between.

| Component | State | Operations | Correct when |
|---|---|---|---|
| Decision route `server/routes/signals.ts`, command line `scripts/decide-signal.ts`, autonomy sweep `orchestrator/autonomy.ts` | `signals.status` | reject, approve, confirm live, auto-approve | one decision per signal, whoever races; no approval that must not be |
| Executors `orchestrator/executor.ts` | `executions`, the broker's orders, `live_orders` | paper fill; live review, place, record | one fill per signal; never both modes; nothing past the kill switch; live gates |
| Settlement `executor.ts`, lot ledger `db/trackRecord.ts` | `track_record`, append only | open a lot; select and close lots; mark | every lot behind a filled buy, closed once, by a filled sell of its symbol, for no more than it sold |
| Order poll `orchestrator/orders.ts`, `db/liveOrders.ts` | `live_orders` | read orders back, record the fill, settle, publish | each broker fill recorded once, with its lot |
| Publication `db/signals.ts`, `orchestrator/publish.ts` | `signals.published`, `published_at` | publish after a fill; sweep what was missed | only filled signals, each of them eventually, never withdrawn |
| Pipeline `orchestrator/pipeline.ts`, risk gate `risk.ts`, positions `paperPositions.ts` | `signals` | propose; expire | caps hold; no duplicate; nothing pending for ever |
| Strategy `orchestrator/strategy/` | none (pure) | indicators, entry, exit, time stop | exits take precedence; sized to the holding |
| Settings `db/settings.ts`, `server/routes/settings.ts` | `app_settings`, one row | kill switch, mode, autonomy | read again where it matters |
| Marks `orchestrator/marks.ts` | mark rows | one mark per lot and day | no lot marked twice a day; a closed lot stays closed |
| Statistics `trackRecordStats.ts`, the record route of `signal-server/routes/feed.ts` | none (read from `track_record`) | totals and curve; positions, marks and openings | a past point does not move; no lot counted twice; the parts of one report agree |
| Scheduler `orchestrator/scheduler.ts` | cron timers | six jobs | a failed firing stops nothing |
| Broker connection `orchestrator/robinhood/` | one shared MCP client, OAuth state | call, retry, reconnect, refresh | one order per `ref_id`; one attempt to connect; the rotating refresh token is not lost |
| Push `orchestrator/push/`, `db/devices.ts` | `devices` | register, notify, prune | a device that works is not forgotten |
| Subscriber server `signal-server/` | `subscribers`, tokens, acceptances, sessions | sign in, accept, issue, revoke; feed pages | no data without the current disclaimer; no published signal skipped |
| Backtest `backtest/`, `money.ts` | none (pure) | simulate, summarise | never sells part of a lot; every proposal accounted for |
| iOS app `src/ios` | none of the record | client of both servers | not modelled |

How they interact: the pipeline inserts `pending` signals; a handler moves one
to `approved` (`transitionSignal`), picks the executor by the signal's own mode,
and the executor writes the execution, then the ledger rows (`settleLots`); the
handler publishes. A live executor only places the order; the order poll does the
rest when the broker reports the fill. Expiry, publication, marks and autonomy
are cron sweeps over the same rows.

The hard behaviours are therefore the gaps between two awaits: two deciders of
one signal; the kill switch flipping after it was read; a crash between the
execution and its lot, or between the fill and its publication; two exits of one
symbol selecting the same lots; settings that change between proposal and
execution; cron firings of one job that overlap, because their callbacks return
`void` and `protect: true` never sees them running; caps computed from reads at different
moments; pages cut between rows of one instant; a request that was verified before a
revocation; a refresh token that rotates at every use. `PROJECT.json` lists each
hazard at its line, with the property about it or the plan for one.

## 2. Plan

All of the plan's modules are written.

1. **`SignalRecord`, `Decisions`**: proposal, decision, execution, settlement,
   publication, expiry, settings; refinement of the record; proofs.
2. **`LiveOrders`**: the broker's order, failures and crashes at every await, lost
   answers of a placement, polls that overlap; settlement in the end; proofs.
3. **`LotLedger`**: rows with their instants, marks, the newest-row rule, the time
   stop's age; proofs. **`TrackRecord`**: the figures and the report read from those rows;
   proofs.
4. **`RiskGate`, `Pipeline`**: the caps as a function; runs that overlap, each read an
   await, among decisions and settlements; proofs, of the gate and of the caps over runs.
5. **`Feed`**: keyset pages against publications that keep arriving; proofs.
6. **`Subscribers`**: sign-in, consent versions, tokens and their revocation; proofs.
7. **`Connection`, `Push`**: the shared session, its retry, the rotating credential;
   device pruning; proofs.
8. **`Backtest`**: the replay over the same gate; proofs.
9. **`Sums`**: what a sum over a finite set is, for the proofs of 1 to 4 and 8.

What could follow: `Feed` with the `since` of the agents' tool; the session calendar of
the scheduler; liveness of the broker connection; and a proof that the lots of
`LotLedger` implement those of `Decisions`.

## 3. Modules

### `SignalRecord` — what is promised

No processes: a signal is proposed, decided once, filled only if approved, shown
only if filled, a lot opens behind a filled buy and closes behind a filled sell,
and nothing is taken back. Its decision and visibility rules are those the
database triggers enforce
(`prisma/migrations/20260915020000_live_orders_and_autonomy`); the others are
enforced by nobody but the order of the code's steps.

### `Decisions` — what the code does

State: the columns of `signals` that control anything (`status`, `mode`, `auto`
for a non-null `auto_decide_at`, `qty`, `published`); the number of `executions`
of a signal (`execs`); the ledger, as the size of the lot a signal opened (`size`)
and the sells that appended a closed row to it (`closers`); the broker's order per
`ref_id` (`broker`) and the `live_orders` row (`order`); the three settings; the
pipeline run in progress; and where each handler stands, with its local variables.
`approvedBy` and `halted` are history variables, read by properties only.

One action is one await of one handler. `Requests`, `Clis` and `Sweeps` are the
decision requests, `decide-signal.ts` runs and autonomy firings that may be in
flight at once; an idle one may start again. A request goes through `Preflight`
and `PreflightLots`; the command line through neither; a sweep through the second
only, after `FireSweep` (its gates, read once) and, an await later, `ListDue`. All then share `Transition` or `LoseRace`, `AssertKillSwitchOff`, and one of

- paper: `SelectLots` (sells), `RecordExecution`, `SettleBuy` or `SettleSell`,
  `CheckLots`, `CommitClose`, then `Publish` (not the command line);
- live: `LiveGates`, `LiveLots` (sells), `PlaceOrder`, `RecordPlaced`.

`Abort` stops a handler at any await: an error, or the death of the process. The
pipeline is `RunPipeline` (settings frozen), `ReadPositions`, `InsertSignal`,
`EndRun`; the sweeps are `ExpireSignal` and `SweepPublish`.

Abstractions, all of which only add behaviour:

- no clock: an approval or a veto window may close at any step;
- the order of a symbol's open lots is any order, so a selection is any set that
  the first-to-last rule of `selectLotsToClose` can produce for some order. Marks
  move `recorded_at`, so the real order does vary;
- `closeLots` is a read step and a commit step: that is what READ COMMITTED with
  no row lock allows;
- `KILL_SWITCH` in the environment and the column are one switch;
- a live signal may be proposed at any size up to `MaxShares`, because it is sized by the
  broker; so may a buy. A paper exit has no such bound: it is as large as the lots held.

And two limits: one pipeline run at a time, and live fills stop at the placed order:
what happens from there on is `LiveOrders`.

### `MCDecisions`, `Decisions_proofs`

One symbol with some buys and sells, for TLC; and the proofs.

### `LiveOrders` — from a placed order to its fill in the record

It starts where `Decisions` ends: each signal is approved and live, and its executor
is past its gates (`executor`: ready, sent, done). State: the broker's order
(`broker`: state and cumulative quantity); the `live_orders` row (`row`: what was
last written, and whether `terminalAt` is null); the shares in the signal's
`executions` rows (`recorded`); the lots (`size`, `open`, `closers`); `published`;
and for each firing of the poll in flight its place in `pollOpenOrders` and its
local variables: the orders still to read (`todo`), the one at hand (`job`), what the
broker answered (`seen`) and the lots a sell selected (`chosen`).

Firings overlap: the cron callback returns while its poll is under way, so a poll slower
than a minute runs beside the next. Two history variables, which no guard reads, say what
they shared: `listedTwice` has the orders that a firing listed while another had still to
read or finish them, `heldTwice` those that two firings were at work on at the same time.
What a property cannot say of such an order it says of every other one.

| Action | Code (`orders.ts` unless said) |
|---|---|
| `PlaceEquityOrder`, `RecordPlacedOrder` | `executor.ts:275-293` |
| `Trade`, `EndOrder` | the broker: more is filled; cancelled, rejected, failed, voided |
| `FirePoll` | `listOpenOrders`, 45 |
| `GetEquityOrder`, `GetEquityOrderFails` | 55-69 |
| `UpdateOrder` | the first write, 75-90 |
| `FillUnpriced` | 91-98 |
| `ListExecutions`, `RecordExecution` | 107-119 |
| `SettleBuy`; `SettleSell`, `CheckLots`, `CommitClose` | `settleLots` 121-135, `closeLots` |
| `PublishSignal`, `PublishFails` | 137-143 |
| `StampTerminal` | 159-171 |
| `AbortPoll`, `LoseExecutor` | an error that leaves the handler, or the end of the process, at any await |
| `SweepPublish` | `publish.ts` |

The broker may trade between any two of these. A placement is answered with a working
order; one that is rejected at once is one that ends before it is first polled. Open
orders are read in any order (the code: oldest first), and a selection of lots is any
the first-to-last rule can give. `MCLiveOrders` gives it one symbol, and starts on a day
with one order, or with two and no faults left.

### `LotLedger` — rows, instants and what is read from them

`Decisions` and `LiveOrders` have lots that are open or closed; here they are rows.
State: the `clock`; the rows of each lot (`rows`: entry, mark or closed, `recorded_at`,
and `quantity`, 0 for NULL); the newest of them (`latest`, which is what `DISTINCT ON`
returns); the fill of each buy and how far its handler got (`fill`); each exit, first as
the pipeline run that proposes it and then as the handler that settles it (`exit`,
`wanted`); and each firing of the mark job (`marker`). `dueTwice` is a history variable: the lots that
a firing found without a mark of the day while another was about to insert one.

| Action | Code |
|---|---|
| `FillBuy`, `OpenLot` | `filledAt` and the execution; the first row, `executor.ts:127-140` |
| `FireMark`, `ListLots`, `CheckMark`, `AppendMark`, `EndMark` | `marks.ts`: `now`; the list; `hasMarkForDay`; the insert; the end, or death, of the firing |
| `ReadPositions` | the bars and `paperPositions`, `pipeline.ts:108-129` |
| `EvaluateExit` | `listOpenLots` and the rules, `pipeline.ts:131-210`, `strategy/exits.ts` |
| `FillExit` | approval and execution, whole or (live) in part |
| `SelectLots`, `CheckLots`, `CloseLots` | `selectLotsToClose`; `closeLots`, its reads and its commit |

Every row carries an instant taken before the awaits that lead to it, so rows arrive in
any order of their instants; `Append` keeps as newest the one with the greatest, and
either of two with the same, because ids are random UUIDs. Any lot may lack a quote. A
firing that finds the system halted or no lots is one that ends early. The bars
and the positions are read in one step; the bars are in fact older, which only makes
an exit less likely. Entries are approved and filled without the rest of the decision,
which is `Decisions`. `MCLotLedger` gives it one symbol and two days with a bar, and
firings of the mark job one at a time among fills and exits, or two at once over one lot.

### `TrackRecord` — what is published of the rows

State: the table (`written`), a subscriber's request with what it has read so far
(`report`), and `touched`, a history variable: the lots that were written to since it read
the table. `computeTrackRecord` is operators on a set of rows: `LatestRow`, `ClosedLots`,
`Realized`, `Curve` with its points and `Stats`. The reads of `readSubscriberTrackRecord`
are steps: `ReadRows` for the statistics, `ListPositions`, then `ReadMark` and
`ReadOpening` of each position in any order, `SendReport`. The writers are `OpenEntry` and
`Follow`: the first row of a lot is its entry, then marks and closes at any instants, even
after a close, since that is what `LotLedger` found they do. `at` is the place of a row in
the order of `recorded_at` and id, so no two rows share one. Results are whole numbers;
the win rate, the average return and the start date are left out. The owner's route
computes the same figures from its single read.

`MCLotLedger` runs `LotLedger` and `TrackRecord`, which share no variable, one at a time:
its `TableSpec` has one more variable, which the initial state chooses, and which also
chooses between the two scenes of `LotLedger`.

### `RiskGate` — the caps as a function

`ApplyRiskCaps(candidates, in)` is `applyRiskCaps` of `risk.ts`: candidates in the order
of their symbols, `Passes` the rules each must meet, `Charge` what an accepted one takes of
the caps, `Tally` the running sums. Money is whole cents at one price per symbol, so the
estimate of a review, the quote and the last close agree; `Pipeline` and `Backtest` use it.

### `Pipeline` — runs among everything that changes what they read

State: `mode`, `day`, what the last bar of each symbol fires (`fires`; `"unseen"` until a
run looks) and which bars changed their mind (`moved`); the signals, each a row from
`pending` to its open or closed lot (`status`), with the instants the code reads
(`created`, and `stamp` for the newest row of its lot); each run's place and local
variables; and `overlooked`, a history variable.

| Action | Code (`pipeline.ts` unless said) |
|---|---|
| `StartRun` | `now`, 68: the day the run's slots are counted of |
| `ReadSettings` | the kill switch, 81-101 |
| `ReadBars` | `getHistoricals`, 103-112: the last bar is of the day it is by then (`bar`) |
| `ReadPositions` | paper or broker positions, 114-129 |
| `EvaluateSymbols` | `listOpenLots`, the rules, the time stop, 131-214 |
| `FindExistingKeys` | the dedupe read, 216-228 |
| `ReadPending` | `listPendingSignals`, 230-231 |
| `ReadQuotes` | `getQuotes`, and what both are worth, 233-243 |
| `Gate` | `countSignalsSince` and the caps, 245-274 |
| `ReviewFails`, `InsertSignal`, `SkipDuplicate` | the loop over accepted candidates, 276-373 |
| `EndRun`, `Abort` | 375-396; an error caught by the scheduler |
| `Approve`, `Drop`, `Trade`, `OpenLot`, `CloseLots`, `Mark` | what the other modules have in detail, a step each |
| `NewDay`, `BarMoves` | the next bar; a bar that is still forming (of the symbols in `Forming`, a bound) |

Each run happens once, and two of them may overlap in any way: the command line is another
process, and the scheduler does not keep its firings apart. `overlooked` records how a run
came to miss part of the exposure: a buy approved between its two reads (`"decided"`) or
already decided and not yet held at the first (`"inflight"`), a holding or a pending signal
without a quote (`"unquoted"`), another run past its own reads (`"overlap"`), or a pending buy of the same
symbol, which the position cap does not count (`"pending"`). The cap properties say that
nothing else breaks them. `"decided"` and `"inflight"` are what the code's order of reads
gives up; the rest is what its comments accept.

`MCPipeline` gives it two symbols of different prices.

### `Backtest` — the replay

One step is one day of the timeline: fills at the open of what was approved the day before
(`Opened`, `Closed`, `TradesOf`), then the rules on the bars through this day (`History`,
`Evaluate`), then the gate and any subset of it approved (`Accepted`, `Replay`). A bar may
be missing or interpolated. `Throw` is the error for an exit that would split a lot;
`Finish` the end of the data. `CoveredStreaks` is the one part of the report with a loop of
its own, over the days that could be evaluated (`Evaluable`, a filter). A replay is
synchronous, so nothing interleaves: what can go wrong is the day between a proposal and
its fill. The assumption on the constants says what the code's rule tables do: entry and
exit rules differ, and neither is the time stop. `MCBacktest` has two symbols, one of which fires entries of
two sizes.

### `Subscribers` — accounts of the signal service

State: `users`, `accepted` consent rows, `tokens` (with the version and the token of the
request that minted each, which no column holds), the disclaimer texts the live processes
were built with (`served`), and what each request is doing. A handler is one database call
a step: `SignIn`, `FindUser`, `CreateSubscriber`, `MintToken` (`POST /session`);
`Present` (`requireSubscriberToken`), then `AcceptDisclaimer`, `CheckConsent` and
`MintToken` (`POST /mcp-tokens`), or `FindOwned` and `RevokeToken` (`DELETE`). `Deploy`
starts a process with another text beside the old one, `Retire` ends one with its requests.

### `Feed` — publication instants and a reader

State: the clock; what is filled; the instant the decision route is about to publish with
(`stamp`); `published_at`; a sweep with its one instant; and a walk of the pages. `Ask`
takes `now` and `RoutePublishes` lands it, later or never; `StartSweep` and
`SweepPublishes` do the same for a backlog. `ReadPage` is `readFeed` with the cursor it
handed out. `due` is what was published when the walk began.

### `Connection` — one broker session, one rotating credential

State: `up`; the session (`client`), the shared attempt to open one (`connecting`,
`opening`), the resolved `account`; each call's place in `McpBrokerAdapter.call`; the
broker's `orders`; and the refresh token as stored and as the broker honours it. `Boot`
seeds the row (`bootstrapOAuthState`) and `Shutdown` loses what was in memory. `Begin`,
`Connect`, `Opened`, `OpenFails`, `Wake`, `Reaches`, `AccountResolved`, `NextBatch`,
`Answered`, `CallFails` are the retry loop; `Unauthorized`, `LoadTokens`, `Refresh`,
`RefreshFails`, `LoadRow`, `SaveTokens`, `SaveFails`, `LoadVerifier`, `SaveVerifier` the
provider of `oauth.ts` inside any request, and `RowFails` an error of the database in it.
`Refresh` and `RefreshFails` stand for the MCP library and the broker's token endpoint: a
spent token is refused, and tried once more with what the store holds by then; another
refusal is passed on; and any other failure, one of `saveTokens` included, leads to a new
authorization. On that way the library has the provider save a code verifier, which is a
load and a save of the whole row, tokens too (`oauth.ts:193-199`), before the provider
refuses to open a browser (`GiveUp`). `lost` records that a rotation never reached the row,
`overwritten` that such a save put an older token back over a newer one.

### `Push` — device tokens

State: `devices` (the table), the environment a token works against (`home`), what is
`installed`, and each send of each dispatch. `Register`, `NotifyNewSignal`, `Settle` with
any answer `interpret` distinguishes, `DeleteDevice`, `DeleteFails`, `Stop`. `owed` is a
history variable: tokens registered where they work, when no older send was about to prune
them (`Condemned`: APNs has called the token gone, or the send went to the environment it
does not work in). A send that is on its way to where the token works excuses nothing.

### `MCServices`

The last four share no state, so one run explores them one at a time: the initial state
chooses the component.

## 4. What the runs check

| Run | Instance | Shows |
|---|---|---|
| `decisions_exits` | a request and a command line; two buys and a sell; up to two shares; paper | `TypeOK`, `OneFillPerDecision`, `PublishedIsFilled`, `PositionsAreBacked`, `ExitCoversWhatItCloses`, `HaltHolds`, `ImplementsRecord` |
| `decisions_live` | a request and an autonomy sweep; a buy and a sell; both deploy flags on | `LiveOrderIsGated` |
| `decisions_liveness` | a request and a command line; a buy and two sells; fair sweeps | `PendingIsDecided`, `FilledIsPublished` |
| `orders` | two firings, which overlap; an order of two shares with two faults, an entry or the exit of one; or an entry and an exit of one share each, without faults | `Inductive`, `FillRecordedOnce`, `LedgerMatchesFills`, `ExitCoversFill`, `PublishedIsFilled`, `RowNeverGoesBack`, `EndedOrderIsSettled` |
| `fill_without_lot` | one firing, one buy, one fault | `ClosedBuyHasLot` fails |
| `ledger` | two lots, of two shares and one; an exit; a firing of the mark job, again and again; three days, two instants in each. Or one lot of two shares and two firings that overlap. Or two lots, four rows at any of four instants of two days, a loss and a gain; a report, again and again | `TypeOK`, `MarkedOncePerDay`, `RowsCarryTheFill`, `TimeStopIsNotEarly`; `CurveStands`, `ReportAddsUp` |
| `time_stop_reset` | as above | `OldPositionIsStopped` fails |
| `closed_lot_reopens` | as above | `ClosedLotStaysClosed` fails |
| `pipeline` | two runs; two symbols; a rule of each side; two days, the bar of one symbol still forming; three signals; a lot of the day before or none; paper or live | `TypeOK`, `OneProposalPerBar`, `DailyCapHolds`, `ExposureWithinCap`, `PositionWithinCap`, `DueExitsProposed` |
| `backtest` | two symbols; four days, any bars | `ExitNeverSplits`, `SignalsAccounted`, `TimeStopWaits`, `StreaksMatchDays` |
| `services` | two requests of two subscribers, two texts, three tokens; three signals, pages of two, three instants; two calls, two attempts, two sessions, three refresh tokens; two dispatches to two devices | `CredentialFollowsConsent`, `AgentsCannotMint`; `WalkIsExact`; `OneConnectionAttempt`, `CredentialSurvives`, `OneOrderPerRequest`; `OnlyDeadAreForgotten` |
| `feed_ties` | as above | `EveryWalkIsComplete` fails |

**Bounds.** Races here are between two handlers over one signal or one symbol, so
two handlers of different kinds suffice for every pair of paths (a request beside
the command line in two runs, beside a sweep in the third). Two buys of different
sizes against one sell make a selection leave a lot out; one buy against two sells
makes two exits compete for a lot. `MaxShares` is 2 where sizes matter and 1
where only existence does. Each signal has its own row and lot, and symbols only
meet in a pipeline run, so one symbol loses nothing but the size of a run. The
proofs remove all of these bounds. Signals on one side, and requests, are
interchangeable; the run with fairness uses no symmetry.

In `orders` an order of two shares is what it takes to fill in part, grow after it was
seen, or be cancelled half filled. Two firings are what it takes to overlap; what they do to
one order does not depend on another, so one order is enough beside the scene where one
firing works on one of two orders and the other on both. `MaxFaults` bounds failed calls,
lost answers and crashes together; with two, each await fails in some behaviour, and so does
one of the retry or of the firing beside it. The system stops once every order is settled, so
deadlock is not checked there.

In `ledger` two instants in a day let a firing come again the same day, and the
next day's bar comes after either. `MaxClock` is the first instant of the third day, so a
position may see two bars while `MaxHoldingDays` is one. One lot of two shares can
fill short, and be too large for an exit; two lots can tie. One exit is enough: what two
exits do to a lot is a matter of `Decisions`. Two firings of the mark job meet over one lot, so the scene in which
they overlap has one. There too the system stops, when time does.
The report's four rows are an entry and a close beside a marked lot, or a mark before and
after one, and two days are a point that is past and one that is not.

In `pipeline` two runs are what it takes for one to insert between another's reads and its
insert; an order of either symbol costs two, which is the position cap, and the exposure
cap is two of them, so a second order of a symbol and a third of any must be refused; the
daily cap is one. Two days separate a lot's
opening from the bar its time stop counts, and one revision of one bar is allowed, while a
run is still to look at it, and only of the first symbol; days that would begin after the last run are left out, since
nothing is proposed any more. Exposure is what the book really holds (`Held`) and what is
pending or on its way: live, a lot whose sale the broker has made is gone although the
record closes it later, and the broker sells no more than is held. A lot of the day before
is one the gate would have let in. Three signals let an exit follow an entry while another symbol's entry is pending.

In `backtest` four days are a proposal, its fill, an exit and its fill, with a gap day
possible at each; `Warmup` and `MaxHoldingDays` are one. In `services` two requests
interleave at every call of theirs, and three tokens are an app token and two minted with
it; three signals and pages of two put a boundary between ties; two calls with two attempts
share an attempt, fail it and open another, with one refresh in flight while the other
call loads or writes the row back; two sessions are the one that fails and the one opened in
its place, and three refresh tokens let the seed be rotated twice. Two dispatches hold different answers about one device. There are no liveness
properties in these runs, and every system in them stops at its bounds, so deadlock is not
checked.

**Fairness.** `PendingIsDecided` and `FilledIsPublished` assume weak fairness of
`ExpireSignal` and `SweepPublish`, nothing of the handlers. Both are cron jobs that
the kill switch does not gate (the headers of `publish.ts` and `orders.ts` say why
an observer is not halted), and whose failed firing is caught and followed by the
next (`scheduler.ts:64-69, 82, 113`). A pending signal stays past its window until
it is decided, and a filled one stays unpublished until published, so each action
is enabled until it happens.

`EndedOrderIsSettled` assumes weak fairness of a firing of the poll, of its steps and of
the publish sweep. The job fires every minute of the session and lists whatever is open
(`scheduler.ts:121`), a firing is an async function that runs to its end unless a call
fails, and faults are bounded. Nothing is assumed of the broker: an order that never ends
is never settled.

### Where the code and its comments part

- `fill_without_lot`: the stamp waits for the fill to be recorded "so a crash between
  the two leaves the order open and re-polled" (`orders.ts:83`). The re-poll finds the
  execution and takes it for the whole of the work: the lot is never opened (or closed)
  and the position is in no part of the record.
- `time_stop_reset`: "when each symbol's oldest lot was opened, for the time stop"
  (`pipeline.ts:131`). The run takes it from `listOpenLots`, whose `recordedAt` is that of
  the newest row: the last mark. A position that is marked every day never grows old, and
  the promise that "every position eventually resolves" (`exits.ts:9`) fails.
  `lotOpenedAt` would have been the one to ask.
- `closed_lot_reopens`: a later row "must not resurrect the state it replaced"
  (`trackRecord.ts:75`). A mark of a lot that was listed before its close is an `open` row
  that may be newer than the closed one.
- `feed_ties`: the feed is "keyset-paginated on `published_at` so a page stays stable"
  (`db/signals.ts:165`). The cursor has no id, and the sweep publishes its whole backlog
  with one instant: what a page leaves of such a backlog is on no page.

Other gaps have no run of their own:

- Two exits of a symbol both find the lot ("an exit with nothing to close leaves no trace
  at all", `executor.ts:171`); the slower has recorded its execution when it looks again
  and finds nothing. And two closing transactions can both read a lot as open
  (`trackRecord.ts:203`), so it gets two closed rows. Both are behaviours of `Decisions`.
- `protect: true` (`scheduler.ts:17`) does not keep firings of a job apart, because the
  callback starts the job with `void`. Two firings of the order poll both find no execution
  and both insert one ("idempotent by construction", `orders.ts:25`); and the slower writes
  an older answer over a row that is stamped, and so opens it again, although "a terminal
  order is never polled again" (`orders.ts:26`). `LiveOrders` has these behaviours: where it
  must, a property leaves out the orders in `heldTwice` or `listedTwice`, and
  `EndedOrderIsSettled` says that the row of such an order too is closed in the end.
- Two firings of the mark job both find a lot unmarked and both mark it, although "an
  overlapping firing must not append a second mark for the same day"
  (`db/trackRecord.ts:237-239`, `marks.test.ts:107`): the check and the insert are two
  statements. `LotLedger` has it; `MarkedOncePerDay` leaves out the lots in `dueTwice`.
- "A rotated refresh token survives the process that received it" (`oauthState.ts:10-12`),
  but the row is saved whole: a call that gives up saves its code verifier together with the
  token it loaded an await before (`oauth.ts:193-199`), and so puts a spent token over one
  that another call has just stored. This is `overwritten` in `Connection`.
- "Oldest first" (`executor.ts:329`) orders lots by their newest row, so after a mark they
  tie, and a tie falls by signal id.
- The autonomy sweep reads the kill switch once (`autonomy.ts:50`), so signals it listed
  before a halt are still approved. None of them is filled: that is `HaltHolds`.
- A holding without a quote is skipped in the exposure, and "the candidate that needs that
  price is rejected separately" (`risk.ts:190`): the pipeline falls back to the last close,
  so it is not rejected. The position cap does not count pending buys of the symbol. Both
  are named ways past the caps in `Pipeline` (`"unquoted"`, `"pending"`).
- A time stop for shares that are all in working orders proposes none: the review refuses it
  (`Reviewed`), but it took a slot of the daily cap.
- The replay has no dedupe: a rule on an old bar is proposed again on each day the symbol
  has no bar.
- The loser of two first sign-ins of one subscriber gets a 500. No route revokes an app token.

## 5. What is proved

`Decisions_proofs` proves, for any finite or infinite sets of signals and handlers,
any symbols, both values of both deploy flags and any `MaxShares`, from
`ConstantsAssumption` alone:

| Theorem | States |
|---|---|
| `InductiveHolds` | `Spec => []Inductive` |
| `TypeCorrect` | `TypeOK` |
| `FilledAtMostOnce` | `OneFillPerDecision` |
| `PublicationIsBacked` | `PublishedIsFilled` |
| `LotsAreBacked` | `PositionsAreBacked` |
| `KillSwitchHolds` | `HaltHolds` |
| `LiveOrdersAreGated` | `LiveOrderIsGated` |
| `ExitsCoverWhatTheyClose` | `ExitCoversWhatItCloses` |
| `RecordIsImplemented` | `ImplementsRecord`, the refinement |

**Why `Inductive`.** None of these is inductive alone: that a signal is filled once
depends on where its handlers stand. `Inductive` places them. `ExecutorInv` says
what a handler past the transition may assume of its row (approved, the right mode,
its execution not yet or just recorded, and not halted unless it is still before its
first check); `OneExecutor` says an approved signal has one such handler, which the
status predicate of `transitionSignal` hands over; `AgendaInv` carries what a sweep
or a confirmed request knows up to the approval; `ChosenInv` says a chosen lot was
open once, of the exit's symbol; `SignalInv` says what survives the handler.

**The argument.** Most steps are *quiet*: one handler moves and no row changes.
`QuietStep` proves once that a quiet step keeps the invariant if the handler that
moved is licensed where it lands; every such action is then a corollary. The steps
that write rows are one lemma each: the transition (the only way in to
`OneExecutor`), the writes of an executor (`ExecutorWrite`, `LedgerWrite`: no other
handler can tell, because it executes another signal), the two sweeps, the pipeline
and the settings. What an exit closes is added up on top of that: `Covered` says that until
an exit commits no lot names it, that the lots it chose fit its size, and that the lots
ever opened are finitely many, so that their sizes have a sum. That a paper exit has a size
at all, which is such a sum, is `HeldInv`: the run has read only lots that were opened.
`RecordStep` maps each action to its step of `SignalRecord`, or
shows with `Unseen` that the record cannot see it.

`LiveOrders_proofs` proves, for any signals, quantities, number of faults and firings of the
poll, overlapping or not:

| Theorem | States |
|---|---|
| `InductiveHolds` | `Spec => []Inductive` |
| `FillsAreRecordedOnce` | `FillRecordedOnce` |
| `LedgerIsBacked` | `LedgerMatchesFills` |
| `PublicationsAreFilled` | `PublishedIsFilled` |
| `RowsAdvance` | `RowNeverGoesBack`, an action property |
| `ExitsCoverFills` | `ExitCoversFill`, from `Covered` as in `Decisions` |

Here `Inductive` says what a firing may rely on across its
awaits although the broker goes on trading and another firing may be at the same order. Of
any order: its answer is no newer than the order, and if it is terminal it is the order's last
(`AnswerInv`); past its insert, the fill is recorded (`SettleInv`). That is why lots and
publications are right whatever overlaps. Of an order not in `listedTwice` also that the row
is open (`AgendaInv`), and of one not in `heldTwice` that the answer is no older than the row,
that this firing is the one that records the fill, and that the lot is not there yet.
`ApartInv` is what makes the history variables say so: two agendas with an order in common
have it in the one, two firings at work on one order have it in the other. A step that leaves the record alone is quiet, as
above; `WriteRowStep` and `RecordingStep` are the two kinds of writes; `BrokerMoves`
covers the placement, the trades and the end of an order, which no terminal answer can
have seen.

`LotLedger_proofs` proves, for any lots, sizes, days with bars and instants, and for any
rows, results and readers of them:

| Theorem | States |
|---|---|
| `InductiveHolds` | `Spec => []Inductive` |
| `TypeHolds` | `TypeOK` |
| `SizesAreCarried` | `RowsCarryTheFill` |
| `MarksAreDaily` | `MarkedOncePerDay` |
| `TimeStopHolds` | `TimeStopIsNotEarly`, an action property |
| `PastStands` | `TrackRecordSpec => CurveStands`, an action property |
| `ReportsAddUp` | `TrackRecordSpec => []ReportAddsUp` |

Here `Inductive` is about what is read before an await and written after it: the quantity a
mark or a close holds of a lot (`MarkInv`, `ExitInv`) still says what was filled, and the
newest row is never older than the fill (`LotInv`). Two firings
that overlap do not disagree on sizes. For one mark a day, `DueIsUnmarked` says that a lot
which a firing has found due has no mark of that day yet, and `DueApart` that no other firing
has found it due too, both of the lots not in `dueTwice`. The time stop is never early because the two
mistakes it makes about age, a later opening and older bars, are in the same direction
(`BarsHeldMonotone`); that it may be late without limit is `time_stop_reset`. `TypeOK` asks that what an exit
wants is a number: it is a sum over lots, and `Counted` says that the lots with rows are
finitely many, however many signals there may be.

A point of the curve is a function of the rows through its day, so a row of a later day
leaves it alone; that is `CurveStands`, which needs no invariant. The report does:
`StillKnows` says that of a lot nobody wrote to, its place in the list and its mark are
still those of the rows the statistics came from, and that a mark that was read is a row of
its lot, which the opening, read after it, is not later than. `Ordered` is the order of the
rows that both rest on.

`Pipeline_proofs` proves, for any runs, symbols, rules, prices, sizes, caps and bounds:

| Theorem | States |
|---|---|
| `InductiveHolds` | `Spec => []Inductive` |
| `BarsProposeOnce` | `OneProposalPerBar` |
| `DueExitsAreProposed` | `DueExitsProposed` |

The dedupe key names the rule, so it alone does not give one proposal per bar. `BarsAgree`
does: everybody who has a proposal of a bar in hand, the bar itself, a run that has read it,
a candidate or a signal, has the same rule (`Says`), unless the bar was revised. It needs
`NothingAhead` for the day that begins, `KeysDiffer` for the insert, and `RunIsSound` for
what a run still knows; `DueIsKept` follows a due exit from candidate to row, through the
loss of a race to a run that proposed the same. `Shape` is the type invariant without the
sums: quantities range over some set that grows with the step, which is enough there.

`Caps_proofs` adds the sums. Of the gate alone, for any candidates and whatever the caller
counted, it proves `GateChooses`, `GateKeepsDailyCap`, `GateKeepsExposureCap` and
`GateKeepsPositionCap`; of the pipeline, for the same constants as above:

| Theorem | States |
|---|---|
| `CapsInvariantHolds` | `Spec => []CapsInvariant` |
| `TypeHolds` | `TypeOK`, quantities and sums included |
| `DailyCapIsKept` | `DailyCapHolds` |
| `ExposureIsCapped` | `ExposureWithinCap` |
| `PositionIsCapped` | `PositionWithinCap` |

The caps are not inductive: a run inserts what its gate allowed on sums it read several
awaits ago. `CapsInvariant` says what those sums are worth at each place a run can be,
as long as nothing was overlooked. `PositionsCover`: between its two reads, the positions
it has are no less than what is held and already decided. `CommittedCovers` and
`PositionCovers`: from the moment it has read the pending signals, while it waits for the
quotes and after, what it counted is no less than all there is, and what passed the gate still fits on top. `SlotsCover`: the slots it was given
were free on the day it counted from. Each step of anybody else, a decision, a fill, a sale,
a new day, another run's insert, then either leaves these sums no larger or is one of the
ways that `overlooked` names. `RunIsTidy` says that a run has one candidate per symbol, so
that their worth is a sum.

`Backtest_proofs` proves, for any bars, gaps, rules, approvals and timelines:

| Theorem | States |
|---|---|
| `InductiveHolds` | `Spec => []Inductive` |
| `ExitsNeverSplit` | `ExitNeverSplits` |
| `SignalsAddUp` | `SignalsAccounted` |
| `TimeStopsWait` | `TimeStopWaits` |
| `StreaksAreRuns` | `StreaksMatchDays` |

`QueueFits` is why no exit splits a lot: there is one order a symbol, and an exit is of the
whole position it will meet the next day, since a symbol that sells does not also buy.
`NothingAhead` keeps the lots and trades of a day apart from those of the days before.
For the streaks, `Tracks` is the invariant of the loop in `CoveredStreaks` after any number
of days (the streak is the covered days since the last one that is not, `Match` holds of the
runs before it), and the loop is a fold: `LeftFoldExists`, `LeftFoldType` and `LeftFoldWalk`
say that a fold over a sequence has a value after each element and what it is.

`Services_proofs` is about the four modules `MCServices` runs. It proves the invariant of
each, and from it:

| Theorem | States |
|---|---|
| `ConsentIsGiven` | `CredentialFollowsConsent` |
| `AgentsMintNothing` | `AgentsCannotMint` |
| `WalksAreExact` | `WalkIsExact`, from `FeedAssumption` |
| `AttemptsAreShared` | `OneConnectionAttempt` |
| `CredentialIsKept` | `CredentialSurvives` |
| `PlacementsAreSingle` | `OneOrderPerRequest` |
| `WorkingDevicesAreKept` | `OnlyDeadAreForgotten` |

Each invariant is about what is learnt at one call and used at the next. `StillHolds`:
the identity, app token and consent a request has found are not undone by anybody, because
the code deletes no such row. `CursorInv`: what is due and at or after the cursor has been
shown, if it ties with nothing, and nothing before the cursor has; a signal that lands late
changes neither, since what is due is published already. `AttemptInv`: the attempt in flight
has one owner, and all who wait, wait for it. `CredentialInv`: until a rotation is lost or
overwritten, the token in force is stored or held by one call that is about to store it, and
whoever else is refreshing holds a spent one. `PushInductive`: what is under way about a device that is owed
its place is a send to where it works.

`Sums` has what these proofs need of data. A sum of the community modules is a recursive
function on the subsets of a set, defined by a `CHOOSE`; `FoldExists` and `FoldUnique` show
that there is one such function, by well-founded induction on the strict subsets of a finite
set (`SubsetInduction`), and `SumType`, `SumAdd`, `SumUnion`, `SumSubset`, `SumPlus` and the
others follow. `CountingUp` is induction up to a number, `ImageCount` and `CountBoth` count
images and pairs. The inductions take the set of the cases that hold, not a predicate, so
that the provers can instantiate them.

**Only model-checked.** The three liveness properties (`PendingIsDecided`,
`FilledIsPublished`, `EndedOrderIsSettled`): the provers have no rule for fairness and
`ENABLED`. Every safety and action property that a passing run checks is stated by a theorem
above. The properties of the runs that expect a violation are false.

## 6. Not modelled

- The crossings of indicators over decimal prices (`indicators.ts`): which rule a bar fires is
  a free choice of the bar, so the models cover whatever they say, and not whether it is right.
- Averages, the printing of money (`money.ts`) and the money of the backtest's report: pure
  arithmetic on decimals, without order or state.
- Parsing and schemas of both servers and of the broker's answers, the mock broker, the thesis
  text and the review snapshot: content, no control.
- The broker's own rules, Apple's keys, APNs and the MCP library, beyond the answers listed
  with the actions that stand for them (`Trade`, `EndOrder`, `Reviewed`, `SignIn`, `Answers`,
  `Refresh`).
- Cron expressions and the session calendar: a job may fire at any moment, which is more
  than the code allows. Clock time in approval and veto windows, for the same reason.
- The iOS app and the OAuth authorization script, which run elsewhere. The script keeps its
  state in memory and prints the environment variables of the next deployment
  (`src/backend/scripts/authorize-rh.ts`); what a boot makes of them is `Boot`.
- The read-only routes and the agents' tools, including paging with `since`.
