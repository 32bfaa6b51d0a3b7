# TLA+ verification of the minute strategy

The program (`src/app`) watches one Binance symbol minute by minute, turns the
closed one-minute klines into signals, simulates orders that expire after a
fixed number of minutes, pays second-stage orders (18U) out of credits that
winning first-stage orders (10U) earned, keeps all of it in SQLite, and serves
a dashboard. A second process, the shadow optimizer, tries other admission
policies and may propose one as the new champion.

This directory holds TLA+ models of it, the TLC configurations that check them,
and proofs that TLAPS checks: the ledger of orders and credits across crashes,
failed transactions, restarts and symbol switches; the guards that decide which
orders it opens; the threads that bring the minutes; the selection of profiles
and its replay; the two processes of the shadow optimizer; the background
rebuilds of the profile summary.

    cd tla
    tlasany MonitorLedger.tla
    tlc -workers 2 -config MonitorSwitch.cfg MonitorLedger
    tlapm GuardedLedgerProofs.tla

## 1. Inventory

For each part: its state, its operations, what is hard about it, what makes it
correct, and where it is modelled ("choice" says that the models let the
environment choose its verdict).

| Part (source) | State | Operations | What is hard | What makes it correct | Modelled |
|---|---|---|---|---|---|
| Simulated account (`simulator.py`) | orders, next id, balance | open with credit, roll back, settle from klines | late settlement, rollback of the latest order only | the result is that of the expiry minute; a rollback leaves nothing | `Ledger`, `MonitorLedger` |
| Two-stage stakes (`stake_progression.py`) | credits `PENDING`/`CONSUMED`/`CANCELLED`, active second orders, capacity, activation time | assign, rollback, settle, cancel, reconcile | one credit, one order; capacity shrinking under orders in flight; switching off and on | 10U -> 18U -> 10U: each 18U order was earned by one won 10U order of its direction; no third stage; bounded reservations | `Ledger`, `MonitorLedger`, `DurableLedger` |
| Order policy (`order_policy.py`) | none (limits) | evaluate a candidate | counts are taken in memory, which restarts rebuild | capacity, direction limits, gap | `MonitorLedger`, `DurableLedger`, `GuardedLedger` |
| Durable ledger (`storage.py`: `orders`, `stake_progression_credits`, `stake_progression_runtime`, `wave_runtime`) | rows | open+credit+decision, settle+credit, cancel, prepare, wave snapshot | idempotent retries, stale snapshots, all-or-nothing | terminal rows stand; a refused transaction changes nothing | `DurableLedger`, `MonitorLedger` |
| Monitor state (`state.py`) | the above in memory, the queue of unwritten settlements, bootstrap flags, candidate | update, seed, reset, decide, block, open | every transaction may fail or be the last before a crash; a minute is retried | memory and disk agree; the queue drains; a recorded decision is not judged again | `MonitorLedger` |
| Market data (`market_data.py`, `binance_*.py`) | stream and REST threads, queue, cursor per context, retry buffer, pause flags | stream event, REST poll, consume, recover, mark and clear retry, pause, refresh, stop | stream against REST, retries, generations of a symbol | each minute once and in order, none passed over, the state catches up | `MarketData` |
| Symbol switch (`server.py` `/api/config`, `apply_warmup`, `history.py`) | symbol, generation | pause, reset, warm up, refresh | a reset that fails half way; a late warm-up; updates of the former symbol | nothing of one symbol reaches another | `MarketData`, `MonitorLedger` |
| Wave (`wave_state.py`) | anchor, pivots, state | analyse, advance, rebuild | hysteresis, restart from the snapshot | a second stage belongs to the wave of its credit | `GuardedLedger` |
| Wave batch guard (`wave_batch_guard.py`) | derived from the orders | evaluate | cooldown, then a single recovery order | one order at a time until one wins | `GuardedLedger` |
| Degradation guard (`profile_degradation_guard.py`) | derived | evaluate | losing streak, cooldown, one probe | one probe at a time | `GuardedLedger` |
| Result sequence and rolling edge (`result_sequence_guard.py`, `rolling_edge.py`) | derived | evaluate | windows over settled orders | no opening against a trailing streak or a lost edge | `GuardedLedger` |
| Time period, range policy, quality score, pulse shadow | none | evaluate | thresholds over numbers | | choice |
| Health guard (`profile_health_guard.py`) | derived | evaluate | four-hour boundaries | each settlement counts in the window it belongs to | `DailyProfiles` |
| Daily profile selection (`daily_profile_selector.py`) | row per day, row in force | build, save, fall back, activate | evaluated at 07:50, in force at 08:00; restarts, failures in between | a restart selects the same; two failed days before an exit | `DailyProfiles` |
| Profile admission (`profile_admission.py`) | none | rank, admit | three channels, one winner a minute | rests on what is recorded | `DailyProfiles` |
| Adaptive profile state (`adaptive_profile_state.py`) | per profile state; sliding window and trackers in the replay | classify, rebuild, advance | incremental state against a rebuild; shared decisions | the incremental state is the rebuilt one | `AdaptiveReplay`, `DailyProfiles` |
| Observations | open and settled observations | record, settle, restore | failed writes, late minutes | as above | `DailyProfiles` |
| Replay script (`scripts/replay_daily_profile_selector.py`) | schedule, timeline, book of orders | replay, trade, report | look-ahead | what comes later changes nothing earlier | `ProfileReplay` |
| Profile summary (`order_profile.py`, revisions, leases in `storage.py`) | revision, materialisations, branches, leases, rebuild jobs | schedule, claim, wait, write, carry over, promote, close | two processes, expiry of a lease under its holder | what is served as current is exact; it catches up | `ProfileSummary` |
| Shadow optimizer: experiment (`shadow_optimizer.py`, `shadow_runtime.py`, `shadow_storage.py`, `shadow_lifecycle.py`) | arms, cursors, coverage, schedule | batches, evaluate, promote, roll back, recover | a transaction per arm | an arm is what its batches make of it; arms compared saw the same | `ShadowExperiment` |
| Shadow optimizer: hand-over (`shadow_supervisor.py`, `state.py`) | champion, pending request, pending change, receipts | ask, apply at a flat moment or deadline, receipt, answer | two processes and a detached receipt thread | champion and policy in force agree; requests are answered | `ChampionHandover` |
| Decision context and audit | one row per candidate | insert, load for candidate | replay of a minute | a row is never contradicted | `MonitorLedger` (which candidate is recorded, and how it ended) |
| Entry structure shadow and its cache | cache, flights in progress | snapshot | single flight, reset meanwhile | nobody waits for a flight that ended | no |
| Asynchronous writes (`state.py`) | futures | submit, complete, close | failure after the caller went on | close waits for all | no |
| JSON response cache (`server.py`) | entries, flights | get or create, clear | a flight that began before `clear` | no answer older than the change | no |
| Storage capacity, schema | sampled sizes | sample, degrade | hysteresis | | its verdict, in `ProfileSummary` |
| Strategy, indicators, market sequence | none | analyse | numeric | | choice |
| Other backtest and research tools, dashboard, fear and greed, history files | | | offline or I/O | | no |

How they interact: stream and REST threads put klines into one queue; a single
consumer thread calls `update_from_klines`, which from its second half on holds
the state lock; HTTP handlers read snapshots under the same lock, and a symbol
switch pauses the consumer before it resets the state. Storage is called
synchronously inside the lock for orders, credits, observations and decisions. The
shadow process gets batches through a bounded queue and answers with requests that
the next update applies.

`PROJECT.json` lists the hazards at their lines with the properties that cover them.

## 2. Modules

| Module | What it models |
|---|---|
| `Ledger` | The ledger as a value, `[orders, credits]`, and the pure operations on it: assign, consume, roll back, earn, cancel, reconcile. Both what the process holds in memory and what the tables hold are such values. |
| `DurableLedger` | The abstract specification: the transactions SQLite can commit, and nothing else. |
| `MonitorLedger` | The running service around the ledger: memory, settlement queue, disk, crashes, failures, restarts, symbol switches. Its disk implements `DurableLedger`. |
| `GuardedLedger`, `MCGuardedLedger` | The ledger under the guards: each step is a transaction of `DurableLedger` with the wave and the results of earlier orders as further conjuncts. What `MonitorLedger` leaves to the environment is decided here. |
| `MarketData` | How closed minutes reach the strategy: stream, REST, queue, consumer, retries, and the symbol switch among them. |
| `AdaptiveReplay` | The adaptive state of a profile: computed at once, and event by event. Definitions only. |
| `DailyProfiles` | From observation to admission: settle, select, decide, crash, restart. Uses `AdaptiveReplay`. |
| `ProfileReplay`, `MCDailyProfiles` | The replay script beside `DailyProfiles`: the same definitions read from the other side. |
| `ProfileSummary` | The materialised summary and guard: revisions, leases, rebuilds of two processes. |
| `ShadowExperiment` | The arms of an experiment: batches, transactions, recovery, evaluation and promotion. |
| `ChampionHandover` | How a promotion becomes the policy in force: request, wait, receipt, answer. |
| `GuardedLedgerProofs`, `MonitorLedgerProofs`, `MarketDataProofs`, `DailyProfilesProofs`, `ProfileSummaryProofs`, `ShadowExperimentProofs`, `ChampionHandoverProofs` | The TLAPS proofs about the module of that name (section 5). `GuardedLedgerProofs` begins with those about `DurableLedger`, and `DailyProfilesProofs` ends with those about `ProfileReplay`. |
| `CommonLemmas` | What these share: a nonempty set of naturals has a least element, a bounded one a greatest; the places of a sequence after `Append` and `Tail`. |

The definitions named after a mistake (`EligibleAnyDirection`, `CommittedNever`,
`ReusesBehind`, ...) are not used by any specification. Each is a plausible
bug; put in the place of the correct definition it must violate the property
that `PROJECT.json` pairs it with. They show that the properties can fail.

### State and actions of MonitorLedger

| Variable | Code |
|---|---|
| `tape` | the closed klines; `tape[t]` is the close of minute `t` |
| `db` | tables `orders`, `stake_progression_credits` |
| `runtime`, `waveSaved` | tables `stake_progression_runtime`, `wave_runtime` (only whether a row exists) |
| `decided` | `decision_contexts`: what is on record, under the present runtime settings, of the candidates of the last minute |
| `mem` | `AccountSimulator.orders`, `TwoStageStakeProgression.credits` |
| `pend` | `_pending_settlement_events` |
| `bootReq`, `bootCancel` | `_wave_runtime_bootstrap_required`, `_wave_bootstrap_cancel_pending` |
| `config` | `enable_stake_progression`, `stake_progression_max_active` (capped by `max_open_orders`) |
| `cursor` | the cursor of the market coordinator |
| `pc`, `cand` | the point reached inside a handler, and the candidate under decision |
| `sent`, `legacy` | observed only: webhooks sent; credits that predate the first wave snapshot |
| `faults`, `switches` | bounds |

`update_from_klines` is one critical section, so only a crash comes between its
transactions. One action is one transaction, with its failure as an action of
its own, or the work in memory up to the next one:

    BeginUpdate -> BootstrapCancel -> PersistWave -> Flush* -> SettleInMemory* ->
    SettlementDone -> Flush* -> settle again (nothing due) -> decide
    decide: DecideWait | Replay | BlockByRange | JudgeCredits -> Block | OpenInMemory
    OpenInMemory -> SaveOpen -> Notify,  or SaveOpenFails (rollback)

Start: `PrepareStart` (`prepare_stake_progression`), `FinishStart` (rows read, credits
reconciled), `Seed` or `WarmupFails`. `ResetSymbol` loads the ledger again and keeps
`pend`; `LeaveSymbol` goes to another symbol, whose updates may still write the
queue (`FlushWhileAway`).

What the environment chooses: prices, whether the wave is stable, the candidate's
direction, which of its credits the wave withdraws, the batch guard's verdict,
whether some guard blocks and whether that is recorded, and whether the order may
use or earn a credit (within what the modes allow).

Derived and therefore not stored: `created_at` of a credit (its source's expiry),
`_processed_first_stage_order_ids`, `_active_second_order_ids`,
`_last_order_opened_at`. A signal key seen before lies in the same minute and
direction as an order in memory, which the gap refuses already. A failing
statement before the commit and an exception around the opening end in the same
rollback, `SaveOpenFails`. A crash is that of the process; SQLite keeps what it
committed.

### GuardedLedger

One minute is `Minute` (the wave advances and is saved; if the save fails the update
ends), `Settle` per expired order, then `Wait` (no candidate), or `Judge(k)` (the
credits the candidate may not use are withdrawn) followed by `Admit` or `Refuse`.
`Crash`, `Pass`, `Restart`: minutes go by while no process runs, and the wave saved is
walked over them. `note[i]` is what the row of order `i` says of its wave, selection version, batch
mode and probe; the guards compute everything else from the rows, as the code does.
`service` names what uses the ledger, a monitor with its settings or anyone (the bare
`DurableLedger`).

One threshold segment and one timeframe, so a profile is a setup of the rolling edge, which asks for
wins and for earnings (`EdgeGone`). The raw state of a
minute and the results are the environment's. Time period, range policy and health
guard are `Refuse`. The wave's first anchor (`_bootstrap_wave_anchor`) and
the fifteen bars it needs are left out; so are FAST orders, which the degradation
guard does not judge. The cooldowns are at least an order's life (`GuardAssumption`;
shipped: 60 minutes): with shorter ones the guards alone would not keep recovery
orders apart.

### MarketData

The threads are `Stream`, `Rest`, `Consume` and the HTTP handler `Switch`; `Tick` closes a minute.
What `_processing_lock` covers is one step; the download and the writing of the cursor
lie outside it and are steps of their own. A context `(symbol, generation)` is its
generation.

### DailyProfiles and ProfileReplay

`Settle`, `Select` and `Decide` are the three parts of an update, with `Crash` possible between
them; `Pass` and `Restart` follow it. A read or write that fails is a disjunct of the part it is in; one that fails outside the `try` of the
selection ends the update (`SelectRaises`). Day `d`
is evaluated at `d * DayLength` and is in force from `Activation` minutes later.
`ReplaySpec` has three tasks, chosen at the start: `monitor` (the service), `replay` (a history,
row by row, through the incremental window), `backtest` (a database, group by group,
under one of three policies). The databases hold what earlier versions may have left:
late settlements and decisions named twice.

### ProfileSummary

`SaveOpen` and `SaveSettled` are transactions of the trading process that move the revision
on and carry over or promote the guard. A rebuild of a store is `Claim`, `Wait`, `Input`, `Write` or
`WriteNothing`, `Release`, `Completed`. `LeaseExpires` takes a lease from under its holder, `FillsUp`
refuses what can be rebuilt. A summary stands for the snapshots it was computed from.

### ShadowExperiment and ChampionHandover

`ShadowExperiment`: `Tick`, `Start`, `Publish`, `Stop` are the monitor's side; `TakeBatch` or `AnalyserFails` (the analysis the arms share raises and freezes them all), `ArmTakes` / `ArmSkips` /
`ArmFreezes` (one transaction per arm), `EndBatch` (evaluation and activation) the
worker's; `Applied` and `Refused` the answer to a promotion, some time later. Whether the win-rate gates pass is a
choice. `taken` is observed: the batches an arm took.

`ChampionHandover`: the worker asks (`Verdicts`), the supervisor hands the request to the
monitor (`HandleRequest`), which applies it at once or waits until no order is open or the deadline has
come (`Minute`), a detached thread writes the receipt and sends the result (`Receipt`), and the
worker records it. Market events and verdicts are the environment's. `observed` notes a lost
receipt and overlapping receipt threads.

## 3. Properties and runs

| Run | Instance | What it shows |
|---|---|---|
| `durable_ledger` | anyone with 3 orders and 3 minutes; monitors with 4 orders in 7 to 9 minutes, batches of one or two orders, one selection or two; limits 2/1/2, `MaxActive` 1, 1 fault | `StakeProvenance` (the 10U -> 18U -> 10U rule); `ReservationBound`; `Capacity`; `TerminalRowsStand`; `RestAfterLosses` (after losses one order at a time until one wins); `SecondStageInItsWave` |
| `monitor_restart` | one direction, 3 orders, life 2, 5 minutes, progression on or off and `max_active` 1 or 2 at every start, 1 fault | `CreditsWithinSettings` across settings; `SettledAtExpiryPrice` however late; `DurableProvenance`; `OpeningsApart`; `MemoryMatchesDisk` wherever nothing is in flight; `NeverRefused` (the disk accepts what memory decided, and a start the rows it reads); also that nothing blocks |
| `monitor_switch` | one direction, 3 orders, life 1, 4 minutes, the wave may be unstable, 1 fault, 1 switch | `WebhookOncePerDurableOrder`; `RecordedBlockStands`; `ImplementsDurableLedger` |
| `monitor_live` | both directions, 3 orders, life 2, 4 minutes, 2 faults, 1 switch, fairness | `OrdersSettle`, `QueueDrains` |
| `market_data` | two symbols, minutes 2 to 4, downloads of two minutes, queue of two, 1 switch, 1 fault, fairness | `OneSymbol`; `KnownIsProcessed` (what is taken for known is the last minute processed); `OnceAndInOrder`; `NoGapAhead`; `CatchesUp` |
| `champion_handover` | two policies, deadline of a minute, 3 minutes, 2 requests, 2 experiments, a queue of one, 1 switch, 1 restart, 1 fault, fairness | `ReceiptBeforeChampion`; `ChampionAgrees`; `SwapsExpected`; `RequestAnswered` |
| `shadow_experiment` | three arms, days of two minutes, 6 minutes, 1 restart, 1 fault | `ArmIsItsBatches`; `PromotionsApart`; `LikeForLike`; `RetiredStays`; `RestartFreezesNone` |
| `profile_summary` | two processes, a window of two snapshots, 3 orders, one of them of the past, 1 fault, fairness | `CurrentIsExact`; `ClosedHoldsNothing`; `CatchesUp` |
| `daily_profiles` | two profiles, days of three minutes, 12 minutes, 2 observations, limit 1 lifted by a restart or not, 1 restart, 1 fault; histories of up to 6 rows; databases of up to 5 rows | `ReplayIsExact`; `ReplayIsCausal`; `RecalculationStands`; `DaysBeforeExit`; `ScheduleAgrees`; `AdmittedOnRecord` |
| `monitor_upgrade` | the wave may be unstable, 1 fault | violated: see finding 1 |
| `monitor_queue` | the wave may be unstable, 2 faults, fairness | violated: see finding 2 |
| `monitor_reset` | as `monitor_switch` | `MemoryMatchesDisk` violated: see finding 3 |

Each module states its types (`TypeOK`). They are no properties of the runs, which say more:
section 5 proves them, but for `ProfileReplay`'s, which TLC checked on these instances. `GuardedLedger` has `DurableLedger`'s; those of its guards are
`GuardTypes` in its proofs.

`ChampionAgrees` excuses what the model found to break it: a lost receipt; receipt threads that overlapped,
in any life, since a restart goes by their receipts; receipts whose times are not in the order they were
written (`Chronological`; within the bounds of the run they are); and an experiment of another life's
generation (`OwnGeneration`). The last takes two symbols, and an earlier life's overlap three requests and
two restarts: with bounds raised that far TLC finds either, and passes with both excused.

Why the bounds are enough.

- Ledger. Three orders are the least that make a source, its second-stage order and a
  competitor; a life of two minutes lets two orders of a direction overlap, and
  `monitor_switch` takes a life of one so that a second-stage order can win and a third stage would show. The
  minutes cover the life of the last order a run can open. One fault reaches every
  point of every handler; two (in `monitor_live`) let a failed write and a crash
  combine. One direction is enough where the two do not compete; they do in
  `durable_ledger` and `monitor_live`. Two prices make wins, losses and ties. The price in
  `monitor_live` is constant, so nothing wins there: credits play no part in that run, which is
  about orders and the queue. Its wave is always stable and no credit is ever pending at a
  start, which is the part of the code finding 2 does not touch. In the last minute,
  updates go on without moving the clock.
- Guards. Two losses are a streak and two batches a failure; four orders make a failed
  pair, a recovery order and the one after it. Reached: recovery orders of both directions,
  probes, second stages after a fault too, all verdicts of the guards (three results of a profile let the edge judge it,
and one win of them leaves the rate standing but not the earnings), orders whose expiry
  minute left the klines, a rebuilt wave, a new selection. Not reached: a second
  recovery order after the first one lost, and pending credits that a recovery order
  which is also a probe would keep (it takes two profiles of one direction).
- Market data. The archives end at any earlier minute, or are missing; with downloads of two minutes a
  minute can fall out of reach of REST, and the queue of two lets a batch of the old context
  wait behind another. The last minute is neither lost by the stream nor raised upon (`MoreToCome`): only
  the next one would make up for it.
- Hand-over. Two requests, two experiments and one restart are the least for a late
  result to meet a new experiment; the deadline of one minute can come before or after
  the orders close.
- Experiment. Six minutes are three days, evaluated at the first minute and activated at
  the second: room for a promotion, its rollback and another. A third arm tells "retired" from
  "champion".
- Summary. With a window of two, the fourth order pushes the oldest sample out; two
  open orders give a branch and its successors.
- Profiles. Days of three minutes separate evaluation, activation and the rest of the day. Twelve
  minutes are four days: the exit takes two failed ones. The monitor starts with a limit of
  one profile and a restart may lift it; backtests run with either. Six rows fill the
  window of five minutes and leave it again.

Deadlock is checked in `monitor_restart`. Elsewhere `CHECK_DEADLOCK FALSE` stands because
minutes, ids and restarts run out or, with switches, the service may be left at another
symbol with no switch to come back.

Fairness. `MonitorLedger`: minutes close; a start that can go on goes on, and a service that is
down is started again; an update goes on, by a success or a failure. The consumer
thread takes every batch, a failed batch is retried, and the REST loop fetches again
while the stream is silent or a retry is due (`market_data.py:276-326`). `MarketData`: minutes close, each
thread takes its next step, and a request to switch that has begun is served.
`ChampionHandover`: the processes and threads go on, and a process that stopped is
started again. `ProfileSummary`: the executor's thread runs, an open service asks for the summary with
every candidate, and a lease expires in time. All of it is weak fairness. Failures,
crashes, switches, stops and verdicts are never fair: they are bounded, or may not
happen at all.

## 4. Findings

1. `monitor_upgrade`. `docs/current-strategy.md:1920` requires that on the first
   upgrade all old pending credits have been cancelled before the first wave
   snapshot is written. The code drops the duty (`_wave_bootstrap_cancel_pending`,
   `state.py:3239-3257`) at the first candidate that passes the range policy, even at
   a WAIT, cancelling nothing or one direction's credits; a later stable evaluation
   writes the snapshot with an old credit still pending.
2. `monitor_queue`. A start that found no wave snapshot but pending credits, and an
   unstable wave; a settlement earns a credit and its write fails. Now the wave
   becomes stable: the update first cancels all pending credits
   (`state.py:1080-1087`), the disk refuses the one it has never seen
   (`storage.py:2428`), and the update returns before the flush that would write it
   (`state.py:1097`). Every retry does the same while the wave is stable, although the queue is
   kept "for the idempotent retry of the next update" (`state.py:4209`).

3. `monitor_reset`. `reset_symbol` loads the ledger again and keeps the queue of
   unwritten settlements. An order is settled while another credit fills `max_active`, so
   its own credit is `CANCELLED`, and the write fails; the symbol is reset; the start-up
   cancellation (no wave snapshot yet) cancels the other credit. The queue is flushed, then the order,
   open in the reloaded memory, is settled again and earns a `PENDING` credit,
   which the disk ignores (`storage.py:2336`). With one more price in the instance the
   opening that uses it is refused and rolled back (`NeverRefused` fails): memory offers
   the same credit again at every attempt until a restart. The disk stays consistent
   (`ImplementsDurableLedger` holds in `monitor_switch` with the same bounds).

### Disagreements without a run

Met while modelling; the properties name them as exceptions or the models contain them.

- A reset that raises half way leaves the new symbol's name with the old symbol's klines and
  orders, and updates are enabled again (`state.py:1272-1285`; `halfReset` in `MarketData`; compare
  `docs/release-handoff.md:292`, `README.md:136`).
- A gap behind a minute that is kept for a retry is not noticed (`market_data.py:189-198`; compare
  `docs/release-handoff.md:1871`).
- A receipt that cannot be written, or a result that dies with the process, leaves champion and
  policy in force apart for good (`ChampionAgrees` excuses both; compare
  `docs/current-strategy.md:2204`, `docs/release-handoff.md:2227`). So do two receipt
  threads that overlap; a restart may go by the older one's receipt.
- The generation of a context starts from 0 with each process (`state.py:218`). A switch after a
  restart can come upon a symbol's experiment of an earlier life with the same generation; if its checkpoint is not
  behind the seed it is taken up again with its champion (`shadow_optimizer.py:193-205`), while receipts
  are restored for the first symbol only (`OwnGeneration`).
- A restart goes by the times the receipts name. A promotion that follows a rollback which waited for
  open orders is dated by its batch, which may be earlier; the restart then takes the rollback's
  policy for the one in force (`Chronological`; TLC finds it with four minutes and two restarts).
- A batch the queue refuses freezes every arm for good (`docs/release-handoff.md:2231` says the
  affected forward days); frozen and failed arms are still evaluated; the cooldown is that of one
  experiment, so a new experiment may promote at once (`shadow_optimizer.py:597`).
- A rebuild of the summary that ends as its store asks for another can be missed until the
  next candidate asks (`storage.py:4300-4311`).
- A failed evaluation of the day is not repeated that day when yesterday's row fits the
  settings, but a restart replaces the fallback; the fallback itself is not saved, so a
  restart between 07:50 and 08:00 forgets it, and that day's failure is not counted.
- A read of the selection before, or of the one in force, that fails ends the update (`SelectRaises`;
  `state.py:4241`, `4276`; `docs/current-strategy.md:1707` says the last version is kept).
- A restart evaluates adaptive states at the wall clock and so can lift a pause. The
  running process binds decisions per profile, the restart and the replay over all profiles.
- The script uses states settled strictly before an opening, the monitor settles first and
  decides then; a backtest knows settled rows only.
- A settlement written late is dated before a selection that did not know it
  (`amended` in `ScheduleAgrees`). An observation or order whose expiry minute left the klines stays
  open; a stuck probe or recovery order blocks for good.
- The gap path of `advance_wave` rebuilds without its window parameters.
- The JSON cache stores an answer whose producer started before `clear` (`server.py:66`).

## 5. Proofs

TLC checks small instances. The theorems below hold for every value of the constants
that satisfies the named assumptions of the modules: bounds and counts are natural
numbers, a life, a day or a window is positive, directions are among LONG and SHORT.
The less obvious ones:

- `MonitorAssumption`: the gap is positive (shipped: two minutes; with none, only the signal keys,
  which are not modelled, would keep two orders of a minute apart) and `max_active` at least 1 (validated); the
  values `max_active` may be configured to are bounded, so that there is a largest one.
- `GuardAssumption`: a profile's direction is one the service trades; the cooldowns are at least an
  order's life (section 2).
- `DailyAssumption`: the profiles are finitely many, and what the health guard looks back on (shipped: a day, up to
  four hours before) is within what a restart reads, the stable window and a day of buffer (two days or more,
  for the window is validated to be at least one).
- `ReplayAssumption`: the rows of histories and databases are settled rows: of the fields the replay reads, opened
  before they expire and settle; a database is finite and, as in the table, has one row per profile and
  opening minute.
- `NobodyIsNoStore`, `NoneIsNoSymbol`: the names used for "no owner" and "no kline" are not
  those of a process or a symbol.

| Module | Theorem | States |
|---|---|---|
| `GuardedLedgerProofs` | `TypeCorrect` | `Spec => []TypeOK` (here and in the next four, that of `DurableLedger`) |
| | `StakesAreEarned` | `Spec => []StakeProvenance` |
| | `ReservationsAreBounded` | `Spec => []ReservationBound` |
| | `OpenOrdersAreBounded` | `Spec => []Capacity` |
| | `TerminalRowsAreKept` | `Spec => TerminalRowsStand` |
| | `GuardsOnlyRestrict` | `GuardedSpec => Spec` (that of `DurableLedger`) |
| | `GuardedStakesAreEarned`, `GuardedReservationsAreBounded`, `GuardedOpenOrdersAreBounded`, `GuardedRowsAreKept` | the theorems above, under the guards |
| | `SecondStagesKeepTheirWave` | `GuardedSpec => []SecondStageInItsWave` |
| | `LossesAreRested` | `GuardedSpec => []RestAfterLosses` |
| `MonitorLedgerProofs` | `MonitorTypeCorrect` | `Spec => []TypeOK` |
| | `DiskImplementsDurableLedger` | `Spec => ImplementsDurableLedger` |
| | `StakesOnDiskAreEarned` | `Spec => []DurableProvenance` |
| | `CreditsFitTheSettings` | `Spec => []CreditsWithinSettings` |
| | `OrdersSettleAtExpiry` | `Spec => []SettledAtExpiryPrice` |
| | `OpeningsAreApart` | `Spec => []OpeningsApart` |
| | `WebhooksGoOutOnce` | `Spec => []WebhookOncePerDurableOrder` |
| | `RecordedBlocksStand` | `Spec => RecordedBlockStands` |
| | `MemoryMatchesUntilReset` | `Spec => [](switches = 0 => MemoryMatchesDisk)` |
| | `QueueAndStartAreAccepted` | `Spec => []RecordsAccepted`: `NeverRefused` without the opening, also after resets |
| | `NothingIsRefusedUntilReset` | `Spec => [](switches = 0 => NeverRefused)` |
| `MarketDataProofs` | `MarketTypeCorrect` | `Spec => []TypeOK` |
| | `SymbolsDoNotMix` | `Spec => []OneSymbol` |
| | `MinutesComeOnceInOrder` | `Spec => OnceAndInOrder` |
| | `GapsAreFilled` | `Spec => NoGapAhead` |
| | `KnownMinutesWereProcessed` | `Spec => []KnownIsProcessed` |
| `DailyProfilesProofs` | `ProfilesTypeCorrect` | `Spec => []TypeOK` |
| | `RecalculationsStand` | `Spec => []RecalculationStands` |
| | `ExitsAreEarned` | `Spec => []DaysBeforeExit` |
| | `AdmissionsOnRecord` | `Spec => []AdmittedOnRecord` |
| | `SchedulesAgree` | `Spec => []ScheduleAgrees` |
| | `BacktestsAreCausal` | `ReplaySpec => []ReplayIsCausal` |
| | `ReplaysAreExact` | `ReplaySpec => []ReplayIsExact` |
| | `TimelinesAreExact` | each state a backtest decides by is that of a computation from scratch, for any database |
| | `ScriptsRunBeside` | `ReplaySpec => Spec`: the theorems hold of the specification the run checks |
| `ProfileSummaryProofs` | `SummaryTypeCorrect` | `Spec => []TypeOK` |
| | `WhatIsCurrentIsExact` | `Spec => []CurrentIsExact` |
| | `ClosedStoresHoldNothing` | `Spec => []ClosedHoldsNothing` |
| `ShadowExperimentProofs` | `ExperimentTypeCorrect` | `Spec => []TypeOK` |
| | `ArmsAreTheirBatches` | `Spec => []ArmIsItsBatches` |
| | `PromotionsAreApart` | `Spec => []PromotionsApart` |
| | `RetiredArmsStay` | `Spec => RetiredStays` |
| | `RestartsFreezeNoArm` | `Spec => RestartFreezesNone` |
| | `ArmsAreComparable` | `Spec => LikeForLike` |
| `ChampionHandoverProofs` | `HandoverTypeCorrect` | `Spec => []TypeOK` |
| | `ReceiptsComeFirst` | `Spec => []ReceiptBeforeChampion` |
| | `SwapsAreExpected` | `Spec => SwapsExpected` |
| | `ChampionsAgree` | `Spec => []ChampionAgrees` |

### DurableLedger

`IInv == TypeOK /\ StakeProvenance` is inductive. It speaks of the link
between a credit and its order from both ends, and this is what each step needs:
an order that has not won has no credit row, so neither a fresh
order id nor an open order is the source of a credit, and opening or settling it
cannot disturb another order's link. `OpenEffect`, `SettleEffect` and `CancelEffect`
say once what each transaction changes. The bounds follow from `IInv` and cardinality:
a step adds at most one element to the reserved credits or the open orders
(`ReservedGrows`, `OneIdMore`), and only where its guard finds room; consuming a credit
moves it from pending to active and so leaves the reservation as it was.
`TerminalRowsStand` is about a step; it uses `IInv` for the fact that an order being settled has
no credit row to overwrite.

### GuardedLedger

`GInv == IInv /\ GuardTypes`. Each step of the guards is shown to be a step of `DurableLedger` or to
leave its rows alone; the theorems about `Spec` then carry over. For the wave,
`JudgedInWave` says what `Judge` left behind: with the candidate judged, the credits of
its direction that still wait belong to the wave and the selection of the minute, or the batch guard
admits no second stage.

`RestAfterLosses` looks back at what was known when an order was opened, so `RestInv` keeps that fixed. Orders are
opened in the order of their ids and settled only once expired (`NothingAhead`); what had expired and was
still open when another order was opened had left the klines and is never settled (`SettledInTime`). What
is known of an order thus does not change (`KnownStands`). With it stands what its note says: an order of a
profile on its losing streak is the probe for that loss (`Probes`), an order after a trigger is
a recovery order unless one has won (`Recovers`). When the next order is admitted, an order
still running would have been opened after the same loss, for the cooldown is at least an order's life, hence
be the open probe or the last recovery order, and the guard would have said so
(`AdmittedToProbe`, `AdmittedToRecover`). That it was judged by the same trigger is `TriggerEarlier`: batches that
failed later neither make nor move an earlier trigger.

### MonitorLedger

`StepKinds` sorts the actions by what they do to the two ledgers, the queue and the point
reached. The invariant is built in layers, each using those before it:

| Layer | Adds | Why it is needed |
|---|---|---|
| `Basic` | types; `Stages`: at which points memory is empty, the queue is empty, there is a minute | what is below holds at some points only |
| `AgreedInv` | memory has the orders of the disk, and the one being opened; ids are in the order of opening | the gap and the policy are judged in memory and must hold on disk |
| `LedgerInv` | `ResultsRight`: results of the expiry minute, wherever they are; `QueueIInv`: the queue holds orders once, in the order of their ids, each behind every earlier order that is open on disk; `CreditIInv`: provenance on disk, and where a credit may be that the other ledger lacks | after a reset an order may be settled a second time. Both settlements must have the same result and earn alike, although their credits may differ |
| `RoomInv` | `QueueRoom`: each queued credit that is to wait finds room on disk when its turn comes; `SaveRoom`: so does the order being saved | `max_active` is judged when memory settles, the disk counts when the settlement is written |
| `RecordInv` | `OpenedHaveOrders`: a decision recorded as opened has its order | with the gap, it has exactly one |

`QueueRoom` is the heart of the refinement. `ReservedBefore(db, pend, k, d)` is what will be reserved
on disk once the first `k - 1` settlements are written; a settlement in memory extends it at
its end, writing the head shortens it at its front, and neither changes the other
members. At a restart, `reconcile` keeps as many of the newest waiting credits as fit:
`LoadedFits` takes the newest one and counts those from it on.

That memory is the disk (`Exact`) is inductive only until a symbol is reset, so the two theorems about
it have `switches = 0` as a hypothesis. It is a real restriction: `monitor_reset` is the
counterexample (finding 3). Crashes, failures, restarts and new settings remain.

A theorem cannot be cited through `INSTANCE`, so the refinement goes by the steps of `DurableLedger`
(`DurableNames` and `SizesAgree` identify its operators with those of `Ledger`), and its provenance is
proved again for the service's disk, where the opening transaction needs it.

### MarketData

Nothing is known or under way for a context to come (`NothingAhead`), and from the switch until updates are enabled
again nothing is under way for the new one either (`NewContextIsFresh`): what an old thread
brings late finds its context inactive. `KnownIsDone` and `BatchIsFresh` tie the cursor to the minutes
done, and the batch under way to the cursor, except between handing a batch over and writing
its cursor. `Contiguous` is the form in which the consumer's gap check survives until then.
`KnownMinutesWereProcessed` takes `KnownIsDone` where something was processed; where nothing was, nothing is known
(`NothingKnown`), for the klines a context begins with are those it was seeded with, and they count as
processed (`SeededIsDone`).

### DailyProfiles

What samples are worth, how profiles rank and what state they are in enter the proofs about the monitor only as
functions of a set of rows: equal rows give equal answers (`BuildBy`, `StateByRows`), whatever the
recursions compute. What has to be shown is that the rows are equal, and `TablesInv` is for that. The process
holds every row of the table but settled ones of which no window reaches back any more
(`HeldRows`), and nothing is settled before what expired earlier, unless that has left the
klines (`SettledFirst`). A window hence has the same rows in memory and in the table (`SameWindows`), and
`RecalculationsStand` follows. The same holds of the health guard, by `DailyAssumption` (`SameHealth`).

| Parts | Say | For |
|---|---|---|
| `Recorded`, `RowCounts`, `Watched` | on a recorded day the row of a profile counts the recorded days before it, one after the other, that it failed on | `ExitsAreEarned`: the count that ends in an exit is one of days, however often each was evaluated |
| `AllOnRecord` | a profile's state is that of its settled rows, or it is marked as unread | `AdmissionsOnRecord`: what a settlement does to the state held is what a restart would read |
| `HeldIn`, `ForceInv` | the selections held are recorded rows, or repeat the last row before a failure; the one decided by is in force at the time | `AdmissionsOnRecord` |
| `ScheduleInv`, `Reproduces` | while nothing was amended, the row of each day is what the table of today, the row before and the limit give; a day that has its row is not selected again | `SchedulesAgree` |

`SchedulesAgree` compares this with a recursive function, the schedule of the replay. No
induction over it is needed, for which the prover has no rule: there is a schedule up to each day, or a first day without one
(`ScheduleExists`), and the schedule agrees with the record, or there is a first day on which it does not
(`ScheduleReproduced`). Each first day is refuted by the day before.

`BacktestsAreCausal` compares three runs: over the rows of the table, over those rows with one result turned
round, and over those rows without one of them. A sorted sequence is the list of its set (`Lists`), and what two
sets have in common that comes first is a prefix of both (`PrefixLists`, `GroupsPrefix`). Every fold of the replay
has the values it passes through (`FoldExists`, and one instance for each: `ReplayFold`, `BindFold`,
`SettleFold`, `EntryFold`, `TradedFold`), so that two runs are compared step by step up to a first difference
(`SettleAlike`, `TradedAlike`, `RunsAlike`). What a step reads was the same before it: the states (`StateKnown`: of
strictly earlier settlements), the selection of the day (`ScheduleKnown`) and the orders already made. The
invariant `Backtests` ties the book of the script, which goes through the groups of a minute one action at a time, to the
run as a fold.

`ReplaysAreExact` is about the algorithms themselves: a window kept up to date row by row, whose rows come in the order
of settlement, leave from its beginning, and are selected in the order of opening, against one computation over the rows of the
window. It is proved from the inside out:

| Lemmas | Say | Because |
|---|---|---|
| `RepairSelects`, `InsertSelects`, `RetireSelects` | the selection kept over any insertions and removals is the one taken at once (`Selects`, `AreIndependent`) | the repair runs from the place of the change until it meets a row it had taken before; what follows that row was taken after it and still is |
| `TraceHolds`, `TraceKeeps`, `ReplayedTail` | a replay over any number of rows gives the state of the last three transitions (`TailState`) | a row that settles last and is selected is the last of its selection, so what a transition saw is a prefix of the final one; a state depends on the one before only when that was `PAUSED` (`Pausing`), and that one does not depend on it |
| `ChainSelects`, `ChainState` | without inversions the chain of successors in the index is the selection, wherever the window starts | rows in order of settlement are then in order of opening |
| `SlidingState` | with inversions, the sliding selection has the state when no inverted row reaches its tail (not `Uncertain`) | the rows of the tail are later than every inverted row, so they were selected in order |
| `ExpireIs`, `TakeIs`, `StateAtIs`, `AdvanceIs` | a tracker that `Follows` its rows still does after an expiry and after a row, and its state is then theirs (`Right`) | the rows that have expired are the first in causal order (`OldestFirst`) |
| `FollowIs`, `RefuseIs`, `EnterIs` | the window over all profiles `Accounts` for its rows: entries, the row each decision is bound to, one tracker for each profile with a bound row | the row that comes last takes a decision only when nobody has it (`BoundLater`) |
| `BoundStays`, `RebindIs`, `ExpireWindowIs` | so it does when rows leave | when no row that stays names a decision that became free, what is bound stays bound; otherwise the window is bound again from its first row |

The invariant `Replays` then says that after each row the window accounts for the rows replayed that are in it. The same
invariant along the fold of a backtest gives `TimelinesAreExact`; `BacktestsAreCausal` and it together say
that a backtest decides by what the monitor would have computed, and by nothing later. `@@` has no definition
the prover knows, so the window keeps its functions by `Put`.

### ProfileSummary

What is materialised is exact because it is tied to a revision, so the invariant says it of
everything that may yet become current: nothing is dated after the revision; a
rebuild about to write at the present revision has read the present snapshots; a branch or
successor of the present base is the guard of the settlements it is for.

### ShadowExperiment

`Stored` (an arm that did not fail is in memory what it is on disk), `Lifecycle` (the worker's champion and
retired arms are those recorded; a request under way leads to no retired arm), `ChosenOutOfCooldown`
(what waits to become a promotion was chosen out of the cooldown, as of the batch it would be dated by),
`RunsOf` (`IsOf` by places of the sequences, which one more batch keeps) and `InStep`: the arms started with one
batch; within a batch those before the one whose turn it is stand at its end; an arm that was chosen
has run. At the end of a batch the arms that are compared thus stand at one minute and came there from
one minute, and by `RunsOf` their complete days are those in between (`LikeForLike`).

### ChampionHandover

Requests are told apart by their number. The worker's numbers grow, a start
uses one of its own; a request is in one place until it is applied (`AppliedOnce`),
and whoever carries a request with the number the worker waits for carries that request
(`AskedIsKnown`). An answer "applied" is sent only with the receipt on disk (`AnsweredIsSaved`).
This `IInv` is enough for the types, the receipts and the swaps.

`ChampionAgrees` speaks only of the moments when nothing is on its way, so `AInv` says of everything that
may be on its way what it will do to the agreement when it arrives:

| Parts | Say | Why they are needed |
|---|---|---|
| `UnsavedAreNew`, `StartsNumbered`, `RequestsOrdered`, `OneThread`, `RestoreIsFirst` | which requests have no receipt yet, and in which order the others get theirs | the last receipt is the last change of the policy in force |
| `RequestsFit`, `WorkerFits`, `ChampionIsLast`, `HistoriesAgree`, `AskedIsLast`, `ReceiptsOrdered` | an experiment's champion is that of its last change; its history and the receipts are in one order; a symbol's receipts are for ever newer experiments | a start restores the policy of the last receipt, and the experiment then taken up again brings its own champion back: the two must be one |
| `ContextsPast`, `NotUp`, `FirstLife`, `ContextIsFresh` | what carries a context carries a past one or the present one; until the worker has the batch that brings it the present one, nothing is asked for in it | an answer or a seed that arrives late is told from a current one by its context |
| `ThreadsSpeak`, `AnswersSpeak` | the receipt thread, and the last answer "applied", carry the policy in force | what the worker is about to learn |
| `WorkerFollows`, `StartFollows` | with both gone, the last receipt of the worker's experiment (or its base, when it has none) is the policy in force, or a request that will make it so is pending | what remains when all has arrived |

The excuses of `ChampionAgrees` are hypotheses of the last two rows, and where an order of receipts is
said. The proof
failed without the overlap in an earlier life and without `OwnGeneration`, and in both cases TLC
confirmed the behaviour on a larger instance.

### Only model-checked

Every safety invariant and action property the passing runs check is a theorem, two of them with a restriction:
`MemoryMatchesDisk` and `NeverRefused` are proved up to the first reset; after one, finding 3 breaks them.
Liveness under fairness (`OrdersSettle`, `QueueDrains`, `CatchesUp` of `MarketData` and of `ProfileSummary`,
`RequestAnswered`) and ENABLED are out of the prover's reach.

## 6. What the models leave out

- Amounts, balances, statistics, order slots and the content of signals; win-rate gates, quality
  score, time period, range policy: choices of the environment.
- In `MonitorLedger`, a gap in the klines longer than the REST window (`GuardedLedger` and
  `DailyProfiles` have it), and orders of two symbols at the same time.
- Power loss, and a disk that loses a commit.
- That two candidates of one direction in one minute may differ in more than their
  direction: `MonitorLedger` assumes one candidate per direction and minute.
- In `DailyProfiles`: the weekend's own minimum of samples, the migration of old selections, the WATCH
  level of the health guard, and the messages that name an inconsistent observation
  identity (`adaptive_profile_state.py:730-871`).
- Retention of old rows in the shadow database; the policies of the arms.
- Not modelled at all: the entry structure shadow (a numeric annotation behind a single-flight cache),
  asynchronous writes (audit rows only), the JSON cache and the HTTP server (the dashboard's I/O),
  schema migration (one-off SQL), other offline tools, static files.

## 7. Plan

Models to come: the single flights (`JsonResponseCache`, `EntryStructureCache`), the capacity
monitor, the first anchor of the wave.
