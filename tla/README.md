# Verification of the CMC x TWAK trading agent

TLA+ models of the agent in `src/agent/`: what it promises about money it moves
on a chain it does not control, through crashes, timeouts, failing calls and
days of ticks. The modules are checked by TLC on small instances and, for the
theorems listed below, proved by TLAPS for every value of the constants.

## 1. The system

The agent is one Python process (`agent.py`, `main`) under systemd
(`deploy/agent.service`, `Restart=always`). Every tick it reads market data,
marks the portfolio, applies stops and a kill switch, asks a decider for trades,
gates them, and executes the approved ones as spot swaps through the `twak`
command line. Nothing in it runs concurrently except the chain: a swap lands,
reverts or stays in the mempool whatever the agent is doing, also while the
agent is down.

| Component | State it keeps | Operations | Talks to | Hard behaviour |
|---|---|---|---|---|
| Portfolio state and order book (`state.py`) | cash, positions, `open_orders`, counters, backoff, peak, day | order life cycle, marks, day roll, `save`/`load` | state file (atomic replace) | crash between two saves |
| Live executor (`executor.py`, `TwakExecutor`) | none of its own: balance snapshots live in the order | `execute`, `reconcile`, `reconcile_portfolio`, `executable_price` | `twak`: balances, quotes, swaps, tx status | ambiguous outcome, late landing, lagging reads, reverts |
| Main loop (`agent.py`: `main`, `run_tick`, `reconcile`, `_exec_and_log`) | tick id, loop backoff | startup recovery, tick, one attempt to trade | all others | order of recovery steps, exceptions on each path |
| `process_tick` (`agent.py`) | the tick's equity, pending decisions, rotation sets | mark, roll day, kill, stops, decide, gate, pair, execute | risk gate, decider, executor | state judged before and used after it changes |
| Risk gate (`risk_gate.py`) | none | `evaluate` | state, config | a batch judged against one state; two drawdowns; numeric edges |
| Rotation decider (`decision.py`) | `_exited_at` (in memory); streaks and exit times in the portfolio state | rank, hysteresis, cooldown, exposure, size | signals, portfolio | volatile and persisted cooldowns disagree; gaps in observations |
| AI review (`decision.py`, `llm.py`) | none | veto, shrink, override | a model provider | a late, malformed or partial answer |
| Profit lock (`profit_lock.py`) | none (peak in the position) | floor of a position | `process_tick` | ratchet over top-ups, partial takes, crashes |
| Dynamic universe (`universe.py`) | contract map shared with the executor, cache file | refresh, retain, evict | `twak`, executor by aliasing | a held token leaves the map; the map before the cache |
| Tournament scoring (`scripts/leaderboard.py`) | history and flows files | value, flows, return, drawdown | chain RPC; read back by `agent/leaderboard.py` into gate and decider | failed queries taken for empty answers |
| Paper executor (`executor.py`, `MockExecutor`) | none | `execute` | state | orders left open by early returns |
| Signal source (`signal_source.py`, `cmc_client.py`, `agent/leaderboard.py`) | TTL caches | snapshot | CMC, `twak`, a web page | stale caches served after failures |
| Signal engine, log, reporting, other scripts, `x402-server` | none or append-only | pure functions, output | | |

What makes each correct:

- **State and order book**: a swap the chain has seen is on disk first; an order
  is settled only by what its swap did; each fill is counted once.
- **Executor**: no swap overlaps an unsettled one of its token; books agree with
  the wallet, and every swap that landed is booked in the end.
- **`process_tick`**: no entry on a stale equity; the entry budget holds; a
  rotation buys only after it has sold; a halted day is quiet; the kill switch
  liquidates, acts on executable value, and re-arms.
- **Risk gate and sizing**: all that one tick buys, stopped out at once, stays
  below the kill line and the judge's disqualification line.
- **Decider and review**: what is sold cools down as long as one of the two clocks
  knows of the sale; a weak entry is confirmed by two observations; a review can only take away.
- **Profit lock**: a saved protection only tightens, and is served in the end unless
  an order that waits for manual review blocks it.
- **Universe**: a recently validated token keeps its route; a validation is real.
- **Scoring**: a deposit is no gain, and a bad run of queries is forgotten.

## 2. Modules

### `Execution`: the life of a live swap

`_exec_and_log`, `TwakExecutor.execute`, `reconcile`, `reconcile_portfolio`,
`main`'s startup, the state file and the chain.

| Code | Model |
|---|---|
| `state.open_orders[id]`, `id = make_order_id(tick, token, action)` | `orders[id]`, `id \in Ids` a record of the three; status `NONE` is absence |
| `state.positions`, `cash_usd`, `trade_count_total`, `execution_failures`, `execution_retry_after`, `rotation_exited_at`, `last_trade_ts` | `qty`, `cash`, `trades`, `failures`, `retryAfter`, `exitedAt`, `lastTrade` |
| the state file; `save`; `load` | `disk`; `Save`; `Load` |
| balances read with `twak balance` | `wallet`, `usdt` |
| what became of a swap | `chain[id]`, `swapped[id]` |
| `main` before the loop | `Start`, `Reconcile*`, `ReconcileCash`, `ReconcileToken`, `PortfolioError`, `FinishStartup` |
| `run_tick`'s reconcile, the tick's end | `BeginTick`, `FinishReconcile`, `EndTick` |
| `_exec_and_log` up to the broadcast | `RejectBeforeSend`, `DropPosition`, `PrepareOrder` |
| the swap command and what follows it | `Broadcast`, `SwapReturned`, `SwapAmbiguous`, `SwapError`, `ConfirmFill`, `FillNotLogged`, `ConfirmUnknown`, `ConfirmError` |
| the process and the world | `Crash`, `Land`, `Revert`, `Transfer` |

The steps of `execute` that persist or that the chain can interleave with are
actions of their own, because a crash or a landing between two of them is what
the module is about. What is one action is one stretch of code with no external
effect inside it. `Faults` names what the environment may do: `callError` (a read
or the swap command fails before anything is sent), `ambiguous` (a timeout, or
success without a hash), `pollError` (a balance read after the broadcast exits
with an error), `logError` (the event log cannot be written after a fill has been
booked), `revert`, `transfer` (the owner moves a token away).

Two variables are history. `overlapped` are the orders that were open, in memory or
in the file, when a swap of another token landed: the wallet has one quote balance,
and such a swap enters their quote delta. `adopted` are the tokens a start read from
the wallet after a buy had landed and before it was booked. The properties say with
them exactly which runs they do not speak of.

Abstractions. One unit of token swaps for one unit of the quote asset, so average
prices and realized profit carry no information and are left out; fills keep both
deltas. The dust and the reserve the code keeps back (0.001 %) are one unit. The
two balance reads of one poll are one step: between them only a landing can
happen, and the poll's condition needs both balances to have moved, so a landing
in between gives the result of a poll before or after it. Landings in any order,
also of a swap whose command has returned, cover the lag of the node's reads. A
`twak` error exit is taken to mean that nothing was broadcast, which is what the
code takes it for; the model does not question it. Orders without balance snapshots
(written by an older version) are left out. A save succeeds; saves that raise are
`Holding`'s subject. One log write fails at a time: when the handler's own entry
fails too the tick ends at once, which for the order book is the end of the tick or
a crash before the next save. The clock counts ticks and survives a
crash; after `MaxTick` the process keeps ticking and reconciling but attempts
nothing new. `Transfer` happens only while no order of the token is open.

### `OrderLedger`: the abstract order book

Four actions: intend, broadcast, settle, close. `Execution` implements it under
the mapping `BookOf` (`LedgerSpec`): the *disk* is the ledger, so the property
speaks about what a restart would find at every instant.

### `Session`: ticks and days

`run_tick` and `process_tick` as they alternate: reconcile, prices, mark and day
roll, the halted return, the kill branch, stops, decide, gate, rotation pairing,
execution. `Attempt` is the outcome of what `Execution` models in detail: a fill, an
unresolved order that a later tick's reconcile settles, a position found missing
from the wallet and dropped (no trade, no pacing), or books left alone.

| Code | Model |
|---|---|
| `cash_usd`, `positions`, unresolved orders | `cash`, `qty`, `unresolved` |
| `peak_equity`, `day_start_equity`, `entries_today`, `halted`, `last_trade_ts` | `peak`, `dayStart`, `entries`, `halted`, `rested` |
| executable value; `prices`; tokens without `executable_quote_failed` | `real`, `mark`, `quoted` |
| `pending`, `rotation_close_tokens`, `filled_rotation_closes` | `pending`, `rotating`, `rotated` |

Abstractions. A trade moves one unit (a close the whole position). Whether a stop, a
profit lock or a partial take applies to a token with an executable quote, and what
the decider proposes, is any choice the code's structure allows: any batch that is
`Batch!WellFormed`, in the order closes, trims, buys (`decision.py:1280-1312`);
`Desk` shows that `RotationDecider` hands over nothing else. The gate's checks on
the decision itself (confidence, token risk, tradeable, size) are part of that
choice; those on the session's state are `EntryAllowed`. A fill is up to `Slip`
worse than the executable price. The day's change is an input of `MarkTick`. There
is no crash in `Session`: what survives one is `Execution`'s subject. `MaxQty` and
`MaxEquity` bound the state.

### `EntryFilter`, `RiskGate`, `Batch`: pure parts of a decision

`EntryFilter` translates what `RotationDecider` thinks of one token (`_pullback`,
`_scout` and `_liquid_continuation` exceptions, `_entry_classification`, the entry
and held-exit gates, the surviving and the high-conviction target) as predicates on
a record of the numbers the code reads. `RiskGate` is `risk_gate.evaluate` for a
buy, with its two drawdown budgets, in integers. `Batch` says what a decider may
hand to the tick; it is the interface between `Desk`, which shows it, and `Session`,
which assumes it of its `Proposals`.

### `Desk`: one market view becomes a batch of approved trades

| Code | Model |
|---|---|
| `state.positions`, `opened_ts` | `held`, `age` |
| unresolved closes | `closing` |
| `decider._exited_at` (memory) / `state.rotation_exited_at` (file) | `armed` / `exited`: ticks since |
| `state.signal_streaks` | `streak` |
| snapshot and signals, marks, regime and leaderboard | `view`, `mark`, `ctx`: inputs of `Observe` |
| `RotationDecider.decide` | `Decide`: `Eligible`, `TopTargets`, `Keep`, `Gross`, `BatchOf` |
| `LLMDecider.decide`, `_cash_veto_override` | `Reviews`: `Cuts`, `Overrides`, or the draft |
| the gate loop and the rotation pairing | `Gated` |
| execution, stops, profit locks and the kill switch | `Execute` (`sold`, `late`, `bought`), `StopOut`, `StopOutLate` |
| `reconcile`, restart | `Reconcile` (the close has sold, or it has not), `Restart` |

Abstractions. Views are records of the numbers the code compares, in thousandths,
with the thresholds of `config.yaml`; the ranking formula (`quality`) and the regime
are inputs. `apply_target_hysteresis` goes through a Python set, so every order of
the holdings is a behaviour; among equally weak targets one is chosen. The two
clocks stop at `Cooldown`, the ages at `MinHold`. A close is confirmed at once, which
sets both clocks if the decider proposed it and the file's if it is a stop, or late,
which sets none; `reconcile` then books it or not, and until it does the token is not
traded. `soldAgo` (time since the last sale) and `unclocked` (tokens sold without any
clock knowing) are history. A late buy is treated as bought in its tick. An unknown rank escalates nothing; the
confidence floor is always met; `min_rebalance_hold_seconds` and the fresh-loss hold
are one constant, as they are one value in the shipped configuration. Sell-only
and denied tokens are views that are not validated. Rounding to cents is left out.

### `Universe` and `ProfitLock`, composed in `Holding`

`Universe` is `UniverseManager`: `refresh` with retention, `_apply`, the cache file
and its load. Probing is one outcome per token, the ranking of the probed any choice
of at most `max_assets`. `ProfitLock` is `progressive_profit_lock`, the hard stop
and the partial take, as inequalities of products.

`Holding` extends both and follows one token through ticks, crashes and starts.

| Code | Model |
|---|---|
| `Position.avg_price`, `peak_price`, `profit_taken` | `pos`, and `disk.pos` as saved |
| the token's unresolved order, and what reconcile will find of it: a balance change, a failed transaction, or nothing | `order`, `disk.order` |
| `main`'s start: load, reconcile, `reconcile_portfolio` | `Start`, not enabled for a holding that is not mapped: the code raises and the process ends |
| `run_tick` | `BeginTick`, `ReconcileUnsaved`, `RefreshUniverse`, `SkipRefresh`, `TickError` |
| the stop branch of `process_tick` | `Unquoted`, `Watch`, `StopFills`, `StopMisses`, `TakeFills`, `TakeSlips`, `NoteTake`, `NoteUnsaved`, `TakeMisses`, `ProtectUnsaved` |
| the rest of the tick | `Hold`, `Buy`, `Reduce`, `TradeUnsaved` |
| `_exec_and_log`: order not sent or failed, unknown, filled, last save raises | `Failed`, `Late`, `Filled`, `Unsaved` |
| `reconcile`: settled, booked but not logged, left for review | `ReconcileOrder`, `ReconcileUnlogged`, nothing |

A take is booked and saved by `_exec_and_log`, and noted on the position and saved by
`process_tick` afterwards: two steps, because a crash can come between them, and
because a log entry or a save that raises on the way makes the process go on with a
take it never notes (`TakeSlips`, `ProtectUnsaved`, and `NoteUnsaved` for the second
save). An order that left neither a balance change nor a hash, such as one that was
never broadcast, is settled by nothing and blocks the token for good. `pos.takes`,
`probed`, `unsaved` and `lost` are history: the takes that could be noted, the time
since each token's last accepted probe, the probes whose cache write failed, and those
of them that a restart forgot. Abstractions: trades fill at the tick's price; the
average after a top-up is any price between the two; halted days, the kill switch,
failure backoff, dust and positions saved without a peak are left out.

### `Judge`: the tournament's view

`scripts/leaderboard.py` for one agent: the chain gives a wallet and its
transactions, a run reads balances and transfer logs, nets trades out, extends the
history and publishes return and drawdown. A run may miss balances, transfers in
either direction, or all logs; one kind of fault per run. Abstractions: the
transactions fit in one block range; a swap is at the price. The
participants, price lists, decimals and the page's other columns are left out.

### Model-checking and proof modules

`MCExecution`, `MCSession`, `MCDesk`, `MCHolding` and `MCJudge` give TLC its
instances; `ExecutionProofs`, `OrderLedgerProofs`, `SessionProofs`,
`RiskGateProofs`, `DeskProofs`, `HoldingProofs` and `JudgeProofs` hold the theorems.
`SumProofs` holds what they need of finite sets of numbers and of
`SumFunctionOnSet`, with which `Desk`, `Session` and `Judge` add up batches, worths
and flows.

How the modules stand together: `Execution` implements `OrderLedger` (refinement);
`Holding` is built from `Universe` and `ProfitLock`, `Desk` from `EntryFilter`,
`RiskGate` and `Batch`; `Desk` shows of the rotation decider what `Session`
assumes of its proposals; `Judge` and `Desk` meet in the drawdown and rank that
`Desk` takes as any input.

Operators whose comment begins with "Mutant of" are plausible bugs, kept to show
that each property can fail; no specification uses them.

## 3. What is checked

Runs that pass:

| Run | Instance | Shows |
|---|---|---|
| `ExecSafety` | 2 tokens, 2 ticks, 3 orders, 1 crash, call errors, ambiguity, reverts | `PersistedBeforeSend`, `SettledMeansHappened`, `CountedOnce`, `FillIsExact`, `BooksBacked`, `CashSettled`, `NoBlindRetry`, `LedgerSpec` |
| `ExecAllFaults` | 1 token, 3 ticks, 3 orders, 1 crash, all faults | `PersistedBeforeSend` |
| `ExecLive` | 2 tokens, 1 tick, 3 orders, 1 crash, call errors, ambiguity, reverts | `LandedIsBooked` under `FairSpec` |
| `SessionSafety` | 2 tokens, 2 prices, slippage, failing quotes, 1 entry per day | `EntriesBounded`, `GateSeesLosses`, `RotationPaired`, `HaltedIsQuiet` |
| `DeskSafety` | 2 tokens, 7 views, 2 marks, 5 contexts | `BatchFits`, `OnlyReduced`, `ProposesBatch`, `HoldingKept`, `CooldownKept`, `ConfirmedEntry` |
| `HoldingSafety` | 1 dynamic token, 3 prices, 1 crash | `RecentStaysMapped`, `ValidationIsReal`, `TakenOnce`, `StopRatchets`, `StopIsServed` |
| `JudgeSafety` | 2 transactions, 2 prices, a history of 2 | `DepositNeutral`, `JudgeRecovers` |

Each module's type invariant is checked along. Every invariant and every action
property of this table is also a theorem (section 4), as is the refinement
`LedgerSpec`; the two liveness properties are not.

Bounds. Two tokens are enough for one swap to disturb another through the shared quote
balance and for a rotation of two positions or a batch of two buys. Three orders with
one crash give a buy, its sale, and a third order that meets what the crash left; in
`ExecLive` all three may belong to one tick, which gives a sale whose proceeds a buy
of the other token spends. `EntriesBounded` is about batches of many ticks: with two
tokens it is the rest of one batch, with more the unresolved buys of several, which a
run cannot reach in reasonable time and the theorem covers. Two prices with `6` of
cash put a fall from the peak on either side of both drawdown limits, and `MaxEntries
= 1` makes the day's limit bite at once. Symmetry is used in the safety runs of
`Execution`, `Session` and `Desk` over the tokens, which no definition tells apart.

`DeskSafety` has one view for each case the filters distinguish (continuation, high
conviction, scout, healthy but no entry, pullback, route lost, decayed) and one
context for each regime of the sizing (far behind, top five, stressed, close to the
judge's line, uptrend with an unknown rank). The two marks are a small winner, which
is trimmed and topped up, and a larger loser, which exceeds its target or fills it. In
a downtrend the code allows two targets, so with two tokens both are targets, one is,
or none; in an uptrend one displaces the other. `DeskChurn` has three near-equal
rivals for two places, all above every threshold and at most 20 of the hurdle's 180
apart. Cooldown and holding times of two ticks leave one tick before, at and after
each. The gate's numbers are those of `config.yaml`.

`HoldingSafety`'s prices are a loss beyond the hard stop, the entry, and a gain beyond
the partial take; the lock's steps and percentages are those of `config.yaml`, and a
fall from the best to the entry price is below every floor that gain has earned. It
has no base token, because a base token is always mapped and only adds the outcomes of
its own probes (`HoldingStart` has one; the theorems are for any). A retention of one
time unit with ages up to two tells an age at the retention time from one past it. The
run may end in a process that cannot come up, which is what `HoldingStart` is about,
so it does not check for deadlock.

`JudgeSafety`'s history is as long as its two runs need to be cut once; two
transactions are a deposit and a swap in either order, or a round trip.

Runs that fail, each against a sentence of the repository (`findings` in
`PROJECT.json` quotes it):

| Run | What TLC finds |
|---|---|
| `ExecPollError` | An error exit of the balance poll after the broadcast is booked as a failed order. It no longer blocks its token and is no longer reconciled; the next attempt overlaps it ("never retry blindly"). |
| `DeskChurn` | Of two healthy holdings one displaces the other in the targets, and a newcomer takes the place left with an edge far below the hurdle: the other holding is rotated out. |
| `SessionNotFlat` | The kill switch halts the day even if a close did not fill; nothing sells the rest until the next day. |
| `SessionReArm` | The peak is never reset: liquidated in cash, every new day's first tick trips the switch again. |
| `HoldingStart` | A held dynamic token whose cache write failed, or whose probes missed for longer than the retention time, is not in the contract map at the next start: reading the wallet raises, and every restart ends the same way. |

`NoBlindRetry` is on both lists: it holds without poll errors.

### Disagreements that are not the subject of a run

Of the executor and the loop:

- The quote delta of an order is the whole wallet's: a swap of another token that
  lands while the order is open ends up in its fill price (`executor.py:492`), where
  `config.yaml:83` expects exact deltas. `FillIsExact` states what is left: the delta
  is exact for every order that no other token's swap overlapped.
- A buy that lands between the startup's reconcile and its wallet read is adopted and
  booked again by the next reconcile (`executor.py:562`). `BooksBacked` holds, over
  crashes, for every token to which no start has done this.
- When the event log cannot be written after a fill, `_exec_and_log` marks the filled
  order FAILED (`agent.py:451`, `:468-469`) and `reconcile` marks the one it has booked
  UNKNOWN, to book and count it again next time (`agent.py:308`, `:328-329`).
  `CountedOnce` and the properties beside it are checked and proved without such errors.
- `agent.py:445-448` wants a persisted cooldown after every full exit. A close confirmed
  by `reconcile` sets none. If the decider proposed it, its memory still knows, until a
  restart; if it was a stop, a profit lock or the kill switch, nothing knows, and the
  token may be bought back in the tick that finds the sale. `CooldownKept` holds for
  all other sales, and leaves out exactly these two kinds.
- A first buy that reverts has a zero balance without decimals; `reconcile` returns
  before it looks at the transaction (`executor.py:521`) and the token is blocked.
  A sale left unknown whose proceeds another buy has spent can never be proved to
  have happened: `LandedIsBooked` holds for every landed swap but those whose deltas
  another token's swap has hidden, and without that exception TLC finds this one.
- An order that was never broadcast has no hash and no delta: it stays UNKNOWN "for
  manual review" (`agent.py:321-324`) and blocks every later trade of its token, its
  stop and the kill switch's close included (`agent.py:425-428`). `StopIsServed` is
  about the holdings that no such order blocks.
- With a failed executable quote the kill switch reads the reference mark, which
  `agent.py:510-512` rules out.
- The gate judges each buy of a batch against the same `entries_today` and the same
  cash: a batch can pass `max_trades_per_day` (`EntriesBounded` says by how much at
  most) and is then executed with what cash there is.
- The README's 4 % position stop and 15 % kill line are 6 % and 20 % in `config.yaml`;
  "Min 1 trade/day guaranteed" stands beside `force_daily_trade: false`, and no code
  reads either setting.

Of the decider, the review and the gate:

- A fresh holding above its target value is not trimmed while another target is
  bought, so the gross exposure can pass `target_gross_exposure_pct`
  (`config.yaml:236`); a held token without a signal is not counted when the others
  are sized; a scout is sized by the gross another target earned.
- `float(x or default)` takes zero for missing: a token exactly at its 48h high, a
  lossless route or a riskless token is treated as unknown (`Missing`).
- A drawdown in percent up to 1 is read as a fraction (`Fraction`).
- The pullback exposure is computed as a maximum where its comment says capped.
- Which holdings hysteresis keeps depends on the iteration order of a set;
  `HoldingKept` states what holds in every order, and `DeskChurn` that a holding can
  lose its place to a challenger that does not beat it.
- The exposure of a top-five place is a constant 5 %, which no code compares with
  `target_gross_exposure_pct`: configured below that, a batch may spend more than the
  gate's shares of the loss budget are made for (`EveryBatchFits` assumes it is not).
- The closes of a rotation are dropped when the gate approves no buy. A fully
  invested portfolio has no cash, hence no buy, hence never rotates; with little cash
  it sells all and buys back little (`risk_gate.py:134`).
- The review is shown the first five buys; the others pass or fall with it. The
  drawdown budget of a buy leaves out the exposure already held.
- The streaks outlive gaps in the observations: two good ticks hours apart confirm
  (`ConfirmedEntry` speaks of observations, not of ticks). One tick may trim and top
  up the same token.

Of the universe, the holdings and the scoring:

- A probe miss drops a base token's metrics at once, where a dynamic token's are
  retained. A risk score of 100 read once stays in its cache.
- A top-up raises the average and can switch a profit lock off. A take that is booked
  but not noted is repeated: one confirmed late, one whose log entry or save raised
  (`agent.py:451`, `:468-478`), and one whose note a crash lost. `TakenOnce` does not
  count these takes, and bounds all others.
- What a refresh found is gone after a restart when its cache write failed
  (`universe.py:134-140`). `RecentStaysMapped` holds for all probes but those.
- A snapshot that missed balances stays in the history as a drawdown until the
  history has moved on, and a lost log query turns swaps into withdrawals, although
  the docstring at `leaderboard.py:237` says an error never breaks a run.
  `JudgeRecovers` states when both are over. The same docstring classifies transfers by
  their sender being an EOA; the code (and the model) nets each transaction.
- The paper executor does not check cash and leaves a skipped trim `PENDING`.

### Fairness

`Execution.FairSpec`: weak fairness for the steps of the process (a loop without
exit, restarted by systemd) and for the chain's decision on a swap. Reads may fail at
any time: a reconcile that would find an answer has strong fairness over all orders,
and a start's reading of the wallet does not fail for ever. Nothing is assumed about
which trades are attempted. Nothing is assumed either of an order whose balances
decide nothing: strong fairness asks only for what is possible again and again.

`Session.FairSpec`: weak fairness for the steps of a tick, strong fairness for a
successful fetch of prices and for the arrival of a new day. Trades need not fill.

`Holding.Fairness`: weak fairness for `Start` (systemd) and for the steps of the
loop that need nothing from outside. A tick may fail in its refresh any number of
times but not for ever (strong fairness of the two ways through it). An unresolved
order that can be settled, and is looked at again and again, is settled, and a stop
that is tried again and again fills (strong fairness of both): the code retries both
without limit and can do no more. An order that left no proof is never settled, and
no fairness pretends that it is. `StopIsServed` says that nothing else, no lost peak,
skipped quote, failing save or log, late order or restart, keeps a holding at its
stop. `HoldingStart` is checked under the same fairness.

`Desk` and `Judge` have no liveness property: nothing obliges the desk to trade, and
`JudgeRecovers` counts clean runs instead.

## 4. What is proved

### `Execution`

`TypeCorrect` and `WriteAhead` (`PersistedBeforeSend`) hold for every instance and
every set of faults. `PersistedBeforeSend` is not inductive by itself: the broadcast
step needs to know that the order being sent is on disk, and a crash that memory
knows no less than the disk. `PersistInv` adds that memory too knows every swap the
chain has seen, that disk and memory agree in every phase but recovery and
reconcile, where they differ only in orders still open on disk (`Agreement`), and
that the order being executed is open and unsent until the broadcast (`Process`).

`EachFillIsCountedOnce` holds under every fault but a log entry that cannot be
written (`Logged`), poll errors and transfers included. `Counts` says of memory and
of the disk that the trade counter is the number of filled orders; the set has to be
finite for its cardinality to grow by one with each fill, so that is part of the
invariant, and no order is filled a second time because a fill starts from an open
one. `ReconcileNotLogged` is how the code leaves a counted order open; hence the
hypothesis.

`SettledOnlyByTheChain`, `CashIsSettled`, `RetriesAreInformed` and
`ImplementsLedger` assume `Undisturbed`: no poll errors, no unwritable log and no
transfers by the owner. The first two are necessary (`ExecPollError`;
`FillNotLogged`); the third keeps the wallet's movements those of the agent's swaps. The inductive invariant
`SafeInv` adds to `PersistInv`, for the orders in memory and on disk alike
(`Judges`), that a token has at most one open order, that a swap in the mempool has
one, that settled orders tell what the chain did, and that the token's balance is
the open order's snapshot plus what its swap has moved: this is why a positive delta
proves the landing. `Owed` says that cash differs from the quote balance only on
account of an open order whose swap has landed. From it
`NoBlindRetry` follows at `Broadcast` (the order in flight is the only open one of
its token), and the refinement by matching each action: `PrepareOrder` is `Intend`,
`Broadcast` is `Broadcast`, `Land` and `Revert` are `Settle`, every save is `Close`.

Two more theorems stand on `SafeInv`, hence on `Undisturbed`. Their invariants tell
few of the steps apart, so `StepKinds` first classifies all of them, as one that
moves no balance, position or order, sets an open order's status, fills an order,
lands a swap, opens an order, or reads a position off the wallet. Both are for any
number of tokens and crashes, and their invariants hold of memory and of the disk
alike. `FillsAreExact`: as long as no other token's swap has landed since an order
was opened, its quote snapshot plus what its own swap has moved is the quote balance
(`Exact`). `BooksAreBacked`: the wallet covers the position of each token without an
open order, and an open order's snapshot covers its token's (`Backed`); a start that
reads the wallet keeps this unless a landed buy is still to be booked, and then the
token is `adopted`.

`LedgerIsTruthful` proves the abstract ledger's own promise for any set of ids.

### `Session`

`EntriesStayBounded`, `LossesAreSeen`, `RotationsArePaired` and `HaltsAreQuiet`
rest on `SessionInv`: `Control` (what each phase leaves empty), `Budget` (entries,
unresolved buys and approved buys together stay within the bound, which is why
approved but unexecuted buys have to be counted). The bound is not one batch's: the
gate does not count unresolved buys, so one-buy batches of many ticks may all be
unresolved at once, one per token, which is what limits them. Further, `Pairing` (a rotated token is no
longer held while buys remain), `Pausing` (a halted agent is in no trading phase)
and `Fresh` (the equity the gate reads is the worth of the books). `TypeCorrect` needs
that a worth, a sum over the positions, is a natural number, which is a lemma of
`SumProofs`.

### Sums

`SumProofs` replaces the induction over data that the prover cannot do. The library
defines a sum by a recursive function over the subsets of its domain, each peeled
by `CHOOSE`. The lemmas show that this recursion has a solution on every finite set
and only one, each by the smallest counterexample: a finite set's subsets that refute a
claim have a minimal one among them (`Smallest`), and peeling that one gives a
smaller. What follows is what a reader expects of sums: of the empty set, with one
element more, in any order, monotone, bounded, of a part, weighted.

### `RiskGate` and `Desk`

`ApprovedIsBounded` and `StopFitsBudget` are about the gate's arithmetic for every
size and configuration: the approved size is a quotient of products of the
request, the cap and the budget; the proof cancels `GrossMax` and `PlannedLoss`
from `StopLoss * size <= Budget`.

`DeskProofs` proves, for any universe, views and waiting times, `TypeOK`,
`ProposesBatch`, `OnlyReduced`, `CooldownKept`, `ConfirmedEntry`, `BatchFits` and
`HoldingKept`. `DeskInv` carries the reasons of a batch from phase to phase:
`Founded` (each entry of the batch was allowed by a clock or by conviction, and by a
score or an earlier good observation; each close has armed the clock in memory),
`Clocked` (of the two clocks one has seen each sale since which the cooldown runs,
unless the token is `unclocked`: late stops, and late closes over a restart), `Streaked` (what the saved streak says of
the last observation, which differs within a tick for a token with a signal and one
without) and `Reduced`. Sizes are natural numbers because `WantIsNat` bounds the
exposure from below, which is also what makes the gate's lemma applicable.
Hysteresis enters only as a choice among the eligible, so the theorems hold for any
order.

`EveryBatchFits` adds up what the gate bounds one buy at a time. The decider gives
each target an equal share of one gross exposure and buys at most as many as there
are targets, so the sizes it asks for sum to no more than that exposure; the review
enlarges none (`SizedInv` keeps both). Of each size the gate approves at most its
share of the loss budget, so all that it approves, stopped out at once, is within
the budget. The gross exposure is at most the configured one only if that is no less
than the top-five constant: hence the hypothesis `GrossMax >= 50`, true of the
shipped configuration (550) and, as the code has no check, not of every one.

`HealthyHoldingsAreKept` is about a fold over the holdings in an arbitrary order. The
fold is written as a function on the sets of holdings already visited (`Keeps`), which
is shown to exist, and followed one holding at a time (`FoldSteps`): a step puts the
holding in place of the weakest target or leaves the targets as they are. A fold that
ends without a holding has therefore never taken one in, and has compared each
holding with the best targets themselves (`NoneKept`, `RotatedIsBeaten`). A fold that
ends with one may have put it in another holding's place, so no hurdle protects the
other (`DeskChurn`), but a newcomer that is still a target is among the best
(`NewcomersLead`), hence no worse than a holding that is not.

### `Holding`

`HoldingProofs` proves the universe's two invariants, `TakenOnce` and `StopRatchets`,
for any tokens, prices, floor steps and number of crashes. `HoldingInv` adds what the
metrics in memory and in the cache file say of the probes they come from: the map has
each recent probe that is not `lost`, and the file each that is neither `lost` nor
`unsaved` (`UniverseInv`). `BooksOK` says how far a failed save leaves the file behind:
where both have a holding the saved peak is no higher, and while an order is open they
agree on the holding and its note. `TakesNoted` says where the process is while a
take that counts is not yet noted. `StopsTighten` is the lemma that a higher peak stops out at every price
at which a lower one did, over the steps and the trailing gap.

### `Judge`

`JudgeProofs` proves `TypeOK`, `DepositNeutral` and `JudgeRecovers` for any wallet,
prices, payments, number of transactions and history length. `WalletInv` is about the
chain: the wallet's worth is the stake plus gains plus payments (`Accounted`), and as
long as payments were in stablecoins the flows the script would compute are those
payments at any price (`FlowsAreNet`): a transaction with two legs is a swap and nets
to nothing, one with a single leg of stablecoins has no price in it. `ScriptInv` is
about the files: the page shows the retained history (`PageShows`), and the last
`clean` entries of it hold the stake and the gains (`CleanIsReal`). A history is cut
from its old end, so after as many clean runs as it is long every entry is clean, and
the drawdown published is the real one.

### Assumptions, and what the proofs leave out

The assumptions on constants are `ConstantsOK`, `NoIdAssumption`,
`SessionConstants`, `GateConstants`, `DeskConstants`, `UniverseConstants`,
`LockConstants`, `HoldingConstants` and `JudgeConstants`; TLC evaluates each in the
runs of its module.

Three hypotheses come besides: `Logged` (`EachFillIsCountedOnce`), `Undisturbed`,
which includes it (the theorems of `Execution` on `SafeInv`), and `GrossMax >= 50`
(`EveryBatchFits`); the reasons are given above.

Model-checked only: the liveness properties `LandedIsBooked` and `StopIsServed` (the
prover treats neither fairness nor ENABLED), and that each failing run fails.

## 5. Not modelled, and what is left

Left, in the order it would be taken up:

1. Crashes and saves in `Session`, and the composition: `Session`'s `Attempt`
   refined by `Execution`.
2. `PaperExecution`: the mock executor and the orders a restart finds.
3. The scheduler's clock and backoff, the TTL caches of the data sources, the x402
   payment.

Not modelled, by component:

- Rule-based decider: stateless, and not used in the shipped configuration.
- Leaderboard reader: one cached read; its result, unknown included, is an input.
- Signal source, signal engine, indicators: network reads, parsing and
  floating-point functions of market data; scores and views are inputs.
- Decision log, reporting, dashboards, backtest and the other scripts: output and
  offline tools on which no state of the agent depends.
- x402 server: a stateless endpoint.
- The prompt and the provider's text of the review: any answer is a behaviour.

Overflow plays no role: Python integers are unbounded and the state is small.

## 6. Running

    tlc -workers 2 -config ExecSafety.cfg MCExecution
    tlc -workers 2 -config SessionSafety.cfg MCSession
    tlc -workers 2 -config DeskSafety.cfg MCDesk
    tlc -workers 2 -config HoldingSafety.cfg MCHolding
    tlc -workers 2 -config JudgeSafety.cfg MCJudge
    tlapm DeskProofs.tla

Each run's module and configuration, the mapping from definitions to source lines,
the mutants, the hazards and the theorems are listed in `PROJECT.json`.
