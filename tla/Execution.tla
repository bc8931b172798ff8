------------------------------ MODULE Execution ------------------------------
(***************************************************************************)
(* The life of a live swap: agent._exec_and_log and TwakExecutor.execute   *)
(* on the sending side, agent.reconcile and TwakExecutor.reconcile on the  *)
(* settling side, the state file that has to survive a crash between any   *)
(* two of their steps, and the chain that lands a swap when it likes.      *)
(*                                                                         *)
(* Amounts are small integers of atomic units and one unit of a token      *)
(* swaps for one unit of the quote asset: prices matter to no property     *)
(* here, which amounts move and which amounts are booked does.             *)
(***************************************************************************)
EXTENDS Integers, FiniteSets

CONSTANTS
    Tokens,       \* tokens with a contract in twak.token_contracts
    MaxTick,      \* bound: ticks that may attempt trades (later ticks only reconcile)
    Sizes,        \* sizes the caller may ask for, in quote units
    InitialCash,  \* quote balance of the signer wallet at seeding
    MinSwap,      \* execution.min_swap_quote
    RetryBase,    \* execution.retry_base_seconds, in ticks
    RetryCap,     \* execution.retry_max_seconds, in ticks
    MaxOrders,    \* bound: orders ever prepared, and fills counted when a log fails
    MaxCrashes,   \* bound: process crashes
    Faults,       \* what the environment may do; see FaultKinds
    NoId          \* no order is being executed

FaultKinds == {"callError", "ambiguous", "pollError", "logError", "revert", "transfer"}

ASSUME ConstantsOK ==
    /\ MaxTick \in Nat /\ InitialCash \in Nat /\ MinSwap \in Nat
    /\ Sizes \subseteq Nat /\ MaxCrashes \in Nat /\ MaxOrders \in Nat
    /\ RetryBase \in Nat /\ RetryCap \in Nat
    /\ Faults \subseteq FaultKinds

Actions == {"buy", "close", "trim"}

\* make_order_id: the same tick, token and action always name the same order.
Ids == [tick : 1..MaxTick, token : Tokens, action : Actions]

ASSUME NoIdAssumption == NoId \notin Ids

Unsettled == {"PENDING", "SENT", "UNKNOWN"}
Statuses  == Unsettled \cup {"NONE", "FILLED", "FAILED"}

\* state.Order; NONE stands for an id that is not in open_orders.  tx says that
\* tx_hash is set; the deltas are those of the fill, which the code keeps as
\* their ratio (price).
Orders == [status : Statuses, tx : BOOLEAN, preToken : Nat, preQuote : Nat,
           amount : Nat, tokenDelta : Nat, quoteDelta : Nat]

NoOrder == [status |-> "NONE", tx |-> FALSE, preToken |-> 0, preQuote |-> 0,
            amount |-> 0, tokenDelta |-> 0, quoteDelta |-> 0]

Least(a, b) == IF a <= b THEN a ELSE b

VARIABLES
    orders,      \* state.open_orders
    qty,         \* state.positions[t].qty; 0 is no position
    cash,        \* state.cash_usd
    trades,      \* state.trade_count_total
    failures,    \* state.execution_failures
    retryAfter,  \* state.execution_retry_after
    exitedAt,    \* state.rotation_exited_at; 0 is absent
    lastTrade,   \* state.last_trade_ts
    disk,        \* the state file
    wallet,      \* token balances of the signer wallet
    usdt,        \* quote balance of the signer wallet
    chain,       \* what became of the swap an order sent
    swapped,     \* the amount that swap carries
    overlapped,  \* history: orders that were open when another token's swap landed
    adopted,     \* history: tokens a start read with a landed buy not yet booked
    pc,          \* where the process is
    cur,         \* the order being executed
    todo,        \* orders reconcile() still has to visit
    unread,      \* positions reconcile_portfolio() still has to read
    tick,        \* the clock, in ticks; it survives a crash
    crashes      \* crashes so far

bookVars  == <<orders, qty, cash, trades, failures, retryAfter, exitedAt, lastTrade>>
chainVars == <<wallet, usdt, chain, swapped, overlapped, adopted>>
ctlVars   == <<pc, cur, todo, unread, tick, crashes>>
vars      == <<bookVars, disk, chainVars, ctlVars>>

-----------------------------------------------------------------------------
(* The state file. *)

Snapshot == [orders |-> orders, qty |-> qty, cash |-> cash, trades |-> trades,
             failures |-> failures, retryAfter |-> retryAfter,
             exitedAt |-> exitedAt, lastTrade |-> lastTrade]

\* PortfolioState.save: temporary file, then os.replace.
Save == disk' = Snapshot'

\* PortfolioState.load.
Load ==
    /\ orders' = disk.orders /\ qty' = disk.qty /\ cash' = disk.cash
    /\ trades' = disk.trades /\ failures' = disk.failures
    /\ retryAfter' = disk.retryAfter /\ exitedAt' = disk.exitedAt
    /\ lastTrade' = disk.lastTrade

-----------------------------------------------------------------------------
(* Bookkeeping helpers of PortfolioState and of the executor. *)

\* Mutant of PendingOrders: an UNKNOWN order counts as settled.
KnownPendingOrders == {id \in Ids : orders[id].status \in {"PENDING", "SENT"}}

PendingOrders == {id \in Ids : orders[id].status \in Unsettled}

\* Mutant of HasUnresolvedOrder: only an order known to be sent blocks its token.
HasSentOrder(t) == \E id \in Ids : id.token = t /\ orders[id].status \in {"PENDING", "SENT"}

HasUnresolvedOrder(t) == \E id \in PendingOrders : id.token = t

\* delay = min(cap, base * 2 ** (count - 1))
RecordExecutionFailure(t) ==
    /\ failures' = [failures EXCEPT ![t] = @ + 1]
    /\ \E delay \in 0..RetryCap :
          /\ delay = Least(RetryCap, RetryBase * 2^failures[t])
          /\ retryAfter' = [retryAfter EXCEPT ![t] = tick + delay]

ClearExecutionFailure(t) ==
    /\ failures' = [failures EXCEPT ![t] = 0]
    /\ retryAfter' = [retryAfter EXCEPT ![t] = 0]

SetStatus(id, s) == orders' = [orders EXCEPT ![id].status = s]

\* The deltas execute and reconcile compute from the pre-trade snapshot.
TokenDelta(id) ==
    IF id.action = "buy" THEN wallet[id.token] - orders[id].preToken
                         ELSE orders[id].preToken - wallet[id.token]

QuoteDelta(id) ==
    IF id.action = "buy" THEN orders[id].preQuote - usdt
                         ELSE usdt - orders[id].preQuote

\* Both deltas have the sign of the trade.  A balance of zero reads back with
\* unknown decimals, which no fill may be computed from.
Observable(id) ==
    /\ TokenDelta(id) > 0 /\ QuoteDelta(id) > 0
    /\ wallet[id.token] > 0 /\ usdt > 0

\* Mutant of QuantityAfter: a trim books more than is held.
QuantityUnclamped(id) ==
    CASE id.action = "buy"   -> qty[id.token] + TokenDelta(id)
      [] id.action = "close" -> 0
      [] id.action = "trim"  -> qty[id.token] - TokenDelta(id)

\* Mutant of QuantityAfter: a trim leaves the position as it was.
QuantityIgnoresTrim(id) ==
    CASE id.action = "buy"   -> qty[id.token] + TokenDelta(id)
      [] id.action = "close" -> 0
      [] id.action = "trim"  -> qty[id.token]

\* _apply_live_buy, and _apply_live_close with close_all for a full close.
QuantityAfter(id) ==
    CASE id.action = "buy"   -> qty[id.token] + TokenDelta(id)
      [] id.action = "close" -> 0
      [] id.action = "trim"  ->
            IF qty[id.token] <= TokenDelta(id) THEN 0
                                               ELSE qty[id.token] - TokenDelta(id)

\* Apply the fill and complete_order; status is what the order is left with.
ApplyFill(id, status) ==
    /\ Observable(id)
    /\ qty' = [qty EXCEPT ![id.token] = QuantityAfter(id)]
    /\ cash' = usdt
    /\ orders' = [orders EXCEPT ![id] =
                    [@ EXCEPT !.status = status, !.tx = TRUE,
                              !.tokenDelta = TokenDelta(id),
                              !.quoteDelta = QuoteDelta(id)]]
    /\ trades' = trades + 1

\* Mutant of BookFill: cash moves by the requested amount, the balance is not read.
BookNominalFill(id) ==
    /\ Observable(id)
    /\ qty' = [qty EXCEPT ![id.token] = QuantityAfter(id)]
    /\ cash' = IF id.action = "buy" THEN cash - orders[id].amount
                                    ELSE cash + orders[id].amount
    /\ orders' = [orders EXCEPT ![id] =
                    [@ EXCEPT !.status = "FILLED", !.tx = TRUE,
                              !.tokenDelta = TokenDelta(id),
                              !.quoteDelta = QuoteDelta(id)]]
    /\ trades' = trades + 1
    /\ ClearExecutionFailure(id.token)

BookFill(id) == ApplyFill(id, "FILLED") /\ ClearExecutionFailure(id.token)

-----------------------------------------------------------------------------
(* main(): start, reconcile, reconcile_portfolio, save. *)

Start ==
    /\ pc = "down"
    /\ pc' = "recover"
    /\ todo' = PendingOrders
    /\ UNCHANGED <<bookVars, disk, chainVars, cur, unread, tick, crashes>>

\* Mutant of ReconcileFill: the loop goes on with an order it has just booked,
\* and leaves it for manual review.
ReconcileFallsThrough(id) ==
    /\ pc \in {"recover", "reconcile"} /\ id \in todo
    /\ ApplyFill(id, "UNKNOWN")
    /\ ClearExecutionFailure(id.token)
    /\ todo' = todo \ {id}
    /\ UNCHANGED <<exitedAt, lastTrade, disk, chainVars, pc, cur, unread, tick, crashes>>

\* One iteration of reconcile()'s loop: the deltas prove the fill.
ReconcileFill(id) ==
    /\ pc \in {"recover", "reconcile"} /\ id \in todo
    /\ BookFill(id)
    /\ todo' = todo \ {id}
    /\ UNCHANGED <<exitedAt, lastTrade, disk, chainVars, pc, cur, unread, tick, crashes>>

\* The fill is booked, then its log entry cannot be written: the loop's handler
\* marks the order UNKNOWN again.
ReconcileNotLogged(id) ==
    /\ "logError" \in Faults /\ trades < MaxOrders
    /\ pc \in {"recover", "reconcile"} /\ id \in todo
    /\ ApplyFill(id, "UNKNOWN")
    /\ ClearExecutionFailure(id.token)
    /\ todo' = todo \ {id}
    /\ UNCHANGED <<exitedAt, lastTrade, disk, chainVars, pc, cur, unread, tick, crashes>>

\* Mutant of ReconcileFailed: no delta yet is taken for a failed transaction.
ReconcileImpatient(id) ==
    /\ pc \in {"recover", "reconcile"} /\ id \in todo
    /\ TokenDelta(id) <= 0 \/ QuoteDelta(id) <= 0
    /\ wallet[id.token] > 0 /\ usdt > 0
    /\ orders[id].tx
    /\ SetStatus(id, "FAILED")
    /\ todo' = todo \ {id}
    /\ UNCHANGED <<qty, cash, trades, failures, retryAfter, exitedAt, lastTrade,
                   disk, chainVars, pc, cur, unread, tick, crashes>>

\* No delta, but the transaction is known and has failed on chain.
ReconcileFailed(id) ==
    /\ pc \in {"recover", "reconcile"} /\ id \in todo
    /\ TokenDelta(id) <= 0 \/ QuoteDelta(id) <= 0
    /\ wallet[id.token] > 0 /\ usdt > 0
    /\ orders[id].tx /\ chain[id] = "reverted"
    /\ SetStatus(id, "FAILED")
    /\ todo' = todo \ {id}
    /\ UNCHANGED <<qty, cash, trades, failures, retryAfter, exitedAt, lastTrade,
                   disk, chainVars, pc, cur, unread, tick, crashes>>

\* Mutant of ReconcileInconclusive: what cannot be proved is written off.
ReconcileWriteOff(id) ==
    /\ pc \in {"recover", "reconcile"} /\ id \in todo
    /\ ~ Observable(id)
    /\ SetStatus(id, "FAILED")
    /\ todo' = todo \ {id}
    /\ UNCHANGED <<qty, cash, trades, failures, retryAfter, exitedAt, lastTrade,
                   disk, chainVars, pc, cur, unread, tick, crashes>>

\* Nothing conclusive, or a read that raised: UNKNOWN, for manual review.
ReconcileInconclusive(id) ==
    /\ pc \in {"recover", "reconcile"} /\ id \in todo
    /\ \/ "callError" \in Faults
       \/ /\ ~ Observable(id)
          /\ \/ ~ (orders[id].tx /\ chain[id] = "reverted")
             \/ wallet[id.token] = 0 \/ usdt = 0
    /\ SetStatus(id, "UNKNOWN")
    /\ todo' = todo \ {id}
    /\ UNCHANGED <<qty, cash, trades, failures, retryAfter, exitedAt, lastTrade,
                   disk, chainVars, pc, cur, unread, tick, crashes>>

\* reconcile_portfolio: the quote balance first, kept when it reads as zero.
ReconcileCash ==
    /\ pc = "recover" /\ todo = {}
    /\ cash' = IF usdt > 0 THEN usdt ELSE cash
    /\ unread' = {t \in Tokens : qty[t] > 0}
    /\ pc' = "portfolio"
    /\ UNCHANGED <<orders, qty, trades, failures, retryAfter, exitedAt, lastTrade,
                   disk, chainVars, cur, todo, tick, crashes>>

\* A buy of t has landed and is not on the books yet.
LandedUnbooked(t) ==
    \E id \in PendingOrders : id.token = t /\ id.action = "buy" /\ chain[id] = "landed"

ReconcileToken(t) ==
    /\ pc = "portfolio" /\ t \in unread
    /\ qty' = [qty EXCEPT ![t] = wallet[t]]
    /\ unread' = unread \ {t}
    /\ adopted' = adopted \cup {u \in {t} : LandedUnbooked(u)}
    /\ UNCHANGED <<orders, cash, trades, failures, retryAfter, exitedAt, lastTrade, disk,
                   wallet, usdt, chain, swapped, overlapped, pc, cur, todo, tick, crashes>>

\* A balance read that raises in reconcile_portfolio ends main(); systemd
\* starts it again from the state file.
PortfolioError ==
    /\ "callError" \in Faults
    /\ pc = "portfolio" \/ (pc = "recover" /\ todo = {})
    /\ Load
    /\ pc' = "down" /\ unread' = {}
    /\ UNCHANGED <<disk, chainVars, cur, todo, tick, crashes>>

FinishStartup ==
    /\ pc = "portfolio" /\ unread = {}
    /\ pc' = "idle"
    /\ UNCHANGED <<bookVars, chainVars, cur, todo, unread, tick, crashes>>
    /\ Save

-----------------------------------------------------------------------------
(* run_tick and the trades a tick attempts. *)

BeginTick ==
    /\ pc = "idle"
    /\ tick' = Least(tick + 1, MaxTick + 1)
    /\ todo' = PendingOrders
    /\ pc' = IF PendingOrders = {} THEN "trading" ELSE "reconcile"
    /\ UNCHANGED <<bookVars, disk, chainVars, cur, unread, crashes>>

FinishReconcile ==
    /\ pc = "reconcile" /\ todo = {}
    /\ pc' = "trading"
    /\ UNCHANGED <<bookVars, chainVars, cur, todo, unread, tick, crashes>>
    /\ Save

EndTick ==
    /\ pc = "trading"
    /\ pc' = "idle"
    /\ UNCHANGED <<bookVars, chainVars, cur, todo, unread, tick, crashes>>
    /\ Save

\* _exec_and_log's early returns (backoff, unresolved order) and execute's
\* duplicate check; each leaves the state as it is.
MayAttempt(id) ==
    /\ pc = "trading" /\ id.tick = tick
    /\ tick >= retryAfter[id.token]
    /\ ~ HasUnresolvedOrder(id.token)
    /\ orders[id].status = "NONE"

\* A buy keeps one unit of the quote balance, a sale one unit of dust.
SwapAmount(id, size) ==
    CASE id.action = "buy"   -> Least(size, IF usdt = 0 THEN 0 ELSE usdt - 1)
      [] id.action = "close" -> wallet[id.token] - 1
      [] id.action = "trim"  -> Least(wallet[id.token] - 1, size)

\* What the pre-trade checks accept: the minimum for a buy, a quote with
\* positive output for a sale.
AmountAccepted(id, n) == IF id.action = "buy" THEN n >= MinSwap /\ n > 0 ELSE n > 0

\* A sale without a local position is skipped before anything is sent.
Sellable(id) == id.action = "buy" \/ (qty[id.token] > 0 /\ wallet[id.token] > 0)

\* A gas, balance or quote call fails, or a check on the quote refuses the
\* trade, before an order exists: only the token's backoff is recorded.
RejectBeforeSend(id, size) ==
    /\ MayAttempt(id)
    /\ \/ "callError" \in Faults
       \/ usdt = 0
       \/ Sellable(id) /\ ~ AmountAccepted(id, SwapAmount(id, size))
    /\ RecordExecutionFailure(id.token)
    /\ UNCHANGED <<orders, qty, cash, trades, exitedAt, lastTrade, chainVars, ctlVars>>
    /\ Save

\* The wallet no longer holds a position the books still show.
DropPosition(id) ==
    /\ MayAttempt(id) /\ id.action # "buy"
    /\ usdt > 0 /\ qty[id.token] > 0 /\ wallet[id.token] = 0
    /\ qty' = [qty EXCEPT ![id.token] = 0]
    /\ cash' = usdt
    /\ UNCHANGED <<orders, trades, failures, retryAfter, exitedAt, lastTrade,
                   chainVars, ctlVars>>
    /\ Save

\* Mutant of PrepareOrder: the intent stays in memory until the swap returns.
PrepareUnsaved(id, size) ==
    /\ MayAttempt(id) /\ usdt > 0 /\ Sellable(id)
    /\ AmountAccepted(id, SwapAmount(id, size))
    /\ Cardinality({o \in Ids : orders[o].status # "NONE"}) < MaxOrders
    /\ orders' = [orders EXCEPT ![id] =
                    [NoOrder EXCEPT !.status = "PENDING",
                                    !.preToken = wallet[id.token], !.preQuote = usdt,
                                    !.amount = SwapAmount(id, size)]]
    /\ cur' = id
    /\ pc' = "sending"
    /\ UNCHANGED <<qty, cash, trades, failures, retryAfter, exitedAt, lastTrade,
                   chainVars, disk, todo, unread, tick, crashes>>

\* _prepare_order: the intent and its balance snapshot reach the disk, then the
\* swap command starts.
PrepareOrder(id, size) ==
    /\ MayAttempt(id) /\ usdt > 0 /\ Sellable(id)
    /\ AmountAccepted(id, SwapAmount(id, size))
    /\ Cardinality({o \in Ids : orders[o].status # "NONE"}) < MaxOrders
    /\ orders' = [orders EXCEPT ![id] =
                    [NoOrder EXCEPT !.status = "PENDING",
                                    !.preToken = wallet[id.token], !.preQuote = usdt,
                                    !.amount = SwapAmount(id, size)]]
    /\ cur' = id
    /\ pc' = "sending"
    /\ UNCHANGED <<qty, cash, trades, failures, retryAfter, exitedAt, lastTrade,
                   chainVars, todo, unread, tick, crashes>>
    /\ Save

-----------------------------------------------------------------------------
(* The swap command, as execute sees it end. *)

\* twak signs and broadcasts; the agent learns of it only when twak returns.
Broadcast ==
    /\ pc = "sending"
    /\ chain' = [chain EXCEPT ![cur] = "mempool"]
    /\ swapped' = [swapped EXCEPT ![cur] = orders[cur].amount]
    /\ pc' = "sent"
    /\ UNCHANGED <<bookVars, disk, wallet, usdt, overlapped, adopted,
                   cur, todo, unread, tick, crashes>>

\* Success with a hash: mark_sent, persist, then poll the balances.
SwapReturned ==
    /\ pc = "sent"
    /\ orders' = [orders EXCEPT ![cur].status = "SENT", ![cur].tx = TRUE]
    /\ pc' = "confirming"
    /\ UNCHANGED <<qty, cash, trades, failures, retryAfter, exitedAt, lastTrade,
                   chainVars, cur, todo, unread, tick, crashes>>
    /\ Save

\* The tail of every failed attempt in _exec_and_log.
FailAttempt(status) ==
    /\ SetStatus(cur, status)
    /\ RecordExecutionFailure(cur.token)
    /\ pc' = "trading" /\ cur' = NoId
    /\ UNCHANGED <<qty, cash, trades, exitedAt, lastTrade, chainVars,
                   todo, unread, tick, crashes>>
    /\ Save

\* A timeout, or success without a hash: nobody knows whether it was sent.
SwapAmbiguous ==
    /\ "ambiguous" \in Faults
    /\ pc \in {"sending", "sent"}
    /\ FailAttempt("UNKNOWN")

\* twak exits with an error before it broadcasts anything.
SwapError ==
    /\ "callError" \in Faults
    /\ pc = "sending"
    /\ FailAttempt("FAILED")

\* The poll sees both balances move; the books follow, and a full close also
\* starts the token's re-entry cooldown.
ConfirmFill ==
    /\ pc = "confirming"
    /\ BookFill(cur)
    /\ lastTrade' = tick
    /\ exitedAt' = IF cur.action = "close" THEN [exitedAt EXCEPT ![cur.token] = tick]
                                           ELSE exitedAt
    /\ pc' = "trading" /\ cur' = NoId
    /\ UNCHANGED <<chainVars, todo, unread, tick, crashes>>
    /\ Save

\* The fill is booked, then its log entry cannot be written: _exec_and_log takes
\* the error for a failed order.
FillNotLogged ==
    /\ "logError" \in Faults /\ trades < MaxOrders
    /\ pc = "confirming"
    /\ ApplyFill(cur, "FAILED")
    /\ failures' = [failures EXCEPT ![cur.token] = 1]
    /\ retryAfter' = [retryAfter EXCEPT ![cur.token] = tick + Least(RetryCap, RetryBase)]
    /\ lastTrade' = tick
    /\ exitedAt' = IF cur.action = "close" THEN [exitedAt EXCEPT ![cur.token] = tick]
                                           ELSE exitedAt
    /\ pc' = "trading" /\ cur' = NoId
    /\ UNCHANGED <<chainVars, todo, unread, tick, crashes>>
    /\ Save

\* The polls run out, or one of them times out.
ConfirmUnknown ==
    /\ pc = "confirming"
    /\ ~ Observable(cur) \/ "ambiguous" \in Faults
    /\ FailAttempt("UNKNOWN")

\* A poll raises any other error, which _exec_and_log takes for a failed order.
ConfirmError ==
    /\ "pollError" \in Faults
    /\ pc = "confirming"
    /\ FailAttempt("FAILED")

-----------------------------------------------------------------------------
(* The environment: crashes, the chain, the wallet's owner. *)

\* The process dies and what it had not saved is gone; systemd restarts it.
Crash ==
    /\ pc # "down" /\ crashes < MaxCrashes
    /\ crashes' = crashes + 1
    /\ Load
    /\ pc' = "down" /\ cur' = NoId /\ todo' = {} /\ unread' = {}
    /\ UNCHANGED <<disk, chainVars, tick>>

Covered(id) == IF id.action = "buy" THEN usdt >= swapped[id]
                                    ELSE wallet[id.token] >= swapped[id]

\* An order is open in memory, or will be again after a restart.
InFlight(id) == orders[id].status \in Unsettled \/ disk.orders[id].status \in Unsettled

\* A swap takes effect in the balances the agent's node reports.
Land(id) ==
    /\ chain[id] = "mempool" /\ Covered(id)
    /\ chain' = [chain EXCEPT ![id] = "landed"]
    /\ wallet' = [wallet EXCEPT ![id.token] =
                    IF id.action = "buy" THEN @ + swapped[id] ELSE @ - swapped[id]]
    /\ usdt' = IF id.action = "buy" THEN usdt - swapped[id] ELSE usdt + swapped[id]
    /\ overlapped' = overlapped \cup {o \in Ids : o.token # id.token /\ InFlight(o)}
    /\ UNCHANGED <<bookVars, disk, swapped, adopted, ctlVars>>

Revert(id) ==
    /\ chain[id] = "mempool"
    /\ "revert" \in Faults \/ ~ Covered(id)
    /\ chain' = [chain EXCEPT ![id] = "reverted"]
    /\ UNCHANGED <<bookVars, disk, wallet, usdt, swapped, overlapped, adopted, ctlVars>>

\* The owner moves a token out of the wallet while no order of it is in flight.
Transfer(t) ==
    /\ "transfer" \in Faults
    /\ wallet[t] > 0 /\ ~ HasUnresolvedOrder(t)
    /\ wallet' = [wallet EXCEPT ![t] = 0]
    /\ UNCHANGED <<bookVars, disk, usdt, chain, swapped, overlapped, adopted, ctlVars>>

-----------------------------------------------------------------------------
EmptyBooks ==
    [orders |-> [id \in Ids |-> NoOrder], qty |-> [t \in Tokens |-> 0],
     cash |-> InitialCash, trades |-> 0, failures |-> [t \in Tokens |-> 0],
     retryAfter |-> [t \in Tokens |-> 0], exitedAt |-> [t \in Tokens |-> 0],
     lastTrade |-> 0]

\* A first start on a seeded wallet that holds only the quote asset.
Init ==
    /\ orders = EmptyBooks.orders /\ qty = EmptyBooks.qty
    /\ cash = InitialCash /\ trades = 0 /\ lastTrade = 0
    /\ failures = EmptyBooks.failures /\ retryAfter = EmptyBooks.retryAfter
    /\ exitedAt = EmptyBooks.exitedAt
    /\ disk = EmptyBooks
    /\ wallet = [t \in Tokens |-> 0] /\ usdt = InitialCash
    /\ chain = [id \in Ids |-> "none"] /\ swapped = [id \in Ids |-> 0]
    /\ overlapped = {} /\ adopted = {}
    /\ pc = "down" /\ cur = NoId
    /\ todo = {} /\ unread = {} /\ tick = 0 /\ crashes = 0

Reconcile(id) == ReconcileFill(id) \/ ReconcileNotLogged(id)
                   \/ ReconcileFailed(id) \/ ReconcileInconclusive(id)

Attempt(id, size) == RejectBeforeSend(id, size) \/ DropPosition(id) \/ PrepareOrder(id, size)

SwapOutcome == SwapReturned \/ SwapAmbiguous \/ SwapError
                 \/ ConfirmFill \/ FillNotLogged \/ ConfirmUnknown \/ ConfirmError

Next ==
    \/ Start \/ ReconcileCash \/ PortfolioError \/ FinishStartup
    \/ BeginTick \/ FinishReconcile \/ EndTick
    \/ Broadcast \/ SwapOutcome \/ Crash
    \/ \E id \in Ids : Reconcile(id) \/ Land(id) \/ Revert(id)
    \/ \E id \in Ids, size \in Sizes : Attempt(id, size)
    \/ \E t \in Tokens : ReconcileToken(t) \/ Transfer(t)

Spec == Init /\ [][Next]_vars

-----------------------------------------------------------------------------
(* Properties. *)

Books == [orders : [Ids -> Orders], qty : [Tokens -> Nat], cash : Nat, trades : Nat,
          failures : [Tokens -> Nat], retryAfter : [Tokens -> Nat],
          exitedAt : [Tokens -> Nat], lastTrade : Nat]

\* Every variable stays in its type: the books in memory and on disk, the
\* wallet, the chain and the process.
TypeOK ==
    /\ Snapshot \in Books /\ disk \in Books
    /\ wallet \in [Tokens -> Nat] /\ usdt \in Nat
    /\ chain \in [Ids -> {"none", "mempool", "landed", "reverted"}]
    /\ swapped \in [Ids -> Nat]
    /\ overlapped \subseteq Ids /\ adopted \subseteq Tokens
    /\ pc \in {"down", "recover", "portfolio", "idle", "reconcile", "trading",
               "sending", "sent", "confirming"}
    /\ cur \in Ids \cup {NoId}
    /\ pc \in {"sending", "sent", "confirming"} => cur \in Ids
    /\ todo \subseteq Ids /\ unread \subseteq Tokens
    /\ tick \in Nat /\ crashes \in Nat

\* A swap the chain has seen is a swap the state file knows, with the amount it
\* was meant to carry: whenever the process dies, the restart finds it.
PersistedBeforeSend ==
    \A id \in Ids : chain[id] # "none" =>
        /\ disk.orders[id].status # "NONE"
        /\ disk.orders[id].amount = swapped[id]

\* An order recorded as filled is a swap that landed, and the token quantity
\* booked for it is what that swap moved, whoever found out, execute, the next
\* tick or a restart; an order recorded as failed never moved anything.
SettledMeansHappened ==
    \A id \in Ids :
        /\ orders[id].status = "FILLED" =>
              chain[id] = "landed" /\ orders[id].tokenDelta = swapped[id]
        /\ orders[id].status = "FAILED" => chain[id] \in {"none", "reverted"}

\* A swap is broadcast only when every earlier swap of the same token has been
\* settled on chain and, if it landed, booked: a retry never overlaps, and is
\* never sized against, a swap the agent has lost sight of.
NoBlindRetry ==
    [][\A id \in Ids : chain[id] = "none" /\ chain'[id] = "mempool" =>
          \A other \in Ids \ {id} : other.token = id.token =>
              /\ chain[other] # "mempool"
              /\ chain[other] = "landed" => disk.orders[other].status = "FILLED"]_vars

\* Each filled order is counted once, in memory and on disk, however many
\* restarts find it still open, and no other order is counted.
CountedOnce ==
    /\ trades = Cardinality({id \in Ids : orders[id].status = "FILLED"})
    /\ disk.trades = Cardinality({id \in Ids : disk.orders[id].status = "FILLED"})

\* A token without an order in flight is never shown with more than the wallet
\* holds, before and after crashes: what stops and sizing work on can be sold.
\* Only a start that reads the wallet after a buy of the token landed and before
\* it is booked may count that buy twice.
BooksBacked ==
    \A t \in Tokens \ adopted : ~ HasUnresolvedOrder(t) => qty[t] <= wallet[t]

\* Once every order is resolved the cash on the books is the quote balance of
\* the wallet.
CashSettled ==
    pc \in {"idle", "trading"} /\ PendingOrders = {} => cash = usdt

\* A filled order shows the quote amount its own swap moved, unless a swap of
\* another token landed while it was open: orders of its own token, crashes,
\* late landings and retries leave the fill price as the chain made it.
FillIsExact ==
    \A id \in Ids : orders[id].status = "FILLED" /\ id \notin overlapped =>
        orders[id].quoteDelta = swapped[id]

-----------------------------------------------------------------------------
(* The state file implements the abstract order ledger. *)

TokenOf(id) == id.token

BookOf(status) ==
    CASE status = "NONE" -> "none"
      [] status = "FILLED" -> "filled"
      [] status = "FAILED" -> "void"
      [] OTHER -> "open"

Ledger == INSTANCE OrderLedger
    WITH Id <- Ids, TokenOf <- TokenOf,
         book <- [id \in Ids |-> BookOf(disk.orders[id].status)]

\* Every step of the agent, its crashes and the chain is a step of the ledger,
\* or changes nothing the ledger shows.
LedgerSpec == Ledger!Spec

-----------------------------------------------------------------------------
(* Liveness.  The process runs whenever it can (a loop without exit, under    *)
(* systemd Restart=always) and the chain decides every swap; the reads of an  *)
(* order's balances, and of the wallet at a start, may fail any number of     *)
(* times, but not for ever.                                                   *)

Fairness ==
    /\ WF_vars(Start \/ ReconcileCash \/ FinishStartup)
    /\ WF_vars(BeginTick \/ FinishReconcile \/ EndTick)
    /\ WF_vars(Broadcast \/ SwapOutcome)
    /\ WF_vars(\E id \in Ids : Reconcile(id))
    /\ WF_vars(\E t \in Tokens : ReconcileToken(t))
    /\ WF_vars(\E id \in Ids : Land(id) \/ Revert(id))
    /\ SF_vars(\E id \in Ids : ReconcileFill(id) \/ ReconcileFailed(id))
    /\ <>[][~ PortfolioError]_vars

FairSpec == Spec /\ Fairness

\* A swap that landed is booked in the end, by execute, a later tick or a
\* restart.  The one way to lose it is that a swap of another token landed while
\* its order was open and hid its deltas, as a buy does that spends the proceeds.
LandedIsBooked ==
    \A id \in Ids :
        <>[](chain[id] = "landed" =>
                \/ disk.orders[id].status = "FILLED"
                \/ id \in overlapped /\ ~ Observable(id))
=============================================================================
