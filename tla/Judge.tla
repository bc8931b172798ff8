--------------------------------- MODULE Judge ---------------------------------
(***************************************************************************)
(* How the tournament sees the agent: scripts/leaderboard.py values the    *)
(* wallet, finds the external deposits and withdrawals in the transfer     *)
(* logs, keeps a history of snapshots and publishes return and drawdown    *)
(* net of deposits, from whatever its queries return.                      *)
(*                                                                         *)
(* The wallet holds a stablecoin and a token; amounts and prices are small *)
(* integers, returns and drawdowns thousandths.                            *)
(***************************************************************************)
EXTENDS Integers, Sequences, FiniteSets, FiniteSetsExt

CONSTANTS
    Prices,      \* prices of the token
    Stake,       \* stablecoins at go-live
    Unit,        \* stablecoins of a deposit or a withdrawal
    MaxTx,       \* bound: transactions after go-live
    MaxHist,     \* MAXHIST
    MinCap,      \* MINCAP
    Unknown      \* None

ASSUME JudgeConstants ==
    /\ Prices \subseteq Nat \ {0} /\ Unknown \notin Int
    /\ {Stake, Unit, MaxTx, MinCap} \subseteq Nat
    /\ MaxHist \in Nat \ {0}

VARIABLES
    usd, tok,    \* the wallet
    price,       \* of the token
    txs,         \* the agent's transactions: what came in, what went out
    hist,        \* history.json: value and flow of the retained snapshots
    flowsFile,   \* flows.json
    page,        \* the agent's row: return and drawdown
    pnl,         \* history: what trading has gained
    net,         \* history: what was deposited, less what was withdrawn
    stable,      \* history: no token was deposited or withdrawn
    real,        \* history: stake and gain at the retained snapshots
    clean        \* history: fault-free runs since the last faulty one

wallet  == <<usd, tok, price, txs>>
script  == <<hist, flowsFile, page>>
vars    == <<wallet, script, pnl, net, stable, real, clean>>

Assets == {"usd", "tok"}
PriceOf(a) == IF a = "usd" THEN 1 ELSE price
Amounts == [Assets -> Nat]
Nothing == [a \in Assets |-> 0]
Only(asset, n) == [a \in Assets |-> IF a = asset THEN n ELSE 0]

Worth(amount) == amount["usd"] + amount["tok"] * price
Balances == [a \in Assets |-> IF a = "usd" THEN usd ELSE tok]

Init ==
    /\ usd = Stake /\ tok = 0 /\ price \in Prices /\ txs = <<>>
    /\ hist = <<>> /\ flowsFile = 0
    /\ page = [ret |-> Unknown, dd |-> 0]
    /\ pnl = 0 /\ net = 0 /\ stable = TRUE /\ real = <<>>
    /\ clean = 0

-----------------------------------------------------------------------------
(* The chain: swaps, transfers in and out, and the market. *)

\* A transaction moves the wallet and leaves its transfers in the logs.
Transact(in, out) ==
    /\ Len(txs) < MaxTx
    /\ usd + in["usd"] >= out["usd"] /\ tok + in["tok"] >= out["tok"]
    /\ usd' = usd + in["usd"] - out["usd"]
    /\ tok' = tok + in["tok"] - out["tok"]
    /\ txs' = Append(txs, [in |-> in, out |-> out])
    /\ UNCHANGED <<price, script, pnl, real, clean>>

Swap ==
    /\ \/ Transact(Only("tok", 1), Only("usd", price))
       \/ Transact(Only("usd", price), Only("tok", 1))
    /\ UNCHANGED <<net, stable>>

Deposit(asset, n) ==
    /\ Transact(Only(asset, n), Nothing)
    /\ net' = net + n * PriceOf(asset) /\ stable' = (stable /\ asset = "usd")

Withdraw(asset, n) ==
    /\ Transact(Nothing, Only(asset, n))
    /\ net' = net - n * PriceOf(asset) /\ stable' = (stable /\ asset = "usd")

PriceMoves ==
    /\ price' \in Prices \ {price}
    /\ pnl' = pnl + tok * (price' - price)
    /\ UNCHANGED <<usd, tok, txs, script, net, stable, real, clean>>

-----------------------------------------------------------------------------
(* scripts/leaderboard.py. *)

\* value_agents: a balance that a failed multicall left out counts for nothing.
ValueRead(answered) == Worth([a \in Assets |-> IF a \in answered THEN Balances[a] ELSE 0])

\* Mutant of NetOf: a transaction's larger leg decides.
NetOfAlways(inn, out) == inn - out

\* A transaction with both legs is a trade, one leg alone a flow.
NetOf(inn, out) == IF inn > 0 /\ out > 0 THEN 0 ELSE inn - out

\* external_flows, from the transfers to the agent and the transfers from it
\* that its two queries returned, at today's prices.
Flows(gotIn, gotOut) ==
    SumFunction([i \in DOMAIN txs |-> NetOf(IF gotIn THEN Worth(txs[i].in) ELSE 0,
                                            IF gotOut THEN Worth(txs[i].out) ELSE 0)])

\* Mutant of Retained: the history is never cut.
RetainedAll(h, entry) == Append(h, entry)

\* hist.append(...); hist[-MAXHIST:]
Retained(h, entry) ==
    LET all == Append(h, entry)
    IN SubSeq(all, IF Len(all) > MaxHist THEN Len(all) - MaxHist + 1 ELSE 1, Len(all))

PeakTo(s, j) == Max({0} \cup {s[i] : i \in 1..j})

\* The deepest fall from a running peak.
Drawdown(s) ==
    Max({0} \cup {(1000 * (PeakTo(s, j) - s[j])) \div PeakTo(s, j) :
                     j \in {k \in DOMAIN s : PeakTo(s, k) > 0}})

\* Mutant of Series: raw values.
SeriesRaw(h) == [i \in DOMAIN h |-> h[i].v]

\* The value less the cumulative net deposits.
Series(h) == [i \in DOMAIN h |-> h[i].v - h[i].f]

\* Trading gain over the capital deployed.
Return(v, f) == IF Stake + f > MinCap THEN (1000 * (v - Stake - f)) \div (Stake + f) ELSE Unknown

\* One run, with what it read of the wallet and the flows it came up with.
Publish(v, f) ==
    /\ hist' = Retained(hist, [v |-> v, f |-> f])
    /\ page' = [ret |-> Return(v, f), dd |-> Drawdown(Series(hist'))]
    /\ real' = Retained(real, Stake + pnl)
    /\ UNCHANGED <<wallet, pnl, net, stable>>

RunClean ==
    /\ Publish(ValueRead(Assets), Flows(TRUE, TRUE)) /\ flowsFile' = Flows(TRUE, TRUE)
    /\ clean' = Min({clean + 1, MaxHist})

\* Balances are missing from the multicall's answers.
RunWithoutBalances ==
    /\ \E answered \in SUBSET Assets \ {Assets} : Publish(ValueRead(answered), Flows(TRUE, TRUE))
    /\ flowsFile' = Flows(TRUE, TRUE)
    /\ clean' = 0

\* grab gives a query up and takes the block range for empty; the transactions
\* fit in one range.
RunWithoutTransfers ==
    /\ \E gotIn, gotOut \in BOOLEAN :
          /\ ~ (gotIn /\ gotOut)
          /\ Publish(ValueRead(Assets), Flows(gotIn, gotOut))
          /\ flowsFile' = Flows(gotIn, gotOut)
    /\ clean' = 0

\* The logs cannot be read at all: the flows of the last run are taken, or,
\* when the archive node or the file is missing, zeros.
RunWithoutLogs ==
    /\ \E f \in {flowsFile, 0} : Publish(ValueRead(Assets), f)
    /\ UNCHANGED flowsFile
    /\ clean' = 0

Next ==
    \/ Swap \/ PriceMoves
    \/ \E asset \in Assets : Deposit(asset, Unit) \/ Withdraw(asset, Unit)
    \/ RunClean \/ RunWithoutBalances \/ RunWithoutTransfers \/ RunWithoutLogs

Spec == Init /\ [][Next]_vars

-----------------------------------------------------------------------------
(* Properties. *)

TypeOK ==
    /\ usd \in Nat /\ tok \in Nat /\ price \in Prices
    /\ txs \in Seq([in : Amounts, out : Amounts]) /\ Len(txs) <= MaxTx
    /\ hist \in Seq([v : Nat, f : Int]) /\ Len(hist) <= MaxHist /\ Len(real) = Len(hist)
    /\ flowsFile \in Int /\ pnl \in Int /\ net \in Int
    /\ page \in [ret : Int \cup {Unknown}, dd : Nat]

\* Topping the wallet up, or taking out of it, is no gain and no loss: after a
\* fault-free run the return is what trading gained over the capital deployed,
\* whatever was swapped, paid in and paid out in between and whatever earlier
\* runs got wrong, as long as the payments were in the stablecoin.
DepositNeutral ==
    stable /\ clean > 0 =>
        LET last == hist[Len(hist)]
        IN /\ last.v - last.f = real[Len(real)]
           /\ page.ret = Return(last.v, last.v - real[Len(real)])

\* A drawdown that a faulty run made up, or hid, is gone after as many clean
\* runs as the history retains: the published one is then that of the trading
\* gains at the retained snapshots.
JudgeRecovers == stable /\ clean = MaxHist => page.dd = Drawdown(real)
===============================================================================
