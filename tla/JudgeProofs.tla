------------------------------ MODULE JudgeProofs ------------------------------
(***************************************************************************)
(* What the tournament's numbers say of the agent, for any prices, stakes  *)
(* and payments and any number of transactions.  The wallet is worth the   *)
(* stake, what trading gained and what was paid in; the flows the script   *)
(* finds are the payments, whatever the price they are valued at, because  *)
(* a swap has two legs and a stablecoin payment has no price.              *)
(***************************************************************************)
EXTENDS Judge, SumProofs, SequenceTheorems

-----------------------------------------------------------------------------
(* The wallet. *)

Transaction == [in : Amounts, out : Amounts]

\* What an amount is worth, and what a transaction counts for in the flows, at
\* a price p; the flows over the transactions t.
WorthAt(p, a) == a["usd"] + a["tok"] * p
NetAt(p, x) == NetOf(WorthAt(p, x.in), WorthAt(p, x.out))
NetsAt(p, t) == [i \in DOMAIN t |-> NetAt(p, t[i])]
FlowsAt(p, t) == SumFunctionOnSet(NetsAt(p, t), DOMAIN t)

\* A transaction whose net flow is the same at every price: a swap, or a payment
\* in the stablecoin.
Swapped(x) == x.in["usd"] + x.in["tok"] > 0 /\ x.out["usd"] + x.out["tok"] > 0
Priceless(x) == Swapped(x) \/ (x.in["tok"] = 0 /\ x.out["tok"] = 0)

WalletTyped ==
    /\ usd \in Nat /\ tok \in Nat /\ price \in Prices
    /\ txs \in Seq(Transaction) /\ Len(txs) <= MaxTx
    /\ pnl \in Int /\ net \in Int /\ stable \in BOOLEAN

\* The wallet is worth the stake, the gains and the payments.
Accounted == usd + tok * price = Stake + pnl + net

\* As long as all payments were in the stablecoin, the flows are the payments.
FlowsAreNet ==
    stable => /\ \A i \in DOMAIN txs : Priceless(txs[i])
              /\ FlowsAt(price, txs) = net

WalletInv == WalletTyped /\ Accounted /\ FlowsAreNet

LEMMA WorthType ==
  ASSUME NEW p \in Prices, NEW a \in Amounts
  PROVE  /\ WorthAt(p, a) \in Nat
         /\ WorthAt(p, a) > 0 <=> a["usd"] + a["tok"] > 0
         /\ a["tok"] = 0 => WorthAt(p, a) = a["usd"]
  <1>1. a["usd"] \in Nat /\ a["tok"] \in Nat
    BY DEF Amounts, Assets
  <1>2. p \in Nat \ {0}
    BY JudgeConstants
  <1>3. \A m \in Nat, q \in Nat \ {0} : m * q \in Nat /\ (m > 0 => m * q > 0) /\ 0 * q = 0
    OBVIOUS
  <1> QED
    BY <1>1, <1>2, <1>3 DEF WorthAt

LEMMA NetType ==
  ASSUME NEW p \in Prices, NEW x \in Transaction
  PROVE  NetAt(p, x) \in Int
  <1>1. x.in \in Amounts /\ x.out \in Amounts
    BY DEF Transaction
  <1>2. WorthAt(p, x.in) \in Nat /\ WorthAt(p, x.out) \in Nat
    BY <1>1, WorthType
  <1> QED
    BY <1>2 DEF NetAt, NetOf

LEMMA NetsType ==
  ASSUME NEW p \in Prices, NEW t \in Seq(Transaction)
  PROVE  /\ DOMAIN t = 1..Len(t) /\ Len(t) \in Nat /\ IsFiniteSet(DOMAIN t)
         /\ \A i \in DOMAIN t : NetsAt(p, t)[i] \in Int
         /\ FlowsAt(p, t) \in Int
  <1>1. DOMAIN t = 1..Len(t) /\ Len(t) \in Nat
    OBVIOUS
  <1>2. IsFiniteSet(DOMAIN t)
    BY <1>1, UpToIsFinite
  <1>3. \A i \in DOMAIN t : NetsAt(p, t)[i] \in Int
    <2>1. \A i \in DOMAIN t : t[i] \in Transaction
      OBVIOUS
    <2> QED
      BY <2>1, NetType DEF NetsAt
  <1>4. FlowsAt(p, t) \in Int
    BY <1>2, <1>3, SumInt DEF FlowsAt
  <1> QED
    BY <1>1, <1>2, <1>3, <1>4

LEMMA PaymentTypes ==
  ASSUME NEW asset \in Assets, NEW n \in Nat
  PROVE  /\ Only(asset, n) \in Amounts /\ Nothing \in Amounts
         /\ Only(asset, n)[asset] = n
         /\ \A a \in Assets \ {asset} : Only(asset, n)[a] = 0
         /\ \A a \in Assets : Nothing[a] = 0
  BY DEF Only, Nothing, Amounts, Assets

\* With both queries answered, the script's flows are those.
LEMMA AllFlows ==
  ASSUME WalletTyped
  PROVE  Flows(TRUE, TRUE) = FlowsAt(price, txs)
  <1>1. \A a : Worth(a) = WorthAt(price, a)
    BY DEF Worth, WorthAt
  <1>2. Flows(TRUE, TRUE) = SumFunction(NetsAt(price, txs))
    BY <1>1 DEF Flows, NetsAt, NetAt
  <1>3. DOMAIN NetsAt(price, txs) = DOMAIN txs
    BY DEF NetsAt
  <1> QED
    BY <1>2, <1>3 DEF SumFunction, FlowsAt

\* The flows from any of the two queries are a number.
LEMMA FlowsType ==
  ASSUME WalletTyped, NEW gotIn \in BOOLEAN, NEW gotOut \in BOOLEAN
  PROVE  Flows(gotIn, gotOut) \in Int
  <1> DEFINE f == [i \in DOMAIN txs |-> NetOf(IF gotIn THEN Worth(txs[i].in) ELSE 0,
                                              IF gotOut THEN Worth(txs[i].out) ELSE 0)]
  <1>1. ASSUME NEW i \in DOMAIN txs
        PROVE  f[i] \in Int
    <2>1. txs[i] \in Transaction /\ price \in Prices
      BY DEF WalletTyped
    <2>2. txs[i].in \in Amounts /\ txs[i].out \in Amounts
      BY <2>1 DEF Transaction
    <2>3. WorthAt(price, txs[i].in) \in Nat /\ WorthAt(price, txs[i].out) \in Nat
      BY <2>1, <2>2, WorthType
    <2> QED
      BY <2>3 DEF NetOf, Worth, WorthAt
  <1>2. IsFiniteSet(DOMAIN txs)
    BY NetsType DEF WalletTyped
  <1>3. DOMAIN f = DOMAIN txs
    OBVIOUS
  <1>4. Flows(gotIn, gotOut) = SumFunctionOnSet(f, DOMAIN f)
    BY Zenon DEF Flows, SumFunction
  <1> HIDE DEF f
  <1> QED
    BY <1>1, <1>2, <1>3, <1>4, SumInt

\* A payment in the stablecoin counts for its amount, a swap for nothing.
LEMMA NetOfPriceless ==
  ASSUME NEW p \in Prices, NEW x \in Transaction, Priceless(x)
  PROVE  NetAt(p, x) = IF Swapped(x) THEN 0 ELSE x.in["usd"] - x.out["usd"]
  <1>1. x.in \in Amounts /\ x.out \in Amounts
    BY DEF Transaction
  <1>2. /\ WorthAt(p, x.in) \in Nat /\ (WorthAt(p, x.in) > 0 <=> x.in["usd"] + x.in["tok"] > 0)
        /\ WorthAt(p, x.out) \in Nat /\ (WorthAt(p, x.out) > 0 <=> x.out["usd"] + x.out["tok"] > 0)
        /\ x.in["tok"] = 0 => WorthAt(p, x.in) = x.in["usd"]
        /\ x.out["tok"] = 0 => WorthAt(p, x.out) = x.out["usd"]
    BY <1>1, WorthType
  <1> QED
    BY <1>2 DEF NetAt, NetOf, Priceless, Swapped

\* So the flows do not depend on the price.
LEMMA FlowsArePriceless ==
  ASSUME NEW p \in Prices, NEW q \in Prices, NEW t \in Seq(Transaction),
         \A i \in DOMAIN t : Priceless(t[i])
  PROVE  FlowsAt(q, t) = FlowsAt(p, t)
  <1>1. \A i \in DOMAIN t : NetsAt(q, t)[i] = NetsAt(p, t)[i]
    <2>1. \A i \in DOMAIN t : t[i] \in Transaction
      OBVIOUS
    <2>2. \A i \in DOMAIN t : NetAt(q, t[i]) = NetAt(p, t[i])
      BY <2>1, NetOfPriceless
    <2> QED
      BY <2>2 DEF NetsAt
  <1>2. IsFiniteSet(DOMAIN t) /\ \A i \in DOMAIN t : NetsAt(p, t)[i] \in Int
    BY NetsType
  <1> QED
    BY <1>1, <1>2, SumSame DEF FlowsAt

\* A new transaction adds its net amount.
LEMMA FlowsGrow ==
  ASSUME NEW p \in Prices, NEW t \in Seq(Transaction), NEW x \in Transaction
  PROVE  FlowsAt(p, Append(t, x)) = FlowsAt(p, t) + NetAt(p, x)
  <1> DEFINE u == Append(t, x)
             n == Len(t) + 1
             D == DOMAIN t
             f == NetsAt(p, t)
             g == NetsAt(p, u)
  <1>1. u \in Seq(Transaction) /\ Len(u) = n /\ u[n] = x /\ \A i \in 1..Len(t) : u[i] = t[i]
    BY AppendProperties
  <1>2. D = 1..Len(t) /\ Len(t) \in Nat /\ IsFiniteSet(D) /\ \A i \in D : f[i] \in Int
    BY NetsType
  <1>3. DOMAIN u = 1..Len(u) /\ \A i \in DOMAIN u : g[i] \in Int
    <2> HIDE DEF u
    <2> QED
      BY <1>1, NetsType
  <1>4. DOMAIN u = D \cup {n} /\ n \notin D
    BY <1>1, <1>2, <1>3
  <1>5. (\A i \in D : g[i] = f[i]) /\ g[n] = NetAt(p, x)
    <2> HIDE DEF u
    <2> QED
      BY <1>1, <1>2, <1>4 DEF NetsAt
  <1>6. FlowsAt(p, t) = SumFunctionOnSet(f, D) /\ FlowsAt(p, u) = SumFunctionOnSet(g, DOMAIN u)
    BY DEF FlowsAt
  <1> HIDE DEF u, n, D, f, g
  <1>7. SumFunctionOnSet(g, D \cup {n}) = g[n] + SumFunctionOnSet(g, D)
    BY <1>2, <1>3, <1>4, SumAdd
  <1>8. SumFunctionOnSet(g, D) = SumFunctionOnSet(f, D)
    BY <1>2, <1>5, SumSame
  <1>9. SumFunctionOnSet(f, D) \in Int
    BY <1>2, SumInt
  <1>10. g[n] \in Int
    BY <1>3, <1>4
  <1>11. FlowsAt(p, u) = FlowsAt(p, t) + NetAt(p, x)
    BY <1>4, <1>5, <1>6, <1>7, <1>8, <1>9, <1>10
  <1> QED
    BY <1>11 DEF u

LEMMA WalletStarts == Init => WalletInv
  <1> SUFFICES ASSUME Init PROVE WalletInv
    OBVIOUS
  <1>1. WalletTyped
    BY JudgeConstants DEF Init, WalletTyped, Transaction
  <1>2. Accounted
    <2>1. price \in Nat /\ Stake \in Nat
      BY JudgeConstants DEF Init
    <2> QED
      BY <2>1 DEF Init, Accounted
  <1>3. DOMAIN txs = {}
    BY DEF Init
  <1>4. FlowsAt(price, txs) = 0
    BY <1>3, SumEmpty DEF FlowsAt
  <1> QED
    BY <1>1, <1>2, <1>3, <1>4 DEF Init, FlowsAreNet, WalletInv

\* What a transaction does to the wallet.
LEMMA TransactEffect ==
  ASSUME WalletTyped, NEW in \in Amounts, NEW out \in Amounts, Transact(in, out)
  PROVE  LET x == [in |-> in, out |-> out]
         IN  /\ usd' \in Nat /\ tok' \in Nat
             /\ x \in Transaction /\ txs' = Append(txs, x)
             /\ txs' \in Seq(Transaction) /\ Len(txs') <= MaxTx
             /\ UNCHANGED <<price, pnl>>
             /\ usd' + tok' * price
                  = usd + tok * price + WorthAt(price, in) - WorthAt(price, out)
  <1> DEFINE x == [in |-> in, out |-> out]
             iu == in["usd"]
             it == in["tok"]
             ou == out["usd"]
             ot == out["tok"]
  <1>1. x \in Transaction
    BY DEF Transaction
  <1>2. txs' = Append(txs, x) /\ Len(txs) < MaxTx /\ UNCHANGED <<price, pnl>>
    BY DEF Transact
  <1>3. usd' = usd + iu - ou /\ usd + iu >= ou /\ tok' = tok + it - ot /\ tok + it >= ot
    BY DEF Transact
  <1>4. iu \in Nat /\ it \in Nat /\ ou \in Nat /\ ot \in Nat
    BY DEF Amounts, Assets
  <1>5. usd \in Nat /\ tok \in Nat /\ price \in Nat /\ Len(txs) \in Nat /\ MaxTx \in Nat
    BY JudgeConstants DEF WalletTyped
  <1>6. WorthAt(price, in) = iu + it * price /\ WorthAt(price, out) = ou + ot * price
    BY DEF WorthAt
  <1>7. txs' \in Seq(Transaction) /\ Len(txs') = Len(txs) + 1
    <2> HIDE DEF x
    <2> QED
      BY <1>1, <1>2, AppendProperties DEF WalletTyped
  <1>8. Len(txs') <= MaxTx
    BY <1>2, <1>5, <1>7
  <1> HIDE DEF iu, it, ou, ot
  <1>9. usd' \in Nat /\ tok' \in Nat
    BY <1>3, <1>4, <1>5
  <1>10. usd' + tok' * price = usd + tok * price + WorthAt(price, in) - WorthAt(price, out)
    <2> DEFINE tp == tok * price
               ip == it * price
               op == ot * price
    <2>1. \A a, b, c, p \in Int : (a + b - c) * p = a * p + b * p - c * p
      OBVIOUS
    <2>2. tok' * price = tp + ip - op
      BY <1>3, <1>4, <1>5, <2>1
    <2>3. tp \in Int /\ ip \in Int /\ op \in Int
      BY <1>4, <1>5
    <2>4. WorthAt(price, in) = iu + ip /\ WorthAt(price, out) = ou + op
      BY <1>6
    <2> HIDE DEF tp, ip, op
    <2>5. usd' + tok' * price = usd + tp + WorthAt(price, in) - WorthAt(price, out)
      BY <1>3, <1>4, <1>5, <2>2, <2>3, <2>4
    <2> QED
      BY <2>5 DEF tp
  <1> QED
    BY <1>1, <1>2, <1>7, <1>8, <1>9, <1>10

\* A transaction keeps the wallet's account when its legs differ by what the
\* payments change by.
LEMMA Payment ==
  ASSUME WalletInv, NEW in \in Amounts, NEW out \in Amounts, Transact(in, out),
         NEW d \in Int, net' = net + d, WorthAt(price, in) - WorthAt(price, out) = d,
         stable' \in BOOLEAN,
         stable' => stable /\ Priceless([in |-> in, out |-> out])
                           /\ NetAt(price, [in |-> in, out |-> out]) = d
  PROVE  WalletInv'
  <1> DEFINE x == [in |-> in, out |-> out]
  <1>1. WalletTyped /\ Accounted /\ FlowsAreNet
    BY DEF WalletInv
  <1>2. /\ usd' \in Nat /\ tok' \in Nat
        /\ x \in Transaction /\ txs' = Append(txs, x)
        /\ txs' \in Seq(Transaction) /\ Len(txs') <= MaxTx
        /\ price' = price /\ pnl' = pnl
        /\ usd' + tok' * price
             = usd + tok * price + WorthAt(price, in) - WorthAt(price, out)
    BY <1>1, TransactEffect
  <1>3. /\ price \in Prices /\ txs \in Seq(Transaction) /\ pnl \in Int /\ net \in Int
        /\ usd \in Nat /\ tok \in Nat
    BY <1>1 DEF WalletTyped
  <1>4. WalletTyped'
    BY <1>2, <1>3 DEF WalletTyped
  <1>5. Accounted'
    <2>1. /\ WorthAt(price, in) \in Nat /\ WorthAt(price, out) \in Nat
      BY <1>3, WorthType
    <2>2. price \in Nat /\ Stake \in Nat
      BY <1>3, JudgeConstants
    <2>3. usd + tok * price = Stake + pnl + net
      BY <1>1 DEF Accounted
    <2> DEFINE w == usd + tok * price
               v == usd' + tok' * price
    <2>4. w \in Int /\ v \in Int
      BY <1>2, <1>3, <2>2
    <2>5. w = Stake + pnl + net /\ v = w + WorthAt(price, in) - WorthAt(price, out)
      BY <1>2, <2>3
    <2> HIDE DEF w, v
    <2>6. v = Stake + pnl + (net + d)
      BY <1>3, <2>1, <2>2, <2>4, <2>5
    <2>7. v = usd' + tok' * price'
      BY <1>2 DEF v
    <2> QED
      BY <1>2, <2>6, <2>7 DEF Accounted
  <1>6. ASSUME stable'
        PROVE  (\A i \in DOMAIN txs' : Priceless(txs'[i])) /\ FlowsAt(price, txs') = net'
    <2> HIDE DEF x
    <2>1. (\A i \in DOMAIN txs : Priceless(txs[i])) /\ FlowsAt(price, txs) = net
      BY <1>1, <1>6 DEF FlowsAreNet
    <2>2. Priceless(x) /\ NetAt(price, x) = d
      BY <1>6 DEF x
    <2>3. FlowsAt(price, txs') = FlowsAt(price, txs) + NetAt(price, x)
      BY <1>2, <1>3, FlowsGrow
    <2>4. /\ Len(txs') = Len(txs) + 1 /\ txs'[Len(txs) + 1] = x
          /\ \A i \in 1..Len(txs) : txs'[i] = txs[i]
      BY <1>2, <1>3, AppendProperties
    <2>5. DOMAIN txs' = 1..Len(txs') /\ DOMAIN txs = 1..Len(txs) /\ Len(txs) \in Nat
      BY <1>2, <1>3
    <2>6. \A i \in DOMAIN txs' : i = Len(txs) + 1 \/ i \in DOMAIN txs
      BY <2>4, <2>5
    <2>7. \A i \in DOMAIN txs' : Priceless(txs'[i])
      BY <2>1, <2>2, <2>4, <2>5, <2>6
    <2> QED
      BY <2>1, <2>2, <2>3, <2>7
  <1>7. FlowsAreNet'
    BY <1>2, <1>6 DEF FlowsAreNet
  <1> QED
    BY <1>4, <1>5, <1>7 DEF WalletInv

LEMMA OnlyWorth ==
  ASSUME NEW p \in Prices, NEW asset \in Assets, NEW n \in Nat
  PROVE  /\ WorthAt(p, Only(asset, n)) = n * (IF asset = "usd" THEN 1 ELSE p)
         /\ WorthAt(p, Nothing) = 0
  <1>1. p \in Nat
    BY JudgeConstants
  <1>2. 0 * p = 0
    BY <1>1
  <1>3. WorthAt(p, Nothing) = 0
    BY <1>2 DEF WorthAt, Nothing, Assets
  <1>4. CASE asset = "usd"
    BY <1>2, <1>3, <1>4 DEF WorthAt, Only, Assets
  <1>5. CASE asset = "tok"
    <2>1. n * p \in Int
      BY <1>1
    <2> QED
      BY <1>3, <1>5, <2>1 DEF WorthAt, Only, Assets
  <1> QED
    BY <1>4, <1>5 DEF Assets

LEMMA SwapKeeps ==
  ASSUME WalletInv, Swap
  PROVE  WalletInv'
  <1> DEFINE one == Only("tok", 1)
             pay == Only("usd", price)
  <1>1. price \in Prices /\ price \in Nat \ {0} /\ net \in Int /\ stable \in BOOLEAN
    BY JudgeConstants DEF WalletInv, WalletTyped
  <1>2. /\ one \in Amounts /\ one["tok"] = 1 /\ one["usd"] = 0
        /\ pay \in Amounts /\ pay["tok"] = 0 /\ pay["usd"] = price
    BY <1>1, PaymentTypes DEF Assets
  <1>3. WorthAt(price, one) = price /\ WorthAt(price, pay) = price
    BY <1>1, OnlyWorth DEF Assets
  <1>4. net' = net + 0 /\ stable' = stable
    BY <1>1 DEF Swap
  <1>5. Transact(one, pay) \/ Transact(pay, one)
    BY DEF Swap
  <1> HIDE DEF one, pay
  <1>6. \A a \in {one, pay}, b \in {one, pay} :
           a # b => /\ WorthAt(price, a) - WorthAt(price, b) = 0
                    /\ Priceless([in |-> a, out |-> b])
                    /\ NetAt(price, [in |-> a, out |-> b]) = 0
    BY <1>1, <1>2, <1>3 DEF Priceless, Swapped, NetAt, NetOf
  <1>7. one # pay
    BY <1>2
  <1>8. CASE Transact(one, pay)
    BY <1>1, <1>2, <1>4, <1>6, <1>7, <1>8, Payment
  <1>9. CASE Transact(pay, one)
    BY <1>1, <1>2, <1>4, <1>6, <1>7, <1>9, Payment
  <1> QED
    BY <1>5, <1>8, <1>9

LEMMA PaysKeeps ==
  ASSUME WalletInv, NEW asset \in Assets, Deposit(asset, Unit) \/ Withdraw(asset, Unit)
  PROVE  WalletInv'
  <1> DEFINE pay == Only(asset, Unit)
             d == Unit * PriceOf(asset)
  <1>1. /\ price \in Prices /\ price \in Nat /\ Unit \in Nat /\ net \in Int
        /\ stable \in BOOLEAN
    BY JudgeConstants DEF WalletInv, WalletTyped
  <1>2. pay \in Amounts /\ Nothing \in Amounts /\ Nothing["usd"] = 0 /\ Nothing["tok"] = 0
    BY <1>1, PaymentTypes DEF Assets
  <1>3. WorthAt(price, pay) = d /\ WorthAt(price, Nothing) = 0
    BY <1>1, OnlyWorth DEF PriceOf
  <1>4. d \in Int
    BY <1>1 DEF PriceOf
  <1>5. asset = "usd" => pay["tok"] = 0
    BY <1>1, PaymentTypes DEF Assets
  <1> HIDE DEF pay, d
  <1>6. asset = "usd" => /\ Priceless([in |-> pay, out |-> Nothing])
                         /\ Priceless([in |-> Nothing, out |-> pay])
    BY <1>2, <1>5 DEF Priceless
  <1>7. /\ NetAt(price, [in |-> pay, out |-> Nothing]) = d
        /\ NetAt(price, [in |-> Nothing, out |-> pay]) = -d
    BY <1>3, <1>4 DEF NetAt, NetOf
  <1>8. CASE Deposit(asset, Unit)
    <2>1. /\ Transact(pay, Nothing) /\ net' = net + d
          /\ stable' = (stable /\ asset = "usd")
      BY <1>8 DEF Deposit, pay, d
    <2>2. WorthAt(price, pay) - WorthAt(price, Nothing) = d
      BY <1>3, <1>4
    <2> QED
      BY <1>1, <1>2, <1>4, <1>6, <1>7, <2>1, <2>2, Payment
  <1>9. CASE Withdraw(asset, Unit)
    <2>1. /\ Transact(Nothing, pay) /\ net' = net - d
          /\ stable' = (stable /\ asset = "usd")
      BY <1>9 DEF Withdraw, pay, d
    <2>2. /\ WorthAt(price, Nothing) - WorthAt(price, pay) = -d
          /\ net' = net + (-d) /\ -d \in Int
      BY <1>1, <1>3, <1>4, <2>1
    <2> QED
      BY <1>1, <1>2, <1>6, <1>7, <2>1, <2>2, Payment
  <1> QED
    BY <1>8, <1>9

LEMMA PriceKeeps ==
  ASSUME WalletInv, PriceMoves
  PROVE  WalletInv'
  <1>1. /\ price' \in Prices /\ pnl' = pnl + tok * (price' - price)
        /\ UNCHANGED <<usd, tok, txs, net, stable>>
    BY DEF PriceMoves
  <1>2. /\ usd \in Nat /\ tok \in Nat /\ price \in Prices
        /\ txs \in Seq(Transaction) /\ Len(txs) <= MaxTx
        /\ pnl \in Int /\ net \in Int /\ stable \in BOOLEAN
    BY DEF WalletInv, WalletTyped
  <1>3. price \in Nat /\ price' \in Nat /\ Stake \in Nat
    BY <1>1, <1>2, JudgeConstants
  <1> DEFINE tp == tok * price
             tq == tok * price'
  <1>4. \A n, p, q \in Int : n * (q - p) = n * q - n * p
    OBVIOUS
  <1>5. tp \in Int /\ tq \in Int /\ tok * (price' - price) = tq - tp
    BY <1>2, <1>3, <1>4
  <1>6. usd + tp = Stake + pnl + net
    BY DEF WalletInv, Accounted
  <1>7. Accounted'
    <2> HIDE DEF tp, tq
    <2>1. usd + tq = Stake + (pnl + (tq - tp)) + net
      BY <1>2, <1>3, <1>5, <1>6
    <2>2. usd' + tok' * price' = usd + tq
      BY <1>1 DEF tq
    <2> QED
      BY <1>1, <1>5, <2>1, <2>2 DEF Accounted
  <1>8. pnl' \in Int
    <2> HIDE DEF tp, tq
    <2> QED
      BY <1>1, <1>2, <1>5
  <1>9. WalletTyped'
    BY <1>1, <1>2, <1>8 DEF WalletTyped
  <1>10. FlowsAreNet'
    <2> SUFFICES ASSUME stable
                 PROVE  /\ \A i \in DOMAIN txs : Priceless(txs[i])
                        /\ FlowsAt(price', txs) = net
      BY <1>1 DEF FlowsAreNet
    <2>1. (\A i \in DOMAIN txs : Priceless(txs[i])) /\ FlowsAt(price, txs) = net
      BY DEF WalletInv, FlowsAreNet
    <2>2. FlowsAt(price', txs) = FlowsAt(price, txs)
      BY <1>1, <1>2, <2>1, FlowsArePriceless
    <2> QED
      BY <2>1, <2>2
  <1> QED
    BY <1>7, <1>9, <1>10 DEF WalletInv

\* Whatever the market, the chain and the script do.
LEMMA WalletStays == WalletInv /\ [Next]_vars => WalletInv'
  <1> SUFFICES ASSUME WalletInv, [Next]_vars PROVE WalletInv'
    OBVIOUS
  <1>1. ASSUME UNCHANGED <<wallet, pnl, net, stable>>
        PROVE  WalletInv'
    <2>1. UNCHANGED <<usd, tok, price, txs, pnl, net, stable>>
      BY <1>1 DEF wallet
    <2> QED
      BY <2>1 DEF WalletInv, WalletTyped, Accounted, FlowsAreNet
  <1>2. CASE Swap
    BY <1>2, SwapKeeps
  <1>3. CASE PriceMoves
    BY <1>3, PriceKeeps
  <1>4. CASE \E asset \in Assets : Deposit(asset, Unit) \/ Withdraw(asset, Unit)
    BY <1>4, PaysKeeps
  <1>5. CASE RunClean \/ RunWithoutBalances \/ RunWithoutTransfers \/ RunWithoutLogs
    BY <1>1, <1>5 DEF RunClean, RunWithoutBalances, RunWithoutTransfers, RunWithoutLogs, Publish
  <1>6. CASE UNCHANGED vars
    BY <1>1, <1>6 DEF vars
  <1> QED
    BY <1>2, <1>3, <1>4, <1>5, <1>6 DEF Next

-----------------------------------------------------------------------------
(* The history and the page. *)

LEMMA LargestIsNat ==
  ASSUME NEW S, IsFiniteSet(S), NEW f, \A x \in S : f[x] \in Int
  PROVE  Max({0} \cup {f[x] : x \in S}) \in Nat
  <1> DEFINE I == {f[x] : x \in S}
             T == {0} \cup I
             g == [x \in S |-> f[x]]
  <1>1. g \in Surjection(S, I)
    BY DEF Surjection
  <1>2. IsFiniteSet(I)
    <2> HIDE DEF I, g
    <2> QED
      BY <1>1, FS_Surjection
  <1>3. IsFiniteSet(T)
    <2>1. T = I \cup {0}
      OBVIOUS
    <2> HIDE DEF I, T
    <2> QED
      BY <1>2, <2>1, FS_AddElement
  <1>4. T # {} /\ 0 \in T /\ \A n \in T : n \in Int
    OBVIOUS
  <1> HIDE DEF I, T
  <1>5. \E m \in T : \A n \in T : n <= m
    BY <1>3, <1>4, LargestOfFinite
  <1>6. \E m \in T : \A n \in T : m >= n
    BY <1>4, <1>5
  <1>7. Max(T) \in T /\ Max(T) >= 0
    BY <1>4, <1>6 DEF Max
  <1>8. Max(T) \in Nat
    BY <1>4, <1>7
  <1> QED
    BY <1>8 DEF I, T

LEMMA DrawdownType ==
  ASSUME NEW n \in Nat, NEW s \in [1..n -> Int]
  PROVE  Drawdown(s) \in Nat
  <1>1. \A j \in 1..n : PeakTo(s, j) \in Nat
    <2> SUFFICES ASSUME NEW j \in 1..n PROVE PeakTo(s, j) \in Nat
      OBVIOUS
    <2>1. IsFiniteSet(1..j)
      BY UpToIsFinite
    <2>2. \A i \in 1..j : s[i] \in Int
      OBVIOUS
    <2> QED
      BY <2>1, <2>2, LargestIsNat DEF PeakTo
  <1> DEFINE K == {k \in DOMAIN s : PeakTo(s, k) > 0}
             f == [j \in K |-> (1000 * (PeakTo(s, j) - s[j])) \div PeakTo(s, j)]
  <1>2. K \in SUBSET (1..n)
    OBVIOUS
  <1>3. IsFiniteSet(K)
    <2> HIDE DEF K
    <2> QED
      BY <1>2, UpToIsFinite, FS_Subset
  <1>4. ASSUME NEW j \in K
        PROVE  f[j] \in Int
    <2>1. PeakTo(s, j) \in Nat /\ PeakTo(s, j) > 0 /\ s[j] \in Int
      BY <1>1, <1>2
    <2>2. \A a \in Int, b \in Nat : b > 0 => a \div b \in Int
      OBVIOUS
    <2> DEFINE p == PeakTo(s, j)
               q == 1000 * (PeakTo(s, j) - s[j])
    <2>3. q \in Int /\ p \in Nat /\ p > 0 /\ f[j] = q \div p
      BY <2>1
    <2> HIDE DEF p, q, f
    <2> QED
      BY <2>2, <2>3
  <1>5. Drawdown(s) = Max({0} \cup {f[x] : x \in K})
    <2> DEFINE Fall(j) == (1000 * (PeakTo(s, j) - s[j])) \div PeakTo(s, j)
    <2>1. \A j \in K : f[j] = Fall(j)
      OBVIOUS
    <2>2. Drawdown(s) = Max({0} \cup {Fall(j) : j \in K})
      BY Zenon DEF Drawdown
    <2> HIDE DEF f, K, Fall
    <2>3. {f[x] : x \in K} = {Fall(j) : j \in K}
      BY <2>1
    <2> QED
      BY <2>2, <2>3
  <1> HIDE DEF K, f
  <1> QED
    BY <1>3, <1>4, <1>5, LargestIsNat

LEMMA ReturnType ==
  ASSUME NEW v \in Int, NEW f \in Int
  PROVE  Return(v, f) \in Int \cup {Unknown}
  <1>1. Stake \in Nat /\ MinCap \in Nat
    BY JudgeConstants
  <1>2. \A a, b \in Int : b > 0 => a \div b \in Int
    OBVIOUS
  <1>3. Stake + f \in Int /\ 1000 * (v - Stake - f) \in Int
    BY <1>1
  <1>4. Stake + f > MinCap => Stake + f > 0
    BY <1>1, <1>3
  <1> QED
    BY <1>2, <1>3, <1>4 DEF Return

\* The history with a new entry: its end, and as much before it as fits.
Cut(h) == IF Len(h) = MaxHist THEN 1 ELSE 0

LEMMA RetainedFacts ==
  ASSUME NEW S, NEW h \in Seq(S), Len(h) <= MaxHist, NEW e \in S
  PROVE  /\ Retained(h, e) \in Seq(S)
         /\ Len(Retained(h, e)) = Len(h) + 1 - Cut(h)
         /\ Retained(h, e)[Len(h) + 1 - Cut(h)] = e
         /\ \A i \in 1..(Len(h) - Cut(h)) : Retained(h, e)[i] = h[i + Cut(h)]
  <1> DEFINE all == Append(h, e)
             m == 1 + Cut(h)
             n == Len(h) + 1
  <1>1. /\ all \in Seq(S) /\ Len(all) = n /\ all[n] = e
        /\ \A i \in 1..Len(h) : all[i] = h[i]
    BY AppendProperties
  <1>2. MaxHist \in Nat /\ MaxHist > 0 /\ Len(h) \in Nat
    BY JudgeConstants
  <1>3. m \in Int /\ n \in Int /\ 1 <= m /\ m <= n /\ Cut(h) \in {0, 1}
    BY <1>2 DEF Cut
  <1>4. Retained(h, e) = SubSeq(all, m, n)
    <2>1. (IF Len(all) > MaxHist THEN Len(all) - MaxHist + 1 ELSE 1) = m
      BY <1>1, <1>2 DEF Cut
    <2>2. Retained(h, e) = SubSeq(all, IF Len(all) > MaxHist THEN Len(all) - MaxHist + 1 ELSE 1,
                                  Len(all))
      BY DEF Retained
    <2> QED
      BY <1>1, <2>1, <2>2
  <1> HIDE DEF all
  <1>5. \A i \in m..n : all[i] \in S
    BY <1>1, <1>2, <1>3
  <1>6. /\ SubSeq(all, m, n) \in Seq(S)
        /\ Len(SubSeq(all, m, n)) = IF m <= n THEN n - m + 1 ELSE 0
        /\ \A i \in 1..(n - m + 1) : SubSeq(all, m, n)[i] = all[m + i - 1]
    <2> HIDE DEF m, n
    <2> QED
      BY <1>3, <1>5, SubSeqProperties
  <1>7. n - m + 1 = Len(h) + 1 - Cut(h) /\ n - m + 1 \in 1..(n - m + 1)
    BY <1>2, <1>3
  <1>8. m + (n - m + 1) - 1 = n
    BY <1>2, <1>3
  <1>9. SubSeq(all, m, n)[n - m + 1] = e
    BY <1>1, <1>6, <1>7, <1>8
  <1>10. ASSUME NEW i \in 1..(Len(h) - Cut(h))
         PROVE  SubSeq(all, m, n)[i] = h[i + Cut(h)]
    <2>1. i \in 1..(n - m + 1) /\ m + i - 1 = i + Cut(h) /\ i + Cut(h) \in 1..Len(h)
      BY <1>2, <1>3
    <2> QED
      BY <1>1, <1>6, <2>1
  <1> QED
    BY <1>3, <1>4, <1>6, <1>7, <1>9, <1>10

ScriptTyped ==
    /\ hist \in Seq([v : Nat, f : Int]) /\ Len(hist) <= MaxHist
    /\ real \in Seq(Int) /\ Len(real) = Len(hist)
    /\ flowsFile \in Int
    /\ clean \in Nat /\ clean <= Len(hist)
    /\ page \in [ret : Int \cup {Unknown}, dd : Nat]

\* The page shows the retained history.
PageShows ==
    hist # <<>> => /\ page.dd = Drawdown(Series(hist))
                   /\ page.ret = Return(hist[Len(hist)].v, hist[Len(hist)].f)

\* The clean entries hold the stake and the gains.
CleanIsReal ==
    stable => \A i \in 1..Len(hist) : i > Len(hist) - clean => hist[i].v - hist[i].f = real[i]

ScriptInv == ScriptTyped /\ PageShows /\ CleanIsReal

LEMMA ScriptStarts == Init => ScriptInv
  <1> SUFFICES ASSUME Init PROVE ScriptInv
    OBVIOUS
  <1>1. hist = <<>> /\ real = <<>> /\ clean = 0 /\ flowsFile = 0 /\ page = [ret |-> Unknown, dd |-> 0]
    BY DEF Init
  <1>2. ScriptTyped
    BY <1>1, JudgeConstants DEF ScriptTyped
  <1> QED
    BY <1>1, <1>2 DEF ScriptInv, PageShows, CleanIsReal

LEMMA SeriesType ==
  ASSUME NEW h \in Seq([v : Nat, f : Int])
  PROVE  Len(h) \in Nat /\ Series(h) \in [1..Len(h) -> Int]
  <1>1. DOMAIN h = 1..Len(h) /\ Len(h) \in Nat
    OBVIOUS
  <1>2. \A i \in 1..Len(h) : h[i].v \in Nat /\ h[i].f \in Int
    <2> DEFINE E == [v : Nat, f : Int]
    <2>1. h \in Seq(E)
      OBVIOUS
    <2>2. \A e \in E : e.v \in Nat /\ e.f \in Int
      OBVIOUS
    <2> HIDE DEF E
    <2>3. \A i \in 1..Len(h) : h[i] \in E
      BY <1>1, <2>1
    <2> QED
      BY <2>2, <2>3
  <1>3. \A i \in 1..Len(h) : h[i].v - h[i].f \in Int
    BY <1>2
  <1> QED
    BY <1>1, <1>3 DEF Series

\* A run that publishes numbers, clean ones or not.
LEMMA RunKeeps ==
  ASSUME ScriptInv, NEW v \in Nat, NEW f \in Int, Publish(v, f), pnl \in Int,
         flowsFile' \in Int, clean' \in Nat, clean' <= clean + 1, clean' <= MaxHist,
         stable /\ clean' > 0 => v - f = Stake + pnl
  PROVE  ScriptInv'
  <1> DEFINE E == [v : Nat, f : Int]
             e == [v |-> v, f |-> f]
             r == Stake + pnl
             c == Cut(hist)
             n == Len(hist) + 1 - c
  <1>1. /\ hist \in Seq(E) /\ Len(hist) <= MaxHist /\ Len(hist) \in Nat
        /\ real \in Seq(Int) /\ Len(real) = Len(hist)
        /\ clean \in Nat /\ clean <= Len(hist)
    BY DEF ScriptInv, ScriptTyped
  <1>2. /\ hist' = Retained(hist, e) /\ real' = Retained(real, r)
        /\ page' = [ret |-> Return(v, f), dd |-> Drawdown(Series(hist'))]
        /\ stable' = stable
    BY DEF Publish
  <1>3. MaxHist \in Nat /\ MaxHist > 0 /\ Stake \in Nat
    BY JudgeConstants
  <1>4. e \in E /\ r \in Int
    BY <1>3
  <1>5. Cut(real) = c /\ c \in {0, 1} /\ n \in Nat /\ n >= 1 /\ n <= MaxHist
    BY <1>1, <1>3 DEF Cut
  <1>6. e.v = v /\ e.f = f
    OBVIOUS
  <1> HIDE DEF e, r, c, E
  <1>7. /\ hist' \in Seq(E) /\ Len(hist') = n /\ hist'[n] = e
        /\ \A i \in 1..(n - 1) : hist'[i] = hist[i + c]
    <2>1. /\ Retained(hist, e) \in Seq(E)
          /\ Len(Retained(hist, e)) = Len(hist) + 1 - Cut(hist)
          /\ Retained(hist, e)[Len(hist) + 1 - Cut(hist)] = e
          /\ \A i \in 1..(Len(hist) - Cut(hist)) : Retained(hist, e)[i] = hist[i + Cut(hist)]
      BY <1>1, <1>4, RetainedFacts
    <2>2. Len(hist) - c = n - 1
      BY <1>1, <1>5
    <2> QED
      BY <1>2, <2>1, <2>2 DEF c
  <1>8. /\ real' \in Seq(Int) /\ Len(real') = n /\ real'[n] = r
        /\ \A i \in 1..(n - 1) : real'[i] = real[i + c]
    <2>1. /\ Retained(real, r) \in Seq(Int)
          /\ Len(Retained(real, r)) = Len(real) + 1 - Cut(real)
          /\ Retained(real, r)[Len(real) + 1 - Cut(real)] = r
          /\ \A i \in 1..(Len(real) - Cut(real)) : Retained(real, r)[i] = real[i + Cut(real)]
      BY <1>1, <1>4, RetainedFacts
    <2>2. Len(real) - c = n - 1 /\ Len(real) + 1 - Cut(real) = n
      BY <1>1, <1>5
    <2> QED
      BY <1>2, <1>5, <2>1, <2>2
  <1>9. clean' <= n
    BY <1>1, <1>3, <1>5 DEF c, Cut
  <1>10. page' \in [ret : Int \cup {Unknown}, dd : Nat]
    <2>1. Return(v, f) \in Int \cup {Unknown}
      BY ReturnType
    <2>2. Series(hist') \in [1..n -> Int]
      BY <1>7, SeriesType DEF E
    <2>3. Drawdown(Series(hist')) \in Nat
      BY <1>5, <2>2, DrawdownType
    <2> QED
      BY <1>2, <2>1, <2>3
  <1>11. ScriptTyped'
    BY <1>5, <1>7, <1>8, <1>9, <1>10 DEF ScriptTyped, E
  <1>12. PageShows'
    BY <1>2, <1>6, <1>7 DEF PageShows
  <1>13. ASSUME stable, NEW i \in 1..n, i > n - clean'
         PROVE  hist'[i].v - hist'[i].f = real'[i]
    <2>1. CASE i = n
      <3>1. n - clean' < n => clean' > 0
        BY <1>5
      <3>2. clean' > 0
        BY <1>13, <2>1, <3>1
      <3>3. v - f = r
        BY <1>13, <3>2 DEF r
      <3> QED
        BY <1>6, <1>7, <1>8, <2>1, <3>3
    <2>2. CASE i # n
      <3> DEFINE k == clean'
                 l == Len(hist)
      <3>a. /\ k \in Nat /\ k <= clean + 1 /\ clean \in Nat /\ l \in Nat /\ c \in {0, 1}
            /\ n = l + 1 - c /\ i \in 1..n /\ i > n - k /\ i # n
        BY <1>1, <1>5, <1>13, <2>2
      <3> HIDE DEF k, l, n
      <3>b. i \in 1..(n - 1) /\ i + c \in 1..l /\ i + c > l - clean
        BY <3>a
      <3>1. i \in 1..(n - 1) /\ i + c \in 1..Len(hist) /\ i + c > Len(hist) - clean
        BY <3>b DEF l
      <3>2. hist[i + c].v - hist[i + c].f = real[i + c]
        BY <1>13, <3>1 DEF ScriptInv, CleanIsReal
      <3> QED
        BY <1>7, <1>8, <3>1, <3>2
    <2> QED
      BY <2>1, <2>2
  <1>14. CleanIsReal'
    BY <1>2, <1>7, <1>13 DEF CleanIsReal
  <1> QED
    BY <1>11, <1>12, <1>14 DEF ScriptInv

\* What is read of the wallet, in full or in part.
LEMMA ReadType ==
  ASSUME WalletTyped, NEW answered \in SUBSET Assets
  PROVE  ValueRead(answered) \in Nat /\ ValueRead(Assets) = usd + tok * price
  <1>1. usd \in Nat /\ tok \in Nat /\ price \in Prices
    BY DEF WalletTyped
  <1> DEFINE b == [a \in Assets |-> IF a \in answered THEN Balances[a] ELSE 0]
  <1>2. b \in Amounts
    BY <1>1 DEF Balances, Amounts, Assets
  <1>3. WorthAt(price, b) \in Nat
    <2> HIDE DEF b
    <2> QED
      BY <1>1, <1>2, WorthType
  <1>4. ValueRead(answered) = WorthAt(price, b)
    BY DEF ValueRead, Worth, WorthAt
  <1>5. ValueRead(Assets) = usd + tok * price
    BY DEF ValueRead, Worth, Balances, Assets
  <1> QED
    BY <1>3, <1>4, <1>5

JudgeInv == WalletInv /\ ScriptInv

\* A run with any fault.
LEMMA FaultyRunKeeps ==
  ASSUME ScriptInv, NEW v \in Nat, NEW f \in Int, Publish(v, f), pnl \in Int,
         flowsFile' \in Int, clean' = 0
  PROVE  ScriptInv'
  <1>1. clean \in Nat /\ MaxHist \in Nat
    BY JudgeConstants DEF ScriptInv, ScriptTyped
  <1>2. clean' \in Nat /\ clean' <= clean + 1 /\ clean' <= MaxHist /\ ~ clean' > 0
    BY <1>1
  <1>3. stable /\ clean' > 0 => v - f = Stake + pnl
    BY <1>2
  <1> QED
    BY <1>2, <1>3, RunKeeps

LEMMA InvHolds == Spec => []JudgeInv
  <1>1. Init => JudgeInv
    BY WalletStarts, ScriptStarts DEF JudgeInv
  <1>2. JudgeInv /\ [Next]_vars => JudgeInv'
    <2> SUFFICES ASSUME JudgeInv, [Next]_vars PROVE JudgeInv'
      OBVIOUS
    <2>1. WalletInv'
      BY WalletStays DEF JudgeInv
    <2> SUFFICES ScriptInv'
      BY <2>1 DEF JudgeInv
    <2>2. ScriptInv /\ WalletTyped /\ Accounted /\ FlowsAreNet
      BY DEF JudgeInv, WalletInv
    <2>3. /\ flowsFile \in Int /\ clean \in Nat /\ pnl \in Int /\ net \in Int
          /\ usd \in Nat /\ tok \in Nat /\ price \in Nat
          /\ MaxHist \in Nat /\ MaxHist > 0 /\ Stake \in Nat
      BY <2>2, JudgeConstants DEF WalletTyped, ScriptInv, ScriptTyped
    <2>4. \A a \in SUBSET Assets : ValueRead(a) \in Nat
      BY <2>2, ReadType
    <2>5. \A i, o \in BOOLEAN : Flows(i, o) \in Int
      BY <2>2, FlowsType
    \* The market and the chain leave the script alone; payments may end stable.
    <2>6. ASSUME UNCHANGED <<hist, flowsFile, page, real, clean>>, stable' => stable
          PROVE  ScriptInv'
      <3>1. ScriptTyped'
        BY <2>2, <2>6 DEF ScriptInv, ScriptTyped
      <3>2. PageShows'
        BY <2>2, <2>6 DEF ScriptInv, PageShows
      <3>3. CleanIsReal'
        BY <2>2, <2>6 DEF ScriptInv, CleanIsReal
      <3> QED
        BY <3>1, <3>2, <3>3 DEF ScriptInv
    <2>7. \A in, out : Transact(in, out) => UNCHANGED <<hist, flowsFile, page, real, clean>>
      BY DEF Transact, script
    <2>8. CASE Swap
      BY <2>6, <2>7, <2>8 DEF Swap
    <2>9. CASE PriceMoves
      <3>1. UNCHANGED script /\ UNCHANGED <<real, clean, stable>>
        BY <2>9 DEF PriceMoves
      <3> QED
        BY <2>6, <3>1 DEF script
    <2>10. CASE \E asset \in Assets : Deposit(asset, Unit) \/ Withdraw(asset, Unit)
      BY <2>6, <2>7, <2>10 DEF Deposit, Withdraw
    <2>11. CASE RunClean
      <3> DEFINE v == ValueRead(Assets)
                 f == Flows(TRUE, TRUE)
      <3>1. Publish(v, f) /\ flowsFile' = f /\ clean' = Min({clean + 1, MaxHist})
        BY <2>11 DEF RunClean
      <3>2. v \in Nat /\ f \in Int /\ v = usd + tok * price /\ f = FlowsAt(price, txs)
        BY <2>2, <2>4, <2>5, ReadType, AllFlows
      <3>3. clean' \in Nat /\ clean' <= clean + 1 /\ clean' <= MaxHist
        <4>1. \A a, b \in Nat : Min({a, b}) \in {a, b} /\ Min({a, b}) <= a /\ Min({a, b}) <= b
          <5> SUFFICES ASSUME NEW a \in Nat, NEW b \in Nat
                       PROVE  Min({a, b}) \in {a, b} /\ Min({a, b}) <= a /\ Min({a, b}) <= b
            OBVIOUS
          <5>1. \E x \in {a, b} : \A y \in {a, b} : x =< y
            <6>1. a =< b \/ b =< a
              OBVIOUS
            <6> QED
              BY <6>1
          <5> QED
            BY <5>1 DEF Min
        <4>2. clean + 1 \in Nat
          BY <2>3
        <4> QED
          BY <2>3, <3>1, <4>1, <4>2
      <3>4. stable => v - f = Stake + pnl
        <4>1. v = Stake + pnl + net
          BY <2>2, <3>2 DEF Accounted
        <4>2. stable => f = net
          BY <2>2, <3>2 DEF FlowsAreNet
        <4> HIDE DEF v, f
        <4> QED
          BY <2>3, <3>2, <4>1, <4>2
      <3> HIDE DEF v, f
      <3> QED
        <4>1. ScriptInv /\ pnl \in Int
          BY <2>2, <2>3
        <4>2. flowsFile' \in Int
          BY <3>1, <3>2
        <4>3. stable /\ clean' > 0 => v - f = Stake + pnl
          BY <3>4
        <4> QED
          BY <3>1, <3>2, <3>3, <4>1, <4>2, <4>3, RunKeeps
    <2>12. CASE RunWithoutBalances
      <3>1. /\ \E a \in SUBSET Assets : Publish(ValueRead(a), Flows(TRUE, TRUE))
            /\ flowsFile' = Flows(TRUE, TRUE) /\ clean' = 0
        BY <2>12 DEF RunWithoutBalances
      <3>2. Flows(TRUE, TRUE) \in Int
        BY <2>5
      <3>3. PICK a \in SUBSET Assets : Publish(ValueRead(a), Flows(TRUE, TRUE))
        BY <3>1
      <3>4. ValueRead(a) \in Nat
        BY <2>4
      <3> QED
        BY <2>2, <2>3, <3>1, <3>2, <3>3, <3>4, FaultyRunKeeps
    <2>13. CASE RunWithoutTransfers
      <3>1. PICK i, o \in BOOLEAN : /\ Publish(ValueRead(Assets), Flows(i, o))
                                    /\ flowsFile' = Flows(i, o) /\ clean' = 0
        BY <2>13 DEF RunWithoutTransfers
      <3>2. ValueRead(Assets) \in Nat /\ Flows(i, o) \in Int
        BY <2>4, <2>5
      <3> QED
        BY <2>2, <2>3, <3>1, <3>2, FaultyRunKeeps
    <2>14. CASE RunWithoutLogs
      <3>1. PICK f \in {flowsFile, 0} : /\ Publish(ValueRead(Assets), f)
                                        /\ flowsFile' = flowsFile /\ clean' = 0
        BY <2>14 DEF RunWithoutLogs
      <3>2. f \in Int /\ ValueRead(Assets) \in Nat
        BY <2>3, <2>4, <3>1
      <3>3. flowsFile' \in Int
        BY <2>3, <3>1
      <3> QED
        BY <2>2, <2>3, <3>1, <3>2, <3>3, FaultyRunKeeps
    <2>15. CASE UNCHANGED vars
      <3>1. UNCHANGED script /\ UNCHANGED <<real, clean, stable>>
        BY <2>15 DEF vars
      <3> QED
        BY <2>6, <3>1 DEF script
    <2> QED
      BY <2>8, <2>9, <2>10, <2>11, <2>12, <2>13, <2>14, <2>15 DEF Next
  <1> QED
    BY <1>1, <1>2, PTL DEF Spec

-----------------------------------------------------------------------------
(* The theorems. *)

\* The script's files and the page hold what their readers expect, whatever its
\* queries answered (leaderboard.py:404-470).
THEOREM TypeCorrect == Spec => []TypeOK
  <1>1. JudgeInv => TypeOK
    BY DEF JudgeInv, WalletInv, WalletTyped, ScriptInv, ScriptTyped, TypeOK, Transaction
  <1> QED
    BY <1>1, InvHolds, PTL

\* Deposits and withdrawals in the stablecoin are neither gains nor losses: a
\* fault-free run publishes what trading gained, over the capital deployed.
THEOREM DepositsAreNeutral == Spec => []DepositNeutral
  <1>1. ASSUME JudgeInv, stable, clean > 0
        PROVE  /\ hist[Len(hist)].v - hist[Len(hist)].f = real[Len(real)]
               /\ page.ret = Return(hist[Len(hist)].v, hist[Len(hist)].v - real[Len(real)])
    <2> DEFINE n == Len(hist)
               v == hist[n].v
               f == hist[n].f
    <2>1. /\ hist \in Seq([v : Nat, f : Int]) /\ n \in Nat /\ Len(real) = n
          /\ clean \in Nat /\ clean <= n
      BY <1>1 DEF JudgeInv, ScriptInv, ScriptTyped
    <2>2. n \in 1..n /\ n > n - clean /\ hist # <<>>
      BY <1>1, <2>1
    <2>3. v - f = real[n]
      BY <1>1, <2>2 DEF JudgeInv, ScriptInv, CleanIsReal
    <2>4. v \in Nat /\ f \in Int
      <3> DEFINE E == [v : Nat, f : Int]
      <3>1. \A e \in E : e.v \in Nat /\ e.f \in Int
        OBVIOUS
      <3>2. hist \in Seq(E) /\ n \in 1..Len(hist)
        BY <2>1, <2>2
      <3> HIDE DEF E
      <3>3. hist[n] \in E
        BY <3>2
      <3> QED
        BY <3>1, <3>3
    <2>5. page.ret = Return(v, f)
      BY <1>1, <2>2 DEF JudgeInv, ScriptInv, PageShows
    <2> HIDE DEF v, f
    <2>6. f = v - real[n]
      BY <2>3, <2>4
    <2> QED
      BY <2>1, <2>3, <2>5, <2>6 DEF v, f
  <1>2. JudgeInv => DepositNeutral
    BY <1>1 DEF DepositNeutral
  <1> QED
    BY <1>2, InvHolds, PTL

\* After MAXHIST clean runs, the published drawdown is that of the trading gains,
\* whatever earlier runs published.
THEOREM JudgeForgets == Spec => []JudgeRecovers
  <1>1. ASSUME JudgeInv, stable, clean = MaxHist
        PROVE  page.dd = Drawdown(real)
    <2>1. /\ hist \in Seq([v : Nat, f : Int]) /\ Len(hist) \in Nat
          /\ real \in Seq(Int) /\ Len(real) = Len(hist)
          /\ Len(hist) <= MaxHist /\ clean <= Len(hist) /\ MaxHist \in Nat /\ MaxHist > 0
      BY <1>1, JudgeConstants DEF JudgeInv, ScriptInv, ScriptTyped
    <2>2. Len(hist) = clean /\ hist # <<>>
      BY <1>1, <2>1
    <2>3. \A i \in 1..Len(hist) : hist[i].v - hist[i].f = real[i]
      BY <1>1, <2>1, <2>2 DEF JudgeInv, ScriptInv, CleanIsReal
    <2>4. DOMAIN hist = 1..Len(hist) /\ real = [i \in 1..Len(hist) |-> real[i]]
      BY <2>1
    <2>5. Series(hist) = real
      BY <2>3, <2>4 DEF Series
    <2> QED
      BY <1>1, <2>2, <2>5 DEF JudgeInv, ScriptInv, PageShows
  <1>2. JudgeInv => JudgeRecovers
    BY <1>1 DEF JudgeRecovers
  <1> QED
    BY <1>2, InvHolds, PTL
===============================================================================
