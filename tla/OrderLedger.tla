---------------------------- MODULE OrderLedger ----------------------------
(***************************************************************************)
(* What the durable order book promises about the swaps it stands for,     *)
(* with no process, no crash, no polling and no amounts: an intent is      *)
(* recorded before its swap can exist, a token has one open intent at a    *)
(* time, and an intent is closed only with what really became of its swap. *)
(***************************************************************************)
CONSTANTS
    Id,         \* order ids
    TokenOf(_)  \* the token an order trades

VARIABLES
    book,   \* id -> "none" | "open" | "filled" | "void"
    chain   \* id -> "none" | "mempool" | "landed" | "reverted"

ledger == <<book, chain>>

Init ==
    /\ book = [id \in Id |-> "none"]
    /\ chain = [id \in Id |-> "none"]

Intend(id) ==
    /\ book[id] = "none" /\ chain[id] = "none"
    /\ \A other \in Id : TokenOf(other) = TokenOf(id) => book[other] # "open"
    /\ book' = [book EXCEPT ![id] = "open"]
    /\ UNCHANGED chain

Broadcast(id) ==
    /\ book[id] = "open" /\ chain[id] = "none"
    /\ chain' = [chain EXCEPT ![id] = "mempool"]
    /\ UNCHANGED book

Settle(id) ==
    /\ chain[id] = "mempool"
    /\ \E outcome \in {"landed", "reverted"} : chain' = [chain EXCEPT ![id] = outcome]
    /\ UNCHANGED book

\* One save may close several intents: those found landed and those found dead.
Close ==
    /\ book' \in [Id -> {"none", "open", "filled", "void"}]
    /\ \A id \in Id :
          \/ book'[id] = book[id]
          \/ book[id] = "open" /\ chain[id] = "landed" /\ book'[id] = "filled"
          \/ book[id] = "open" /\ chain[id] \in {"none", "reverted"} /\ book'[id] = "void"
    /\ UNCHANGED chain

Next ==
    \/ \E id \in Id : Intend(id) \/ Broadcast(id) \/ Settle(id)
    \/ Close

Spec == Init /\ [][Next]_ledger

-----------------------------------------------------------------------------
\* A token has at most one open intent, a swap in flight belongs to an open
\* intent, and a closed intent tells what became of its swap.
LedgerInv ==
    /\ \A i, j \in Id : book[i] = "open" /\ book[j] = "open" /\ i # j
                            => TokenOf(i) # TokenOf(j)
    /\ \A id \in Id :
          /\ chain[id] = "mempool" => book[id] = "open"
          /\ book[id] = "none" => chain[id] = "none"
          /\ book[id] = "filled" => chain[id] = "landed"
          /\ book[id] = "void" => chain[id] \in {"none", "reverted"}
=============================================================================
