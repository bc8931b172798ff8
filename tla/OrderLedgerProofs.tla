------------------------- MODULE OrderLedgerProofs -------------------------
(* The ledger keeps its promises for any orders and tokens. *)
EXTENDS OrderLedger, TLAPS

LedgerTypeOK ==
    /\ book \in [Id -> {"none", "open", "filled", "void"}]
    /\ chain \in [Id -> {"none", "mempool", "landed", "reverted"}]

IndInv == LedgerTypeOK /\ LedgerInv

LEMMA IndStep == IndInv /\ [Next]_ledger => IndInv'
  <1> SUFFICES ASSUME IndInv, [Next]_ledger PROVE IndInv'
    OBVIOUS
  <1> USE DEF IndInv, LedgerTypeOK, LedgerInv
  <1>1. ASSUME NEW id \in Id, Intend(id) PROVE IndInv'
    BY <1>1 DEF Intend
  <1>2. ASSUME NEW id \in Id, Broadcast(id) PROVE IndInv'
    BY <1>2 DEF Broadcast
  <1>3. ASSUME NEW id \in Id, Settle(id) PROVE IndInv'
    BY <1>3 DEF Settle
  <1>4. CASE Close
    BY <1>4 DEF Close
  <1>5. CASE UNCHANGED ledger
    BY <1>5 DEF ledger
  <1> QED
    BY <1>1, <1>2, <1>3, <1>4, <1>5 DEF Next

\* Whatever is intended, sent, settled and closed in whatever order: one open
\* intent per token, and every closed intent says what its swap did.
THEOREM LedgerIsTruthful == Spec => []LedgerInv
  <1>1. Init => IndInv
    BY DEF Init, IndInv, LedgerTypeOK, LedgerInv
  <1>2. IndInv => LedgerInv
    BY DEF IndInv
  <1> QED
    BY <1>1, <1>2, IndStep, PTL DEF Spec
=============================================================================
