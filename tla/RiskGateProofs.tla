---------------------------- MODULE RiskGateProofs ----------------------------
(***************************************************************************)
(* What the gate's approved size is bounded by, for every configuration:   *)
(* the request, the position and concentration caps, and the drawdown that *)
(* is left.                                                                *)
(***************************************************************************)
EXTENDS RiskGate, TLAPS

-----------------------------------------------------------------------------
(* Arithmetic. *)

LEMMA Product ==
  ASSUME NEW a \in Nat, NEW b \in Nat
  PROVE  a * b \in Nat
  OBVIOUS

LEMMA ProductMonotone ==
  ASSUME NEW a \in Nat, NEW b \in Nat, a <= b, NEW c \in Nat
  PROVE  a * c <= b * c
  <1>1. PICK d \in Nat : b = a + d
    <2>1. b - a \in Nat /\ b = a + (b - a)
      OBVIOUS
    <2> QED
      BY <2>1
  <1>2. b * c = a * c + d * c /\ d * c \in Nat /\ a * c \in Nat
    BY <1>1
  <1> QED
    BY <1>2

LEMMA ProductCancels ==
  ASSUME NEW a \in Nat, NEW b \in Nat, NEW c \in Nat \ {0}, a * c <= b * c
  PROVE  a <= b
  <1> SUFFICES ASSUME b < a PROVE FALSE
    OBVIOUS
  <1>1. b + 1 <= a /\ b + 1 \in Nat
    OBVIOUS
  <1>2. (b + 1) * c <= a * c
    BY <1>1, ProductMonotone
  <1>3. (b + 1) * c = b * c + c /\ b * c \in Nat /\ a * c \in Nat
    OBVIOUS
  <1> QED
    BY <1>2, <1>3

\* A quotient times its divisor is at most the dividend.
LEMMA Quotient ==
  ASSUME NEW a \in Nat, NEW p \in Nat \ {0}
  PROVE  a \div p \in Nat /\ (a \div p) * p <= a
  <1>1. a \div p \in Int
    OBVIOUS
  <1>2. (a \div p) * p <= a
    OBVIOUS
  <1>3. a \div p >= 0
    OBVIOUS
  <1> QED
    BY <1>1, <1>2, <1>3

-----------------------------------------------------------------------------
(* The gate. *)

LEMMA BudgetRange ==
  ASSUME NEW dd \in Int, NEW judge \in Int
  PROVE  /\ PlannedLoss \in Nat \ {0}
         /\ Budget(dd, judge) \in 0..PlannedLoss
         /\ Budget(dd, judge) > 0 =>
              /\ Budget(dd, judge) <= 1000 * (Kill - dd)
              /\ Budget(dd, judge) <= 1000 * (DqLine - EffectiveDd(dd, judge))
  <1>1. PlannedLoss \in Nat \ {0}
    <2>1. StopLoss \in Nat \ {0} /\ GrossMax \in Nat \ {0}
      BY GateConstants
    <2>2. \A a, b \in Nat \ {0} : a * b \in Nat \ {0}
      OBVIOUS
    <2> QED
      BY <2>1, <2>2 DEF PlannedLoss
  <1>2. Kill \in Nat /\ DqLine \in Nat /\ EffectiveDd(dd, judge) \in Int
    BY GateConstants DEF EffectiveDd, Most
  <1> QED
    BY <1>1, <1>2 DEF Budget, Least, Most

\* The scaled size is a part of the request.
LEMMA ScaledRange ==
  ASSUME NEW requested \in Nat, NEW cash \in Nat, NEW dd \in Int, NEW judge \in Int
  PROVE  /\ Scaled(requested, cash, dd, judge) \in Nat
         /\ Scaled(requested, cash, dd, judge) <= requested
         /\ Scaled(requested, cash, dd, judge) * PlannedLoss <= requested * Budget(dd, judge)
  <1> DEFINE cap == (MaxPos * cash) \div 1000
             r == Least(requested, cap)
             b == Budget(dd, judge)
             s == Scaled(requested, cash, dd, judge)
  <1>1. PlannedLoss \in Nat \ {0} /\ b \in Nat /\ b <= PlannedLoss
    BY BudgetRange
  <1>2. cap \in Nat
    BY GateConstants, Product, Quotient
  <1>3. r \in Nat /\ r <= requested
    BY <1>2 DEF Least
  <1>4. r * b \in Nat /\ s = (r * b) \div PlannedLoss
    BY <1>1, <1>3, Product DEF Scaled
  <1> HIDE DEF r, b, s
  <1>5. s \in Nat /\ s * PlannedLoss <= r * b
    BY <1>1, <1>4, Quotient
  <1>6. r * b <= requested * b
    BY <1>1, <1>3, ProductMonotone
  <1>7. requested * b <= requested * PlannedLoss
    <2>1. b * requested <= PlannedLoss * requested
      BY <1>1, ProductMonotone
    <2>2. b * requested = requested * b /\ PlannedLoss * requested = requested * PlannedLoss
      BY <1>1
    <2> QED
      BY <2>1, <2>2
  <1>8. /\ s * PlannedLoss \in Nat /\ requested * b \in Nat
        /\ requested * PlannedLoss \in Nat /\ r * b \in Nat
    BY <1>1, <1>3, <1>5, Product
  <1>9. s <= requested
    <2>1. s * PlannedLoss <= requested * PlannedLoss
      BY <1>5, <1>6, <1>7, <1>8
    <2> QED
      BY <1>1, <1>5, <2>1, ProductCancels
  <1> QED
    BY <1>5, <1>6, <1>8, <1>9 DEF s, b

\* The gate never approves more than was asked for, nor more than the
\* concentration limit leaves of the position.
THEOREM ApprovedIsBounded ==
  ASSUME NEW requested \in Nat, NEW cash \in Nat, NEW existing \in Int, NEW risk,
         NEW dd \in Int, NEW judge \in Int, NEW equity \in Nat
  PROVE  LET size == ApprovedSize(requested, cash, existing, risk, dd, judge, equity)
         IN /\ size \in Nat
            /\ size <= requested
            /\ size > 0 => existing + size <= (MaxConc * equity) \div 1000
  <1>1. (MaxConc * equity) \div 1000 \in Nat
    BY GateConstants, Product, Quotient
  <1>2. /\ Scaled(requested, cash, dd, judge) \in Nat
        /\ Scaled(requested, cash, dd, judge) <= requested
    BY ScaledRange
  <1> QED
    BY <1>1, <1>2 DEF ApprovedSize, Least, Most

\* An approved size is the budget's part of the request, or less.
LEMMA ApprovedIsScaled ==
  ASSUME NEW requested \in Nat, NEW cash \in Nat, NEW existing \in Int, NEW risk,
         NEW dd \in Int, NEW judge \in Int, NEW equity \in Nat
  PROVE  ApprovedSize(requested, cash, existing, risk, dd, judge, equity) * PlannedLoss
            <= requested * Budget(dd, judge)
  <1> DEFINE size == ApprovedSize(requested, cash, existing, risk, dd, judge, equity)
             s == Scaled(requested, cash, dd, judge)
             b == Budget(dd, judge)
  <1>1. s \in Nat /\ s * PlannedLoss <= requested * b
    BY ScaledRange
  <1>2. PlannedLoss \in Nat /\ b \in Nat
    BY BudgetRange
  <1>3. size \in Nat /\ size <= s
    <2>1. (MaxConc * equity) \div 1000 \in Nat
      BY GateConstants, Product, Quotient
    <2> QED
      BY <1>1, <2>1, ApprovedIsBounded DEF ApprovedSize, Least, Most
  <1> HIDE DEF size, s, b
  <1>4. size * PlannedLoss <= s * PlannedLoss
    BY <1>1, <1>2, <1>3, ProductMonotone
  <1>5. size * PlannedLoss \in Nat /\ s * PlannedLoss \in Nat /\ requested * b \in Nat
    BY <1>1, <1>2, <1>3, Product
  <1>6. size * PlannedLoss <= requested * b
    BY <1>1, <1>4, <1>5
  <1> QED
    BY <1>6 DEF size, b

\* What the budget leaves of the maximum gross exposure can be stopped out and
\* leave the drawdown below the kill line, and the judge's below the buffered
\* disqualification line.
LEMMA LossFits ==
  ASSUME NEW total \in Nat, NEW dd \in Int, NEW judge \in Int,
         total * PlannedLoss <= GrossMax * Budget(dd, judge), StopLoss * total > 0
  PROVE  /\ StopLoss * total <= 1000 * (Kill - dd)
         /\ StopLoss * total <= 1000 * (DqLine - EffectiveDd(dd, judge))
  <1> DEFINE b == Budget(dd, judge)
  <1>1. StopLoss \in Nat \ {0} /\ GrossMax \in Nat \ {0} /\ Kill \in Nat /\ DqLine \in Nat
    BY GateConstants
  <1>2. /\ b \in Nat
        /\ b > 0 => b <= 1000 * (Kill - dd) /\ b <= 1000 * (DqLine - EffectiveDd(dd, judge))
    BY BudgetRange
  <1>3. total * PlannedLoss <= GrossMax * b
    OBVIOUS
  <1> HIDE DEF b
  <1>4. StopLoss * total \in Nat
    BY <1>1, Product
  <1>5. (StopLoss * total) * GrossMax <= b * GrossMax
    <2>1. \A x, y, z \in Nat : x * (y * z) = (y * x) * z
      OBVIOUS
    <2>2. total * PlannedLoss = (StopLoss * total) * GrossMax
      BY <1>1, <2>1 DEF PlannedLoss
    <2>3. GrossMax * b = b * GrossMax
      BY <1>1, <1>2
    <2> QED
      BY <1>3, <2>2, <2>3
  <1>6. StopLoss * total <= b
    BY <1>1, <1>2, <1>4, <1>5, ProductCancels
  <1>7. EffectiveDd(dd, judge) \in Int
    BY DEF EffectiveDd, Most
  <1> QED
    BY <1>1, <1>2, <1>4, <1>6, <1>7

\* A buy of at most the maximum gross exposure, approved by the gate, can be
\* stopped out and leave the drawdown below the kill line, and the judge's below
\* the buffered disqualification line.
THEOREM StopFitsBudget ==
  ASSUME NEW requested \in 0..GrossMax, NEW cash \in Nat, NEW existing \in Int, NEW risk,
         NEW dd \in Int, NEW judge \in Int, NEW equity \in Nat,
         ApprovedSize(requested, cash, existing, risk, dd, judge, equity) > 0
  PROVE  LET loss == StopLoss * ApprovedSize(requested, cash, existing, risk, dd, judge, equity)
         IN /\ loss <= 1000 * (Kill - dd)
            /\ loss <= 1000 * (DqLine - EffectiveDd(dd, judge))
  <1> DEFINE size == ApprovedSize(requested, cash, existing, risk, dd, judge, equity)
             b == Budget(dd, judge)
  <1>1. requested \in Nat /\ StopLoss \in Nat \ {0} /\ GrossMax \in Nat
    BY GateConstants
  <1>2. size \in Nat \ {0} /\ size * PlannedLoss <= requested * b
    BY <1>1, ApprovedIsBounded, ApprovedIsScaled
  <1>3. PlannedLoss \in Nat /\ b \in Nat
    BY BudgetRange
  <1> HIDE DEF size, b
  <1>4. size * PlannedLoss <= GrossMax * b
    <2>1. requested * b <= GrossMax * b
      BY <1>1, <1>3, ProductMonotone
    <2>2. size * PlannedLoss \in Nat /\ requested * b \in Nat /\ GrossMax * b \in Nat
      BY <1>1, <1>2, <1>3, Product
    <2> QED
      BY <1>2, <2>1, <2>2
  <1>5. StopLoss * size > 0
    <2>1. \A x, y \in Nat \ {0} : x * y > 0
      OBVIOUS
    <2> QED
      BY <1>1, <1>2, <2>1
  <1> QED
    BY <1>2, <1>4, <1>5, LossFits DEF size, b
=============================================================================
