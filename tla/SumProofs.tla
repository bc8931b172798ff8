------------------------------ MODULE SumProofs ------------------------------
(***************************************************************************)
(* Finite sums.  Equities, batches and judge flows are sums over a set of  *)
(* holdings, buys or transfers; these are the facts the proofs about them  *)
(* need.  Each rests on a smallest counterexample: of a family of subsets  *)
(* of a finite set, one contains no other.                                 *)
(***************************************************************************)
EXTENDS Functions, FiniteSetTheorems, TLAPS

LEMMA Smallest ==
  ASSUME NEW S, IsFiniteSet(S), NEW Family \in SUBSET SUBSET S, Family # {}
  PROVE  \E T \in Family : \A U \in Family : U \subseteq T => U = T
  <1>1. IsWellFoundedOn(StrictSubsetOrdering(S), SUBSET S)
    BY FS_StrictSubsetOrderingWellFounded, FS_FiniteSubsetsOfFinite
  <1>2. PICK T \in Family : \A U \in Family : <<U, T>> \notin StrictSubsetOrdering(S)
    BY <1>1, WFMin
  <1> QED
    BY <1>2 DEF StrictSubsetOrdering

LEMMA UpToIsFinite ==
  ASSUME NEW n \in Nat
  PROVE  IsFiniteSet(1..n) /\ Cardinality(1..n) = n
  BY FS_Interval

\* Of finitely many elements one has the lowest rank.
LEMMA LowestOfFinite ==
  ASSUME NEW S, IsFiniteSet(S), S # {}, NEW q, \A n \in S : q[n] \in Int
  PROVE  \E m \in S : \A n \in S : q[m] <= q[n]
  <1> DEFINE Bad == {t \in SUBSET S : t # {} /\ ~ \E m \in t : \A n \in t : q[m] <= q[n]}
  <1> SUFFICES ASSUME Bad # {} PROVE FALSE
    OBVIOUS
  <1>1. Bad \in SUBSET SUBSET S
    OBVIOUS
  <1>2. PICK t \in Bad : \A u \in Bad : u \subseteq t => u = t
    <2> HIDE DEF Bad
    <2> QED
      BY <1>1, Smallest
  <1>3. PICK x \in t : TRUE
    OBVIOUS
  <1>4. CASE t = {x}
    BY <1>4
  <1>5. CASE t # {x}
    <2>1. t \ {x} # {} /\ t \ {x} # t /\ t \ {x} \in SUBSET S
      BY <1>3, <1>5
    <2>2. PICK m \in t \ {x} : \A n \in t \ {x} : q[m] <= q[n]
      BY <1>2, <2>1
    <2>3. q[m] \in Int /\ q[x] \in Int /\ \A n \in t : q[n] \in Int
      BY <1>3, <2>1
    <2>4. CASE q[m] <= q[x]
      BY <2>2, <2>3, <2>4, <1>3
    <2>5. CASE ~ (q[m] <= q[x])
      <3>1. \A n \in t : q[x] <= q[n]
        BY <2>2, <2>3, <2>5
      <3> QED
        BY <3>1, <1>3
    <2> QED
      BY <2>4, <2>5
  <1> QED
    BY <1>4, <1>5

\* Finitely many integers have a smallest and a largest one; any naturals have a
\* smallest one.
LEMMA SmallestOfFinite ==
  ASSUME NEW S, IsFiniteSet(S), S # {}, \A n \in S : n \in Int
  PROVE  \E m \in S : \A n \in S : m <= n
  <1> DEFINE q == [n \in S |-> n]
  <1>1. PICK m \in S : \A n \in S : q[m] <= q[n]
    <2>1. \A n \in S : q[n] \in Int
      OBVIOUS
    <2> HIDE DEF q
    <2> QED
      BY <2>1, LowestOfFinite
  <1> QED
    BY <1>1

LEMMA LargestOfFinite ==
  ASSUME NEW S, IsFiniteSet(S), S # {}, \A n \in S : n \in Int
  PROVE  \E m \in S : \A n \in S : n <= m
  <1> DEFINE q == [n \in S |-> -n]
  <1>1. PICK m \in S : \A n \in S : q[m] <= q[n]
    <2>1. \A n \in S : q[n] \in Int
      OBVIOUS
    <2> HIDE DEF q
    <2> QED
      BY <2>1, LowestOfFinite
  <1> QED
    BY <1>1

LEMMA SmallestNumber ==
  ASSUME NEW S, S # {}, \A n \in S : n \in Nat
  PROVE  \E m \in S : \A n \in S : m <= n
  <1>1. PICK x \in S : TRUE
    OBVIOUS
  <1> DEFINE R == {n \in S : n <= x}
  <1>2. IsFiniteSet(R) /\ x \in R /\ \A n \in R : n \in Int
    <2>1. IsFiniteSet(0..x)
      BY FS_Interval
    <2>2. R \subseteq 0..x
      OBVIOUS
    <2>3. IsFiniteSet(R)
      <3> HIDE DEF R
      <3> QED
        BY <2>1, <2>2, FS_Subset
    <2> QED
      BY <2>3
  <1> HIDE DEF R
  <1>3. PICK m \in R : \A n \in R : m <= n
    BY <1>2, SmallestOfFinite
  <1> QED
    BY <1>2, <1>3 DEF R

-----------------------------------------------------------------------------
(* The recursion the library sums by has exactly one solution.                *)

First(s) == CHOOSE x \in s : TRUE

Sums(g, f, S) ==
    g = [s \in SUBSET S |-> IF s = {} THEN 0 ELSE f[First(s)] + g[s \ {First(s)}]]

LEMMA FirstIn ==
  ASSUME NEW S, S # {}
  PROVE  First(S) \in S
  BY DEF First

LEMMA SumIsSolution ==
  ASSUME NEW f, NEW S
  PROVE  SumFunctionOnSet(f, S) = (CHOOSE g : Sums(g, f, S))[S]
  BY DEF SumFunctionOnSet, FoldFunctionOnSet, MapThenFoldSet, Sums, First

LEMMA SumsAt ==
  ASSUME NEW f, NEW S, NEW g, Sums(g, f, S)
  PROVE  \A s \in SUBSET S : /\ s = {} => g[s] = 0
                             /\ s # {} => g[s] = f[First(s)] + g[s \ {First(s)}]
  BY Zenon DEF Sums

\* Two solutions agree wherever both are defined.
LEMMA SumsUnique ==
  ASSUME NEW f, NEW S, NEW T, IsFiniteSet(S), NEW g, NEW h,
         Sums(g, f, S), Sums(h, f, T), NEW s \in SUBSET (S \cap T)
  PROVE  g[s] = h[s]
  <1> DEFINE Bad == {t \in SUBSET (S \cap T) : g[t] # h[t]}
  <1> SUFFICES ASSUME Bad # {} PROVE FALSE
    OBVIOUS
  <1>a. \A u \in SUBSET S : /\ u = {} => g[u] = 0
                            /\ u # {} => g[u] = f[First(u)] + g[u \ {First(u)}]
    BY Zenon DEF Sums
  <1>b. \A u \in SUBSET T : /\ u = {} => h[u] = 0
                            /\ u # {} => h[u] = f[First(u)] + h[u \ {First(u)}]
    BY Zenon DEF Sums
  <1>1. IsFiniteSet(S \cap T) /\ Bad \in SUBSET SUBSET (S \cap T)
    BY FS_Subset
  <1>2. PICK t \in Bad : \A u \in Bad : u \subseteq t => u = t
    <2> HIDE DEF Bad
    <2> QED
      BY <1>1, Smallest
  <1>3. t \in SUBSET S /\ t \in SUBSET T /\ g[t] # h[t]
    OBVIOUS
  <1>4. t # {}
    BY <1>3, <1>a, <1>b
  <1>5. First(t) \in t /\ t \ {First(t)} \in SUBSET (S \cap T)
    BY <1>3, <1>4, FirstIn
  <1>6. g[t \ {First(t)}] = h[t \ {First(t)}]
    <2>1. t \ {First(t)} # t /\ t \ {First(t)} \subseteq t
      BY <1>5
    <2> QED
      BY <1>2, <1>5, <2>1
  <1>7. g[t] = f[First(t)] + g[t \ {First(t)}]
    BY <1>3, <1>4, <1>a
  <1>8. h[t] = f[First(t)] + h[t \ {First(t)}]
    BY <1>3, <1>4, <1>b
  <1> QED
    BY <1>3, <1>6, <1>7, <1>8

\* There is a solution on every finite set: on a smallest set without one, glue
\* those of its proper subsets.
LEMMA SumsExist ==
  ASSUME NEW f, NEW S, IsFiniteSet(S)
  PROVE  \E g : Sums(g, f, S)
  <1> DEFINE Bad == {t \in SUBSET S : ~ \E g : Sums(g, f, t)}
             Sum(t) == (CHOOSE g : Sums(g, f, t))[t]
  <1> SUFFICES ASSUME Bad # {} PROVE FALSE
    OBVIOUS
  <1>0. Bad \in SUBSET SUBSET S
    OBVIOUS
  <1>1. PICK t \in Bad : \A u \in Bad : u \subseteq t => u = t
    <2> HIDE DEF Bad
    <2> QED
      BY <1>0, Smallest
  <1>2. ASSUME NEW u \in SUBSET t, u # t PROVE Sums(CHOOSE g : Sums(g, f, u), f, u)
    BY <1>1, <1>2
  <1>3. ASSUME NEW u \in SUBSET t, u # t
        PROVE  Sum(u) = IF u = {} THEN 0 ELSE f[First(u)] + Sum(u \ {First(u)})
    <2> DEFINE g == CHOOSE g : Sums(g, f, u)
               v == u \ {First(u)}
               h == CHOOSE h : Sums(h, f, v)
    <2>1. Sums(g, f, u)
      BY <1>2, <1>3
    <2>2. CASE u = {}
      BY <2>1, <2>2, SumsAt, Zenon
    <2>3. CASE u # {}
      <3>1. First(u) \in u /\ v \in SUBSET t /\ v # t /\ v \in SUBSET (u \cap v)
        BY <1>3, <2>3, FirstIn
      <3>2. Sums(h, f, v) /\ IsFiniteSet(u)
        BY <1>2, <3>1, FS_Subset
      <3>3. g[v] = h[v]
        <4> HIDE DEF g, h, v
        <4> QED
          BY <2>1, <3>1, <3>2, SumsUnique
      <3>4. g[u] = f[First(u)] + g[v]
        <4> HIDE DEF g
        <4>1. \A s \in SUBSET u : s # {} => g[s] = f[First(s)] + g[s \ {First(s)}]
          BY <2>1, SumsAt
        <4> QED
          BY <2>3, <4>1
      <3> QED
        BY <2>3, <3>3, <3>4
    <2> QED
      BY <2>2, <2>3
  <1> DEFINE G == [s \in SUBSET t |-> IF s = {} THEN 0 ELSE f[First(s)] + Sum(s \ {First(s)})]
  <1> HIDE DEF Sum
  <1>4. ASSUME NEW u \in SUBSET t, u # t PROVE G[u] = Sum(u)
    BY <1>3, <1>4
  <1>5. ASSUME NEW s \in SUBSET t, s # {} PROVE Sum(s \ {First(s)}) = G[s \ {First(s)}]
    <2>1. First(s) \in s
      BY <1>5, FirstIn
    <2> QED
      BY <1>4, <1>5, <2>1
  <1>6. G = [s \in SUBSET t |-> IF s = {} THEN 0 ELSE f[First(s)] + G[s \ {First(s)}]]
    <2> DEFINE H == [s \in SUBSET t |-> IF s = {} THEN 0 ELSE f[First(s)] + G[s \ {First(s)}]]
    <2>1. \A s \in SUBSET t : G[s] = H[s]
      BY <1>5
    <2> HIDE DEF H
    <2>2. G = [s \in SUBSET t |-> G[s]] /\ H = [s \in SUBSET t |-> H[s]]
      BY DEF H
    <2> HIDE DEF G
    <2>3. G = H
      BY <2>1, <2>2
    <2> QED
      BY <2>3 DEF H
  <1>7. Sums(G, f, t)
    BY <1>6, Zenon DEF Sums
  <1> QED
    BY <1>7

-----------------------------------------------------------------------------
(* What a sum is worth.                                                       *)

LEMMA SumEmpty ==
  ASSUME NEW f
  PROVE  SumFunctionOnSet(f, {}) = 0
  <1> DEFINE g == CHOOSE g : Sums(g, f, {})
  <1>1. Sums(g, f, {})
    BY SumsExist, FS_EmptySet
  <1> HIDE DEF g
  <1>2. g[{}] = 0
    BY <1>1, SumsAt
  <1> QED
    BY <1>2, SumIsSolution DEF g

LEMMA SumFirst ==
  ASSUME NEW f, NEW S, IsFiniteSet(S), S # {}
  PROVE  SumFunctionOnSet(f, S) = f[First(S)] + SumFunctionOnSet(f, S \ {First(S)})
  <1> DEFINE R == S \ {First(S)}
             g == CHOOSE g : Sums(g, f, S)
             h == CHOOSE h : Sums(h, f, R)
  <1>1. IsFiniteSet(R) /\ R \in SUBSET (S \cap R)
    BY FS_Subset
  <1>2. Sums(g, f, S) /\ Sums(h, f, R)
    <2>1. Sums(g, f, S)
      BY SumsExist
    <2>2. Sums(h, f, R)
      <3> HIDE DEF R
      <3> QED
        BY <1>1, SumsExist
    <2> QED
      BY <2>1, <2>2
  <1>3. g[R] = h[R]
    <2> HIDE DEF g, h, R
    <2> QED
      BY <1>1, <1>2, SumsUnique
  <1>4. g[S] = f[First(S)] + g[R]
    <2> HIDE DEF g
    <2>1. \A s \in SUBSET S : s # {} => g[s] = f[First(s)] + g[s \ {First(s)}]
      BY <1>2, SumsAt
    <2> QED
      BY <2>1
  <1>5. SumFunctionOnSet(f, S) = g[S] /\ SumFunctionOnSet(f, R) = h[R]
    BY SumIsSolution
  <1> QED
    BY <1>3, <1>4, <1>5

\* A sum of integers is an integer.
LEMMA SumInt ==
  ASSUME NEW f, NEW S, IsFiniteSet(S), \A x \in S : f[x] \in Int
  PROVE  SumFunctionOnSet(f, S) \in Int
  <1> DEFINE Bad == {t \in SUBSET S : SumFunctionOnSet(f, t) \notin Int}
  <1> SUFFICES ASSUME Bad # {} PROVE FALSE
    OBVIOUS
  <1>1. Bad \in SUBSET SUBSET S
    OBVIOUS
  <1>2. PICK t \in Bad : \A u \in Bad : u \subseteq t => u = t
    <2> HIDE DEF Bad
    <2> QED
      BY <1>1, Smallest
  <1>3. IsFiniteSet(t) /\ t # {}
    <2>1. SumFunctionOnSet(f, {}) = 0
      BY SumEmpty
    <2>2. t # {}
      BY <2>1
    <2> QED
      BY <2>2, FS_Subset
  <1>4. First(t) \in t /\ t \ {First(t)} \in SUBSET S /\ t \ {First(t)} # t
    BY <1>3, FirstIn
  <1>5. SumFunctionOnSet(f, t) = f[First(t)] + SumFunctionOnSet(f, t \ {First(t)})
    BY <1>3, SumFirst
  <1>6. SumFunctionOnSet(f, t \ {First(t)}) \in Int
    BY <1>2, <1>4
  <1> QED
    BY <1>4, <1>5, <1>6

\* Any summand may come first.
LEMMA SumPick ==
  ASSUME NEW f, NEW S, IsFiniteSet(S), \A x \in S : f[x] \in Int, NEW x \in S
  PROVE  SumFunctionOnSet(f, S) = f[x] + SumFunctionOnSet(f, S \ {x})
  <1> DEFINE Bad == {t \in SUBSET S : \E y \in t :
                        SumFunctionOnSet(f, t) # f[y] + SumFunctionOnSet(f, t \ {y})}
  <1> SUFFICES ASSUME Bad # {} PROVE FALSE
    OBVIOUS
  <1>1. Bad \in SUBSET SUBSET S
    OBVIOUS
  <1>2. PICK t \in Bad : \A u \in Bad : u \subseteq t => u = t
    <2> HIDE DEF Bad
    <2> QED
      BY <1>1, Smallest
  <1>3. PICK y \in t : SumFunctionOnSet(f, t) # f[y] + SumFunctionOnSet(f, t \ {y})
    OBVIOUS
  <1> DEFINE p == First(t)
  <1>4. t \in SUBSET S /\ p \in t /\ IsFiniteSet(t)
    BY <1>3, FirstIn, FS_Subset
  <1>5. SumFunctionOnSet(f, t) = f[p] + SumFunctionOnSet(f, t \ {p})
    BY <1>4, SumFirst
  <1>6. p # y
    BY <1>3, <1>5
  <1> HIDE DEF p
  <1>7. SumFunctionOnSet(f, t \ {p}) = f[y] + SumFunctionOnSet(f, (t \ {p}) \ {y})
    <2>1. t \ {p} \in SUBSET S /\ t \ {p} # t /\ y \in t \ {p}
      BY <1>3, <1>4, <1>6
    <2> QED
      BY <1>2, <2>1
  <1>8. SumFunctionOnSet(f, t \ {y}) = f[p] + SumFunctionOnSet(f, (t \ {y}) \ {p})
    <2>1. t \ {y} \in SUBSET S /\ t \ {y} # t /\ p \in t \ {y}
      BY <1>3, <1>4, <1>6
    <2> QED
      BY <1>2, <2>1
  <1>9. (t \ {p}) \ {y} = (t \ {y}) \ {p} /\ IsFiniteSet((t \ {p}) \ {y})
    BY <1>4, FS_Subset
  <1>10. SumFunctionOnSet(f, (t \ {p}) \ {y}) \in Int
    <2> DEFINE r == (t \ {p}) \ {y}
    <2>1. IsFiniteSet(r) /\ \A z \in r : f[z] \in Int
      BY <1>4, <1>9
    <2> HIDE DEF r
    <2>2. SumFunctionOnSet(f, r) \in Int
      BY <2>1, SumInt
    <2> QED
      BY <2>2 DEF r
  <1>11. f[p] \in Int /\ f[y] \in Int
    BY <1>3, <1>4
  <1>12. SumFunctionOnSet(f, t \ {y}) = f[p] + SumFunctionOnSet(f, (t \ {p}) \ {y})
    BY <1>8, <1>9
  <1> QED
    BY <1>3, <1>5, <1>7, <1>10, <1>11, <1>12

\* A new element adds its summand.
LEMMA SumAdd ==
  ASSUME NEW f, NEW S, IsFiniteSet(S), NEW x, x \notin S, \A y \in S \cup {x} : f[y] \in Int
  PROVE  SumFunctionOnSet(f, S \cup {x}) = f[x] + SumFunctionOnSet(f, S)
  <1> DEFINE T == S \cup {x}
  <1>1. IsFiniteSet(T) /\ T \ {x} = S /\ x \in T
    BY FS_AddElement
  <1> HIDE DEF T
  <1>2. SumFunctionOnSet(f, T) = f[x] + SumFunctionOnSet(f, T \ {x})
    BY <1>1, SumPick DEF T
  <1> QED
    BY <1>1, <1>2 DEF T

\* Smaller summands have a smaller sum.
LEMMA SumMonotone ==
  ASSUME NEW f, NEW g, NEW S, IsFiniteSet(S),
         \A x \in S : f[x] \in Int /\ g[x] \in Int /\ f[x] <= g[x]
  PROVE  SumFunctionOnSet(f, S) <= SumFunctionOnSet(g, S)
  <1> DEFINE Bad == {t \in SUBSET S : ~ (SumFunctionOnSet(f, t) <= SumFunctionOnSet(g, t))}
  <1> SUFFICES ASSUME Bad # {} PROVE FALSE
    OBVIOUS
  <1>1. Bad \in SUBSET SUBSET S
    OBVIOUS
  <1>2. PICK t \in Bad : \A u \in Bad : u \subseteq t => u = t
    <2> HIDE DEF Bad
    <2> QED
      BY <1>1, Smallest
  <1>3. IsFiniteSet(t) /\ t # {}
    BY SumEmpty, FS_Subset
  <1> DEFINE p == First(t)
             r == t \ {p}
  <1>4. p \in t /\ r \in SUBSET S /\ r # t /\ IsFiniteSet(r)
    BY <1>3, FirstIn, FS_Subset
  <1>5. SumFunctionOnSet(f, t) = f[p] + SumFunctionOnSet(f, r)
        /\ SumFunctionOnSet(g, t) = g[p] + SumFunctionOnSet(g, r)
    BY <1>3, SumFirst
  <1> HIDE DEF r, p
  <1>6. SumFunctionOnSet(f, r) <= SumFunctionOnSet(g, r)
    BY <1>2, <1>4 DEF r
  <1>7. SumFunctionOnSet(f, r) \in Int /\ SumFunctionOnSet(g, r) \in Int
    BY <1>4, SumInt
  <1>8. f[p] \in Int /\ g[p] \in Int /\ f[p] <= g[p]
    BY <1>4
  <1> QED
    BY <1>5, <1>6, <1>7, <1>8

\* Equal summands have equal sums.
LEMMA SumSame ==
  ASSUME NEW f, NEW g, NEW S, IsFiniteSet(S), \A x \in S : f[x] \in Int /\ g[x] = f[x]
  PROVE  SumFunctionOnSet(g, S) = SumFunctionOnSet(f, S)
  <1>1. SumFunctionOnSet(f, S) \in Int /\ SumFunctionOnSet(g, S) \in Int
    BY SumInt
  <1>2. SumFunctionOnSet(f, S) <= SumFunctionOnSet(g, S)
    BY SumMonotone
  <1>3. SumFunctionOnSet(g, S) <= SumFunctionOnSet(f, S)
    BY SumMonotone
  <1> QED
    BY <1>1, <1>2, <1>3

\* A sum of natural numbers is a natural number.
LEMMA SumNat ==
  ASSUME NEW f, NEW S, IsFiniteSet(S), \A x \in S : f[x] \in Nat
  PROVE  SumFunctionOnSet(f, S) \in Nat
  <1>1. SumFunctionOnSet(f, S) \in Int
    BY SumInt
  <1> DEFINE Bad == {t \in SUBSET S : ~ (SumFunctionOnSet(f, t) >= 0)}
  <1> SUFFICES ASSUME Bad # {} PROVE FALSE
    BY <1>1
  <1>2. Bad \in SUBSET SUBSET S
    OBVIOUS
  <1>3. PICK t \in Bad : \A u \in Bad : u \subseteq t => u = t
    <2> HIDE DEF Bad
    <2> QED
      BY <1>2, Smallest
  <1>4. IsFiniteSet(t) /\ t # {}
    <2>1. SumFunctionOnSet(f, {}) = 0
      BY SumEmpty
    <2>2. t # {}
      BY <2>1
    <2> QED
      BY <2>2, FS_Subset
  <1> DEFINE p == First(t)
             r == t \ {p}
  <1>5. p \in t /\ r \in SUBSET S /\ r # t /\ IsFiniteSet(r)
    BY <1>4, FirstIn, FS_Subset
  <1>6. SumFunctionOnSet(f, t) = f[p] + SumFunctionOnSet(f, r)
    BY <1>4, SumFirst
  <1> HIDE DEF r, p
  <1>7. SumFunctionOnSet(f, r) >= 0 /\ SumFunctionOnSet(f, r) \in Int
    BY <1>3, <1>5, SumInt DEF r
  <1> QED
    BY <1>5, <1>6, <1>7

\* A part of natural summands adds up to at most the whole.
LEMMA SumOfPart ==
  ASSUME NEW f, NEW S, IsFiniteSet(S), \A x \in S : f[x] \in Nat, NEW T \in SUBSET S
  PROVE  SumFunctionOnSet(f, T) <= SumFunctionOnSet(f, S)
  <1> DEFINE Bad == {t \in SUBSET S : \E u \in SUBSET t :
                        ~ (SumFunctionOnSet(f, u) <= SumFunctionOnSet(f, t))}
  <1> SUFFICES ASSUME Bad # {} PROVE FALSE
    OBVIOUS
  <1>1. Bad \in SUBSET SUBSET S
    OBVIOUS
  <1>2. PICK t \in Bad : \A u \in Bad : u \subseteq t => u = t
    <2> HIDE DEF Bad
    <2> QED
      BY <1>1, Smallest
  <1>3. PICK u \in SUBSET t : ~ (SumFunctionOnSet(f, u) <= SumFunctionOnSet(f, t))
    OBVIOUS
  <1>4. IsFiniteSet(t) /\ IsFiniteSet(u) /\ \A x \in t : f[x] \in Nat
    BY FS_Subset
  <1>5. SumFunctionOnSet(f, t) \in Nat /\ SumFunctionOnSet(f, u) \in Nat
    BY <1>4, SumNat
  <1>6. PICK x \in t : x \notin u
    BY <1>3, <1>5
  <1>7. SumFunctionOnSet(f, t) = f[x] + SumFunctionOnSet(f, t \ {x})
    <2>1. \A y \in t : f[y] \in Int
      BY <1>4
    <2> QED
      BY <1>4, <2>1, SumPick
  <1>8. SumFunctionOnSet(f, u) <= SumFunctionOnSet(f, t \ {x})
    <2>1. t \ {x} \in SUBSET S /\ t \ {x} # t /\ u \in SUBSET (t \ {x})
      BY <1>6
    <2> QED
      BY <1>2, <2>1
  <1>9. SumFunctionOnSet(f, t \ {x}) \in Nat /\ f[x] \in Nat
    <2> DEFINE r == t \ {x}
    <2>1. IsFiniteSet(r) /\ \A y \in r : f[y] \in Nat
      BY <1>4, FS_Subset
    <2> HIDE DEF r
    <2>2. SumFunctionOnSet(f, r) \in Nat
      BY <2>1, SumNat
    <2> QED
      BY <1>4, <2>2 DEF r
  <1> QED
    BY <1>3, <1>5, <1>7, <1>8, <1>9

\* As many summands of at most m add up to at most that many times m.
LEMMA SumBounded ==
  ASSUME NEW f, NEW S, IsFiniteSet(S), NEW m \in Nat, \A x \in S : f[x] \in Int /\ f[x] <= m
  PROVE  SumFunctionOnSet(f, S) <= Cardinality(S) * m
  <1> DEFINE Bad == {t \in SUBSET S : ~ (SumFunctionOnSet(f, t) <= Cardinality(t) * m)}
  <1> SUFFICES ASSUME Bad # {} PROVE FALSE
    OBVIOUS
  <1>1. Bad \in SUBSET SUBSET S
    OBVIOUS
  <1>2. PICK t \in Bad : \A u \in Bad : u \subseteq t => u = t
    <2> HIDE DEF Bad
    <2> QED
      BY <1>1, Smallest
  <1>3. t # {}
    BY SumEmpty, FS_EmptySet
  <1> DEFINE p == First(t)
             r == t \ {p}
  <1>4. p \in t /\ r \in SUBSET S /\ r # t /\ IsFiniteSet(r) /\ IsFiniteSet(t)
    BY <1>3, FirstIn, FS_Subset
  <1>5. SumFunctionOnSet(f, t) = f[p] + SumFunctionOnSet(f, r)
    BY <1>3, <1>4, SumFirst
  <1>6. Cardinality(r) = Cardinality(t) - 1 /\ Cardinality(t) \in Nat
    BY <1>4, FS_RemoveElement, FS_CardinalityType
  <1> HIDE DEF r, p
  <1>7. SumFunctionOnSet(f, r) <= Cardinality(r) * m /\ SumFunctionOnSet(f, r) \in Int
    BY <1>2, <1>4, SumInt DEF r
  <1>8. Cardinality(r) * m + m = Cardinality(t) * m
    <2>1. \A c \in Int : (c - 1) * m + m = c * m
      OBVIOUS
    <2> QED
      BY <1>6, <2>1
  <1>9. Cardinality(r) * m \in Int /\ Cardinality(t) * m \in Int /\ f[p] \in Int /\ f[p] <= m
    BY <1>4, <1>6
  <1> QED
    BY <1>5, <1>7, <1>8, <1>9

\* An inequality between multiples of the summands carries over to the sums.
LEMMA SumWeighted ==
  ASSUME NEW f, NEW g, NEW S, IsFiniteSet(S), NEW a \in Nat, NEW b \in Nat,
         \A x \in S : f[x] \in Int /\ g[x] \in Int /\ f[x] * a <= g[x] * b
  PROVE  SumFunctionOnSet(f, S) * a <= SumFunctionOnSet(g, S) * b
  <1> DEFINE Bad == {t \in SUBSET S :
                        ~ (SumFunctionOnSet(f, t) * a <= SumFunctionOnSet(g, t) * b)}
  <1> SUFFICES ASSUME Bad # {} PROVE FALSE
    OBVIOUS
  <1>1. Bad \in SUBSET SUBSET S
    OBVIOUS
  <1>2. PICK t \in Bad : \A u \in Bad : u \subseteq t => u = t
    <2> HIDE DEF Bad
    <2> QED
      BY <1>1, Smallest
  <1>3. t # {}
    BY SumEmpty
  <1> DEFINE p == First(t)
             r == t \ {p}
  <1>4. p \in t /\ r \in SUBSET S /\ r # t /\ IsFiniteSet(r) /\ IsFiniteSet(t)
    BY <1>3, FirstIn, FS_Subset
  <1>5. SumFunctionOnSet(f, t) = f[p] + SumFunctionOnSet(f, r)
        /\ SumFunctionOnSet(g, t) = g[p] + SumFunctionOnSet(g, r)
    BY <1>3, <1>4, SumFirst
  <1> HIDE DEF r, p
  <1>6. SumFunctionOnSet(f, r) * a <= SumFunctionOnSet(g, r) * b
    BY <1>2, <1>4 DEF r
  <1>7. SumFunctionOnSet(f, r) \in Int /\ SumFunctionOnSet(g, r) \in Int
    BY <1>4, SumInt
  <1>8. f[p] \in Int /\ g[p] \in Int /\ f[p] * a <= g[p] * b
    BY <1>4
  <1>9. \A u, v, w \in Int : (u + v) * w = u * w + v * w /\ u * w \in Int
    OBVIOUS
  <1>10. SumFunctionOnSet(f, t) * a = f[p] * a + SumFunctionOnSet(f, r) * a
         /\ SumFunctionOnSet(g, t) * b = g[p] * b + SumFunctionOnSet(g, r) * b
    BY <1>5, <1>7, <1>8, <1>9
  <1> QED
    BY <1>6, <1>7, <1>8, <1>9, <1>10
==============================================================================
