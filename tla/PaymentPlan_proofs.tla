-------------------------- MODULE PaymentPlan_proofs --------------------------
(***************************************************************************)
(* Proofs about the plan of a payment, for any notes, recipients and cost: *)
(* types, that the fee is never overpaid, that the fee of the plan is that *)
(* of the transaction, that the change is what is left of the notes, and   *)
(* that a plan that gives up could not have been made from other notes.    *)
(***************************************************************************)
EXTENDS PaymentPlan, FiniteSetTheorems, TLAPS

-------------------------------------------------------------------------------
(* Sums over finite sets.  The sums of PaymentPlan are folds, which take   *)
(* the elements of a set in an order of their own; what a sum is does not  *)
(* depend on it.                                                           *)
First1(s) == CHOOSE x \in s : TRUE

(* the function that the fold over S defines                               *)
IsFold(g, f, S) ==
    g = [s \in SUBSET S |-> IF s = {} THEN 0 ELSE f[First1(s)] + g[s \ {First1(s)}]]

LEMMA TotalIsFold == \A f, S : SumFunctionOnSet(f, S) = (CHOOSE g : IsFold(g, f, S))[S]
BY DEF SumFunctionOnSet, FoldFunctionOnSet, MapThenFoldSet, IsFold, First1

(* Induction over the subsets of a finite set: a smallest counterexample.  *)
LEMMA SmallestSubset ==
    ASSUME NEW S, IsFiniteSet(S), NEW B \in SUBSET SUBSET S, B # {}
    PROVE  \E T \in B : \A U \in B : U \subseteq T => U = T
<1>1. B \subseteq FiniteSubsetsOf(S)
  BY FS_FiniteSubsetsOfFinite
<1>2. PICK T \in B : \A U \in B : ~ (<<U, T>> \in StrictSubsetOrdering(S))
  BY <1>1, FS_StrictSubsetOrderingWellFounded, WFMin, Zenon
<1>3. ASSUME NEW U \in B, U \subseteq T, U # T PROVE FALSE
  <2>1. <<U, T>> \in (SUBSET S) \X (SUBSET S)
    OBVIOUS
  <2>2. <<U, T>> \in StrictSubsetOrdering(S)
    BY <1>3, <2>1 DEF StrictSubsetOrdering
  <2> QED
    BY <1>2, <2>2
<1> QED
  BY <1>2, <1>3

LEMMA FirstIn == \A s : s # {} => First1(s) \in s
BY DEF First1

(* A fold over S contains that over each subset, and there is only one.    *)
LEMMA FoldsAgree ==
    ASSUME NEW f, NEW S, IsFiniteSet(S), NEW T \in SUBSET S, NEW g, NEW h,
           IsFold(g, f, S), IsFold(h, f, T)
    PROVE  \A u \in SUBSET T : g[u] = h[u]
<1> DEFINE B == {u \in SUBSET T : g[u] # h[u]}
<1>1. ASSUME B # {} PROVE FALSE
  <2>1. PICK u \in B : \A v \in B : v \subseteq u => v = u
    <3>1. IsFiniteSet(T) /\ B \in SUBSET SUBSET T /\ B # {}
      BY <1>1, FS_Subset
    <3> HIDE DEF B
    <3> QED
      BY <3>1, SmallestSubset
  <2>2. u \in SUBSET S /\ u \in SUBSET T
    OBVIOUS
  <2>3. /\ g[u] = IF u = {} THEN 0 ELSE f[First1(u)] + g[u \ {First1(u)}]
        /\ h[u] = IF u = {} THEN 0 ELSE f[First1(u)] + h[u \ {First1(u)}]
    BY <2>2 DEF IsFold
  <2>4. CASE u = {}
    BY <2>3, <2>4
  <2>5. CASE u # {}
    <3> DEFINE v == u \ {First1(u)}
    <3>1. v \subseteq u /\ v # u /\ v \in SUBSET T
      BY <2>5, FirstIn
    <3>2. g[v] = h[v]
      BY <2>1, <3>1
    <3> QED
      BY <2>3, <2>5, <3>2
  <2> QED
    BY <2>4, <2>5
<1> QED
  BY <1>1

(* A part of a fold is the fold of a subset.                               *)
LEMMA FoldOfSubset ==
    ASSUME NEW f, NEW S, NEW T \in SUBSET S, NEW g, IsFold(g, f, S)
    PROVE  IsFold([u \in SUBSET T |-> g[u]], f, T)
<1> DEFINE h == [u \in SUBSET T |-> g[u]]
<1>1. ASSUME NEW u \in SUBSET T
      PROVE  h[u] = IF u = {} THEN 0 ELSE f[First1(u)] + h[u \ {First1(u)}]
  <2>1. u \in SUBSET S /\ u \ {First1(u)} \in SUBSET T
    OBVIOUS
  <2>2. g[u] = IF u = {} THEN 0 ELSE f[First1(u)] + g[u \ {First1(u)}]
    BY <2>1 DEF IsFold
  <2> QED
    BY <2>1, <2>2
<1>2. h = [u \in SUBSET T |-> IF u = {} THEN 0 ELSE f[First1(u)] + h[u \ {First1(u)}]]
  BY <1>1
<1> QED
  BY <1>2 DEF IsFold

LEMMA FoldExists ==
    ASSUME NEW f, NEW S, IsFiniteSet(S)
    PROVE  \E g : IsFold(g, f, S)
<1> DEFINE B == {T \in SUBSET S : ~ \E g : IsFold(g, f, T)}
<1>1. ASSUME B # {} PROVE FALSE
  <2>1. PICK T \in B : \A U \in B : U \subseteq T => U = T
    <3>1. B \in SUBSET SUBSET S /\ B # {}
      BY <1>1
    <3> HIDE DEF B
    <3> QED
      BY <3>1, SmallestSubset
  <2>2. T \subseteq S /\ IsFiniteSet(T)
    BY FS_Subset
  <2> DEFINE F(U) == CHOOSE g : IsFold(g, f, U)
             v == [U \in SUBSET T |-> F(U)[U]]
             x == First1(T)
             h == [U \in SUBSET T |-> IF U = {} THEN 0
                                      ELSE IF U # T THEN v[U] ELSE f[x] + v[T \ {x}]]
  <2>3. ASSUME NEW U \in SUBSET T, U # T PROVE IsFold(F(U), f, U)
    <3>1. U \notin B
      BY <2>1, <2>3
    <3>2. \E g : IsFold(g, f, U)
      BY <2>2, <3>1
    <3> QED
      BY <3>2
  <2>4. ASSUME NEW U \in SUBSET T, U # T, U # {}
        PROVE  v[U] = f[First1(U)] + v[U \ {First1(U)}]
    <3> DEFINE W == U \ {First1(U)}
    <3>1. W \in SUBSET U /\ W \in SUBSET T /\ W # T /\ IsFiniteSet(U)
      BY <2>2, <2>4, FirstIn, FS_Subset
    <3>2. IsFold(F(U), f, U) /\ IsFold(F(W), f, W)
      BY <2>3, <2>4, <3>1
    <3> HIDE DEF F
    <3>3. F(U)[W] = F(W)[W]
      BY <3>1, <3>2, FoldsAgree
    <3>4. F(U)[U] = f[First1(U)] + F(U)[W]
      BY <2>4, <3>2 DEF IsFold
    <3> QED
      BY <3>1, <3>3, <3>4
  <2>5. ASSUME NEW U \in SUBSET T, U # T, U = {} PROVE v[U] = 0
    <3>1. IsFold(F(U), f, U)
      BY <2>3, <2>5
    <3> HIDE DEF F
    <3>2. F(U)[U] = 0
      BY <2>5, <3>1 DEF IsFold
    <3> QED
      BY <3>2
  <2> HIDE DEF v
  <2>6. ASSUME NEW U \in SUBSET T
        PROVE  h[U] = IF U = {} THEN 0 ELSE f[First1(U)] + h[U \ {First1(U)}]
    <3>1. CASE U = {}
      BY <3>1
    <3>2. CASE U # {}
      <4> DEFINE W == U \ {First1(U)}
      <4>1. W \in SUBSET T /\ W # T /\ W # U
        BY <3>2, FirstIn
      <4>2. h[W] = v[W]
        BY <4>1, <2>5
      <4>3. h[U] = f[First1(U)] + v[W]
        BY <3>2, <2>4
      <4> QED
        BY <3>2, <4>2, <4>3
    <3> QED
      BY <3>1, <3>2
  <2>7. h = [U \in SUBSET T |-> IF U = {} THEN 0 ELSE f[First1(U)] + h[U \ {First1(U)}]]
    BY <2>6
  <2>8. IsFold(h, f, T)
    BY <2>7 DEF IsFold
  <2> QED
    BY <2>8
<1>2. S \notin B
  BY <1>1
<1> QED
  BY <1>2

(* What a sum is: nothing for no element, and one more for each.           *)
LEMMA TotalOfNone == \A f : SumFunctionOnSet(f, {}) = 0
<1> SUFFICES ASSUME NEW f PROVE SumFunctionOnSet(f, {}) = 0
  OBVIOUS
<1>1. IsFold(CHOOSE g : IsFold(g, f, {}), f, {})
  BY FoldExists, FS_EmptySet
<1>2. PICK g : IsFold(g, f, {}) /\ SumFunctionOnSet(f, {}) = g[{}]
  BY <1>1, TotalIsFold
<1> QED
  BY <1>2 DEF IsFold

LEMMA TotalByFirst ==
    ASSUME NEW f, NEW S, IsFiniteSet(S), S # {}
    PROVE  SumFunctionOnSet(f, S) = f[First1(S)] + SumFunctionOnSet(f, S \ {First1(S)})
<1> DEFINE T == S \ {First1(S)}
<1>1. IsFiniteSet(T) /\ T \in SUBSET S
  BY FS_Subset
<1> HIDE DEF T
<1>2. IsFold(CHOOSE g : IsFold(g, f, S), f, S) /\ IsFold(CHOOSE g : IsFold(g, f, T), f, T)
  BY <1>1, FoldExists
<1>3. PICK g : IsFold(g, f, S) /\ SumFunctionOnSet(f, S) = g[S]
  BY <1>2, TotalIsFold
<1>4. PICK h : IsFold(h, f, T) /\ SumFunctionOnSet(f, T) = h[T]
  BY <1>2, TotalIsFold
<1>5. g[T] = h[T]
  BY <1>1, <1>3, <1>4, FoldsAgree
<1>6. g[S] = f[First1(S)] + g[T]
  BY <1>3 DEF IsFold, T
<1> QED
  BY <1>3, <1>4, <1>5, <1>6 DEF T

(* f has an integer for every element of S.                                *)
Numbers(f, S) == \A x \in S : f[x] \in Int

LEMMA TotalType ==
    ASSUME NEW f, NEW S, IsFiniteSet(S), Numbers(f, S)
    PROVE  \A T \in SUBSET S : SumFunctionOnSet(f, T) \in Int
<1> DEFINE B == {T \in SUBSET S : SumFunctionOnSet(f, T) \notin Int}
<1>1. ASSUME B # {} PROVE FALSE
  <2>1. PICK T \in B : \A U \in B : U \subseteq T => U = T
    <3>1. B \in SUBSET SUBSET S /\ B # {}
      BY <1>1
    <3> HIDE DEF B
    <3> QED
      BY <3>1, SmallestSubset
  <2>2. IsFiniteSet(T) /\ T # {}
    <3>1. SumFunctionOnSet(f, {}) \in Int
      BY TotalOfNone
    <3> QED
      BY <3>1, FS_Subset
  <2> DEFINE x == First1(T)
             U == T \ {x}
  <2>3. x \in T /\ U \subseteq T /\ U # T /\ f[x] \in Int
    BY <2>2, FirstIn DEF Numbers
  <2>4. SumFunctionOnSet(f, U) \in Int
    BY <2>1, <2>3
  <2>5. SumFunctionOnSet(f, T) = f[x] + SumFunctionOnSet(f, U)
    BY <2>2, TotalByFirst
  <2> QED
    BY <2>3, <2>4, <2>5
<1> QED
  BY <1>1

(* Any element can be taken first.                                         *)
LEMMA TotalWithout ==
    ASSUME NEW f, NEW S, IsFiniteSet(S), Numbers(f, S)
    PROVE  \A T \in SUBSET S : \A x \in T : SumFunctionOnSet(f, T) = f[x] + SumFunctionOnSet(f, T \ {x})
<1> DEFINE B == {T \in SUBSET S : ~ \A x \in T : SumFunctionOnSet(f, T) = f[x] + SumFunctionOnSet(f, T \ {x})}
<1>1. ASSUME B # {} PROVE FALSE
  <2>1. PICK T \in B : \A U \in B : U \subseteq T => U = T
    <3>1. B \in SUBSET SUBSET S /\ B # {}
      BY <1>1
    <3> HIDE DEF B
    <3> QED
      BY <3>1, SmallestSubset
  <2>2. PICK x \in T : SumFunctionOnSet(f, T) # f[x] + SumFunctionOnSet(f, T \ {x})
    OBVIOUS
  <2> DEFINE c == First1(T)
             U == T \ {c}
             V == T \ {x}
             W == T \ {x, c}
  <2>3. IsFiniteSet(T) /\ IsFiniteSet(V) /\ T # {} /\ c \in T
    BY FS_Subset, FirstIn
  <2>4. SumFunctionOnSet(f, T) = f[c] + SumFunctionOnSet(f, U)
    BY <2>3, TotalByFirst
  <2>5. x # c
    BY <2>2, <2>4
  <2>6. U \notin B /\ V \notin B
    BY <2>1, <2>3
  <2>7. U \ {x} = W /\ V \ {c} = W /\ x \in U /\ c \in V /\ U \in SUBSET S /\ V \in SUBSET S
    BY <2>3, <2>5
  <2>8. SumFunctionOnSet(f, U) = f[x] + SumFunctionOnSet(f, W) /\ SumFunctionOnSet(f, V) = f[c] + SumFunctionOnSet(f, W)
    BY <2>6, <2>7
  <2>9. f[x] \in Int /\ f[c] \in Int /\ SumFunctionOnSet(f, W) \in Int
    BY <2>3, TotalType DEF Numbers
  <2> HIDE DEF U, V, W, c, B
  <2>10. SumFunctionOnSet(f, T) = f[x] + SumFunctionOnSet(f, V)
    BY <2>4, <2>8, <2>9
  <2> QED
    BY <2>2, <2>10 DEF V
<1> QED
  BY <1>1

(* Functions that agree on a set have the same sum over it.                *)
LEMMA TotalSame ==
    ASSUME NEW f, NEW g, NEW S, IsFiniteSet(S), Numbers(f, S), \A x \in S : f[x] = g[x]
    PROVE  SumFunctionOnSet(f, S) = SumFunctionOnSet(g, S)
<1> DEFINE B == {T \in SUBSET S : SumFunctionOnSet(f, T) # SumFunctionOnSet(g, T)}
<1>1. ASSUME B # {} PROVE FALSE
  <2>1. PICK T \in B : \A U \in B : U \subseteq T => U = T
    <3>1. B \in SUBSET SUBSET S /\ B # {}
      BY <1>1
    <3> HIDE DEF B
    <3> QED
      BY <3>1, SmallestSubset
  <2>2. IsFiniteSet(T) /\ T # {}
    BY FS_Subset, TotalOfNone
  <2> DEFINE x == First1(T)
             U == T \ {x}
  <2>3. x \in T /\ U \subseteq T /\ U # T /\ f[x] = g[x]
    BY <2>2, FirstIn
  <2>4. SumFunctionOnSet(f, U) = SumFunctionOnSet(g, U)
    BY <2>1, <2>3
  <2>5. SumFunctionOnSet(f, T) = f[x] + SumFunctionOnSet(f, U) /\ SumFunctionOnSet(g, T) = g[x] + SumFunctionOnSet(g, U)
    BY <2>2, TotalByFirst
  <2> QED
    BY <2>3, <2>4, <2>5
<1> QED
  BY <1>1

(* One value is changed.                                                   *)
LEMMA TotalChanged ==
    ASSUME NEW f, NEW g, NEW S, IsFiniteSet(S), Numbers(f, S), Numbers(g, S),
           NEW n \in S, \A x \in S \ {n} : f[x] = g[x]
    PROVE  /\ SumFunctionOnSet(f, S) \in Int /\ SumFunctionOnSet(g, S) \in Int
           /\ SumFunctionOnSet(g, S) - SumFunctionOnSet(f, S) = g[n] - f[n]
<1> DEFINE T == S \ {n}
<1>1. SumFunctionOnSet(f, S) = f[n] + SumFunctionOnSet(f, T) /\ SumFunctionOnSet(g, S) = g[n] + SumFunctionOnSet(g, T)
  BY TotalWithout
<1>2. IsFiniteSet(T) /\ Numbers(f, T)
  BY FS_Subset DEF Numbers
<1>3. SumFunctionOnSet(f, T) = SumFunctionOnSet(g, T)
  BY <1>2, TotalSame
<1>4. f[n] \in Int /\ g[n] \in Int /\ SumFunctionOnSet(f, T) \in Int
  BY TotalType DEF Numbers
<1> HIDE DEF T
<1> QED
  BY <1>1, <1>3, <1>4

(* A sum of zeros.                                                         *)
LEMMA TotalOfZeros ==
    ASSUME NEW f, NEW S, IsFiniteSet(S), \A x \in S : f[x] = 0
    PROVE  SumFunctionOnSet(f, S) = 0
<1> DEFINE B == {T \in SUBSET S : SumFunctionOnSet(f, T) # 0}
<1>1. ASSUME B # {} PROVE FALSE
  <2>1. PICK T \in B : \A U \in B : U \subseteq T => U = T
    <3>1. B \in SUBSET SUBSET S /\ B # {}
      BY <1>1
    <3> HIDE DEF B
    <3> QED
      BY <3>1, SmallestSubset
  <2>2. IsFiniteSet(T) /\ T # {}
    BY FS_Subset, TotalOfNone
  <2> DEFINE x == First1(T)
             U == T \ {x}
  <2>3. x \in T /\ U \subseteq T /\ U # T /\ f[x] = 0
    BY <2>2, FirstIn
  <2>4. SumFunctionOnSet(f, U) = 0
    BY <2>1, <2>3
  <2>5. SumFunctionOnSet(f, T) = f[x] + SumFunctionOnSet(f, U)
    BY <2>2, TotalByFirst
  <2> QED
    BY <2>3, <2>4, <2>5
<1> QED
  BY <1>1

(* What two functions differ by is in the elements on which they differ.   *)
LEMMA TotalOfDifferent ==
    ASSUME NEW f, NEW g, NEW S, IsFiniteSet(S), Numbers(f, S), Numbers(g, S)
    PROVE  LET D == {x \in S : f[x] # g[x]}
           IN  /\ SumFunctionOnSet(f, S) \in Int /\ SumFunctionOnSet(g, S) \in Int
               /\ SumFunctionOnSet(f, D) \in Int /\ SumFunctionOnSet(g, D) \in Int
               /\ SumFunctionOnSet(f, S) - SumFunctionOnSet(g, S) = SumFunctionOnSet(f, D) - SumFunctionOnSet(g, D)
<1> DEFINE D(T) == {x \in T : f[x] # g[x]}
           B == {T \in SUBSET S : SumFunctionOnSet(f, T) - SumFunctionOnSet(g, T) # SumFunctionOnSet(f, D(T)) - SumFunctionOnSet(g, D(T))}
<1>1. ASSUME B # {} PROVE FALSE
  <2>1. PICK T \in B : \A U \in B : U \subseteq T => U = T
    <3>1. B \in SUBSET SUBSET S /\ B # {}
      BY <1>1
    <3> HIDE DEF B
    <3> QED
      BY <3>1, SmallestSubset
  <2>2. T # {}
    <3>1. ASSUME T = {} PROVE FALSE
      <4>1. D(T) = T
        BY <3>1
      <4> QED
        BY <4>1
    <3> QED
      BY <3>1
  <2>3. PICK x \in T : TRUE
    BY <2>2
  <2> DEFINE U == T \ {x}
  <2>4. U \notin B /\ U \in SUBSET S
    BY <2>1
  <2>5. SumFunctionOnSet(f, U) - SumFunctionOnSet(g, U) = SumFunctionOnSet(f, D(U)) - SumFunctionOnSet(g, D(U))
    BY <2>4
  <2>6. SumFunctionOnSet(f, T) = f[x] + SumFunctionOnSet(f, U) /\ SumFunctionOnSet(g, T) = g[x] + SumFunctionOnSet(g, U)
    BY TotalWithout
  <2>7. /\ f[x] \in Int /\ g[x] \in Int /\ SumFunctionOnSet(f, U) \in Int /\ SumFunctionOnSet(g, U) \in Int
        /\ SumFunctionOnSet(f, D(U)) \in Int /\ SumFunctionOnSet(g, D(U)) \in Int
    BY TotalType DEF Numbers
  <2>8. CASE f[x] = g[x]
    <3>1. D(T) = D(U)
      BY <2>8
    <3>2. SumFunctionOnSet(f, T) - SumFunctionOnSet(g, T) = SumFunctionOnSet(f, D(T)) - SumFunctionOnSet(g, D(T))
      <4> HIDE DEF D, U, B
      <4> QED
        BY <2>5, <2>6, <2>7, <2>8, <3>1
    <3> QED
      BY <3>2
  <2>9. CASE f[x] # g[x]
    <3>1. D(T) \ {x} = D(U) /\ x \in D(T) /\ D(T) \in SUBSET S
      BY <2>9
    <3>2. SumFunctionOnSet(f, D(T)) = f[x] + SumFunctionOnSet(f, D(U)) /\ SumFunctionOnSet(g, D(T)) = g[x] + SumFunctionOnSet(g, D(U))
      <4> HIDE DEF D, U, B
      <4> QED
        BY <3>1, TotalWithout
    <3>3. SumFunctionOnSet(f, T) - SumFunctionOnSet(g, T) = SumFunctionOnSet(f, D(T)) - SumFunctionOnSet(g, D(T))
      <4> HIDE DEF D, U, B
      <4> QED
        BY <2>5, <2>6, <2>7, <3>2
    <3> QED
      BY <3>3
  <2> QED
    BY <2>8, <2>9
<1>2. D(S) \in SUBSET S /\ S \in SUBSET S
  OBVIOUS
<1>3. S \notin B
  BY <1>1
<1>4. SumFunctionOnSet(f, S) - SumFunctionOnSet(g, S) = SumFunctionOnSet(f, D(S)) - SumFunctionOnSet(g, D(S))
  BY <1>3
<1>5. /\ SumFunctionOnSet(f, S) \in Int /\ SumFunctionOnSet(g, S) \in Int
      /\ SumFunctionOnSet(f, D(S)) \in Int /\ SumFunctionOnSet(g, D(S)) \in Int
  BY <1>2, TotalType
<1> QED
  BY <1>4, <1>5

-------------------------------------------------------------------------------
(* Numbers and pools.                                                      *)
LEMMA MinOfTwo ==
    ASSUME NEW a \in Int, NEW b \in Int
    PROVE  Min({a, b}) = IF a <= b THEN a ELSE b
BY DEF Min

LEMMA CostFacts == Cost \in Nat /\ Cost > 0 /\ Width \in Nat /\ Width > 1
BY CostAssumption

LEMMA Modulo ==
    ASSUME NEW x \in Nat
    PROVE  x % Width \in 0 .. Width - 1 /\ (x < Width => x % Width = x)
BY CostFacts

LEMMA BestPool ==
    ASSUME NEW mask \in Masks \ {{}}
    PROVE  to_best_pool(mask) \in mask /\ to_best_pool(mask) \in Pools
<1>1. \E x \in mask : \A y \in mask : x >= y
  <2>1. \A y \in mask : y \in {0, 1, 2}
    BY DEF Masks, Pools
  <2>2. CASE 2 \in mask
    BY <2>1, <2>2
  <2>3. CASE 2 \notin mask /\ 1 \in mask
    BY <2>1, <2>3
  <2>4. CASE 2 \notin mask /\ 1 \notin mask
    BY <2>1, <2>4
  <2> QED
    BY <2>2, <2>3, <2>4
<1>2. Max(mask) \in mask
  BY <1>1 DEF Max
<1> QED
  BY <1>2 DEF to_best_pool, Masks

LEMMA ThreePools == 0 \in Pools /\ 1 \in Pools /\ 2 \in Pools /\ \A p \in Pools : p = 0 \/ p = 1 \/ p = 2
BY DEF Pools

LEMMA ActionsType ==
    ASSUME NEW in \in [Pools -> Nat], NEW out \in [Pools -> Nat]
    PROVE  LogicalActions(in, out) \in Nat
<1> DEFINE Used1(p)  == in[p] > 0 \/ out[p] > 0
           Count(p) == Larger(in[p], out[p])
           t == Count(0)
           s == IF Used1(1) THEN Larger(Count(1), 2) ELSE 0
           o == IF Used1(2) THEN Larger(Count(2), 2) ELSE 0
<1>1. t + s + o \in Nat
  BY ThreePools DEF Larger
<1> HIDE DEF t, s, o
<1>2. (t + s + o) % Width \in Nat
  BY <1>1, Modulo, CostFacts
<1>3. Larger((t + s + o) % Width, 2) \in Nat
  BY <1>2 DEF Larger
<1> QED
  BY <1>3 DEF LogicalActions, t, s, o

LEMMA FeeType ==
    ASSUME NEW in \in [Pools -> Nat], NEW out \in [Pools -> Nat]
    PROVE  LogicalActions(in, out) * Cost \in Nat
BY ActionsType, CostFacts

(* With counters that do not wrap, more inputs and outputs cost more.      *)
InAll(c) == c[0] + c[1] + c[2]

LEMMA ActionsGrow ==
    ASSUME NEW in \in [Pools -> Nat], NEW out \in [Pools -> Nat],
           NEW in2 \in [Pools -> Nat], NEW out2 \in [Pools -> Nat],
           \A p \in Pools : in[p] <= in2[p] /\ out[p] <= out2[p],
           InAll(in2) + InAll(out2) + 2 < Width
    PROVE  LogicalActions(in, out) <= LogicalActions(in2, out2)
<1> DEFINE Count(i, o, p) == Larger(i[p], o[p])
           Two(i, o, p) == IF i[p] > 0 \/ o[p] > 0 THEN Larger(Count(i, o, p), 2) ELSE 0
           Sum(i, o) == Count(i, o, 0) + Two(i, o, 1) + Two(i, o, 2)
<1>1. /\ Count(in, out, 0) \in Nat /\ Count(in, out, 0) <= Count(in2, out2, 0)
      /\ Count(in2, out2, 0) <= in2[0] + out2[0]
  BY ThreePools DEF Larger
<1>2. ASSUME NEW p \in Pools
      PROVE  /\ Two(in, out, p) \in Nat /\ Two(in, out, p) <= Two(in2, out2, p)
             /\ Two(in2, out2, p) <= in2[p] + out2[p] + 1
  BY DEF Larger
<1> HIDE DEF Count, Two
<1>3. /\ Two(in, out, 1) \in Nat /\ Two(in, out, 1) <= Two(in2, out2, 1)
      /\ Two(in2, out2, 1) <= in2[1] + out2[1] + 1
      /\ Two(in, out, 2) \in Nat /\ Two(in, out, 2) <= Two(in2, out2, 2)
      /\ Two(in2, out2, 2) <= in2[2] + out2[2] + 1
  BY <1>2, ThreePools
<1>4. /\ in2[0] \in Nat /\ in2[1] \in Nat /\ in2[2] \in Nat
      /\ out2[0] \in Nat /\ out2[1] \in Nat /\ out2[2] \in Nat
      /\ Two(in2, out2, 1) \in Int /\ Two(in2, out2, 2) \in Int /\ Count(in2, out2, 0) \in Int
  BY ThreePools DEF Two, Count, Larger
<1>5. Sum(in, out) \in Nat /\ Sum(in2, out2) \in Nat /\ Sum(in, out) <= Sum(in2, out2)
      /\ Sum(in2, out2) < Width
  BY <1>1, <1>3, <1>4, CostFacts DEF InAll
<1>6. LogicalActions(in, out) = Larger(Sum(in, out) % Width, 2)
      /\ LogicalActions(in2, out2) = Larger(Sum(in2, out2) % Width, 2)
  BY DEF LogicalActions, Two, Count
<1> HIDE DEF Sum
<1>7. Sum(in, out) % Width = Sum(in, out) /\ Sum(in2, out2) % Width = Sum(in2, out2)
  BY <1>5, Modulo, CostFacts
<1> QED
  BY <1>5, <1>6, <1>7 DEF Larger

LEMMA TimesGrows ==
    ASSUME NEW a \in Nat, NEW b \in Nat, a <= b
    PROVE  a * Cost <= b * Cost
BY CostFacts

-------------------------------------------------------------------------------
(* Types.                                                                  *)
LEMMA ListType ==
    ASSUME NEW S, NEW q \in Seq(S)
    PROVE  /\ Len(q) \in Nat /\ DOMAIN q = 1 .. Len(q)
           /\ \A i \in DOMAIN q : q[i] \in S
OBVIOUS

LEMMA RequestType ==
    ASSUME request \in Requests
    PROVE  /\ \A n \in N : request.notes[n].pool \in Pools /\ request.notes[n].value \in Nat
           /\ \A r \in R : /\ request.recipients[r].mask \in {{0}, {1}, {2}, {1, 2}}
                            /\ request.recipients[r].mask \in Masks \ {{}}
                            /\ request.recipients[r].amount \in Nat
           /\ N = 1 .. Len(request.notes) /\ R = 1 .. Len(request.recipients)
           /\ Len(request.notes) \in Nat /\ Len(request.recipients) \in Nat
           /\ IsFiniteSet(N) /\ Cardinality(N) = Len(request.notes)
           /\ IsFiniteSet(R) /\ Cardinality(R) = Len(request.recipients)
           /\ change_pool \in Pools
           /\ request.recipientPays \in BOOLEAN
<1>1. /\ request.notes \in Notes /\ request.recipients \in Recipients
      /\ request.pools \in Masks \ {{}} /\ request.recipientPays \in BOOLEAN
  BY RequestAssumption
<1>2. /\ N = 1 .. Len(request.notes) /\ Len(request.notes) \in Nat
      /\ \A n \in N : request.notes[n] \in [pool : Pools, value : Nat]
  <2> DEFINE S == [pool : Pools, value : Nat]
  <2>1. request.notes \in Seq(S) /\ N = DOMAIN request.notes
    BY <1>1 DEF Notes, N
  <2> HIDE DEF S
  <2>2. Len(request.notes) \in Nat /\ N = 1 .. Len(request.notes)
        /\ \A n \in N : request.notes[n] \in S
    BY <2>1, ListType
  <2> QED
    BY <2>2 DEF S
<1>3. /\ R = 1 .. Len(request.recipients) /\ Len(request.recipients) \in Nat
      /\ \A r \in R : request.recipients[r] \in [mask : {{0}, {1}, {2}, {1, 2}}, amount : Nat]
  <2> DEFINE S == [mask : {{0}, {1}, {2}, {1, 2}}, amount : Nat]
  <2>1. request.recipients \in Seq(S) /\ R = DOMAIN request.recipients
    BY <1>1 DEF Recipients, R
  <2> HIDE DEF S
  <2>2. Len(request.recipients) \in Nat /\ R = 1 .. Len(request.recipients)
        /\ \A r \in R : request.recipients[r] \in S
    BY <2>1, ListType
  <2> QED
    BY <2>2 DEF S
<1>4. {{0}, {1}, {2}, {1, 2}} \subseteq Masks \ {{}}
  BY DEF Masks, Pools
<1>5. IsFiniteSet(N) /\ Cardinality(N) = Len(request.notes)
  BY <1>2, FS_Interval
<1>6. IsFiniteSet(R) /\ Cardinality(R) = Len(request.recipients)
  BY <1>3, FS_Interval
<1>7. change_pool \in Pools
  BY <1>1, BestPool DEF change_pool
<1> QED
  BY <1>1, <1>2, <1>3, <1>4, <1>5, <1>6, <1>7

(* the counters are numbers                                                *)
LEMMA Counters ==
    ASSUME TypeOK
    PROVE  inputs \in [Pools -> Nat] /\ outputs \in [Pools -> Nat] /\ fee \in Nat
<1>1. inputs \in [Pools -> Nat] /\ outputs \in [Pools -> Nat]
  BY CostFacts DEF TypeOK
<1> QED
  BY <1>1, FeeType DEF fee

LEMMA InputsWithType ==
    ASSUME TypeOK, NEW n \in N
    PROVE  InputsWith(n) \in [Pools -> 0 .. Width - 1] /\ InputsWith(n) \in [Pools -> Nat]
<1>1. request.notes[n].pool \in Pools
  BY RequestType DEF TypeOK
<1>2. inputs[request.notes[n].pool] + 1 \in Nat
  BY <1>1, Counters
<1>3. (inputs[request.notes[n].pool] + 1) % Width \in 0 .. Width - 1
  BY <1>2, Modulo
<1>4. InputsWith(n) \in [Pools -> 0 .. Width - 1]
  BY <1>3 DEF TypeOK, InputsWith
<1> QED
  BY <1>4, CostFacts

(* What an iteration pays is not more than there is, nor than is due.      *)
LEMMA FillNumbers ==
    ASSUME TypeOK, NEW r \in R, NEW n \in N, remaining[n] > 0
    PROVE  /\ Owed(n) \in Int /\ Paid(r, n) \in Int /\ ToFee(r, n) \in Int
           /\ Paid(r, n) <= remaining[n]
           /\ Paid(r, n) - ToFee(r, n) <= due[r]
           /\ feePaid + ToFee(r, n) >= 0
           /\ Paid(r, n) = IF remaining[n] <= due[r] + Owed(n) THEN remaining[n] ELSE due[r] + Owed(n)
           /\ ToFee(r, n) = IF Paid(r, n) <= Owed(n) THEN Paid(r, n) ELSE Owed(n)
<1>1. remaining[n] \in Nat /\ due[r] \in Nat /\ feePaid \in Nat
  BY DEF TypeOK
<1>2. Owed(n) \in Int /\ feePaid + Owed(n) >= 0
  <2>1. LogicalActions(InputsWith(n), outputs) * Cost \in Nat
    BY InputsWithType, Counters, FeeType
  <2> QED
    BY <1>1, <2>1 DEF Owed
<1>3. /\ Paid(r, n) = IF remaining[n] <= due[r] + Owed(n) THEN remaining[n] ELSE due[r] + Owed(n)
      /\ Paid(r, n) \in Int
  BY <1>1, <1>2, MinOfTwo DEF Paid
<1>4. /\ ToFee(r, n) = IF Paid(r, n) <= Owed(n) THEN Paid(r, n) ELSE Owed(n)
      /\ ToFee(r, n) \in Int
  BY <1>2, <1>3, MinOfTwo DEF ToFee
<1> QED
  BY <1>1, <1>2, <1>3, <1>4

LEMMA PayingIs ==
    ASSUME NEW i \in Paying
    PROVE  /\ i = <<i[1], i[2], i[3]>> /\ i[1] \in 1 .. 9 /\ i[2] \in R /\ i[3] \in N
           /\ remaining[i[3]] > 0 /\ (fee_remaining > 0 \/ due[i[2]] > 0)
           /\ InPass(i[2]) /\ Before(place, i)
BY DEF Paying, Pays, Iterations

LEMMA FillType == TypeOK /\ Fill => TypeOK'
<1> SUFFICES ASSUME TypeOK, Fill PROVE TypeOK'
  OBVIOUS
<1>1. PICK i \in Paying : place' = i /\ FillFrom(i[2], i[3])
  BY DEF Fill
<1> DEFINE r == i[2]
           n == i[3]
<1>2. r \in R /\ n \in N /\ remaining[n] > 0
  BY PayingIs
<1>3. /\ Paid(r, n) \in Int /\ ToFee(r, n) \in Int
      /\ Paid(r, n) <= remaining[n] /\ Paid(r, n) - ToFee(r, n) <= due[r]
      /\ feePaid + ToFee(r, n) >= 0
  BY <1>2, FillNumbers
<1> HIDE DEF r, n
<1>4. N \subseteq Nat /\ R \subseteq Nat
  BY RequestType DEF TypeOK
<1>5. place' \in (0 .. 9) \X Nat \X Nat
  <2>1. i[1] \in 0 .. 9 /\ i[2] \in Nat /\ i[3] \in Nat /\ i = <<i[1], i[2], i[3]>>
    BY <1>4, PayingIs
  <2> QED
    BY <1>1, <2>1
<1>6. /\ inputs' = InputsWith(n)
      /\ feePaid' = feePaid + ToFee(r, n)
      /\ due' = [due EXCEPT ![r] = due[r] - (Paid(r, n) - ToFee(r, n))]
      /\ remaining' = [remaining EXCEPT ![n] = remaining[n] - Paid(r, n)]
  BY <1>1, <1>2 DEF FillFrom, r, n, Left, TypeOK
<1>7. due' \in [R -> Nat] /\ remaining' \in [N -> Nat] /\ feePaid' \in Nat
  BY <1>2, <1>3, <1>6 DEF TypeOK
<1>8. inputs' \in [Pools -> 0 .. Width - 1]
  BY <1>2, <1>6, InputsWithType
<1>9. UNCHANGED <<request, phase, dest, outputs, N, R>>
  BY DEF Fill, N, R
<1> QED
  BY <1>5, <1>7, <1>8, <1>9 DEF TypeOK

LEMMA CountOutputsType ==
    ASSUME request \in Requests, NEW out \in [Pools -> Nat], NEW rs \in SUBSET R, NEW mask
    PROVE  CountOutputs(out, rs, mask) \in [Pools -> 0 .. Width - 1]
<1>1. ASSUME NEW p \in Pools
      PROVE  (out[p] + Cardinality({r \in rs : to_best_pool(mask[r]) = p})) % Width \in 0 .. Width - 1
  <2> DEFINE D == {r \in rs : to_best_pool(mask[r]) = p}
  <2>1. D \in SUBSET R /\ IsFiniteSet(R)
    BY RequestType
  <2>2. Cardinality(D) \in Nat
    BY <2>1, FS_Subset, FS_CardinalityType
  <2> HIDE DEF D
  <2>3. out[p] + Cardinality(D) \in Nat
    BY <2>2
  <2> QED
    BY <2>3, Modulo DEF D
<1> QED
  BY <1>1 DEF CountOutputs

LEMMA LargestIsPool == TypeOK => largest_shielded_pool \in Pools
<1> SUFFICES ASSUME TypeOK PROVE largest_shielded_pool \in Pools
  OBVIOUS
<1>1. change_pool \in Pools
  BY RequestType DEF TypeOK
<1> QED
  BY <1>1, ThreePools DEF largest_shielded_pool

LEMMA EndSingleType == TypeOK /\ EndSingle => TypeOK'
<1> SUFFICES ASSUME TypeOK, EndSingle PROVE TypeOK'
  OBVIOUS
<1>1. UNCHANGED <<request, due, remaining, inputs, feePaid, N, R>>
  BY DEF EndSingle, N, R
<1>2. dest' \in [R -> Masks \ {{}}]
  <2>1. {largest_shielded_pool} \in Masks \ {{}}
    BY LargestIsPool DEF Masks
  <2> QED
    BY <2>1 DEF EndSingle, TypeOK
<1>3. outputs' \in [Pools -> 0 .. Width - 1]
  <2>1. {r \in R : Double(r)} \in SUBSET R /\ outputs \in [Pools -> Nat]
    BY Counters
  <2> QED
    BY <2>1, CountOutputsType DEF EndSingle, TypeOK
<1>4. place' \in (0 .. 9) \X Nat \X Nat /\ phase' \in Phases
  BY DEF EndSingle, Phases
<1> QED
  BY <1>1, <1>2, <1>3, <1>4 DEF TypeOK

LEMMA EndDoubleType == TypeOK /\ EndDouble => TypeOK'
<1> SUFFICES ASSUME TypeOK, EndDouble PROVE TypeOK'
  OBVIOUS
<1>1. UNCHANGED <<request, place, dest, due, remaining, inputs, outputs, feePaid, N, R>>
  BY DEF EndDouble, N, R
<1>2. phase' \in Phases
  BY DEF EndDouble, Phases
<1> QED
  BY <1>1, <1>2 DEF TypeOK

LEMMA InitType == Init => TypeOK
<1> SUFFICES ASSUME Init PROVE TypeOK
  OBVIOUS
<1>1. request \in Requests
  BY DEF Init
<1>2. /\ dest \in [R -> Masks \ {{}}] /\ due \in [R -> Nat] /\ remaining \in [N -> Nat]
      /\ change_pool \in Pools
  BY <1>1, RequestType DEF Init
<1>3. inputs \in [Pools -> 0 .. Width - 1]
  BY CostFacts DEF Init
<1>4. outputs \in [Pools -> 0 .. Width - 1]
  <2>1. [p \in Pools |-> IF p = change_pool THEN 1 ELSE 0] \in [Pools -> Nat]
    OBVIOUS
  <2>2. {r \in R : ~Double(r)} \in SUBSET R
    OBVIOUS
  <2> QED
    BY <1>1, <2>1, <2>2, CountOutputsType DEF Init
<1>5. phase \in Phases /\ place \in (0 .. 9) \X Nat \X Nat /\ feePaid \in Nat
  BY DEF Init, Phases
<1> QED
  BY <1>1, <1>2, <1>3, <1>4, <1>5 DEF TypeOK

LEMMA StepType == TypeOK /\ [Next]_vars => TypeOK'
<1> SUFFICES ASSUME TypeOK, [Next]_vars PROVE TypeOK'
  OBVIOUS
<1>1. CASE UNCHANGED vars
  <2>1. UNCHANGED <<N, R>>
    BY <1>1 DEF N, R, vars
  <2> QED
    BY <1>1, <2>1 DEF TypeOK, vars
<1> QED
  BY <1>1, FillType, EndSingleType, EndDoubleType DEF Next

(* The numbers of a plan are unsigned in the code: no amount, fee or rest  *)
(* goes below zero at any iteration, whatever the notes, the recipients    *)
(* and the price are, also when a counter of FeeManager has wrapped.       *)
THEOREM TypeCorrect == Spec => []TypeOK
BY InitType, StepType, PTL DEF Spec

-------------------------------------------------------------------------------
(* The rest is about requests that FeeManager can count: its u8 counters   *)
(* do not wrap, nor does the sum of them that it makes.                    *)
Countable == \A q \in Requests : Len(q.notes) + Len(q.recipients) + 3 < Width

(* The counters of inputs are those of the notes that have paid, those of  *)
(* outputs of the change and the recipients that have their pool.          *)
UsedNotes    == {n \in N : Used(n)}
InputsOf(ns) == [p \in Pools |-> Cardinality({n \in ns : request.notes[n].pool = p})]
Placed       == {r \in R : phase = "single" => ~Double(r)}
OutputsOf(rs, mask) ==
    [p \in Pools |-> Cardinality({r \in rs : to_best_pool(mask[r]) = p})
                     + IF p = change_pool THEN 1 ELSE 0]

CountsRight == inputs = InputsOf(UsedNotes) /\ outputs = OutputsOf(Placed, dest)

(* What the notes have lost is what the fee and the recipients have got.   *)
NothingLost ==
    SumFunctionOnSet(Values, N) - SumFunctionOnSet(remaining, N) = feePaid + (SumFunctionOnSet(Amounts, R) - SumFunctionOnSet(due, R))

PlanInv ==
    /\ TypeOK
    /\ CountsRight
    /\ \A n \in N : remaining[n] <= request.notes[n].value
    /\ request.recipientPays => feePaid = 0
    /\ FeeNotOverpaid
    /\ NothingLost
    /\ phase = "planned" => Enough

LEMMA ThreeParts ==
    ASSUME NEW S, IsFiniteSet(S), NEW A \in SUBSET S, NEW B \in SUBSET S, NEW C \in SUBSET S,
           A \cap B = {}, (A \cup B) \cap C = {}
    PROVE  /\ Cardinality(A) \in Nat /\ Cardinality(B) \in Nat /\ Cardinality(C) \in Nat
           /\ Cardinality(A) + Cardinality(B) + Cardinality(C) <= Cardinality(S)
<1>1. IsFiniteSet(A) /\ IsFiniteSet(B) /\ IsFiniteSet(C) /\ IsFiniteSet(A \cup B)
  BY FS_Subset, FS_Union
<1>2. Cardinality(A \cup B) = Cardinality(A) + Cardinality(B) - Cardinality({})
  BY <1>1, FS_Union
<1>3. Cardinality(A \cup B \cup C) = Cardinality(A \cup B) + Cardinality(C) - Cardinality({})
  BY <1>1, FS_Union
<1>4. Cardinality(A \cup B \cup C) <= Cardinality(S) /\ Cardinality(S) \in Nat
  BY FS_Subset, FS_CardinalityType
<1>5. /\ Cardinality(A) \in Nat /\ Cardinality(B) \in Nat /\ Cardinality(C) \in Nat
      /\ Cardinality({}) = 0 /\ Cardinality(A \cup B) \in Nat /\ Cardinality(A \cup B \cup C) \in Nat
  <2>1. IsFiniteSet(A \cup B \cup C)
    BY FS_Subset
  <2> QED
    BY <1>1, <2>1, FS_CardinalityType, FS_EmptySet
<1> QED
  BY <1>2, <1>3, <1>4, <1>5

LEMMA InputsBound ==
    ASSUME request \in Requests, NEW ns \in SUBSET N
    PROVE  InputsOf(ns) \in [Pools -> Nat] /\ InAll(InputsOf(ns)) <= Len(request.notes)
<1> DEFINE D(p) == {n \in ns : request.notes[n].pool = p}
<1>1. IsFiniteSet(N) /\ Cardinality(N) = Len(request.notes)
  BY RequestType
<1>2. D(0) \in SUBSET N /\ D(1) \in SUBSET N /\ D(2) \in SUBSET N
      /\ D(0) \cap D(1) = {} /\ (D(0) \cup D(1)) \cap D(2) = {}
  OBVIOUS
<1>3. InputsOf(ns) = [p \in Pools |-> Cardinality(D(p))]
  BY DEF InputsOf
<1> HIDE DEF D
<1>4. /\ Cardinality(D(0)) \in Nat /\ Cardinality(D(1)) \in Nat /\ Cardinality(D(2)) \in Nat
      /\ Cardinality(D(0)) + Cardinality(D(1)) + Cardinality(D(2)) <= Len(request.notes)
  BY <1>1, <1>2, ThreeParts
<1> QED
  BY <1>3, <1>4, ThreePools DEF InAll

LEMMA OutputsBound ==
    ASSUME request \in Requests, NEW rs \in SUBSET R, NEW mask
    PROVE  /\ OutputsOf(rs, mask) \in [Pools -> Nat]
           /\ InAll(OutputsOf(rs, mask)) <= Len(request.recipients) + 1
<1> DEFINE D(p) == {r \in rs : to_best_pool(mask[r]) = p}
           C(p) == IF p = change_pool THEN 1 ELSE 0
<1>1. IsFiniteSet(R) /\ Cardinality(R) = Len(request.recipients) /\ Len(request.recipients) \in Nat
  BY RequestType
<1>2. D(0) \in SUBSET R /\ D(1) \in SUBSET R /\ D(2) \in SUBSET R
      /\ D(0) \cap D(1) = {} /\ (D(0) \cup D(1)) \cap D(2) = {}
  OBVIOUS
<1>3. OutputsOf(rs, mask) = [p \in Pools |-> Cardinality(D(p)) + C(p)]
  BY DEF OutputsOf
<1>4. \A p \in Pools : C(p) \in Nat
  OBVIOUS
<1>5. C(0) + C(1) + C(2) <= 1
  OBVIOUS
<1> HIDE DEF D, C
<1>6. /\ Cardinality(D(0)) \in Nat /\ Cardinality(D(1)) \in Nat /\ Cardinality(D(2)) \in Nat
      /\ Cardinality(D(0)) + Cardinality(D(1)) + Cardinality(D(2)) <= Len(request.recipients)
  BY <1>1, <1>2, ThreeParts
<1>7. \A p \in Pools : Cardinality(D(p)) + C(p) \in Nat
  BY <1>4, <1>6, ThreePools
<1>8. /\ C(0) \in Nat /\ C(1) \in Nat /\ C(2) \in Nat
      /\ InAll(OutputsOf(rs, mask)) = (Cardinality(D(0)) + C(0)) + (Cardinality(D(1)) + C(1)) + (Cardinality(D(2)) + C(2))
  BY <1>3, <1>4, ThreePools DEF InAll
<1>9. OutputsOf(rs, mask) \in [Pools -> Nat]
  BY <1>3, <1>7
<1> DEFINE c0 == Cardinality(D(0))
           c1 == Cardinality(D(1))
           c2 == Cardinality(D(2))
           l  == Len(request.recipients)
           i  == InAll(OutputsOf(rs, mask))
           d0 == C(0)
           d1 == C(1)
           d2 == C(2)
<1>10. /\ c0 \in Nat /\ c1 \in Nat /\ c2 \in Nat /\ l \in Nat
       /\ d0 \in Nat /\ d1 \in Nat /\ d2 \in Nat
       /\ c0 + c1 + c2 <= l /\ d0 + d1 + d2 <= 1
       /\ i = (c0 + d0) + (c1 + d1) + (c2 + d2)
  BY <1>1, <1>5, <1>6, <1>8
<1> HIDE DEF c0, c1, c2, l, i, d0, d1, d2
<1>11. i <= l + 1
  BY <1>10
<1> QED
  BY <1>9, <1>11 DEF i, l

(* A note that pays for the first time is one more input of its pool.      *)
LEMMA InputsCounted ==
    ASSUME Countable, TypeOK, CountsRight, NEW n \in N
    PROVE  /\ InputsWith(n) = InputsOf(UsedNotes \cup {n})
           /\ \A p \in Pools : inputs[p] <= InputsWith(n)[p]
<1> DEFINE k == request.notes[n].pool
           D(ns, p) == {m \in ns : request.notes[m].pool = p}
<1>1. /\ k \in Pools /\ IsFiniteSet(N) /\ Cardinality(N) = Len(request.notes)
      /\ Len(request.notes) \in Nat /\ Len(request.recipients) \in Nat
      /\ Len(request.notes) < Width
  <2> DEFINE l == Len(request.notes)
             m == Len(request.recipients)
  <2>1. l + m + 3 < Width
    BY DEF Countable, TypeOK
  <2>2. /\ k \in Pools /\ IsFiniteSet(N) /\ Cardinality(N) = l
        /\ l \in Nat /\ m \in Nat
    BY RequestType DEF TypeOK
  <2> HIDE DEF l, m
  <2>3. l < Width
    BY <2>1, <2>2, CostFacts
  <2> QED
    BY <2>2, <2>3 DEF l, m
<1>2. CASE Used(n)
  <2>1. UsedNotes \cup {n} = UsedNotes /\ InputsWith(n) = inputs
    BY <1>2 DEF UsedNotes, InputsWith, Used
  <2> QED
    BY <2>1, Counters DEF CountsRight
<1>3. CASE ~Used(n)
  <2>1. InputsWith(n) = [inputs EXCEPT ![k] = (inputs[k] + 1) % Width]
    BY <1>1, <1>3 DEF InputsWith, Used, TypeOK
  <2>2. n \notin UsedNotes /\ UsedNotes \in SUBSET N
    BY <1>3 DEF UsedNotes
  <2> DEFINE U == UsedNotes
  <2>3. /\ D(U \cup {n}, k) = D(U, k) \cup {n} /\ n \notin D(U, k)
        /\ D(U, k) \in SUBSET N /\ D(U \cup {n}, k) \in SUBSET N
        /\ \A p \in Pools : p # k => D(U \cup {n}, p) = D(U, p)
    BY <2>2
  <2>4. inputs = [p \in Pools |-> Cardinality(D(U, p))]
        /\ InputsOf(U \cup {n}) = [p \in Pools |-> Cardinality(D(U \cup {n}, p))]
    BY DEF CountsRight, InputsOf
  <2> HIDE DEF D, U, k
  <2>5. IsFiniteSet(D(U, k)) /\ Cardinality(D(U, k)) \in Nat
    BY <1>1, <2>3, FS_Subset, FS_CardinalityType
  <2>6. Cardinality(D(U \cup {n}, k)) = Cardinality(D(U, k)) + 1
    BY <2>3, <2>5, FS_AddElement
  <2>7. Cardinality(D(U \cup {n}, k)) <= Len(request.notes)
    BY <1>1, <2>3, FS_Subset
  <2>8. inputs[k] = Cardinality(D(U, k)) /\ (inputs[k] + 1) % Width = Cardinality(D(U \cup {n}, k))
    <3>1. inputs[k] + 1 \in Nat /\ inputs[k] + 1 < Width
      BY <1>1, <2>4, <2>5, <2>6, <2>7, CostFacts
    <3> QED
      BY <1>1, <2>4, <2>6, <3>1, Modulo
  <2>9. InputsWith(n) = [p \in Pools |-> Cardinality(D(U \cup {n}, p))]
    BY <1>1, <2>1, <2>3, <2>4, <2>8
  <2>10. \A p \in Pools : inputs[p] <= InputsWith(n)[p]
    BY <1>1, <2>1, <2>5, <2>6, <2>8, Counters
  <2> QED
    BY <2>4, <2>9, <2>10 DEF U
<1> QED
  BY <1>2, <1>3

LEMMA NothingWraps ==
    ASSUME Countable, request \in Requests, NEW ns \in SUBSET N, NEW rs \in SUBSET R, NEW mask
    PROVE  InAll(InputsOf(ns)) + InAll(OutputsOf(rs, mask)) + 2 < Width
<1>1. Len(request.notes) + Len(request.recipients) + 3 < Width
  BY DEF Countable
<1>2. /\ Len(request.notes) \in Nat /\ Len(request.recipients) \in Nat
      /\ InAll(InputsOf(ns)) <= Len(request.notes)
      /\ InAll(OutputsOf(rs, mask)) <= Len(request.recipients) + 1
  BY RequestType, InputsBound, OutputsBound
<1>3. InAll(InputsOf(ns)) \in Nat /\ InAll(OutputsOf(rs, mask)) \in Nat
  <2>1. InputsOf(ns) \in [Pools -> Nat] /\ OutputsOf(rs, mask) \in [Pools -> Nat]
    BY InputsBound, OutputsBound
  <2> QED
    BY <2>1, ThreePools DEF InAll
<1> DEFINE l == Len(request.notes)
           m == Len(request.recipients)
           i == InAll(InputsOf(ns))
           o == InAll(OutputsOf(rs, mask))
<1>4. /\ l \in Nat /\ m \in Nat /\ i \in Nat /\ o \in Nat /\ l + m + 3 < Width
      /\ i <= l /\ o <= m + 1
  BY <1>1, <1>2, <1>3
<1> HIDE DEF l, m, i, o
<1>5. i + o + 2 < Width
  BY <1>4, CostFacts
<1> QED
  BY <1>5 DEF i, o

(* The fee does not fall when a note is added, so what is paid is positive. *)
LEMMA SomethingPaid ==
    ASSUME Countable, PlanInv, NEW i \in Paying
    PROVE  /\ Paid(i[2], i[3]) > 0 /\ Owed(i[3]) >= 0
           /\ feePaid + ToFee(i[2], i[3]) <= LogicalActions(InputsWith(i[3]), outputs) * Cost
           /\ request.recipientPays => ToFee(i[2], i[3]) = 0
<1> DEFINE r == i[2]
           n == i[3]
           A == LogicalActions(inputs, outputs)
           B == LogicalActions(InputsWith(n), outputs)
<1>1. r \in R /\ n \in N /\ remaining[n] > 0 /\ (fee_remaining > 0 \/ due[r] > 0)
  BY PayingIs
<1>2. TypeOK /\ CountsRight
  BY DEF PlanInv
<1>3. /\ inputs \in [Pools -> Nat] /\ outputs \in [Pools -> Nat]
      /\ InputsWith(n) \in [Pools -> Nat]
  BY <1>1, <1>2, Counters, InputsWithType
<1>4. A \in Nat /\ B \in Nat /\ A <= B
  <2>1. InputsWith(n) = InputsOf(UsedNotes \cup {n}) /\ \A p \in Pools : inputs[p] <= InputsWith(n)[p]
    BY <1>1, <1>2, InputsCounted
  <2>2. InAll(InputsWith(n)) + InAll(outputs) + 2 < Width
    <3>1. UsedNotes \cup {n} \in SUBSET N /\ Placed \in SUBSET R /\ request \in Requests
      BY <1>1, <1>2 DEF UsedNotes, Placed, TypeOK
    <3> QED
      BY <1>2, <2>1, <3>1, NothingWraps DEF CountsRight
  <2>3. \A p \in Pools : outputs[p] <= outputs[p]
    BY <1>3
  <2> QED
    BY <1>3, <2>1, <2>2, <2>3, ActionsGrow, ActionsType
<1>5. A * Cost \in Nat /\ B * Cost \in Nat /\ A * Cost <= B * Cost
  BY <1>4, TimesGrows, CostFacts
<1>6. /\ fee = A * Cost /\ feePaid <= A * Cost
      /\ Owed(n) = IF request.recipientPays THEN 0 ELSE B * Cost - feePaid
      /\ fee_remaining = IF request.recipientPays THEN 0 ELSE A * Cost - feePaid
  BY DEF fee, Owed, fee_remaining, PlanInv, FeeNotOverpaid
<1>7. /\ remaining[n] \in Nat /\ due[r] \in Nat /\ feePaid \in Nat
      /\ request.recipientPays => feePaid = 0
  BY <1>1 DEF PlanInv, TypeOK
<1>8. /\ Owed(n) \in Int
      /\ Paid(r, n) = IF remaining[n] <= due[r] + Owed(n) THEN remaining[n] ELSE due[r] + Owed(n)
      /\ ToFee(r, n) = IF Paid(r, n) <= Owed(n) THEN Paid(r, n) ELSE Owed(n)
  BY <1>1, <1>2, FillNumbers
<1> HIDE DEF A, B, r, n
<1>9. Owed(n) >= 0 /\ due[r] + Owed(n) > 0
  BY <1>1, <1>5, <1>6, <1>7
<1>10. Paid(r, n) > 0 /\ Paid(r, n) \in Int
  BY <1>1, <1>7, <1>8, <1>9
<1>11. feePaid + ToFee(r, n) <= B * Cost /\ (request.recipientPays => ToFee(r, n) = 0)
  BY <1>5, <1>6, <1>7, <1>8, <1>9, <1>10
<1> QED
  BY <1>9, <1>10, <1>11 DEF B, r, n

(* What the sums are of.                                                   *)
LEMMA SumTypes ==
    ASSUME TypeOK
    PROVE  /\ Numbers(Values, N) /\ Numbers(remaining, N)
           /\ Numbers(Amounts, R) /\ Numbers(due, R)
           /\ IsFiniteSet(N) /\ IsFiniteSet(R)
           /\ SumFunctionOnSet(Values, N) \in Int /\ SumFunctionOnSet(remaining, N) \in Int
           /\ SumFunctionOnSet(Amounts, R) \in Int /\ SumFunctionOnSet(due, R) \in Int
<1>1. /\ Numbers(Values, N) /\ Numbers(remaining, N)
      /\ Numbers(Amounts, R) /\ Numbers(due, R)
      /\ IsFiniteSet(N) /\ IsFiniteSet(R)
  BY RequestType DEF TypeOK, Numbers, Values, Amounts
<1> QED
  BY <1>1, TotalType

(* What depends on the request alone.                                      *)
LEMMA SameRequest ==
    ASSUME UNCHANGED request
    PROVE  /\ UNCHANGED <<N, R, Values, Amounts, change_pool>>
           /\ \A ns : InputsOf(ns)' = InputsOf(ns)
           /\ \A rs, mask : OutputsOf(rs, mask)' = OutputsOf(rs, mask)
BY DEF N, R, Values, Amounts, change_pool, InputsOf, OutputsOf

LEMMA FillSums ==
    ASSUME TypeOK, TypeOK', UNCHANGED request, NothingLost, NEW r \in R, NEW n \in N,
           NEW paid \in Int, NEW toFee \in Int,
           feePaid' = feePaid + toFee,
           due' = [due EXCEPT ![r] = due[r] - (paid - toFee)],
           remaining' = [remaining EXCEPT ![n] = remaining[n] - paid]
    PROVE  NothingLost'
<1>1. UNCHANGED <<N, R, Values, Amounts>>
  BY SameRequest
<1>2. /\ Numbers(Values, N) /\ Numbers(remaining, N) /\ Numbers(remaining', N)
      /\ Numbers(Amounts, R) /\ Numbers(due, R) /\ Numbers(due', R)
      /\ IsFiniteSet(N) /\ IsFiniteSet(R)
      /\ SumFunctionOnSet(Values, N) \in Int /\ SumFunctionOnSet(Amounts, R) \in Int
  <2>1. Numbers(remaining', N) /\ Numbers(due', R)
    BY <1>1 DEF TypeOK, Numbers
  <2> QED
    BY <2>1, SumTypes
<1>3. /\ SumFunctionOnSet(remaining, N) \in Int /\ SumFunctionOnSet(remaining', N) \in Int
      /\ SumFunctionOnSet(remaining', N) - SumFunctionOnSet(remaining, N) = remaining'[n] - remaining[n]
  <2>1. PICK f, g : f = remaining /\ g = remaining'
    OBVIOUS
  <2>2. \A m \in N \ {n} : f[m] = g[m]
    BY <2>1 DEF TypeOK
  <2>3. Numbers(f, N) /\ Numbers(g, N) /\ IsFiniteSet(N)
    BY <1>2, <2>1
  <2>4. /\ SumFunctionOnSet(f, N) \in Int /\ SumFunctionOnSet(g, N) \in Int
        /\ SumFunctionOnSet(g, N) - SumFunctionOnSet(f, N) = g[n] - f[n]
    BY <2>2, <2>3, TotalChanged
  <2> QED
    BY <2>1, <2>4
<1>4. /\ SumFunctionOnSet(due, R) \in Int /\ SumFunctionOnSet(due', R) \in Int
      /\ SumFunctionOnSet(due', R) - SumFunctionOnSet(due, R) = due'[r] - due[r]
  <2>1. PICK f, g : f = due /\ g = due'
    OBVIOUS
  <2>2. \A m \in R \ {r} : f[m] = g[m]
    BY <2>1 DEF TypeOK
  <2>3. Numbers(f, R) /\ Numbers(g, R) /\ IsFiniteSet(R)
    BY <1>2, <2>1
  <2>4. /\ SumFunctionOnSet(f, R) \in Int /\ SumFunctionOnSet(g, R) \in Int
        /\ SumFunctionOnSet(g, R) - SumFunctionOnSet(f, R) = g[r] - f[r]
    BY <2>2, <2>3, TotalChanged
  <2> QED
    BY <2>1, <2>4
<1>5. /\ remaining'[n] = remaining[n] - paid /\ due'[r] = due[r] - (paid - toFee)
      /\ remaining[n] \in Int /\ due[r] \in Int /\ feePaid \in Int
  BY DEF TypeOK
<1>6. SumFunctionOnSet(Values, N)' = SumFunctionOnSet(Values, N) /\ SumFunctionOnSet(Amounts, R)' = SumFunctionOnSet(Amounts, R)
      /\ SumFunctionOnSet(remaining, N)' = SumFunctionOnSet(remaining', N) /\ SumFunctionOnSet(due, R)' = SumFunctionOnSet(due', R)
  BY <1>1
<1>7. SumFunctionOnSet(Values, N) - SumFunctionOnSet(remaining', N) = feePaid' + (SumFunctionOnSet(Amounts, R) - SumFunctionOnSet(due', R))
  BY <1>2, <1>3, <1>4, <1>5 DEF NothingLost
<1> QED
  BY <1>6, <1>7 DEF NothingLost

LEMMA StepFill == ASSUME Countable, PlanInv, Fill PROVE PlanInv'
<1>1. TypeOK /\ TypeOK' /\ CountsRight
  BY FillType DEF PlanInv
<1>2. PICK i \in Paying : place' = i /\ FillFrom(i[2], i[3])
  BY DEF Fill
<1> DEFINE r == i[2]
           n == i[3]
<1>3. r \in R /\ n \in N /\ remaining[n] > 0
  BY PayingIs
<1>4. /\ Paid(r, n) > 0
      /\ feePaid + ToFee(r, n) <= LogicalActions(InputsWith(n), outputs) * Cost
      /\ request.recipientPays => ToFee(r, n) = 0
  BY SomethingPaid
<1>5. Paid(r, n) \in Int /\ ToFee(r, n) \in Int
  BY <1>1, <1>3, FillNumbers
<1> HIDE DEF r, n
<1>6. /\ inputs' = InputsWith(n)
      /\ feePaid' = feePaid + ToFee(r, n)
      /\ due' = [due EXCEPT ![r] = due[r] - (Paid(r, n) - ToFee(r, n))]
      /\ remaining' = [remaining EXCEPT ![n] = remaining[n] - Paid(r, n)]
  BY <1>1, <1>2, <1>3 DEF FillFrom, r, n, Left, TypeOK
<1>7. UNCHANGED <<request, phase, dest, outputs>>
  BY DEF Fill
<1>8. /\ UNCHANGED <<N, R, Values, Amounts, change_pool>>
      /\ \A ns : InputsOf(ns)' = InputsOf(ns)
      /\ \A rs, mask : OutputsOf(rs, mask)' = OutputsOf(rs, mask)
  BY <1>7, SameRequest
<1>9. /\ remaining'[n] < request.notes[n].value
      /\ \A m \in N : m # n => remaining'[m] = remaining[m]
  <2>1. /\ remaining'[n] = remaining[n] - Paid(r, n) /\ remaining[n] \in Nat
        /\ \A m \in N : m # n => remaining'[m] = remaining[m]
    BY <1>1, <1>3, <1>6 DEF TypeOK
  <2>2. remaining[n] <= request.notes[n].value /\ request.notes[n].value \in Nat
    BY <1>1, <1>3, RequestType DEF PlanInv, TypeOK
  <2> QED
    BY <1>4, <1>5, <2>1, <2>2
<1>10. \A m \in N' : remaining'[m] <= request'.notes[m].value
  <2>1. request.notes[n].value \in Nat /\ remaining'[n] \in Nat
    BY <1>1, <1>3, <1>8, RequestType DEF TypeOK
  <2>2. remaining'[n] <= request.notes[n].value
    BY <1>9, <2>1
  <2> QED
    BY <1>7, <1>8, <1>9, <2>2 DEF PlanInv
<1>11. CountsRight'
  <2>1. UsedNotes' = UsedNotes \cup {n}
    <3>1. Used(n)' /\ \A m \in N : m # n => (Used(m)' <=> Used(m))
      <4>1. remaining'[n] # request.notes[n].value
        <5>1. remaining'[n] \in Nat /\ request.notes[n].value \in Nat
          BY <1>1, <1>3, <1>8, RequestType DEF TypeOK
        <5> QED
          BY <1>9, <5>1
      <4> QED
        BY <1>7, <1>9, <4>1 DEF Used
    <3> QED
      BY <1>3, <1>8, <3>1 DEF UsedNotes
  <2>2. inputs' = InputsOf(UsedNotes')
    BY <1>1, <1>3, <1>6, <2>1, InputsCounted
  <2>3. Placed' = Placed
    BY <1>7, <1>8 DEF Placed, Double
  <2>4. inputs' = InputsOf(UsedNotes)' /\ outputs' = OutputsOf(Placed, dest)'
    BY <1>1, <1>7, <2>2, <2>3 DEF CountsRight, InputsOf, OutputsOf, change_pool
  <2> QED
    BY <2>4 DEF CountsRight
<1>12. (request.recipientPays => feePaid = 0)'
  BY <1>4, <1>5, <1>6, <1>7 DEF PlanInv, TypeOK
<1>13. FeeNotOverpaid'
  BY <1>4, <1>6, <1>7 DEF FeeNotOverpaid, fee
<1>14. NothingLost'
  BY <1>1, <1>3, <1>5, <1>6, <1>7, FillSums DEF PlanInv
<1>15. phase' # "planned"
  BY <1>7 DEF Fill
<1> QED
  BY <1>1, <1>10, <1>11, <1>12, <1>13, <1>14, <1>15 DEF PlanInv

(* The second pass: the recipients with two receivers get their pool.      *)
LEMMA StepEndSingle == ASSUME Countable, PlanInv, EndSingle PROVE PlanInv'
<1>1. TypeOK /\ TypeOK' /\ CountsRight
  BY EndSingleType DEF PlanInv
<1>2. UNCHANGED <<request, due, remaining, inputs, feePaid>> /\ phase = "single" /\ phase' = "double"
  BY DEF EndSingle
<1>3. UNCHANGED <<N, R, Values, Amounts, change_pool>>
  BY <1>2, SameRequest
<1> DEFINE one == {r \in R : ~Double(r)}
           two == {r \in R : Double(r)}
           D(rs, mask, p) == {r \in rs : to_best_pool(mask[r]) = p}
<1>4. Placed = one /\ Placed' = R /\ UsedNotes' = UsedNotes
  BY <1>2, <1>3 DEF Placed, UsedNotes, Used
<1>5. \A r \in one : dest'[r] = dest[r]
  BY DEF EndSingle, TypeOK
<1>6. outputs = OutputsOf(one, dest)
  BY <1>1, <1>4 DEF CountsRight
<1>7. outputs' = CountOutputs(outputs, two, dest')
  BY DEF EndSingle
<1>8. OutputsOf(R, dest') \in [Pools -> Nat] /\ InAll(InputsOf(UsedNotes)) + InAll(OutputsOf(R, dest')) + 2 < Width
  <2>1. request \in Requests /\ UsedNotes \in SUBSET N /\ R \in SUBSET R
    BY <1>1 DEF TypeOK, UsedNotes
  <2> QED
    BY <2>1, OutputsBound, NothingWraps
<1>9. ASSUME NEW p \in Pools
      PROVE  /\ outputs'[p] = OutputsOf(R, dest')[p]
             /\ outputs[p] <= outputs'[p]
  <2>1. /\ D(R, dest', p) = D(one, dest, p) \cup D(two, dest', p)
        /\ D(one, dest, p) \cap D(two, dest', p) = {}
    BY <1>5
  <2>2. D(R, dest', p) \in SUBSET R /\ D(one, dest, p) \in SUBSET R /\ D(two, dest', p) \in SUBSET R
    OBVIOUS
  <2> DEFINE c == IF p = change_pool THEN 1 ELSE 0
             k == Cardinality(D(R, dest', p))
             k1 == Cardinality(D(one, dest, p))
             k2 == Cardinality(D(two, dest', p))
  <2>3. /\ outputs[p] = k1 + c /\ outputs'[p] = (outputs[p] + k2) % Width
        /\ OutputsOf(R, dest')[p] = k + c
    BY <1>6, <1>7 DEF OutputsOf, CountOutputs
  <2>4. c \in Nat
    OBVIOUS
  <2> HIDE DEF D, c
  <2>5. IsFiniteSet(D(one, dest, p)) /\ IsFiniteSet(D(two, dest', p)) /\ IsFiniteSet(D(R, dest', p))
    BY <1>1, <2>2, RequestType, FS_Subset DEF TypeOK
  <2>6. k = k1 + k2 - Cardinality({})
    BY <2>1, <2>5, FS_Union
  <2>7. k \in Nat /\ k1 \in Nat /\ k2 \in Nat /\ Cardinality({}) = 0
    BY <2>5, FS_CardinalityType, FS_EmptySet
  <2>8. k + c < Width
    <3>1. InputsOf(UsedNotes) \in [Pools -> Nat]
      BY <1>1, Counters DEF CountsRight
    <3>2. InAll(InputsOf(UsedNotes)) \in Nat
      BY <3>1, ThreePools DEF InAll
    <3>3. OutputsOf(R, dest')[p] <= InAll(OutputsOf(R, dest')) /\ InAll(OutputsOf(R, dest')) \in Nat
          /\ OutputsOf(R, dest')[p] \in Nat
      BY <1>8, ThreePools DEF InAll
    <3> QED
      BY <1>8, <2>3, <3>2, <3>3, CostFacts
  <2> HIDE DEF k, k1, k2
  <2>9. outputs[p] + k2 = k + c /\ k + c \in Nat /\ outputs[p] <= k + c
    BY <2>3, <2>4, <2>6, <2>7
  <2>10. (k + c) % Width = k + c
    BY <2>8, <2>9, Modulo
  <2> QED
    BY <2>3, <2>9, <2>10
<1>10. outputs' = OutputsOf(R, dest')
  <2>1. outputs' \in [Pools -> Nat]
    BY <1>1, <1>7, CostFacts DEF TypeOK
  <2> QED
    BY <1>8, <1>9, <2>1
<1>11. CountsRight'
  <2>1. OutputsOf(Placed, dest)' = OutputsOf(R, dest') /\ InputsOf(UsedNotes)' = InputsOf(UsedNotes)
    BY <1>2, <1>3, <1>4 DEF OutputsOf, InputsOf
  <2> QED
    BY <1>1, <1>2, <1>10, <2>1 DEF CountsRight
<1>12. FeeNotOverpaid'
  <2>1. /\ inputs \in [Pools -> Nat] /\ outputs \in [Pools -> Nat] /\ outputs' \in [Pools -> Nat]
        /\ \A p \in Pools : inputs[p] <= inputs[p]
        /\ InAll(inputs) + InAll(outputs') + 2 < Width
    BY <1>1, <1>8, <1>10, Counters DEF CountsRight
  <2>2. /\ LogicalActions(inputs, outputs) \in Nat /\ LogicalActions(inputs, outputs') \in Nat
        /\ LogicalActions(inputs, outputs) <= LogicalActions(inputs, outputs')
    BY <1>9, <2>1, ActionsGrow, ActionsType
  <2> DEFINE x == LogicalActions(inputs, outputs) * Cost
             y == LogicalActions(inputs, outputs') * Cost
  <2>3. x <= y /\ x \in Nat /\ y \in Nat
    BY <2>2, TimesGrows, CostFacts
  <2>4. feePaid <= x /\ feePaid \in Nat
    BY <1>1 DEF PlanInv, FeeNotOverpaid, fee, TypeOK
  <2> HIDE DEF x, y
  <2>5. feePaid <= y
    BY <2>3, <2>4
  <2> QED
    BY <1>2, <2>5 DEF FeeNotOverpaid, fee, y
<1>13. NothingLost'
  BY <1>2, <1>3 DEF PlanInv, NothingLost
<1>14. (\A n \in N : remaining[n] <= request.notes[n].value)' /\ (request.recipientPays => feePaid = 0)'
  BY <1>2, <1>3 DEF PlanInv
<1> QED
  BY <1>1, <1>2, <1>11, <1>12, <1>13, <1>14 DEF PlanInv

(* The end, or nothing, changes only the phase.                            *)
LEMMA StepEnd ==
    ASSUME PlanInv, TypeOK', UNCHANGED <<request, dest, due, remaining, inputs, outputs, feePaid>>,
           phase' = "single" <=> phase = "single", phase' = "planned" => Enough
    PROVE  PlanInv'
<1>1. UNCHANGED <<N, R, Values, Amounts, change_pool>>
  BY SameRequest
<1>2. UNCHANGED <<UsedNotes, Placed>>
  BY <1>1 DEF UsedNotes, Used, Placed, Double
<1>3. CountsRight'
  BY <1>1, <1>2 DEF PlanInv, CountsRight, InputsOf, OutputsOf
<1>4. FeeNotOverpaid' /\ NothingLost'
  BY <1>1 DEF PlanInv, FeeNotOverpaid, fee, NothingLost
<1>5. (\A n \in N : remaining[n] <= request.notes[n].value)' /\ (request.recipientPays => feePaid = 0)'
  BY <1>1 DEF PlanInv
<1>6. Enough => Enough'
  BY <1>1 DEF Enough, fee, First, Double
<1> QED
  BY <1>3, <1>4, <1>5, <1>6 DEF PlanInv

LEMMA InitPlan == ASSUME Countable, Init PROVE PlanInv
<1>1. TypeOK
  BY InitType
<1>2. /\ request \in Requests /\ phase = "single" /\ feePaid = 0
      /\ dest = [r \in R |-> request.recipients[r].mask]
      /\ due = Amounts /\ remaining = Values
      /\ inputs = [p \in Pools |-> 0]
      /\ outputs = CountOutputs([p \in Pools |-> IF p = change_pool THEN 1 ELSE 0],
                                {r \in R : ~Double(r)}, dest)
  BY DEF Init, Amounts, Values
<1>3. \A n \in N : remaining[n] = request.notes[n].value /\ remaining[n] <= request.notes[n].value
  BY <1>1, <1>2 DEF Values, TypeOK
<1>4. UsedNotes = {} /\ Placed = {r \in R : ~Double(r)}
  BY <1>2, <1>3 DEF UsedNotes, Used, Placed
<1>5. inputs = InputsOf(UsedNotes)
  <2>1. \A p \in Pools : {n \in {} : request.notes[n].pool = p} = {}
    OBVIOUS
  <2>2. Cardinality({}) = 0
    BY FS_EmptySet
  <2> QED
    BY <1>2, <1>4, <2>1, <2>2 DEF InputsOf
<1>6. outputs = OutputsOf(Placed, dest)
  <2>1. ASSUME NEW p \in Pools PROVE outputs[p] = OutputsOf(Placed, dest)[p]
    <3> DEFINE c == IF p = change_pool THEN 1 ELSE 0
               k == Cardinality({r \in Placed : to_best_pool(dest[r]) = p})
    <3>1. outputs[p] = (c + k) % Width /\ OutputsOf(Placed, dest)[p] = k + c
      BY <1>2, <1>4 DEF CountOutputs, OutputsOf
    <3>2. k \in Nat
      <4>1. {r \in Placed : to_best_pool(dest[r]) = p} \in SUBSET R /\ IsFiniteSet(R)
        BY <1>2, RequestType DEF Placed
      <4> QED
        BY <4>1, FS_Subset, FS_CardinalityType
    <3>3. c \in Nat
      OBVIOUS
    <3>4. k + c < Width
      <4>1. /\ Placed \in SUBSET R /\ UsedNotes \in SUBSET N
        BY DEF Placed, UsedNotes
      <4>2. /\ OutputsOf(Placed, dest) \in [Pools -> Nat] /\ InputsOf(UsedNotes) \in [Pools -> Nat]
            /\ InAll(InputsOf(UsedNotes)) + InAll(OutputsOf(Placed, dest)) + 2 < Width
        BY <1>2, <4>1, OutputsBound, InputsBound, NothingWraps
      <4>3. InAll(InputsOf(UsedNotes)) \in Nat /\ InAll(OutputsOf(Placed, dest)) \in Nat
            /\ OutputsOf(Placed, dest)[p] <= InAll(OutputsOf(Placed, dest))
            /\ OutputsOf(Placed, dest)[p] \in Nat
        BY <4>2, ThreePools DEF InAll
      <4> QED
        BY <3>1, <4>2, <4>3, CostFacts
    <3> HIDE DEF c, k
    <3>5. (c + k) % Width = c + k
      BY <3>2, <3>3, <3>4, Modulo
    <3> QED
      BY <3>1, <3>2, <3>3, <3>5
  <2>2. OutputsOf(Placed, dest) \in [Pools -> Nat] /\ outputs \in [Pools -> Nat]
    <3>1. Placed \in SUBSET R
      BY DEF Placed
    <3> QED
      BY <1>1, <1>2, <3>1, OutputsBound, Counters
  <2> QED
    BY <2>1, <2>2
<1>7. FeeNotOverpaid
  BY <1>1, <1>2, Counters DEF FeeNotOverpaid
<1>8. NothingLost
  <2>1. SumFunctionOnSet(Values, N) \in Int /\ SumFunctionOnSet(Amounts, R) \in Int
    BY <1>1, SumTypes
  <2> QED
    BY <1>2, <2>1 DEF NothingLost
<1> QED
  BY <1>1, <1>2, <1>3, <1>5, <1>6, <1>7, <1>8 DEF PlanInv, CountsRight

LEMMA StepPlan == ASSUME Countable, PlanInv, [Next]_vars PROVE PlanInv'
<1>1. TypeOK /\ TypeOK'
  BY StepType DEF PlanInv
<1>2. CASE UNCHANGED vars
  <2>1. UNCHANGED <<request, dest, due, remaining, inputs, outputs, feePaid, phase>>
    BY <1>2 DEF vars
  <2> QED
    BY <1>1, <2>1, StepEnd DEF PlanInv
<1>3. CASE EndDouble
  <2>1. /\ UNCHANGED <<request, dest, due, remaining, inputs, outputs, feePaid>>
        /\ phase' # "single" /\ phase # "single" /\ (phase' = "planned" => Enough)
    BY <1>3 DEF EndDouble
  <2> QED
    BY <1>1, <2>1, StepEnd
<1> QED
  BY <1>2, <1>3, StepFill, StepEndSingle DEF Next

LEMMA AlwaysPlan == ASSUME Countable PROVE Spec => []PlanInv
BY InitPlan, StepPlan, PTL DEF Spec

-------------------------------------------------------------------------------
(* For requests that FeeManager can count: fee() - fee_paid never wraps.   *)
(* What the iterations pay for the fee never exceeds the fee of the inputs *)
(* and outputs that are counted by then, in both passes.                   *)
THEOREM NeverOverpaid == ASSUME Countable PROVE Spec => []FeeNotOverpaid
<1>1. PlanInv => FeeNotOverpaid
  BY DEF PlanInv
<1> QED
  BY <1>1, AlwaysPlan, PTL

(* For such requests, a plan gives back as change exactly what is left of  *)
(* the notes it uses, however many notes share a payment and whoever pays  *)
(* the fee.                                                                *)
THEOREM ChangeIsRight == ASSUME Countable PROVE Spec => []ChangeIsWhatIsLeft
<1>1. PlanInv => ChangeIsWhatIsLeft
  <2> SUFFICES ASSUME PlanInv, phase = "planned"
               PROVE  change = SumFunctionOnSet(remaining, UsedNotes)
    BY DEF ChangeIsWhatIsLeft, UsedNotes
  <2>1. TypeOK /\ Enough /\ NothingLost /\ FeeNotOverpaid
    BY DEF PlanInv
  <2>2. SumFunctionOnSet(due, R) = 0
    BY <2>1, SumTypes, TotalOfZeros DEF Enough
  <2>3. UsedNotes = {n \in N : Values[n] # remaining[n]}
    BY DEF UsedNotes, Used, Values
  <2>4. /\ SumFunctionOnSet(Values, N) - SumFunctionOnSet(remaining, N)
             = SumFunctionOnSet(Values, UsedNotes) - SumFunctionOnSet(remaining, UsedNotes)
        /\ SumFunctionOnSet(Values, UsedNotes) \in Int /\ SumFunctionOnSet(remaining, UsedNotes) \in Int
    BY <2>1, <2>3, SumTypes, TotalOfDifferent
  <2>5. Asked \in Int /\ fee \in Nat /\ feePaid \in Nat
    BY <2>1, SumTypes, Counters DEF Asked, TypeOK
  <2>6. SumFunctionOnSet(Values, UsedNotes) - SumFunctionOnSet(remaining, UsedNotes) = feePaid + Asked
    BY <2>1, <2>2, <2>4, <2>5 DEF NothingLost, Asked
  <2>7. IF request.recipientPays THEN feePaid = 0 ELSE feePaid = fee
    BY <2>1, <2>5 DEF PlanInv, Enough, FeeNotOverpaid
  <2>8. total_input = SumFunctionOnSet(Values, UsedNotes)
    BY DEF total_input, UsedNotes
  <2> QED
    BY <2>4, <2>5, <2>6, <2>7, <2>8 DEF change, total_output
<1> QED
  BY <1>1, AlwaysPlan, PTL

(* For such requests, the fee of a plan is the fee of the transaction that *)
(* is built from it: its counters have seen every note and output of the   *)
(* transaction once, in the pool it ends in, and besides these only the    *)
(* transparent outputs without a value, which can make it larger.          *)
THEOREM FeeIsRight == ASSUME Countable PROVE Spec => []FeeIsThatOfTheTransaction
<1>1. ASSUME PlanInv, phase = "planned"
      PROVE  fee >= LogicalActions(BuiltInputs, BuiltOutputs) * Cost
  <2>1. /\ request \in Requests /\ UsedNotes \in SUBSET N /\ Placed \in SUBSET R
        /\ inputs = InputsOf(UsedNotes) /\ outputs = OutputsOf(Placed, dest)
    BY <1>1 DEF PlanInv, TypeOK, CountsRight, UsedNotes, Placed
  <2>2. /\ inputs \in [Pools -> Nat] /\ outputs \in [Pools -> Nat]
        /\ InAll(inputs) + InAll(outputs) + 2 < Width
    BY <2>1, InputsBound, OutputsBound, NothingWraps
  <2>3. BuiltInputs = inputs
    BY <2>1 DEF InputsOf, UsedNotes, BuiltInputs
  <2>4. BuiltOutputs \in [Pools -> Nat] /\ \A p \in Pools : BuiltOutputs[p] <= outputs[p]
    <3> SUFFICES ASSUME NEW p \in Pools
                 PROVE  BuiltOutputs[p] \in Nat /\ BuiltOutputs[p] <= outputs[p]
      BY DEF BuiltOutputs
    <3> DEFINE D == {r \in R : to_best_pool(dest[r]) = p}
               B == {r \in R : to_best_pool(dest[r]) = p /\ (p = 0 => Amount(r) # 0)}
    <3>1. D \in SUBSET R /\ B \in SUBSET D
      OBVIOUS
    <3>2. {r \in Placed : to_best_pool(dest[r]) = p} = D
      BY <1>1 DEF Placed
    <3> HIDE DEF D, B
    <3>3. IsFiniteSet(R)
      BY <2>1, RequestType
    <3>4. IsFiniteSet(D)
      BY <3>1, <3>3, FS_Subset
    <3>5. Cardinality(D) \in Nat /\ Cardinality(B) \in Nat /\ Cardinality(B) <= Cardinality(D)
      BY <3>1, <3>4, FS_Subset, FS_CardinalityType
    <3>6. BuiltOutputs[p] = Cardinality(B) + IF change_pool = p /\ (p = 0 => change # 0) THEN 1 ELSE 0
      BY DEF BuiltOutputs, B
    <3>7. outputs[p] = Cardinality(D) + IF p = change_pool THEN 1 ELSE 0
      BY <2>1, <3>2 DEF OutputsOf
    <3> QED
      BY <3>5, <3>6, <3>7
  <2>5. LogicalActions(BuiltInputs, BuiltOutputs) <= LogicalActions(inputs, outputs)
    BY <2>2, <2>3, <2>4, ActionsGrow DEF Pools
  <2>6. LogicalActions(BuiltInputs, BuiltOutputs) \in Nat /\ LogicalActions(inputs, outputs) \in Nat
    BY <2>2, <2>3, <2>4, ActionsType
  <2> QED
    BY <2>5, <2>6, TimesGrows, FeeType, CostFacts DEF fee
<1>2. PlanInv => FeeIsThatOfTheTransaction
  <2> SUFFICES ASSUME PlanInv, phase = "planned", change_pool # 0 \/ change # 0,
                      \A r \in R : to_best_pool(dest[r]) = 0 => Amount(r) # 0
               PROVE  fee = LogicalActions(BuiltInputs, BuiltOutputs) * Cost
    BY <1>1 DEF FeeIsThatOfTheTransaction
  <2>1. CountsRight
    BY DEF PlanInv
  <2>2. inputs = BuiltInputs
    <3>1. \A p \in Pools : {n \in UsedNotes : request.notes[n].pool = p}
                           = {n \in N : Used(n) /\ request.notes[n].pool = p}
      BY DEF UsedNotes
    <3> QED
      BY <2>1, <3>1 DEF CountsRight, InputsOf, BuiltInputs
  <2>3. outputs = BuiltOutputs
    <3>1. ASSUME NEW p \in Pools
          PROVE  /\ {r \in Placed : to_best_pool(dest[r]) = p}
                       = {r \in R : to_best_pool(dest[r]) = p /\ (p = 0 => Amount(r) # 0)}
                 /\ p = change_pool <=> change_pool = p /\ (p = 0 => change # 0)
      BY DEF Placed
    <3> QED
      BY <2>1, <3>1 DEF CountsRight, OutputsOf, BuiltOutputs
  <2> QED
    BY <2>2, <2>3 DEF fee
<1> QED
  BY <1>2, AlwaysPlan, PTL

-------------------------------------------------------------------------------
(* Requests that name somebody to pay; and a fee the sender pays, from     *)
(* notes that are worth what they add to it.                               *)
Addressed  == \A q \in Requests : Len(q.recipients) > 0
SenderPays ==
    /\ ~request.recipientPays
    /\ \A n \in Spendable : request.notes[n].pool # 0 => request.notes[n].value >= 2 * Cost

(* An iteration of this pass that pays if there is something left to pay,  *)
(* and something to pay it with.                                           *)
Suits(i) ==
    /\ InPass(i[2]) /\ i[3] \in Spendable
    /\ request.notes[i[3]].pool = fill_order[i[1]][1]
    /\ fill_order[i[1]][2] \in dest[i[2]]

Settled(r) == due[r] = 0 /\ fee <= feePaid
AllSpent   == \A n \in Spendable : remaining[n] = 0
Passes     == {"single", "double"}
GaveUp     == phase = "not enough"

(* The iterations that the loop has passed have nothing left to pay with,  *)
(* or nothing to pay; nobody gives up before all is spent.                 *)
FundsInv ==
    /\ \A n \in N \ Spendable : ~Used(n)
    /\ phase \in Passes => \A i \in Iterations :
          Suits(i) /\ ~Before(place, i) => remaining[i[3]] = 0 \/ Settled(i[2])
    /\ phase # "single" => \A r \in R : ~Double(r) => due[r] = 0 \/ AllSpent
    /\ phase # "single" /\ (\A r \in R : ~Double(r)) => fee <= feePaid \/ AllSpent
    /\ GaveUp => AllSpent /\ ~Enough

LEMMA OneMoreInput ==
    ASSUME request \in Requests, NEW ns \in SUBSET N, NEW n \in N, n \notin ns
    PROVE  /\ InputsOf(ns) \in [Pools -> Nat]
           /\ InputsOf(ns \cup {n})
                = [InputsOf(ns) EXCEPT ![request.notes[n].pool] = InputsOf(ns)[request.notes[n].pool] + 1]
<1> DEFINE k == request.notes[n].pool
           D(ms, p) == {m \in ms : request.notes[m].pool = p}
<1>1. k \in Pools /\ IsFiniteSet(N)
  BY RequestType
<1>2. /\ D(ns \cup {n}, k) = D(ns, k) \cup {n} /\ n \notin D(ns, k) /\ D(ns, k) \in SUBSET N
      /\ \A p \in Pools : p # k => D(ns \cup {n}, p) = D(ns, p)
  OBVIOUS
<1>3. /\ InputsOf(ns) = [p \in Pools |-> Cardinality(D(ns, p))]
      /\ InputsOf(ns \cup {n}) = [p \in Pools |-> Cardinality(D(ns \cup {n}, p))]
  BY DEF InputsOf
<1>4. InputsOf(ns) \in [Pools -> Nat]
  BY InputsBound
<1> HIDE DEF D, k
<1>5. Cardinality(D(ns \cup {n}, k)) = Cardinality(D(ns, k)) + 1
  <2>1. IsFiniteSet(D(ns, k))
    BY <1>1, <1>2, FS_Subset
  <2> QED
    BY <1>2, <2>1, FS_AddElement
<1>6. InputsOf(ns \cup {n}) = [InputsOf(ns) EXCEPT ![k] = InputsOf(ns)[k] + 1]
  BY <1>1, <1>2, <1>3, <1>5
<1> QED
  BY <1>4, <1>6 DEF k

(* An input is an action, and the first of a shielded pool brings another. *)
LEMMA ActionsStep ==
    ASSUME NEW in \in [Pools -> Nat], NEW out \in [Pools -> Nat], NEW k \in Pools,
           NEW in2, in2 = [in EXCEPT ![k] = in[k] + 1],
           InAll(in2) + InAll(out) + 2 < Width
    PROVE  LogicalActions(in2, out) <= LogicalActions(in, out) + (IF k = 0 THEN 1 ELSE 2)
<1> DEFINE Count(i, p) == Larger(i[p], out[p])
           Two(i, p) == IF i[p] > 0 \/ out[p] > 0 THEN Larger(Count(i, p), 2) ELSE 0
           Sum(i) == Count(i, 0) + Two(i, 1) + Two(i, 2)
<1>1. in2 \in [Pools -> Nat]
  OBVIOUS
<1>2. /\ in2[k] = in[k] + 1 /\ \A p \in Pools : p # k => in2[p] = in[p]
      /\ \A p \in Pools : in[p] \in Nat /\ in2[p] \in Nat /\ out[p] \in Nat
  BY <1>1
<1>3. /\ Count(in, 0) \in Nat /\ Count(in2, 0) \in Nat /\ Count(in2, 0) <= in2[0] + out[0]
      /\ Count(in2, 0) <= Count(in, 0) + (IF k = 0 THEN 1 ELSE 0)
      /\ Count(in, 0) <= Count(in2, 0)
  BY <1>2, ThreePools DEF Larger
<1>4. ASSUME NEW p \in Pools
      PROVE  /\ Two(in, p) \in Nat /\ Two(in2, p) \in Nat /\ Two(in2, p) <= in2[p] + out[p] + 1
             /\ Two(in2, p) <= Two(in, p) + (IF k = p THEN 2 ELSE 0)
             /\ Two(in, p) <= Two(in2, p)
  <2>1. CASE p = k
    BY <1>2, <2>1 DEF Larger
  <2>2. CASE p # k
    BY <1>2, <2>2 DEF Larger
  <2> QED
    BY <2>1, <2>2
<1>5. /\ LogicalActions(in, out) = Larger(Sum(in) % Width, 2)
      /\ LogicalActions(in2, out) = Larger(Sum(in2) % Width, 2)
  BY DEF LogicalActions
<1> HIDE DEF Count, Two
<1>6. /\ Two(in, 1) \in Nat /\ Two(in2, 1) \in Nat /\ Two(in2, 1) <= in2[1] + out[1] + 1
      /\ Two(in2, 1) <= Two(in, 1) + (IF k = 1 THEN 2 ELSE 0) /\ Two(in, 1) <= Two(in2, 1)
      /\ Two(in, 2) \in Nat /\ Two(in2, 2) \in Nat /\ Two(in2, 2) <= in2[2] + out[2] + 1
      /\ Two(in2, 2) <= Two(in, 2) + (IF k = 2 THEN 2 ELSE 0) /\ Two(in, 2) <= Two(in2, 2)
  BY <1>4, ThreePools
<1>7. /\ Sum(in) \in Nat /\ Sum(in2) \in Nat /\ Sum(in) <= Sum(in2)
      /\ Sum(in2) <= Sum(in) + (IF k = 0 THEN 1 ELSE 2)
  BY <1>3, <1>6, ThreePools
<1>8. Sum(in2) < Width
  BY <1>2, <1>3, <1>6, ThreePools, CostFacts DEF InAll
<1> HIDE DEF Sum
<1>9. Sum(in) % Width = Sum(in) /\ Sum(in2) % Width = Sum(in2)
  BY <1>7, <1>8, Modulo, CostFacts
<1> QED
  BY <1>5, <1>7, <1>9 DEF Larger

LEMMA SpendableType ==
    ASSUME TypeOK
    PROVE  /\ Spendable \subseteq N /\ IsFiniteSet(Spendable) /\ IsFiniteSet(N)
           /\ \A n \in N : Values[n] = request.notes[n].value /\ Values[n] \in Nat
           /\ \A n \in Spendable : Values[n] >= Cost
<1>1. Spendable \subseteq N /\ IsFiniteSet(N) /\ IsFiniteSet(Spendable)
  BY RequestType, FS_Subset DEF TypeOK, Spendable
<1> QED
  BY <1>1, RequestType DEF TypeOK, Spendable, Values

LEMMA FeeWithIs == \A ns : FeeWith(ns) = LogicalActions(InputsOf(ns), outputs) * Cost
BY DEF FeeWith, InputsOf

(* A note that is worth it adds no more to the fee than it is worth.       *)
LEMMA OneMoreNote ==
    ASSUME Countable, TypeOK, CountsRight, SenderPays,
           NEW ns \in SUBSET N, NEW n \in Spendable, n \notin ns
    PROVE  /\ FeeWith(ns) \in Nat /\ FeeWith(ns \cup {n}) \in Nat
           /\ FeeWith(ns \cup {n}) <= FeeWith(ns) + Values[n]
<1> DEFINE k == request.notes[n].pool
           A == LogicalActions(InputsOf(ns), outputs)
           B == LogicalActions(InputsOf(ns \cup {n}), outputs)
           c == IF k = 0 THEN 1 ELSE 2
<1>1. /\ n \in N /\ request \in Requests /\ k \in Pools /\ outputs \in [Pools -> Nat]
      /\ Values[n] = request.notes[n].value /\ Values[n] \in Nat /\ Values[n] >= Cost
  BY SpendableType, RequestType, Counters DEF TypeOK
<1>2. /\ InputsOf(ns) \in [Pools -> Nat]
      /\ InputsOf(ns \cup {n}) = [InputsOf(ns) EXCEPT ![k] = InputsOf(ns)[k] + 1]
  BY <1>1, OneMoreInput
<1>3. InAll(InputsOf(ns \cup {n})) + InAll(outputs) + 2 < Width
  <2>1. Placed \in SUBSET R /\ ns \cup {n} \in SUBSET N
    BY <1>1 DEF Placed
  <2> QED
    BY <1>1, <2>1, NothingWraps DEF CountsRight
<1>4. InputsOf(ns \cup {n}) \in [Pools -> Nat]
  BY <1>1, InputsBound
<1>5. A \in Nat /\ B \in Nat /\ B <= A + c /\ c \in Nat
  <2>1. B <= A + c
    BY <1>1, <1>2, <1>3, ActionsStep
  <2> QED
    BY <1>1, <1>2, <1>4, <2>1, ActionsType
<1>6. c * Cost <= Values[n]
  BY <1>1, CostFacts DEF SenderPays
<1>7. FeeWith(ns) = A * Cost /\ FeeWith(ns \cup {n}) = B * Cost
  BY FeeWithIs
<1> HIDE DEF A, B, c
<1>8. B * Cost <= (A + c) * Cost
  BY <1>5, TimesGrows
<1>9. (A + c) * Cost = A * Cost + c * Cost
  BY <1>5, CostFacts
<1>10. A * Cost \in Nat /\ B * Cost \in Nat /\ c * Cost \in Nat
  BY <1>5, CostFacts
<1> QED
  BY <1>1, <1>6, <1>7, <1>8, <1>9, <1>10

(* A fee that is paid stays paid when a note pays for the first time.      *)
LEMMA FeeStaysPaid ==
    ASSUME Countable, PlanInv, SenderPays, fee <= feePaid, NEW i \in Paying
    PROVE  LogicalActions(InputsWith(i[3]), outputs) * Cost <= feePaid + ToFee(i[2], i[3])
<1> DEFINE r == i[2]
           n == i[3]
           B == LogicalActions(InputsWith(n), outputs) * Cost
<1>1. r \in R /\ n \in N /\ remaining[n] > 0
  BY PayingIs
<1>2. TypeOK /\ CountsRight /\ FeeNotOverpaid
  BY DEF PlanInv
<1>3. /\ remaining[n] \in Nat /\ due[r] \in Nat /\ feePaid \in Nat /\ fee \in Nat /\ feePaid = fee
  BY <1>1, <1>2, Counters DEF TypeOK, FeeNotOverpaid
<1>4. /\ Owed(n) = B - feePaid /\ Owed(n) \in Int /\ Owed(n) >= 0
  BY <1>2, SomethingPaid, <1>1, FillNumbers DEF Owed, SenderPays
<1>5. Owed(n) <= remaining[n]
  <2>1. CASE Used(n)
    <3>1. InputsWith(n) = inputs
      BY <2>1 DEF Used, InputsWith
    <3> QED
      BY <1>3, <1>4, <3>1 DEF fee
  <2>2. CASE ~Used(n)
    <3>1. n \in Spendable
      BY <1>1 DEF Paying, Pays, Spendable
    <3>2. n \notin UsedNotes /\ UsedNotes \in SUBSET N /\ remaining[n] = Values[n]
      BY <1>1, <2>2 DEF UsedNotes, Used, Values
    <3>3. FeeWith(UsedNotes) = fee /\ FeeWith(UsedNotes \cup {n}) = B
      BY <1>1, <1>2, InputsCounted, FeeWithIs DEF fee, CountsRight
    <3>4. B <= fee + remaining[n] /\ B \in Nat
      BY <1>2, <3>1, <3>2, <3>3, OneMoreNote
    <3> HIDE DEF B
    <3> QED
      BY <1>3, <1>4, <3>4
  <2> QED
    BY <2>1, <2>2
<1>6. /\ Paid(r, n) = IF remaining[n] <= due[r] + Owed(n) THEN remaining[n] ELSE due[r] + Owed(n)
      /\ ToFee(r, n) = IF Paid(r, n) <= Owed(n) THEN Paid(r, n) ELSE Owed(n)
  BY <1>1, <1>2, FillNumbers
<1> HIDE DEF r, n, B
<1>7. ToFee(r, n) = Owed(n)
  BY <1>3, <1>4, <1>5, <1>6
<1>8. B <= feePaid + ToFee(r, n)
  <2>1. B \in Int
    BY <1>1, <1>2, InputsWithType, Counters, FeeType DEF B, n
  <2> QED
    BY <1>3, <1>4, <1>7, <2>1
<1> QED
  BY <1>8 DEF B, r, n

(* What an iteration changes.                                              *)
LEMMA FillChanges ==
    ASSUME Countable, PlanInv, NEW i \in Paying, FillFrom(i[2], i[3]), UNCHANGED <<request, outputs>>
    PROVE  /\ i[2] \in R /\ i[3] \in Spendable /\ Suits(i) /\ remaining[i[3]] > 0
           /\ \A r \in R : due'[r] <= due[r] /\ due'[r] \in Nat
           /\ \A n \in N : remaining[n] = 0 => remaining'[n] = 0
           /\ \A n \in N : n # i[3] => remaining'[n] = remaining[n]
           /\ SenderPays /\ fee <= feePaid => (fee <= feePaid)'
           /\ SenderPays => remaining'[i[3]] = 0 \/ (due'[i[2]] = 0 /\ (fee <= feePaid)')
<1> DEFINE r == i[2]
           n == i[3]
           B == LogicalActions(InputsWith(n), outputs) * Cost
<1>1. r \in R /\ n \in N /\ remaining[n] > 0 /\ InPass(r)
  BY PayingIs
<1>2. TypeOK /\ remaining[n] \in Nat /\ due[r] \in Nat /\ feePaid \in Nat
  BY <1>1 DEF PlanInv, TypeOK
<1>3. n \in Spendable /\ Suits(i)
  BY <1>1 DEF Paying, Pays, Spendable, Suits
<1>4. /\ Owed(n) \in Int /\ Paid(r, n) \in Int /\ ToFee(r, n) \in Int
      /\ Paid(r, n) <= remaining[n]
      /\ Paid(r, n) - ToFee(r, n) <= due[r]
      /\ Paid(r, n) = IF remaining[n] <= due[r] + Owed(n) THEN remaining[n] ELSE due[r] + Owed(n)
      /\ ToFee(r, n) = IF Paid(r, n) <= Owed(n) THEN Paid(r, n) ELSE Owed(n)
  BY <1>1, <1>2, FillNumbers
<1>5. /\ inputs' = InputsWith(n)
      /\ feePaid' = feePaid + ToFee(r, n)
      /\ due' = [due EXCEPT ![r] = due[r] - (Paid(r, n) - ToFee(r, n))]
      /\ remaining' = [remaining EXCEPT ![n] = remaining[n] - Paid(r, n)]
  BY <1>1, <1>2 DEF FillFrom, Left, TypeOK
<1>6. /\ due'[r] = due[r] - (Paid(r, n) - ToFee(r, n))
      /\ remaining'[n] = remaining[n] - Paid(r, n)
      /\ \A m \in N : m # n => remaining'[m] = remaining[m]
      /\ \A q \in R : q # r => due'[q] = due[q] /\ due[q] \in Nat
  BY <1>1, <1>2, <1>5 DEF TypeOK
<1>7. B \in Int /\ fee' = B
  <2>1. B \in Int
    BY <1>1, <1>2, InputsWithType, Counters, FeeType
  <2>2. fee' = B
    BY <1>5 DEF fee
  <2> QED
    BY <2>1, <2>2
<1>8. SenderPays /\ fee <= feePaid => (fee <= feePaid)'
  <2> SUFFICES ASSUME SenderPays, fee <= feePaid PROVE fee' <= feePaid'
    OBVIOUS
  <2>1. B <= feePaid + ToFee(r, n)
    BY FeeStaysPaid
  <2> QED
    BY <1>5, <1>7, <2>1
<1>9. Owed(n) >= 0
  BY SomethingPaid
<1>10. SenderPays => Owed(n) = B - feePaid
  BY DEF SenderPays, Owed
<1> HIDE DEF r, n, B
<1>11. SenderPays => remaining'[n] = 0 \/ (due'[r] = 0 /\ fee' <= feePaid')
  BY <1>2, <1>4, <1>5, <1>6, <1>7, <1>9, <1>10
<1>12. \A q \in R : due'[q] <= due[q] /\ due'[q] \in Nat
  BY <1>1, <1>2, <1>4, <1>6
<1> QED
  BY <1>1, <1>3, <1>6, <1>8, <1>11, <1>12 DEF r, n

(* What the loop can do depends on the request and the pass.               *)
LEMMA SameSuits ==
    ASSUME UNCHANGED <<request, phase, dest>>
    PROVE  /\ UNCHANGED <<N, R, Spendable, SenderPays, Iterations>>
           /\ \A i : Suits(i)' <=> Suits(i)
           /\ \A r : Double(r)' <=> Double(r)
BY DEF N, R, Spendable, SenderPays, Suits, InPass, Double, Usable, Iterations

LEMMA FundsFill ==
    ASSUME Countable, PlanInv, SenderPays, FundsInv, Fill
    PROVE  FundsInv'
<1>1. PICK i \in Paying : (\A j \in Paying \ {i} : Before(i, j)) /\ place' = i /\ FillFrom(i[2], i[3])
  BY DEF Fill
<1>2. UNCHANGED <<request, phase, dest, outputs>> /\ phase \in Passes
  BY DEF Fill, Passes
<1>3. /\ UNCHANGED <<N, R, Spendable, SenderPays, Iterations>>
      /\ \A j : Suits(j)' <=> Suits(j)
      /\ \A r : Double(r)' <=> Double(r)
  BY <1>2, SameSuits
<1>4. /\ i[2] \in R /\ i[3] \in Spendable /\ Suits(i) /\ remaining[i[3]] > 0
      /\ \A r \in R : due'[r] <= due[r] /\ due'[r] \in Nat
      /\ \A n \in N : remaining[n] = 0 => remaining'[n] = 0
      /\ \A n \in N : n # i[3] => remaining'[n] = remaining[n]
      /\ fee <= feePaid => (fee <= feePaid)'
      /\ remaining'[i[3]] = 0 \/ (due'[i[2]] = 0 /\ (fee <= feePaid)')
  BY <1>1, <1>2, FillChanges
<1>5. TypeOK /\ Spendable \subseteq N
  BY SpendableType DEF PlanInv
<1>6. \A n \in N \ Spendable : ~Used(n)'
  BY <1>2, <1>3, <1>4 DEF FundsInv, Used
<1>7. \A r \in R : Settled(r) => Settled(r)'
  BY <1>4, <1>5 DEF Settled, TypeOK
<1>8. ASSUME NEW j \in Iterations, Suits(j), ~Before(place', j)
      PROVE  remaining'[j[3]] = 0 \/ Settled(j[2])'
  <2>1. j[2] \in R /\ j[3] \in N
    BY DEF Iterations
  <2>2. CASE j = i
    BY <1>4, <2>2 DEF Settled
  <2>3. CASE j # i
    <3>1. j \notin Paying
      BY <1>1, <1>8, <2>3
    <3>2. remaining[j[3]] = 0 \/ Settled(j[2])
      <4>1. CASE ~Before(place, j)
        BY <1>2, <1>8, <4>1 DEF FundsInv
      <4>2. CASE Before(place, j)
        <5>1. ~(remaining[j[3]] > 0 /\ (fee_remaining > 0 \/ due[j[2]] > 0))
          BY <1>8, <3>1, <4>2 DEF Paying, Pays, Suits, Spendable
        <5>2. remaining[j[3]] \in Nat /\ due[j[2]] \in Nat /\ fee \in Nat /\ feePaid \in Nat
          BY <1>5, <2>1, Counters DEF TypeOK
        <5>3. fee_remaining = fee - feePaid
          BY DEF fee_remaining, SenderPays
        <5> QED
          BY <5>1, <5>2, <5>3 DEF Settled
      <4> QED
        BY <4>1, <4>2
    <3> QED
      BY <1>4, <1>7, <2>1, <3>2
  <2> QED
    BY <2>2, <2>3
<1>9. ~AllSpent
  BY <1>4, <1>5 DEF AllSpent, TypeOK
<1>10. ASSUME phase' # "single", NEW r \in R, ~Double(r) PROVE due'[r] = 0
  <2>1. due[r] = 0
    BY <1>2, <1>9, <1>10 DEF FundsInv
  <2> QED
    BY <1>4, <2>1
<1>11. phase' # "single" /\ (\A r \in R : ~Double(r)) => (fee <= feePaid)'
  BY <1>2, <1>4, <1>9 DEF FundsInv
<1>12. ~GaveUp'
  BY <1>2 DEF Passes, GaveUp
<1> QED
  BY <1>2, <1>3, <1>6, <1>8, <1>10, <1>11, <1>12 DEF FundsInv

(* Every note can pay every recipient of the pass, in some iteration.      *)
LEMMA SomePair ==
    ASSUME NEW src \in Pools, NEW dst \in Pools
    PROVE  \E k \in 1 .. 9 : fill_order[k] = <<src, dst>>
<1>1. /\ fill_order[1] = <<2, 2>> /\ fill_order[2] = <<1, 1>> /\ fill_order[3] = <<2, 1>>
      /\ fill_order[4] = <<1, 2>> /\ fill_order[5] = <<0, 2>> /\ fill_order[6] = <<0, 1>>
      /\ fill_order[7] = <<2, 0>> /\ fill_order[8] = <<1, 0>> /\ fill_order[9] = <<0, 0>>
  BY DEF fill_order
<1>2. (src = 0 \/ src = 1 \/ src = 2) /\ (dst = 0 \/ dst = 1 \/ dst = 2)
  BY ThreePools
<1> QED
  BY <1>1, <1>2

(* When nothing pays any more, a recipient of the pass is settled or there *)
(* is nothing left.                                                        *)
LEMMA PassIsOver ==
    ASSUME PlanInv, SenderPays, FundsInv, phase \in Passes, Paying = {}, NEW r \in R, InPass(r)
    PROVE  Settled(r) \/ AllSpent
<1> SUFFICES ASSUME ~Settled(r), NEW n \in Spendable PROVE remaining[n] = 0
  BY DEF AllSpent
<1>1. TypeOK /\ n \in N /\ request.notes[n].pool \in Pools
  BY SpendableType, RequestType DEF PlanInv, TypeOK
<1>2. PICK dst \in dest[r] : dst \in Pools
  BY <1>1 DEF TypeOK, Masks
<1>3. PICK k \in 1 .. 9 : fill_order[k] = <<request.notes[n].pool, dst>>
  BY <1>1, <1>2, SomePair
<1> DEFINE i == <<k, r, n>>
<1>4. i \in Iterations /\ Suits(i) /\ i[2] = r /\ i[3] = n /\ i[1] = k
  BY <1>1, <1>2, <1>3 DEF Iterations, Suits
<1>5. remaining[n] \in Nat /\ due[r] \in Nat /\ fee \in Nat /\ feePaid \in Nat
  BY <1>1, Counters DEF TypeOK
<1> HIDE DEF i
<1>6. CASE ~Before(place, i)
  BY <1>4, <1>6 DEF FundsInv
<1>7. CASE Before(place, i)
  <2>1. ~(remaining[n] > 0 /\ (fee_remaining > 0 \/ due[r] > 0))
    BY <1>4, <1>7 DEF Paying, Pays, Suits, Spendable
  <2>2. fee_remaining = fee - feePaid
    BY DEF fee_remaining, SenderPays
  <2> QED
    BY <1>5, <2>1, <2>2 DEF Settled
<1> QED
  BY <1>6, <1>7

LEMMA FundsEndSingle ==
    ASSUME Countable, Addressed, PlanInv, SenderPays, FundsInv, EndSingle
    PROVE  FundsInv'
<1>1. /\ phase = "single" /\ phase' = "double" /\ Paying = {} /\ place' = <<0, 0, 0>>
      /\ UNCHANGED <<request, due, remaining, inputs, feePaid>>
  BY DEF EndSingle
<1>2. /\ UNCHANGED <<N, R, Spendable, Iterations>>
      /\ \A r : Double(r)' <=> Double(r)
      /\ \A n : Used(n)' <=> Used(n)
  BY <1>1 DEF N, R, Spendable, Usable, Iterations, Double, Used
<1>3. \A r \in R : ~Double(r) => Settled(r) \/ AllSpent
  <2>1. \A r \in R : ~Double(r) => InPass(r)
    BY <1>1 DEF InPass
  <2> QED
    BY <1>1, <2>1, PassIsOver DEF Passes
<1>4. (\A i \in Iterations : Before(place', i)) /\ ~GaveUp'
  BY <1>1 DEF Iterations, Before, GaveUp
<1>5. AllSpent' <=> AllSpent
  BY <1>1, <1>2 DEF AllSpent
<1>6. \A r \in R : ~Double(r) => due'[r] = 0 \/ AllSpent
  BY <1>1, <1>3 DEF Settled
<1>7. ASSUME \A r \in R : ~Double(r), ~AllSpent PROVE (fee <= feePaid)'
  <2>1. PICK r \in R : TRUE
    BY RequestType DEF PlanInv, TypeOK, Addressed
  <2>2. fee <= feePaid
    BY <1>3, <1>7, <2>1 DEF Settled
  <2>3. outputs' = outputs
    <3>1. {q \in R : Double(q)} = {}
      BY <1>7
    <3>2. outputs' = CountOutputs(outputs, {q \in R : Double(q)}, dest')
      BY DEF EndSingle
    <3>3. outputs' = [p \in Pools |-> (outputs[p] + Cardinality({})) % Width]
      <4>1. \A p \in Pools : {q \in {} : to_best_pool(dest'[q]) = p} = {}
        OBVIOUS
      <4> QED
        BY <3>1, <3>2, <4>1 DEF CountOutputs
    <3>4. /\ Cardinality({}) = 0 /\ outputs \in [Pools -> 0 .. Width - 1]
      BY FS_EmptySet DEF PlanInv, TypeOK
    <3>5. \A p \in Pools : (outputs[p] + Cardinality({})) % Width = outputs[p]
      <4>1. \A p \in Pools : outputs[p] \in Nat /\ outputs[p] < Width /\ outputs[p] + 0 = outputs[p]
        BY <3>4, CostFacts
      <4> QED
        BY <3>4, <4>1, Modulo
    <3> QED
      BY <3>3, <3>4, <3>5
  <2> QED
    BY <1>1, <2>2, <2>3 DEF fee
<1> QED
  BY <1>1, <1>2, <1>4, <1>5, <1>6, <1>7 DEF FundsInv

LEMMA FundsEndDouble ==
    ASSUME Countable, PlanInv, SenderPays, FundsInv, EndDouble
    PROVE  FundsInv'
<1>1. /\ phase = "double" /\ Paying = {}
      /\ phase' = IF Enough THEN "planned" ELSE "not enough"
      /\ UNCHANGED <<request, place, dest, due, remaining, inputs, outputs, feePaid>>
  BY DEF EndDouble
<1>2. /\ UNCHANGED <<N, R, Spendable, Iterations, fee, AllSpent>>
      /\ \A r : Double(r)' <=> Double(r)
      /\ \A n : Used(n)' <=> Used(n)
  BY <1>1 DEF N, R, Spendable, Usable, Iterations, Double, Used, fee, AllSpent
<1>3. Enough' <=> Enough
  BY <1>1, <1>2 DEF Enough, First
<1>4. \A r \in R : Double(r) => Settled(r) \/ AllSpent
  <2>1. \A r \in R : Double(r) => InPass(r)
    BY <1>1 DEF InPass
  <2> QED
    BY <1>1, <2>1, PassIsOver DEF Passes
<1>5. ASSUME ~Enough PROVE AllSpent
  <2>1. CASE \E r \in R : due[r] # 0
    BY <1>1, <1>4, <2>1 DEF FundsInv, Settled
  <2>2. CASE \A r \in R : due[r] = 0
    <3>1. ~(fee <= feePaid)
      <4>1. ~(feePaid >= fee)
        BY <1>5, <2>2 DEF Enough, SenderPays
      <4>2. feePaid \in Nat /\ fee \in Nat
        BY Counters DEF PlanInv, TypeOK
      <4> QED
        BY <4>1, <4>2
    <3> QED
      BY <1>1, <1>4, <3>1 DEF FundsInv, Settled
  <2> QED
    BY <2>1, <2>2
<1>6. phase' \notin Passes /\ phase' # "single"
  BY <1>1 DEF Passes
<1>7. GaveUp' => ~Enough
  BY <1>1 DEF GaveUp
<1> QED
  BY <1>1, <1>2, <1>3, <1>5, <1>6, <1>7 DEF FundsInv

LEMMA FundsStep ==
    ASSUME Countable, Addressed, PlanInv, SenderPays => FundsInv, [Next]_vars
    PROVE  (SenderPays => FundsInv)'
<1>1. CASE UNCHANGED vars
  BY <1>1 DEF vars, SenderPays, FundsInv, Suits, InPass, Double, Settled, AllSpent, Spendable,
              Usable, Enough, First, fee, Iterations, Used, N, R, GaveUp
<1>2. CASE Next
  <2>1. UNCHANGED request
    BY <1>2 DEF Next, Fill, EndSingle, EndDouble
  <2>2. SenderPays' <=> SenderPays
    BY <2>1 DEF SenderPays, Spendable, Usable, N
  <2> QED
    BY <1>2, <2>2, FundsFill, FundsEndSingle, FundsEndDouble DEF Next
<1> QED
  BY <1>1, <1>2

LEMMA InitFunds == ASSUME Init PROVE FundsInv
<1>1. phase = "single" /\ place = <<0, 0, 0>> /\ ~GaveUp /\ \A n \in N : ~Used(n)
  BY DEF Init, Used, GaveUp
<1>2. \A i \in Iterations : Before(place, i)
  BY <1>1 DEF Iterations, Before
<1> QED
  BY <1>1, <1>2 DEF FundsInv

(* A sum of numbers is a number, and not zero if one of them is not.       *)
LEMMA TotalPositive ==
    ASSUME NEW f, NEW S, IsFiniteSet(S), \A x \in S : f[x] \in Nat
    PROVE  /\ \A T \in SUBSET S : SumFunctionOnSet(f, T) \in Nat
           /\ (\E x \in S : f[x] # 0) => SumFunctionOnSet(f, S) > 0
<1>1. Numbers(f, S)
  BY DEF Numbers
<1>2. ASSUME NEW T \in SUBSET S PROVE SumFunctionOnSet(f, T) \in Nat
  <2> DEFINE B == {U \in SUBSET S : SumFunctionOnSet(f, U) \notin Nat}
  <2>1. ASSUME B # {} PROVE FALSE
    <3>1. PICK U \in B : \A V \in B : V \subseteq U => V = U
      <4>1. B \in SUBSET SUBSET S /\ B # {}
        BY <2>1
      <4> HIDE DEF B
      <4> QED
        BY <4>1, SmallestSubset
    <3>2. U # {}
      BY TotalOfNone
    <3> DEFINE x == First1(U)
               V == U \ {x}
    <3>3. x \in U /\ V \subseteq U /\ V # U /\ f[x] \in Nat
      BY <3>2, FirstIn
    <3>4. SumFunctionOnSet(f, V) \in Nat
      BY <3>1, <3>3
    <3>5. SumFunctionOnSet(f, U) = f[x] + SumFunctionOnSet(f, V)
      BY <1>1, <3>3, TotalWithout
    <3> QED
      BY <3>3, <3>4, <3>5
  <2> QED
    BY <2>1
<1>3. ASSUME NEW x \in S, f[x] # 0 PROVE SumFunctionOnSet(f, S) > 0
  <2>1. SumFunctionOnSet(f, S) = f[x] + SumFunctionOnSet(f, S \ {x})
    BY <1>1, TotalWithout
  <2>2. SumFunctionOnSet(f, S \ {x}) \in Nat /\ f[x] \in Nat
    BY <1>2
  <2> QED
    BY <1>3, <2>1, <2>2
<1> QED
  BY <1>2, <1>3

(* All the notes together do not pay for it.                               *)
LEMMA AllAreNotEnough ==
    ASSUME PlanInv, SenderPays, FundsInv, GaveUp
    PROVE  ValueOf(Spendable) < Asked + FeeWith(Spendable)
<1>1. TypeOK /\ CountsRight /\ NothingLost /\ feePaid <= fee /\ AllSpent /\ ~Enough
  BY DEF PlanInv, FundsInv, FeeNotOverpaid
<1>2. UsedNotes = Spendable
  <2>1. \A n \in Spendable : n \in N /\ Values[n] = request.notes[n].value /\ Values[n] \in Nat /\ Values[n] >= Cost
    BY <1>1, SpendableType
  <2>2. ASSUME NEW n \in Spendable PROVE Used(n)
    <3>1. remaining[n] = 0 /\ Values[n] = request.notes[n].value /\ Values[n] \in Nat /\ Values[n] >= Cost
      BY <1>1, <2>1 DEF AllSpent
    <3>2. Values[n] # 0
      BY <3>1, CostFacts
    <3> QED
      BY <3>1, <3>2 DEF Used
  <2> QED
    BY <2>1, <2>2 DEF UsedNotes, FundsInv
<1>3. FeeWith(Spendable) = fee
  BY <1>1, <1>2, FeeWithIs DEF CountsRight, fee
<1>4. /\ SumFunctionOnSet(Values, N) - SumFunctionOnSet(remaining, N) = ValueOf(Spendable)
      /\ ValueOf(Spendable) \in Int
  <2>1. UsedNotes = {n \in N : Values[n] # remaining[n]}
    BY DEF UsedNotes, Used, Values
  <2>2. /\ SumFunctionOnSet(Values, N) - SumFunctionOnSet(remaining, N)
             = SumFunctionOnSet(Values, UsedNotes) - SumFunctionOnSet(remaining, UsedNotes)
        /\ SumFunctionOnSet(Values, UsedNotes) \in Int /\ SumFunctionOnSet(remaining, UsedNotes) \in Int
    <3>1. Numbers(Values, N) /\ Numbers(remaining, N) /\ IsFiniteSet(N)
      BY <1>1, SumTypes
    <3> QED
      BY <2>1, <3>1, TotalOfDifferent
  <2>3. SumFunctionOnSet(remaining, UsedNotes) = 0
    BY <1>1, <1>2, SpendableType, TotalOfZeros DEF AllSpent
  <2>4. ValueOf(Spendable) = SumFunctionOnSet(Values, UsedNotes)
    BY <1>2 DEF ValueOf
  <2> DEFINE a == SumFunctionOnSet(Values, N)
             b == SumFunctionOnSet(remaining, N)
             c == SumFunctionOnSet(Values, UsedNotes)
             d == SumFunctionOnSet(remaining, UsedNotes)
  <2>5. a - b = c - d /\ c \in Int /\ d = 0
    BY <2>2, <2>3
  <2> HIDE DEF a, b, c, d
  <2>6. a - b = c
    BY <2>5
  <2> QED
    BY <2>4, <2>5, <2>6 DEF a, b, c
<1>5. /\ Asked \in Int /\ fee \in Nat /\ feePaid \in Nat
      /\ SumFunctionOnSet(due, R) \in Nat
      /\ (\E r \in R : due[r] # 0) => SumFunctionOnSet(due, R) > 0
  <2>1. IsFiniteSet(R) /\ \A r \in R : due[r] \in Nat
    BY <1>1, SumTypes DEF TypeOK
  <2>2. /\ SumFunctionOnSet(due, R) \in Nat
        /\ (\E r \in R : due[r] # 0) => SumFunctionOnSet(due, R) > 0
    BY <2>1, TotalPositive
  <2> QED
    BY <1>1, <2>2, SumTypes, Counters DEF Asked, TypeOK
<1>6. feePaid < fee \/ SumFunctionOnSet(due, R) > 0
  <2>1. feePaid >= fee /\ (\A r \in R : due[r] = 0) => Enough
    BY DEF Enough, SenderPays
  <2>2. feePaid >= fee <=> ~(feePaid < fee)
    BY <1>5
  <2> QED
    BY <1>1, <1>5, <2>1, <2>2
<1>7. ValueOf(Spendable) = feePaid + (Asked - SumFunctionOnSet(due, R))
  BY <1>1, <1>4 DEF NothingLost, Asked
<1> DEFINE v == ValueOf(Spendable)
           d == SumFunctionOnSet(due, R)
           w == FeeWith(Spendable)
<1>8. /\ v \in Int /\ d \in Nat /\ Asked \in Int /\ fee \in Nat /\ feePaid \in Nat
      /\ feePaid < fee \/ d > 0
      /\ v = feePaid + (Asked - d) /\ w = fee /\ feePaid <= fee
  BY <1>1, <1>3, <1>4, <1>5, <1>6, <1>7
<1> HIDE DEF v, d, w
<1>9. v < Asked + w
  BY <1>8
<1> QED
  BY <1>9 DEF v, w

(* For requests that FeeManager can count, with somebody to pay: when the  *)
(* plan gives up, no choice among the notes pays for the outputs and the   *)
(* fee, if the sender pays it and every shielded note is worth two actions.*)
THEOREM GivesUpRightly ==
    ASSUME Countable, Addressed PROVE Spec => []GivesUpOnlyWithoutFunds
<1>1. Init => PlanInv /\ (SenderPays => FundsInv)
  BY InitPlan, InitFunds
<1>2. PlanInv /\ (SenderPays => FundsInv) /\ [Next]_vars => (PlanInv /\ (SenderPays => FundsInv))'
  BY StepPlan, FundsStep
<1>3. PlanInv /\ (SenderPays => FundsInv) => GivesUpOnlyWithoutFunds
  <2> SUFFICES ASSUME PlanInv, SenderPays, FundsInv, GaveUp
               PROVE  \A ns \in SUBSET Spendable : ValueOf(ns) < Asked + FeeWith(ns)
    BY DEF GivesUpOnlyWithoutFunds, SenderPays, GaveUp
  <2> DEFINE Enrich(ns) == ~(ValueOf(ns) < Asked + FeeWith(ns))
             B == {u \in SUBSET Spendable : Enrich(Spendable \ u)}
  <2>1. TypeOK /\ CountsRight /\ Spendable \subseteq N /\ IsFiniteSet(Spendable)
    BY SpendableType DEF PlanInv
  <2>2. Asked \in Int /\ Numbers(Values, Spendable) /\ \A ns \in SUBSET Spendable : ValueOf(ns) \in Int
    <3>1. Numbers(Values, Spendable)
      <4>1. ASSUME NEW n \in Spendable PROVE Values[n] \in Int
        <5>1. n \in N /\ Values[n] \in Nat
          BY <2>1, SpendableType
        <5> QED
          BY <5>1
      <4> QED
        BY <4>1 DEF Numbers
    <3> QED
      BY <2>1, <3>1, SumTypes, TotalType DEF Asked, ValueOf
  <2>3. ASSUME B # {} PROVE FALSE
    <3>1. PICK u \in B : \A v \in B : v \subseteq u => v = u
      <4>1. B \in SUBSET SUBSET Spendable /\ B # {}
        BY <2>3
      <4>2. IsFiniteSet(Spendable)
        BY <2>1
      <4> HIDE DEF B
      <4> QED
        BY <4>1, <4>2, SmallestSubset
    <3> DEFINE ns == Spendable \ u
    <3>2. u # {}
      <4>1. Spendable \ {} = Spendable
        OBVIOUS
      <4> QED
        BY <3>1, <4>1, AllAreNotEnough
    <3>3. PICK n \in u : TRUE
      BY <3>2
    <3>4. /\ n \in Spendable /\ n \notin ns /\ ns \in SUBSET N /\ ns \cup {n} \in SUBSET Spendable
          /\ Spendable \ (u \ {n}) = ns \cup {n} /\ u \ {n} \in SUBSET Spendable
          /\ u \ {n} # u /\ Enrich(ns)
      BY <2>1, <3>1, <3>3
    <3>5. ~Enrich(ns \cup {n})
      <4>1. u \ {n} \notin B
        BY <3>1, <3>3, <3>4
      <4> QED
        BY <3>4, <4>1
    <3>6. /\ FeeWith(ns) \in Nat /\ FeeWith(ns \cup {n}) \in Nat
          /\ FeeWith(ns \cup {n}) <= FeeWith(ns) + Values[n] /\ Values[n] \in Nat
      BY <2>1, <3>4, OneMoreNote, SpendableType
    <3>7. ValueOf(ns \cup {n}) = Values[n] + ValueOf(ns)
      <4>1. (ns \cup {n}) \ {n} = ns
        BY <3>4
      <4>2. /\ IsFiniteSet(Spendable) /\ Numbers(Values, Spendable)
            /\ ns \cup {n} \in SUBSET Spendable /\ n \in ns \cup {n}
        BY <2>1, <2>2, <3>4
      <4>3. SumFunctionOnSet(Values, ns \cup {n}) = Values[n] + SumFunctionOnSet(Values, (ns \cup {n}) \ {n})
        BY <4>2, TotalWithout
      <4> QED
        BY <4>1, <4>3 DEF ValueOf
    <3>8. ValueOf(ns) \in Int /\ ValueOf(ns \cup {n}) \in Int
      BY <2>2, <3>4
    <3> DEFINE a == ValueOf(ns)
               b == ValueOf(ns \cup {n})
               c == FeeWith(ns)
               d == FeeWith(ns \cup {n})
               e == Values[n]
    <3>9. /\ a \in Int /\ b \in Int /\ c \in Nat /\ d \in Nat /\ e \in Nat /\ Asked \in Int
          /\ ~(a < Asked + c) /\ b < Asked + d /\ b = e + a /\ d <= c + e
      BY <2>2, <3>4, <3>5, <3>6, <3>7, <3>8
    <3> HIDE DEF a, b, c, d, e
    <3> QED
      BY <3>9
  <2> SUFFICES ASSUME NEW ns \in SUBSET Spendable PROVE ~Enrich(ns)
    OBVIOUS
  <2>4. Spendable \ (Spendable \ ns) = ns
    OBVIOUS
  <2> QED
    BY <2>3, <2>4
<1> QED
  BY <1>1, <1>2, <1>3, PTL DEF Spec
===============================================================================
