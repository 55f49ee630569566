--------------------------- MODULE RecursionLemmas ---------------------------
(***************************************************************************)
(* Induction over the natural numbers and the existence of a function that *)
(* is defined by recursion, without an operator as parameter: a predicate  *)
(* is a set of numbers, and a step is a function.  What a step that the    *)
(* models define does to a value is the business of the proofs that use    *)
(* these lemmas.  At the end, finite sets as sequences and in order.       *)
(***************************************************************************)
EXTENDS Integers, Sequences, SequencesExt, FiniteSetTheorems, WellFoundedInduction, TLAPS

\* A set of numbers has a least one.  The numbers below a number are a finite
\* set, and strict inclusion of finite sets is well-founded.
LEMMA LeastOf ==
    ASSUME NEW T \in SUBSET Nat, T # {}
    PROVE  \E m \in T : \A k \in T : m <= k
<1> DEFINE Below(n) == 0 .. n
           B == {Below(n) : n \in T}
<1>1. IsWellFoundedOn(StrictSubsetOrdering(Nat), FiniteSubsetsOf(Nat))
  BY FS_StrictSubsetOrderingWellFounded
<1>2. B \subseteq FiniteSubsetsOf(Nat) /\ B # {}
  <2>1. \A n \in T : Below(n) \in SUBSET Nat /\ IsFiniteSet(Below(n))
    BY FS_Interval
  <2> QED
    BY <2>1 DEF FiniteSubsetsOf
<1>3. \E x \in B : \A y \in B : ~ (<<y, x>> \in StrictSubsetOrdering(Nat))
  BY <1>1, <1>2, WFMin
<1>4. PICK m \in T : \A k \in T : ~ (<<Below(k), Below(m)>> \in StrictSubsetOrdering(Nat))
  BY <1>3
<1>5. \A k \in T : ~(k < m)
  <2> SUFFICES ASSUME NEW k \in T, k < m PROVE FALSE
    OBVIOUS
  <2>1. Below(k) \subseteq Below(m) /\ m \in Below(m) /\ m \notin Below(k)
    OBVIOUS
  <2>2. Below(k) \in SUBSET Nat /\ Below(m) \in SUBSET Nat /\ Below(k) # Below(m)
    BY <2>1
  <2> HIDE DEF Below
  <2> QED
    BY <1>4, <2>1, <2>2 DEF StrictSubsetOrdering
<1> QED
  BY <1>5

\* A set that holds 0, and the successor of each number it holds, holds all.
LEMMA Induction ==
    ASSUME NEW S, 0 \in S, \A n \in Nat : n \in S => n + 1 \in S
    PROVE  Nat \subseteq S
<1> SUFFICES ASSUME Nat \ S # {} PROVE FALSE
  OBVIOUS
<1>1. PICK m \in Nat \ S : \A k \in Nat \ S : m <= k
  BY LeastOf
<1>2. m # 0 /\ m - 1 \in Nat /\ m - 1 \in S
  BY <1>1
<1> QED
  BY <1>1, <1>2

\* The same for the numbers up to a bound.
LEMMA InductionUpTo ==
    ASSUME NEW N, N \in Nat, NEW S, 0 \in S, \A n \in 1 .. N : n - 1 \in S => n \in S
    PROVE  0 .. N \subseteq S /\ N \in S
<1> DEFINE T == {n \in Nat : n <= N => n \in S}
<1>1. 0 \in T
  OBVIOUS
<1>2. \A n \in Nat : n \in T => n + 1 \in T
  OBVIOUS
<1>3. Nat \subseteq T
  <2> HIDE DEF T
  <2> QED
    BY <1>1, <1>2, Induction
<1> QED
  BY <1>3

\* A function that begins with a value and goes on by steps.
Walks(g, V, start, N, step) ==
    /\ g \in [0 .. N -> V]
    /\ g[0] = start
    /\ \A i \in 1 .. N : g[i] = step[<<i, g[i - 1]>>]

\* It exists.
LEMMA Recursion ==
    ASSUME NEW V, NEW start, start \in V, NEW N, N \in Nat,
           NEW step, step \in [(1 .. N) \X V -> V]
    PROVE  \E g : Walks(g, V, start, N, step)
<1> DEFINE Good(n, g) == g[0] = start /\ \A i \in 1 .. n : g[i] = step[<<i, g[i - 1]>>]
           Exists(n) == \E g \in [0 .. n -> V] : Good(n, g)
           P == {n \in 0 .. N : Exists(n)}
<1>1. Exists(0)
  <2>1. [i \in 0 .. 0 |-> start] \in [0 .. 0 -> V] /\ Good(0, [i \in 0 .. 0 |-> start])
    OBVIOUS
  <2> QED
    BY <2>1
<1>2. ASSUME NEW n \in 1 .. N, Exists(n - 1) PROVE Exists(n)
  <2>1. PICK g \in [0 .. n - 1 -> V] : Good(n - 1, g)
    BY <1>2
  <2> DEFINE h == [i \in 0 .. n |-> IF i = n THEN step[<<n, g[n - 1]>>] ELSE g[i]]
  <2>2. step[<<n, g[n - 1]>>] \in V
    OBVIOUS
  <2>3. h \in [0 .. n -> V]
    BY <2>2
  <2>4. h[n] = step[<<n, g[n - 1]>>] /\ \A i \in 0 .. n - 1 : h[i] = g[i]
    OBVIOUS
  <2>5. Good(n, h)
    <3> HIDE DEF h
    <3>1. h[0] = start
      BY <2>1, <2>4
    <3>2. ASSUME NEW i \in 1 .. n PROVE h[i] = step[<<i, h[i - 1]>>]
      <4>1. CASE i = n
        BY <2>4, <4>1
      <4>2. CASE i # n
        <5>1. i \in 1 .. n - 1 /\ i \in 0 .. n - 1 /\ i - 1 \in 0 .. n - 1
          BY <4>2
        <5> QED
          BY <2>1, <2>4, <5>1
      <4> QED
        BY <4>1, <4>2
    <3> QED
      BY <3>1, <3>2
  <2> QED
    BY <2>3, <2>5
<1>3. 0 .. N \subseteq P
  <2> HIDE DEF Exists
  <2>1. 0 \in P /\ \A n \in 1 .. N : n - 1 \in P => n \in P
    BY <1>1, <1>2
  <2> HIDE DEF P
  <2> QED
    BY <2>1, InductionUpTo
<1>4. Exists(N)
  <2> HIDE DEF Exists
  <2> QED
    BY <1>3
<1> QED
  BY <1>4 DEF Walks

-----------------------------------------------------------------------------
(* Finite sets as sequences *)

\* The community modules' sequence of a finite set.
LEMMA SetToSeqType ==
    ASSUME NEW S, IsFiniteSet(S)
    PROVE  Cardinality(S) \in Nat /\ SetToSeq(S) \in [1 .. Cardinality(S) -> S]
<1>1. Cardinality(S) \in Nat /\ \E f \in [1 .. Cardinality(S) -> S] : IsInjective(f)
  BY FS_CardinalityType DEF ExistsBijection, Bijection, Injection
<1> QED
  BY <1>1 DEF SetToSeq

\* The image of a finite set is finite.  (FS_Image takes an operator.)
LEMMA ImageIsFinite ==
    ASSUME NEW S, IsFiniteSet(S), NEW T, NEW m \in [S -> T], \A t \in T : \E x \in S : m[x] = t
    PROVE  IsFiniteSet(T)
<1>1. m \in Surjection(S, T) BY DEF Surjection
<1> QED BY <1>1, FS_Surjection

-----------------------------------------------------------------------------
(* Finite sets in order *)

\* In a strict total order on a finite set, the n-th member has n-1 before it:
\* there is exactly one for each n.
StrictOrder(S, R) ==
    /\ \A x \in S : <<x, x>> \notin R
    /\ \A x, y, z \in S : <<x, y>> \in R /\ <<y, z>> \in R => <<x, z>> \in R
    /\ \A x, y \in S : x = y \/ <<x, y>> \in R \/ <<y, x>> \in R

MembersBefore(S, R, x) == Cardinality({y \in S : <<y, x>> \in R})

LEMMA MembersBeforeCount ==
    ASSUME NEW S, IsFiniteSet(S), NEW R, StrictOrder(S, R)
    PROVE  /\ Cardinality(S) \in Nat
           /\ \A x \in S : MembersBefore(S, R, x) \in 0 .. Cardinality(S) - 1
           /\ \A x, y \in S : <<x, y>> \in R => MembersBefore(S, R, x) < MembersBefore(S, R, y)
           /\ \A n \in 0 .. Cardinality(S) - 1 : \E x \in S : MembersBefore(S, R, x) = n
<1> DEFINE Before(x) == {y \in S : <<y, x>> \in R}
           c == Cardinality(S)
           f == [x \in S |-> MembersBefore(S, R, x)]
<1>0. c \in Nat
  BY FS_CardinalityType
<1>1. ASSUME NEW x \in S PROVE /\ IsFiniteSet(Before(x)) /\ MembersBefore(S, R, x) = Cardinality(Before(x))
                               /\ MembersBefore(S, R, x) \in Nat
  <2>1. Before(x) \in SUBSET S
    OBVIOUS
  <2>2. IsFiniteSet(Before(x))
    BY <2>1, FS_Subset
  <2> QED
    BY <2>2, FS_CardinalityType DEF MembersBefore
<1>2. ASSUME NEW x \in S PROVE MembersBefore(S, R, x) < c
  <2>1. Before(x) \in SUBSET S /\ Before(x) # S
    BY DEF StrictOrder
  <2>2. Cardinality(Before(x)) <= c /\ Cardinality(Before(x)) # c
    BY <2>1, FS_Subset
  <2> QED
    BY <1>0, <1>1, <2>2
<1>3. ASSUME NEW x \in S, NEW y \in S, <<x, y>> \in R
      PROVE  MembersBefore(S, R, x) < MembersBefore(S, R, y)
  <2>1. Before(x) \in SUBSET Before(y)
    BY <1>3 DEF StrictOrder
  <2>2. x \in Before(y) /\ x \notin Before(x)
    BY <1>3 DEF StrictOrder
  <2>3. Cardinality(Before(x)) <= Cardinality(Before(y)) /\ Cardinality(Before(x)) # Cardinality(Before(y))
    BY <1>1, <2>1, <2>2, FS_Subset
  <2>4. /\ MembersBefore(S, R, x) \in Nat /\ MembersBefore(S, R, y) \in Nat
        /\ MembersBefore(S, R, x) <= MembersBefore(S, R, y) /\ MembersBefore(S, R, x) # MembersBefore(S, R, y)
    BY <1>1, <2>3
  <2> HIDE DEF Before, c, f
  <2> QED
    BY <2>4
<1>10. ASSUME NEW x \in S PROVE MembersBefore(S, R, x) \in 0 .. c - 1
  <2>1. MembersBefore(S, R, x) \in Nat
    BY <1>1
  <2>2. MembersBefore(S, R, x) < c
    BY <1>2
  <2> HIDE DEF c, f, Before
  <2> QED
    BY <1>0, <2>1, <2>2
<1>4. f \in [S -> 0 .. c - 1]
  BY <1>10
<1>5. ASSUME NEW x \in S, NEW y \in S, f[x] = f[y] PROVE x = y
  <2>1. x = y \/ <<x, y>> \in R \/ <<y, x>> \in R
    BY DEF StrictOrder
  <2>2. MembersBefore(S, R, x) = MembersBefore(S, R, y) /\ MembersBefore(S, R, x) \in Nat
    BY <1>1, <1>5
  <2>3. <<x, y>> \in R => MembersBefore(S, R, x) < MembersBefore(S, R, y)
    BY <1>3
  <2>4. <<y, x>> \in R => MembersBefore(S, R, y) < MembersBefore(S, R, x)
    BY <1>3
  <2> QED
    BY <2>1, <2>2, <2>3, <2>4
<1>6. f \in Injection(S, 0 .. c - 1)
  <2>1. IsInjective(f)
    BY <1>5 DEF IsInjective
  <2> HIDE DEF f
  <2> QED
    BY <1>4, <2>1 DEF Injection
<1>7. IsFiniteSet(0 .. c - 1) /\ Cardinality(0 .. c - 1) = c
  <2>1. 0 \in Int /\ c - 1 \in Int
    BY <1>0
  <2> QED
    BY <1>0, <2>1, FS_Interval
<1>8. f \in Surjection(S, 0 .. c - 1)
  BY <1>6, <1>7, FS_Injection
<1>9. ASSUME NEW n \in 0 .. c - 1 PROVE \E x \in S : MembersBefore(S, R, x) = n
  BY <1>8 DEF Surjection
<1> HIDE DEF f, Before
<1> QED
  BY <1>0, <1>3, <1>9, <1>10
=============================================================================
