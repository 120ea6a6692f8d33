-------------------------------- MODULE Recursion --------------------------------
(***************************************************************************)
(* Induction, and what it says of two recursive definitions: a function    *)
(* iterated a number of times, and a sum over a finite set.                *)
(*                                                                         *)
(* The principles are stated for a set Q of the numbers or sets that have  *)
(* the property: a proof defines Q and cites them.  All rest on the least  *)
(* element of a set of naturals.                                           *)
(***************************************************************************)
EXTENDS Integers, FiniteSets, FiniteSetTheorems, WellFoundedInduction, TLAPS

\* A set of naturals has a least element.
LEMMA LeastNat ==
  ASSUME NEW T, T \subseteq Nat, T # {}
  PROVE  \E x \in T : \A y \in T : x <= y
<1> DEFINE R == OpToRel(<, Nat)
<1>1. IsWellFoundedOn(R, Nat)
  BY NatLessThanWellFounded
<1>2. \A y \in Nat, x \in Nat : y < x => <<y, x>> \in R
  BY DEF OpToRel
<1> HIDE DEF R
<1>3. PICK x \in T : \A y \in T : <<y, x>> \notin R
  BY <1>1, WFMin
<1>4. ASSUME NEW y \in T PROVE x <= y
  <2>1. x \in Nat /\ y \in Nat /\ ~(y < x)
    BY <1>2, <1>3
  <2> QED BY <2>1
<1> QED BY <1>4

\* What holds of zero and of the next of each natural it holds of, holds of all.
LEMMA NatInd ==
  ASSUME NEW Q, 0 \in Q, \A n \in Nat : n \in Q => n + 1 \in Q
  PROVE  Nat \subseteq Q
<1> DEFINE T == {n \in Nat : n \notin Q}
<1> SUFFICES ASSUME T # {} PROVE FALSE
  OBVIOUS
<1>1. PICK x \in T : \A y \in T : x <= y
  BY LeastNat
<1>2. x # 0 /\ x - 1 \in Nat
  BY <1>1
<1>3. x - 1 \notin T
  BY <1>1, <1>2
<1>4. (x - 1) + 1 \in Q
  BY <1>2, <1>3
<1> QED BY <1>4, <1>1

\* What holds of the empty set, and of each set that it holds of without any one of its
\* elements, holds of all subsets of a finite set.
LEMMA SubsetInd ==
  ASSUME NEW S, IsFiniteSet(S), NEW Q, {} \in Q,
         \A s \in SUBSET S : s # {} /\ (\A x \in s : s \ {x} \in Q) => s \in Q
  PROVE  SUBSET S \subseteq Q
<1> DEFINE bad == {s \in SUBSET S : s \notin Q}
           T == {Cardinality(s) : s \in bad}
<1> SUFFICES ASSUME bad # {} PROVE FALSE
  OBVIOUS
<1>1. \A s \in SUBSET S : IsFiniteSet(s) /\ Cardinality(s) \in Nat
  BY FS_Subset, FS_CardinalityType
<1>2. T \subseteq Nat /\ T # {}
  BY <1>1
<1>3. PICK n \in T : \A m \in T : n <= m
  BY <1>2, LeastNat
<1>4. PICK s \in bad : n = Cardinality(s)
  OBVIOUS
<1>5. ASSUME NEW x \in s PROVE s \ {x} \in Q
  <2>1. Cardinality(s \ {x}) = n - 1 /\ s \ {x} \in SUBSET S
    BY <1>1, <1>4, <1>5, FS_RemoveElement
  <2>2. n - 1 \notin T
    BY <1>2, <1>3
  <2> QED BY <2>1, <2>2
<1> QED BY <1>4, <1>5

\* The image of a finite set is finite.
LEMMA FiniteImage ==
  ASSUME NEW S, IsFiniteSet(S), NEW f, DOMAIN f = S
  PROVE  IsFiniteSet({f[x] : x \in S})
<1> DEFINE T == {f[x] : x \in S}
           g == [x \in S |-> f[x]]
<1>1. g \in Surjection(S, T)
  BY DEF Surjection
<1> HIDE DEF T, g
<1>2. IsFiniteSet(T)
  BY <1>1, FS_Surjection
<1> QED BY <1>2 DEF T

\* A function can be iterated any number of times.
Iterated(f, a, step, n) == f = [k \in 0 .. n |-> IF k = 0 THEN a ELSE step[f[k-1]]]

LEMMA Iterates ==
  ASSUME NEW S, NEW a \in S, NEW step \in [S -> S], NEW n \in Nat
  PROVE  \E f \in [0 .. n -> S] : Iterated(f, a, step, n)
<1> DEFINE Is(f, m) == /\ f \in [0 .. m -> S]
                       /\ f = [k \in 0 .. m |-> IF k = 0 THEN a ELSE step[f[k-1]]]
           Q == {m \in Nat : \E f : Is(f, m)}
<1>1. 0 \in Q
  <2>1. Is([k \in 0 .. 0 |-> a], 0)
    OBVIOUS
  <2> QED BY <2>1
<1>2. ASSUME NEW m \in Nat, m \in Q PROVE m + 1 \in Q
  <2>1. PICK f : Is(f, m)
    BY <1>2
  <2> DEFINE g == [k \in 0 .. m + 1 |-> IF k = 0 THEN a ELSE step[f[k-1]]]
  <2>2. ASSUME NEW k \in 0 .. m PROVE g[k] = f[k] /\ f[k] \in S
    <3>1. k \in 0 .. m + 1
      OBVIOUS
    <3> QED BY <2>1, <3>1
  <2>3. ASSUME NEW k \in 0 .. m + 1
        PROVE  g[k] = (IF k = 0 THEN a ELSE step[g[k-1]]) /\ g[k] \in S
    <3>1. CASE k = 0
      BY <3>1
    <3>2. CASE k # 0
      <4>1. k - 1 \in 0 .. m /\ g[k] = step[f[k-1]]
        BY <3>2
      <4>2. g[k-1] = f[k-1] /\ f[k-1] \in S
        BY <2>2, <4>1
      <4> HIDE DEF g
      <4> QED BY <3>2, <4>1, <4>2
    <3> QED BY <3>1, <3>2
  <2>4. g = [k \in 0 .. m + 1 |-> g[k]]
    OBVIOUS
  <2> HIDE DEF g
  <2>5. g = [k \in 0 .. m + 1 |-> IF k = 0 THEN a ELSE step[g[k-1]]]
    BY <2>3, <2>4
  <2>6. g \in [0 .. m + 1 -> S]
    BY <2>3, <2>4
  <2> QED BY <2>5, <2>6
<1>3. n \in Q
  <2> HIDE DEF Q
  <2> QED BY <1>1, <1>2, NatInd
<1> QED BY <1>3 DEF Iterated

--------------------------------------------------------------------------------
(***************************************************************************)
(* Sums of the weights w[x] over a finite set, as the folds of the         *)
(* community modules compute them: one chosen element after the other.     *)
(***************************************************************************)
Pick(s) == CHOOSE x \in s : TRUE

\* g says of every subset of S what the weights of its elements add up to.
SumsTo(g, w, S) ==
  \A s \in SUBSET S : g[s] = IF s = {} THEN 0 ELSE w[Pick(s)] + g[s \ {Pick(s)}]
Sums(g, w, S) == g \in [SUBSET S -> Nat] /\ SumsTo(g, w, S)
Sum(w, S) == (CHOOSE g : Sums(g, w, S))[S]

LEMMA PickIn == ASSUME NEW s, s # {} PROVE Pick(s) \in s
BY DEF Pick

\* Two such functions agree on the sets they have in common.
LEMMA SumUnique ==
  ASSUME NEW w, NEW S, NEW T, NEW g, NEW h, SumsTo(g, w, S), SumsTo(h, w, T),
         NEW s \in (SUBSET S) \cap (SUBSET T), IsFiniteSet(s)
  PROVE  g[s] = h[s]
<1> DEFINE Q == {t \in SUBSET s : g[t] = h[t]}
<1>1. {} \in Q
  BY DEF SumsTo
<1>2. ASSUME NEW t \in SUBSET s, t # {}, \A x \in t : t \ {x} \in Q PROVE t \in Q
  <2>1. g[t \ {Pick(t)}] = h[t \ {Pick(t)}]
    BY <1>2, PickIn
  <2>2. t \in SUBSET S /\ t \in SUBSET T
    BY <1>2
  <2>3. g[t] = w[Pick(t)] + g[t \ {Pick(t)}]
    BY <1>2, <2>2 DEF SumsTo
  <2>4. h[t] = w[Pick(t)] + h[t \ {Pick(t)}]
    BY <1>2, <2>2 DEF SumsTo
  <2> QED BY <1>2, <2>1, <2>3, <2>4
<1>3. SUBSET s \subseteq Q
  <2> HIDE DEF Q
  <2> QED BY <1>1, <1>2, SubsetInd
<1> QED BY <1>3

\* What a function for S says of a subset is its sum.
LEMMA SumWithin ==
  ASSUME NEW w, NEW S, IsFiniteSet(S), NEW g, Sums(g, w, S), NEW s \in SUBSET S
  PROVE  g[s] = Sum(w, s) /\ Sum(w, s) \in Nat
<1> DEFINE h == [t \in SUBSET s |-> g[t]]
<1>1. Sums(h, w, s)
  <2>1. ASSUME NEW t \in SUBSET s
        PROVE  h[t] = IF t = {} THEN 0 ELSE w[Pick(t)] + h[t \ {Pick(t)}]
    <3>1. t \in SUBSET S /\ t \ {Pick(t)} \in SUBSET s
      OBVIOUS
    <3>2. g[t] = IF t = {} THEN 0 ELSE w[Pick(t)] + g[t \ {Pick(t)}]
      BY <3>1 DEF Sums, SumsTo
    <3> QED BY <3>1, <3>2
  <2>2. h \in [SUBSET s -> Nat]
    BY DEF Sums
  <2> HIDE DEF h
  <2> QED BY <2>1, <2>2 DEF Sums, SumsTo
<1> DEFINE c == CHOOSE f : Sums(f, w, s)
<1>2. Sums(c, w, s)
  BY <1>1
<1>3. IsFiniteSet(s)
  BY FS_Subset
<1>4. g[s] = c[s]
  <2> HIDE DEF c
  <2>1. SumsTo(g, w, S) /\ SumsTo(c, w, s) /\ s \in (SUBSET S) \cap (SUBSET s)
    BY <1>2 DEF Sums
  <2> QED BY <2>1, <1>3, SumUnique
<1>5. g[s] \in Nat
  BY DEF Sums
<1> QED BY <1>4, <1>5 DEF Sum

\* There is such a function for every finite set.
LEMMA SumExists ==
  ASSUME NEW D, NEW w \in [D -> Nat], NEW S \in SUBSET D, IsFiniteSet(S)
  PROVE  \E g : Sums(g, w, S)
<1> DEFINE Q == {s \in SUBSET S : \E g : Sums(g, w, s)}
<1>1. {} \in Q
  <2>1. Sums([s \in SUBSET {} |-> 0], w, {})
    BY DEF Sums, SumsTo
  <2> QED BY <2>1
<1>2. ASSUME NEW s \in SUBSET S, s # {}, \A x \in s : s \ {x} \in Q PROVE s \in Q
  <2> DEFINE g == [t \in SUBSET s |-> IF t = {} THEN 0 ELSE w[Pick(t)] + Sum(w, t \ {Pick(t)})]
  <2>1. ASSUME NEW t \in SUBSET s, t # s
        PROVE  /\ g[t] = Sum(w, t) /\ Sum(w, t) \in Nat
    <3>1. PICK x \in s : x \notin t
      BY <2>1
    <3>2. PICK f : Sums(f, w, s \ {x})
      BY <1>2
    <3>3. IsFiniteSet(s \ {x}) /\ t \in SUBSET (s \ {x}) /\ t \ {Pick(t)} \in SUBSET (s \ {x})
      BY <2>1, <3>1, FS_Subset
    <3>4. f[t] = Sum(w, t) /\ Sum(w, t) \in Nat
      BY <3>2, <3>3, SumWithin
    <3>6. f[t \ {Pick(t)}] = Sum(w, t \ {Pick(t)})
      <4> DEFINE r == t \ {Pick(t)}
      <4>1. r \in SUBSET (s \ {x})
        BY <3>3
      <4> HIDE DEF r
      <4> QED BY <3>2, <3>3, <4>1, SumWithin
    <3>5. f[t] = IF t = {} THEN 0 ELSE w[Pick(t)] + f[t \ {Pick(t)}]
      BY <3>2, <3>3 DEF Sums, SumsTo
    <3> QED BY <3>4, <3>5, <3>6
  <2>2. ASSUME NEW t \in SUBSET s, t # {}
        PROVE  /\ g[t] = w[Pick(t)] + g[t \ {Pick(t)}]
               /\ g[t] \in Nat
    <3>1. t \ {Pick(t)} \in SUBSET s /\ t \ {Pick(t)} # s /\ Pick(t) \in D
      BY <2>2, PickIn
    <3>2. g[t \ {Pick(t)}] = Sum(w, t \ {Pick(t)}) /\ Sum(w, t \ {Pick(t)}) \in Nat
      BY <2>1, <3>1
    <3>3. w[Pick(t)] \in Nat
      BY <3>1
    <3>4. g[t] = w[Pick(t)] + Sum(w, t \ {Pick(t)})
      BY <2>2
    <3> HIDE DEF g
    <3> QED BY <3>2, <3>3, <3>4
  <2>3. g[{}] = 0
    OBVIOUS
  <2>4. g \in [SUBSET s -> Nat]
    <3>1. \A t \in SUBSET s : g[t] \in Nat
      <4> HIDE DEF g
      <4>1. ASSUME NEW t \in SUBSET s PROVE g[t] \in Nat
        <5>1. CASE t = {}
          BY <2>3, <5>1
        <5>2. CASE t # {}
          BY <2>2, <5>2
        <5> QED BY <5>1, <5>2
      <4> QED BY <4>1
    <3>2. g = [t \in SUBSET s |-> g[t]]
      OBVIOUS
    <3> HIDE DEF g
    <3> QED BY <3>1, <3>2
  <2> HIDE DEF g
  <2>5. Sums(g, w, s)
    BY <2>2, <2>3, <2>4 DEF Sums, SumsTo
  <2> QED BY <2>5
<1>3. SUBSET S \subseteq Q
  <2> HIDE DEF Q
  <2> QED BY <1>1, <1>2, SubsetInd
<1> QED BY <1>3

\* The sum does not depend on the order in which the elements are chosen.
LEMMA SumAdd ==
  ASSUME NEW D, NEW w \in [D -> Nat], NEW S \in SUBSET D, IsFiniteSet(S), NEW x \in D \ S
  PROVE  Sum(w, S \cup {x}) = Sum(w, S) + w[x] /\ Sum(w, S) \in Nat
<1> DEFINE U == S \cup {x}
<1>1. IsFiniteSet(U)
  BY FS_AddElement
<1>2. PICK g : Sums(g, w, U)
  BY <1>1, SumExists
<1>3. \A s \in SUBSET U : g[s] = Sum(w, s) /\ g[s] \in Nat
  BY <1>1, <1>2, SumWithin
<1> DEFINE Q == {s \in SUBSET U : \A y \in U \ s : g[s \cup {y}] = g[s] + w[y]}
<1>w. \A y \in U : w[y] \in Nat
  OBVIOUS
<1>4. ASSUME NEW s \in SUBSET U, \A z \in s : s \ {z} \in Q PROVE s \in Q
  <2> SUFFICES ASSUME NEW y \in U \ s PROVE g[s \cup {y}] = g[s] + w[y]
    OBVIOUS
  <2> DEFINE t == s \cup {y}
             c == Pick(t)
  <2>1. c \in t /\ g[t] = w[c] + g[t \ {c}]
    BY <1>2, PickIn DEF Sums, SumsTo
  <2>2. g[s] \in Nat /\ w[y] \in Nat
    BY <1>3, <1>w
  <2>3. CASE c = y
    <3>1. t \ {c} = s
      BY <2>3
    <3> HIDE DEF t, c
    <3> QED BY <2>1, <2>2, <2>3, <3>1 DEF t
  <2>4. CASE c \in s
    <3> DEFINE r == s \ {c}
    <3>1. t \ {c} = r \cup {y} /\ y \in U \ r /\ c \in U \ r /\ r \cup {c} = s /\ r \in Q
      BY <1>4, <2>4
    <3>2. g[r \cup {y}] = g[r] + w[y] /\ g[s] = g[r] + w[c]
      BY <3>1
    <3>3. g[r] \in Nat /\ w[c] \in Nat
      BY <1>3, <1>w, <2>4
    <3> HIDE DEF t, c, r
    <3> QED BY <2>1, <2>2, <3>1, <3>2, <3>3 DEF t
  <2> HIDE DEF c
  <2> QED BY <2>1, <2>3, <2>4
<1>5. SUBSET U \subseteq Q
  <2>1. {} \in Q
    BY <1>4
  <2>2. \A s \in SUBSET U : s # {} /\ (\A z \in s : s \ {z} \in Q) => s \in Q
    BY <1>4
  <2> HIDE DEF Q, U
  <2> QED BY <1>1, <2>1, <2>2, SubsetInd
<1>6. g[U] = g[S] + w[x]
  BY <1>5
<1> QED BY <1>3, <1>6

LEMMA SumEmpty == ASSUME NEW D, NEW w \in [D -> Nat] PROVE Sum(w, {}) = 0
<1>1. IsFiniteSet({}) /\ {} \in SUBSET D
  BY FS_EmptySet
<1>2. PICK g : Sums(g, w, {})
  BY <1>1, SumExists
<1>3. g[{}] = 0
  BY <1>2 DEF Sums, SumsTo
<1> QED BY <1>1, <1>2, <1>3, SumWithin

LEMMA SumNat ==
  ASSUME NEW D, NEW w \in [D -> Nat], NEW S \in SUBSET D, IsFiniteSet(S)
  PROVE  Sum(w, S) \in Nat
<1>1. PICK g : Sums(g, w, S)
  BY SumExists
<1> QED BY <1>1, SumWithin
================================================================================
