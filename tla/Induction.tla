----------------------------- MODULE Induction -----------------------------
(***************************************************************************)
(* Induction over numbers for sets instead of predicates, and the functions *)
(* it defines: what the modules with a pass over a sequence (Cleaner,      *)
(* Outbox) need to be proved about.                                        *)
(***************************************************************************)
EXTENDS WellFoundedInduction, TLAPS

\* A set of numbers has a least one.
LEMMA LeastNumber ==
  ASSUME NEW T, T \subseteq Nat, T # {}
  PROVE  \E x \in T : \A y \in T : x <= y
<1>. DEFINE R == OpToRel(<, Nat)
<1>1. IsWellFoundedOn(R, Nat)
  BY NatLessThanWellFounded
<1>. HIDE DEF R
<1>2. PICK x \in T : \A y \in T : ~ (<<y, x>> \in R)
  BY <1>1, WFMin
<1>3. ASSUME NEW y \in T PROVE x <= y
  <2>1. x \in Nat /\ y \in Nat
    OBVIOUS
  <2>2. <<y, x>> \notin R
    BY <1>2
  <2>3. ~(y < x)
    BY <2>1, <2>2 DEF R, OpToRel
  <2>. QED BY <2>1, <2>3
<1>. QED BY <1>3

\* A set that has 0, and with every number below N the next one, has all up to N.
LEMMA IntervalInduction ==
  ASSUME NEW N \in Nat, NEW T, 0 \in T,
         \A n \in Nat : n < N /\ n \in T => n + 1 \in T
  PROVE  0 .. N \subseteq T
<1>. SUFFICES ASSUME (0 .. N) \ T # {} PROVE FALSE
  OBVIOUS
<1>. DEFINE Missing == (0 .. N) \ T
<1>0. Missing \subseteq Nat /\ Missing # {}
  OBVIOUS
<1>. HIDE DEF Missing
<1>1. PICK n \in Missing : \A m \in Missing : n <= m
  BY <1>0, LeastNumber
<1>. USE DEF Missing
<1>2. n # 0
  OBVIOUS
<1>3. n - 1 \in 0 .. N /\ n - 1 \in Nat /\ n - 1 < N
  BY <1>2
<1>4. n - 1 \in T
  BY <1>1, <1>3
<1>5. (n - 1) + 1 \in T
  BY <1>3, <1>4
<1>. QED BY <1>5

\* f follows a pass of F over a sequence.
Computes(f, N, first, F, seq) ==
  f[0] = first /\ \A n \in 1 .. N : f[n] = F[f[n - 1]][seq[n]]

\* There is a function that is computed from its value one before and the
\* element there.
LEMMA RecursionIsDefined ==
  ASSUME NEW N \in Nat, NEW first, NEW F, NEW seq
  PROVE  \E f : Computes(f, N, first, F, seq)
<1>. DEFINE Value(f, n) == IF n = 0 THEN first ELSE F[f[n - 1]][seq[n]]
            T == {m \in 0 .. N : \E f : f = [n \in 0 .. m |-> Value(f, n)]}
<1>1. 0 \in T
  <2>. DEFINE f == [n \in 0 .. 0 |-> first]
  <2>1. f = [n \in 0 .. 0 |-> Value(f, n)]
    OBVIOUS
  <2>2. \E g : g = [n \in 0 .. 0 |-> Value(g, n)]
    BY <2>1
  <2>. QED BY <2>2
<1>2. ASSUME NEW m \in Nat, m < N, m \in T PROVE m + 1 \in T
  <2>1. PICK f : f = [n \in 0 .. m |-> Value(f, n)]
    BY <1>2
  <2>. DEFINE g == [n \in 0 .. m + 1 |-> IF n <= m THEN f[n] ELSE F[f[m]][seq[m + 1]]]
  <2>2. ASSUME NEW n \in 0 .. m + 1
        PROVE  g[n] = Value(g, n)
    <3>1. CASE n = 0
      <4>1. g[n] = f[n] /\ f[n] = Value(f, n)
        BY <2>1, <3>1
      <4>. QED BY <4>1, <3>1
    <3>2. CASE n \in 1 .. m
      <4>1. g[n] = f[n] /\ g[n - 1] = f[n - 1] /\ n # 0 /\ n \in 0 .. m
        BY <3>2
      <4>2. f[n] = Value(f, n)
        BY <2>1, <4>1
      <4>. QED BY <4>1, <4>2
    <3>3. CASE n = m + 1
      <4>1. g[n] = F[f[m]][seq[m + 1]] /\ g[n - 1] = f[m] /\ n # 0
        BY <3>3
      <4>. QED BY <4>1, <3>3
    <3>4. n = 0 \/ n \in 1 .. m \/ n = m + 1
      OBVIOUS
    <3>. QED BY <3>1, <3>2, <3>3, <3>4
  <2>3. g = [n \in 0 .. m + 1 |-> g[n]]
    OBVIOUS
  <2>. HIDE DEF g, Value
  <2>4. g = [n \in 0 .. m + 1 |-> Value(g, n)]
    BY <2>2, <2>3
  <2>5. m + 1 \in 0 .. N
    BY <1>2
  <2>. QED BY <2>4, <2>5
<1>. HIDE DEF T, Value
<1>3. 0 .. N \subseteq T
  BY <1>1, <1>2, IntervalInduction
<1>4. N \in T
  BY <1>3
<1>5. PICK f : f = [n \in 0 .. N |-> Value(f, n)]
  BY <1>4 DEF T
<1>6. \A n \in 0 .. N : f[n] = Value(f, n)
  BY <1>5
<1>7. f[0] = first
  BY <1>6 DEF Value
<1>8. ASSUME NEW n \in 1 .. N PROVE f[n] = F[f[n - 1]][seq[n]]
  <2>1. n \in 0 .. N /\ n # 0
    OBVIOUS
  <2>. QED BY <1>6, <2>1 DEF Value
<1>. QED BY <1>7, <1>8 DEF Computes

\* The function a recursive definition over a sequence chooses.
LEMMA RecursionComputes ==
  ASSUME NEW N \in Nat, NEW first, NEW F, NEW seq, NEW f,
         f = CHOOSE g : g = [n \in 0 .. N |-> IF n = 0 THEN first ELSE F[g[n - 1]][seq[n]]]
  PROVE  Computes(f, N, first, F, seq)
<1>. DEFINE Table(g) == [n \in 0 .. N |-> IF n = 0 THEN first ELSE F[g[n - 1]][seq[n]]]
<1>1. \E g : g = Table(g)
  <2>1. PICK h : Computes(h, N, first, F, seq)
    BY RecursionIsDefined, Zenon
  <2>2. h[0] = first /\ \A n \in 1 .. N : h[n] = F[h[n - 1]][seq[n]]
    BY <2>1 DEF Computes
  <2>. DEFINE g == [n \in 0 .. N |-> h[n]]
  <2>3. ASSUME NEW n \in 0 .. N
        PROVE  g[n] = IF n = 0 THEN first ELSE F[g[n - 1]][seq[n]]
    <3>1. CASE n = 0
      BY <2>2, <3>1
    <3>2. CASE n # 0
      <4>1. n \in 1 .. N /\ n - 1 \in 0 .. N
        BY <3>2
      <4>2. g[n] = h[n] /\ g[n - 1] = h[n - 1]
        BY <4>1
      <4>. QED BY <2>2, <3>2, <4>1, <4>2
    <3>. QED BY <3>1, <3>2
  <2>4. g = [n \in 0 .. N |-> g[n]]
    OBVIOUS
  <2>. HIDE DEF g
  <2>5. g = Table(g)
    BY <2>3, <2>4
  <2>. QED BY <2>5
<1>2. f = CHOOSE g : g = Table(g)
  OBVIOUS
<1>. HIDE DEF Table
<1>3. f = Table(f)
  BY <1>1, <1>2
<1>4. f[0] = first
  BY <1>3 DEF Table
<1>5. ASSUME NEW n \in 1 .. N PROVE f[n] = F[f[n - 1]][seq[n]]
  <2>1. n \in 0 .. N /\ n # 0
    OBVIOUS
  <2>. QED BY <1>3, <2>1 DEF Table
<1>. QED BY <1>4, <1>5 DEF Computes
=============================================================================
