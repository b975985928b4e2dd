---------------------------- MODULE FiniteRecursion ----------------------------
(* What the proofs about loops share: the loops of the code are recursive     *)
(* functions of a finite domain in the models, and that such a function is    *)
(* what its equation says is proved by induction on sets of natural numbers.  *)
EXTENDS Integers, WellFoundedInduction, TLAPS

(* A set of naturals that is not empty has a least element.                   *)
LEMMA LeastNat ==
    ASSUME NEW T, T \subseteq Nat, T # {}
    PROVE  \E x \in T : \A y \in T : x <= y
<1>1. IsWellFoundedOn(OpToRel(<, Nat), Nat)
  BY NatLessThanWellFounded
<1>2. \A x, y \in Nat : x < y => <<x, y>> \in OpToRel(<, Nat)
  BY DEF OpToRel
<1>3. \E x \in T : \A y \in T : ~ (<<y, x>> \in OpToRel(<, Nat))
  BY <1>1, WFMin
<1>4. PICK x \in T : \A y \in T : ~ (<<y, x>> \in OpToRel(<, Nat))
  BY <1>3
<1>5. \A y \in T : ~ (y < x)
  BY <1>2, <1>4, Zenon
<1> QED BY <1>5

(* Induction up to n, on the set of the numbers that have a property.         *)
LEMMA UpTo ==
    ASSUME NEW n \in Nat, NEW P \in SUBSET (0 .. n), 0 \in P,
           \A i \in 0 .. n - 1 : i \in P => i + 1 \in P
    PROVE  P = 0 .. n
<1> SUFFICES ASSUME (0 .. n) \ P # {} PROVE FALSE
  OBVIOUS
<1>1. (0 .. n) \ P \subseteq Nat
  OBVIOUS
<1>2. PICK x \in (0 .. n) \ P : \A y \in (0 .. n) \ P : x <= y
  BY <1>1, LeastNat
<1>3. x # 0 /\ x - 1 \in 0 .. n - 1
  BY <1>2
<1>4. x - 1 \in P
  BY <1>2, <1>3
<1>5. (x - 1) + 1 = x
  BY <1>2
<1> QED BY <1>2, <1>3, <1>4, <1>5

(* A function on a set D whose value at d is given by the values of lower     *)
(* rank exists: Body[d][f] is what the equation makes of f at d.              *)
Ranked(D, V, n, rank, Body) ==
    /\ V # {} /\ n \in Nat
    /\ rank \in [D -> 0 .. n] /\ Body \in [D -> [[D -> V] -> V]]
    /\ \A d \in D : \A f, g \in [D -> V] :
          (\A e \in D : rank[e] < rank[d] => f[e] = g[e]) => Body[d][f] = Body[d][g]
Solves(h, D, V, Body) == h \in [D -> V] /\ \A d \in D : h[d] = Body[d][h]

LEMMA Recursion ==
    ASSUME NEW D, NEW V, NEW n, NEW rank, NEW Body, Ranked(D, V, n, rank, Body)
    PROVE  \E h : Solves(h, D, V, Body)
<1>0. /\ V # {} /\ n \in Nat
      /\ rank \in [D -> 0 .. n] /\ Body \in [D -> [[D -> V] -> V]]
      /\ \A d \in D : \A f, g \in [D -> V] :
            (\A e \in D : rank[e] < rank[d] => f[e] = g[e]) => Body[d][f] = Body[d][g]
  BY DEF Ranked
<1> USE <1>0
<1> DEFINE P == {m \in 0 .. n + 1 :
                   \E h \in [D -> V] : \A d \in D : rank[d] < m => h[d] = Body[d][h]}
<1>1. 0 \in P
  <2>1. PICK v \in V : TRUE
    OBVIOUS
  <2> DEFINE c == [d \in D |-> v]
  <2>2. c \in [D -> V]
    BY <2>1
  <2>3. \A d \in D : rank[d] \in 0 .. n
    OBVIOUS
  <2>4. \A d \in D : ~ (rank[d] < 0)
    BY <2>3
  <2>5. 0 \in 0 .. n + 1
    OBVIOUS
  <2> HIDE DEF c
  <2> QED BY <2>2, <2>4, <2>5
<1>2. ASSUME NEW m \in 0 .. n, m \in P
      PROVE  m + 1 \in P
  <2>1. PICK h \in [D -> V] : \A d \in D : rank[d] < m => h[d] = Body[d][h]
    BY <1>2
  <2> DEFINE k == [d \in D |-> IF rank[d] < m THEN h[d] ELSE Body[d][h]]
  <2>2. k \in [D -> V]
    OBVIOUS
  <2>3. \A d \in D : rank[d] < m => k[d] = h[d]
    OBVIOUS
  <2>4. \A d \in D : ~ (rank[d] < m) => k[d] = Body[d][h]
    OBVIOUS
  <2> HIDE DEF k
  <2>5. ASSUME NEW d \in D, rank[d] < m + 1
        PROVE  k[d] = Body[d][k]
    <3>1. rank[d] \in Nat /\ m \in Nat /\ \A e \in D : rank[e] \in Nat
      OBVIOUS
    <3>2. \A e \in D : rank[e] < rank[d] => h[e] = k[e]
      BY <2>3, <2>5, <3>1
    <3>3. Body[d][h] = Body[d][k]
      BY <2>2, <3>2
    <3>4. k[d] = Body[d][h]
      BY <2>1, <2>3, <2>4
    <3> QED BY <3>3, <3>4
  <2> QED BY <2>2, <2>5
<1>3. P = 0 .. n + 1
  <2>1. \A i \in 0 .. (n + 1) - 1 : i \in P => i + 1 \in P
    <3>1. (n + 1) - 1 = n
      OBVIOUS
    <3> HIDE DEF P
    <3> QED BY <1>2, <3>1
  <2>2. P \in SUBSET (0 .. n + 1) /\ n + 1 \in Nat
    OBVIOUS
  <2> HIDE DEF P
  <2> QED BY <1>1, <2>1, <2>2, UpTo
<1>4. n + 1 \in P
  <2>1. n + 1 \in 0 .. n + 1
    OBVIOUS
  <2> HIDE DEF P
  <2> QED BY <1>3, <2>1
<1>5. \A d \in D : rank[d] < n + 1
  <2>1. \A d \in D : rank[d] \in 0 .. n
    OBVIOUS
  <2> QED BY <2>1
<1>6. \E h \in [D -> V] : \A d \in D : h[d] = Body[d][h]
  BY <1>4, <1>5
<1> QED BY <1>6 DEF Solves

(* The states of a loop that starts in v and makes the step F up to n times.  *)
Repeats(h, V, v, F, n) ==
    h \in [0 .. n -> V] /\ \A k \in 0 .. n : h[k] = IF k = 0 THEN v ELSE F[h[k - 1]]

LEMMA Repetition ==
    ASSUME NEW V, NEW v \in V, NEW F \in [V -> V], NEW n \in Nat
    PROVE  \E h : Repeats(h, V, v, F, n)
<1> DEFINE D == 0 .. n
           rank == [k \in D |-> k]
           Body == [k \in D |-> [f \in [D -> V] |-> IF k = 0 THEN v ELSE F[f[k - 1]]]]
<1>1. ASSUME NEW k \in D, k # 0
      PROVE  k - 1 \in D /\ rank[k - 1] < rank[k]
  BY <1>1
<1>2. rank \in [D -> 0 .. n]
  OBVIOUS
<1>3. ASSUME NEW k \in D, NEW f \in [D -> V]
      PROVE  (IF k = 0 THEN v ELSE F[f[k - 1]]) \in V
  BY <1>1
<1>4. Body \in [D -> [[D -> V] -> V]]
  BY <1>3
<1>5. \A k \in D : \A f \in [D -> V] : Body[k][f] = IF k = 0 THEN v ELSE F[f[k - 1]]
  OBVIOUS
<1> HIDE DEF D, rank, Body
<1>6. \A k \in D : \A f, g \in [D -> V] :
         (\A e \in D : rank[e] < rank[k] => f[e] = g[e]) => Body[k][f] = Body[k][g]
  BY <1>1, <1>5
<1>7. Ranked(D, V, n, rank, Body)
  BY <1>2, <1>4, <1>6 DEF Ranked
<1>8. PICK h : Solves(h, D, V, Body)
  BY <1>7, Recursion
<1>9. h \in [D -> V] /\ \A k \in D : h[k] = IF k = 0 THEN v ELSE F[h[k - 1]]
  BY <1>5, <1>8 DEF Solves
<1> QED BY <1>9 DEF D, Repeats

(* The states of a loop over 1 .. n whose step k makes F[k].                  *)
Passes(h, V, v, F, n) ==
    h \in [0 .. n -> V] /\ \A k \in 0 .. n : h[k] = IF k = 0 THEN v ELSE F[k][h[k - 1]]

LEMMA Iteration ==
    ASSUME NEW V, NEW v \in V, NEW n \in Nat, NEW F \in [1 .. n -> [V -> V]]
    PROVE  \E h : Passes(h, V, v, F, n)
<1> DEFINE D == 0 .. n
           rank == [k \in D |-> k]
           Body == [k \in D |-> [f \in [D -> V] |-> IF k = 0 THEN v ELSE F[k][f[k - 1]]]]
<1>1. ASSUME NEW k \in D, k # 0
      PROVE  k - 1 \in D /\ k \in 1 .. n /\ rank[k - 1] < rank[k]
  BY <1>1
<1>2. rank \in [D -> 0 .. n]
  OBVIOUS
<1>3. ASSUME NEW k \in D, NEW f \in [D -> V]
      PROVE  (IF k = 0 THEN v ELSE F[k][f[k - 1]]) \in V
  BY <1>1
<1>4. Body \in [D -> [[D -> V] -> V]]
  BY <1>3
<1>5. \A k \in D : \A f \in [D -> V] : Body[k][f] = IF k = 0 THEN v ELSE F[k][f[k - 1]]
  OBVIOUS
<1> HIDE DEF D, rank, Body
<1>6. \A k \in D : \A f, g \in [D -> V] :
         (\A e \in D : rank[e] < rank[k] => f[e] = g[e]) => Body[k][f] = Body[k][g]
  BY <1>1, <1>5
<1>7. Ranked(D, V, n, rank, Body)
  BY <1>2, <1>4, <1>6 DEF Ranked
<1>8. PICK h : Solves(h, D, V, Body)
  BY <1>7, Recursion
<1>9. h \in [D -> V] /\ \A k \in D : h[k] = IF k = 0 THEN v ELSE F[k][h[k - 1]]
  BY <1>5, <1>8 DEF Solves
<1> QED BY <1>9 DEF D, Passes
================================================================================
