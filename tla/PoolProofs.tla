----------------------------- MODULE PoolProofs -----------------------------
(***************************************************************************)
(* Facts about numbers, finite sets and sequences that the proofs of the   *)
(* engine share; then what the hashes of kv_cache_utils.py are, and what   *)
(* the methods of BlockPool (block_pool.py) do to a pool whose free list   *)
(* and hash table are right.                                               *)
(*                                                                         *)
(* Induction is by least counterexample: the numbers for which a statement *)
(* fails form a set, and a set of natural numbers that is not empty has a  *)
(* least member.                                                           *)
(***************************************************************************)
EXTENDS BlockPool, WellFoundedInduction, TLAPS

USE SMTT(30), Z3T(30), ZenonT(30)

-----------------------------------------------------------------------------
(* Induction and recursion.                                                 *)

\* Every set of natural numbers that is not empty has a least member.
LEMMA Least ==
    ASSUME NEW T, T \subseteq Nat, T # {}
    PROVE  \E n \in T : \A m \in T : n <= m
  <1> DEFINE R == OpToRel(<, Nat)
  <1>1. IsWellFoundedOn(R, Nat)
    BY ZenonT(30), NatLessThanWellFounded
  <1>2. \A x, y \in Nat : <<y, x>> \in R <=> y < x
    BY Zenon DEF OpToRel
  <1> HIDE DEF R
  <1>3. \E x \in T : \A y \in T : ~(<<y, x>> \in R)
    BY ZenonT(30), <1>1, WFMin
  <1>4. PICK x \in T : \A y \in T : ~(<<y, x>> \in R)
    BY <1>3
  <1>5. x \in Nat
    BY <1>4
  <1>6. ASSUME NEW m \in T PROVE x <= m
    <2>1. m \in Nat
      OBVIOUS
    <2>2. ~(m < x)
      BY ZenonT(30), <1>2, <1>4, <1>5, <2>1
    <2> QED
      BY <2>1, <1>5, <2>2
  <1> QED
    BY <1>4, <1>6

\* A set that holds 0, and each number up to n after the one before it, holds
\* all numbers up to n.
LEMMA UpTo ==
    ASSUME NEW n \in Nat, NEW T, 0 \in T, \A i \in 1..n : i - 1 \in T => i \in T
    PROVE  0..n \subseteq T
  <1> SUFFICES ASSUME 0..n \ T # {} PROVE FALSE
    OBVIOUS
  <1>1. 0..n \ T \subseteq Nat
    OBVIOUS
  <1>2. PICK m \in 0..n \ T : \A k \in 0..n \ T : m <= k
    BY ZenonT(30), <1>1, Least
  <1>3. m \in 1..n /\ m - 1 \in 0..n /\ ~(m <= m - 1)
    BY <1>2
  <1> QED
    BY <1>2, <1>3

\* F has n + 1 values in D, each made from the one before it by step.
Iterated(F, n, D, base, step) ==
    /\ F \in [0..n -> D]
    /\ F[0] = base
    /\ \A i \in 1..n : F[i] = step[i][F[i - 1]]

\* There is such a function: what a recursive definition over 0..n rests on.
LEMMA Iterates ==
    ASSUME NEW D, NEW n \in Nat, NEW base \in D, NEW step \in [1..n -> [D -> D]]
    PROVE  \E F : Iterated(F, n, D, base, step)
  <1> DEFINE Good(F, k) == F[0] = base /\ \A i \in 1..k : F[i] = step[i][F[i - 1]]
             T == {k \in 0..n : \E F \in [0..n -> D] : Good(F, k)}
  <1>1. 0 \in T
    <2>1. [i \in 0..n |-> base] \in [0..n -> D]
      OBVIOUS
    <2>2. Good([i \in 0..n |-> base], 0)
      OBVIOUS
    <2> HIDE DEF Good
    <2> QED
      BY <2>1, <2>2
  <1>2. ASSUME NEW k \in 1..n, k - 1 \in T PROVE k \in T
    <2>1. PICK F \in [0..n -> D] : Good(F, k - 1)
      BY <1>2
    <2> DEFINE G == [F EXCEPT ![k] = step[k][F[k - 1]]]
    <2>2. step[k][F[k - 1]] \in D
      <3>1. F[k - 1] \in D
        OBVIOUS
      <3> QED
        BY <3>1
    <2>3. G \in [0..n -> D] /\ G[0] = base
      BY <2>1, <2>2
    <2>4. \A i \in 1..k : G[i] = step[i][G[i - 1]]
      BY <2>1
    <2>5. Good(G, k)
      BY <2>3, <2>4
    <2> HIDE DEF Good, G
    <2> QED
      BY <2>3, <2>5
  <1>3. n \in T
    <2> HIDE DEF T
    <2>1. 0..n \subseteq T
      BY ZenonT(30), <1>1, <1>2, UpTo
    <2> QED
      BY <2>1
  <1>4. PICK F \in [0..n -> D] : Good(F, n)
    BY <1>3
  <1>5. Iterated(F, n, D, base, step)
    BY <1>4 DEF Iterated
  <1> QED
    BY <1>5

\* The same from a up to b, and from b down to a.
IteratedUp(F, a, b, D, base, step) ==
    /\ F \in [a..b -> D]
    /\ F[a] = base
    /\ \A i \in (a + 1)..b : F[i] = step[i][F[i - 1]]

IteratedDown(F, a, b, D, base, step) ==
    /\ F \in [a..b -> D]
    /\ F[b] = base
    /\ \A i \in a..(b - 1) : F[i] = step[i][F[i + 1]]

\* What a recursive definition over a..b rests on, upwards ...
LEMMA IteratesUp ==
    ASSUME NEW D, NEW a \in Int, NEW b \in Int, a <= b, NEW base \in D,
           NEW step \in [(a + 1)..b -> [D -> D]]
    PROVE  \E F : IteratedUp(F, a, b, D, base, step)
  <1> DEFINE n == b - a
             moved == [j \in 1..n |-> step[j + a]]
  <1>1. n \in Nat /\ \A j \in 1..n : j + a \in (a + 1)..b
    OBVIOUS
  <1>2. moved \in [1..n -> [D -> D]]
    BY <1>1
  <1> HIDE DEF moved, n
  <1>3. PICK G : Iterated(G, n, D, base, moved)
    BY <1>1, <1>2, Iterates
  <1> DEFINE F == [i \in a..b |-> G[i - a]]
  <1>4. \A i \in a..b : i - a \in 0..n
    BY DEF n
  <1>5. F \in [a..b -> D]
    BY ZenonT(30), <1>3, <1>4 DEF Iterated
  <1>6. F[a] = base
    <2>1. a \in a..b /\ a - a = 0
      OBVIOUS
    <2> QED
      BY <1>3, <2>1 DEF Iterated
  <1>7. ASSUME NEW i \in (a + 1)..b PROVE F[i] = step[i][F[i - 1]]
    <2>1. i - a \in 1..n /\ (i - a) + a = i /\ i \in a..b /\ i - 1 \in a..b /\ (i - a) - 1 = (i - 1) - a
      BY DEF n
    <2>2. G[i - a] = moved[i - a][G[(i - a) - 1]]
      BY <1>3, <2>1 DEF Iterated
    <2>3. moved[i - a] = step[i]
      BY <2>1 DEF moved
    <2> QED
      BY <2>1, <2>2, <2>3
  <1> HIDE DEF F
  <1>8. IteratedUp(F, a, b, D, base, step)
    BY <1>5, <1>6, <1>7 DEF IteratedUp
  <1> QED
    BY <1>8

\* ... and downwards.
LEMMA IteratesDown ==
    ASSUME NEW D, NEW a \in Int, NEW b \in Int, a <= b, NEW base \in D,
           NEW step \in [a..(b - 1) -> [D -> D]]
    PROVE  \E F : IteratedDown(F, a, b, D, base, step)
  <1> DEFINE n == b - a
             moved == [j \in 1..n |-> step[b - j]]
  <1>1. n \in Nat /\ \A j \in 1..n : b - j \in a..(b - 1)
    OBVIOUS
  <1>2. moved \in [1..n -> [D -> D]]
    BY <1>1
  <1> HIDE DEF moved, n
  <1>3. PICK G : Iterated(G, n, D, base, moved)
    BY <1>1, <1>2, Iterates
  <1> DEFINE F == [i \in a..b |-> G[b - i]]
  <1>4. \A i \in a..b : b - i \in 0..n
    BY DEF n
  <1>5. F \in [a..b -> D]
    BY <1>3, <1>4 DEF Iterated
  <1>6. F[b] = base
    <2>1. b \in a..b /\ b - b = 0
      OBVIOUS
    <2> QED
      BY <1>3, <2>1 DEF Iterated
  <1>7. ASSUME NEW i \in a..(b - 1) PROVE F[i] = step[i][F[i + 1]]
    <2>1. b - i \in 1..n /\ b - (b - i) = i /\ i \in a..b /\ i + 1 \in a..b /\ (b - i) - 1 = b - (i + 1)
      BY DEF n
    <2>2. G[b - i] = moved[b - i][G[(b - i) - 1]]
      BY <1>3, <2>1 DEF Iterated
    <2>3. moved[b - i] = step[i]
      BY <2>1 DEF moved
    <2> QED
      BY <2>1, <2>2, <2>3
  <1> HIDE DEF F
  <1>8. IteratedDown(F, a, b, D, base, step)
    BY <1>5, <1>6, <1>7 DEF IteratedDown
  <1> QED
    BY <1>8

\* Induction from b down to a.
LEMMA DownTo ==
    ASSUME NEW a \in Int, NEW b \in Int, a <= b, NEW T, b \in T,
           \A i \in a..(b - 1) : i + 1 \in T => i \in T
    PROVE  a..b \subseteq T
  <1> DEFINE U == {j \in 0..(b - a) : b - j \in T}
  <1>1. 0 \in U
    OBVIOUS
  <1>2. ASSUME NEW j \in 1..(b - a), j - 1 \in U PROVE j \in U
    <2>1. b - (j - 1) \in T /\ b - (j - 1) = (b - j) + 1
      BY <1>2
    <2>2. b - j \in a..(b - 1) /\ j \in 0..(b - a)
      OBVIOUS
    <2> QED
      BY <2>1, <2>2
  <1> HIDE DEF U
  <1>3. 0..(b - a) \subseteq U
    BY <1>1, <1>2, UpTo
  <1>4. ASSUME NEW i \in a..b PROVE i \in T
    <2>1. b - i \in 0..(b - a) /\ b - (b - i) = i
      OBVIOUS
    <2> QED
      BY <1>3, <2>1 DEF U
  <1> QED
    BY <1>4

\* Induction from a up to b.
LEMMA UpFrom ==
    ASSUME NEW a \in Int, NEW b \in Int, a <= b, NEW T, a \in T,
           \A i \in (a + 1)..b : i - 1 \in T => i \in T
    PROVE  a..b \subseteq T
  <1> DEFINE U == {j \in 0..(b - a) : a + j \in T}
  <1>1. 0 \in U
    OBVIOUS
  <1>2. ASSUME NEW j \in 1..(b - a), j - 1 \in U PROVE j \in U
    <2>1. a + (j - 1) \in T /\ a + (j - 1) = (a + j) - 1
      BY <1>2
    <2>2. a + j \in (a + 1)..b /\ j \in 0..(b - a)
      OBVIOUS
    <2> QED
      BY <2>1, <2>2
  <1> HIDE DEF U
  <1>3. 0..(b - a) \subseteq U
    BY <1>1, <1>2, UpTo
  <1>4. ASSUME NEW i \in a..b PROVE i \in T
    <2>1. i - a \in 0..(b - a) /\ a + (i - a) = i
      OBVIOUS
    <2> QED
      BY <1>3, <2>1 DEF U
  <1> QED
    BY <1>4

-----------------------------------------------------------------------------
(* Keep.                                                                    *)

\* What has been kept of q after each of its items.
KeptSoFar(K, q, S, A) ==
    /\ K \in [0..Len(q) -> Seq(A)]
    /\ K[0] = <<>>
    /\ \A i \in 1..Len(q) : K[i] = IF q[i] \in S THEN Append(K[i - 1], q[i]) ELSE K[i - 1]
    /\ Keep(q, S) = K[Len(q)]

\* Keep goes through q and appends each item that is in S.
LEMMA KeepUnfolds ==
    ASSUME NEW A, NEW q \in Seq(A), NEW S
    PROVE  \E K : KeptSoFar(K, q, S, A)
  <1> DEFINE n == Len(q)
             Body(K) == [i \in 0..n |->
                            IF i = 0 THEN <<>>
                            ELSE IF q[i] \in S THEN Append(K[i - 1], q[i]) ELSE K[i - 1]]
             step == [i \in 1..n |-> [x \in Seq(A) |->
                            IF q[i] \in S THEN Append(x, q[i]) ELSE x]]
  <1>1. n \in Nat /\ <<>> \in Seq(A) /\ \A i \in 1..n : q[i] \in A
    OBVIOUS
  <1>2. step \in [1..n -> [Seq(A) -> Seq(A)]]
    OBVIOUS
  <1>3. Keep(q, S) = (CHOOSE K : K = Body(K))[n]
    BY DEF Keep
  <1> HIDE DEF n
  <1>4. \E K : K = Body(K)
    <2> HIDE DEF step
    <2>1. PICK F : Iterated(F, n, Seq(A), <<>>, step)
      BY ZenonT(30), <1>1, <1>2, Iterates
    <2>2. ASSUME NEW i \in 1..n
          PROVE  F[i] = IF q[i] \in S THEN Append(F[i - 1], q[i]) ELSE F[i - 1]
      <3>1. F[i] = step[i][F[i - 1]] /\ F[i - 1] \in Seq(A)
        BY <1>1, <2>1 DEF Iterated
      <3> QED
        BY <3>1 DEF step
    <2>3. ASSUME NEW i \in 0..n PROVE F[i] = Body(F)[i]
      <3>1. CASE i = 0
        BY <2>1, <3>1 DEF Iterated
      <3>2. CASE i # 0
        <4>1. i \in 1..n
          BY <1>1, <3>2
        <4> QED
          BY <2>2, <3>2, <4>1, Zenon
      <3> QED
        BY <3>1, <3>2
    <2>4. F = Body(F)
      BY <2>1, <2>3 DEF Iterated
    <2> QED
      BY ZenonT(30), <2>4
  <1> DEFINE C == CHOOSE K : K = Body(K)
  <1>5. C = Body(C)
    BY ZenonT(30), <1>4
  <1> HIDE DEF C
  <1>6. \A i \in 0..n : C[i] = IF i = 0 THEN <<>>
                               ELSE IF q[i] \in S THEN Append(C[i - 1], q[i]) ELSE C[i - 1]
    BY ZenonT(30), <1>5
  <1>7. C[0] = <<>>
    BY <1>1, <1>6
  <1>8. \A i \in 1..n : C[i] = IF q[i] \in S THEN Append(C[i - 1], q[i]) ELSE C[i - 1]
    BY <1>1, <1>6
  <1>9. \A i \in 0..n : C[i] \in Seq(A)
    <2> DEFINE P(i) == C[i] \in Seq(A)
               T == {i \in 0..n : P(i)}
    <2>1. P(0)
      BY <1>1, <1>7
    <2>2. ASSUME NEW i \in 1..n, P(i - 1) PROVE P(i)
      <3>1. C[i] = IF q[i] \in S THEN Append(C[i - 1], q[i]) ELSE C[i - 1]
        BY <1>8
      <3>2. C[i - 1] \in Seq(A) /\ q[i] \in A
        BY <1>1, <2>2
      <3> QED
        BY <3>1, <3>2
    <2> HIDE DEF P
    <2>3. 0 \in T /\ \A i \in 1..n : i - 1 \in T => i \in T
      BY <1>1, <2>1, <2>2
    <2> HIDE DEF T
    <2>4. 0..n \subseteq T
      BY ZenonT(30), <1>1, <2>3, UpTo
    <2> QED
      BY <2>4 DEF T, P
  <1>10. C = [i \in 0..n |-> C[i]]
    <2>1. \E f : C = [i \in 0..n |-> f[i]]
      <3> DEFINE f == [i \in 0..n |-> IF i = 0 THEN <<>>
                               ELSE IF q[i] \in S THEN Append(C[i - 1], q[i]) ELSE C[i - 1]]
      <3>1. C = f
        BY ZenonT(30), <1>5
      <3> QED
        BY ZenonT(30), <3>1
    <2> QED
      BY <2>1
  <1>11. C \in [0..n -> Seq(A)]
    BY <1>9, <1>10
  <1> QED
    BY ZenonT(30), <1>3, <1>7, <1>8, <1>11 DEF n, C, KeptSoFar

\* f lists, in order, the places among the first n of q whose item is in S, and s
\* has those items.
Places(f, s, q, n, S) ==
    /\ f \in [1..Len(s) -> 1..n]
    /\ \A a, b \in 1..Len(s) : a < b => f[a] < f[b]
    /\ \A a \in 1..Len(s) : s[a] = q[f[a]] /\ q[f[a]] \in S
    /\ \A j \in 1..n : q[j] \in S => \E a \in 1..Len(s) : f[a] = j

\* What Keep keeps.
LEMMA KeepIs ==
    ASSUME NEW A, NEW q \in Seq(A), NEW S
    PROVE  /\ Keep(q, S) \in Seq(A)
           /\ \E f : Places(f, Keep(q, S), q, Len(q), S)
  <1> DEFINE n == Len(q)
  <1>0. PICK K : KeptSoFar(K, q, S, A)
    BY ZenonT(30), KeepUnfolds
  <1>1. /\ K \in [0..n -> Seq(A)] /\ K[0] = <<>>
        /\ \A i \in 1..n : K[i] = IF q[i] \in S THEN Append(K[i - 1], q[i]) ELSE K[i - 1]
        /\ Keep(q, S) = K[n]
    BY <1>0 DEF KeptSoFar
  <1> DEFINE T == {i \in 0..n : \E f : Places(f, K[i], q, i, S)}
  <1>2. 0 \in T
    <2>1. Places(<<>>, K[0], q, 0, S)
      BY <1>1 DEF Places
    <2> QED
      BY <2>1
  <1>3. ASSUME NEW i \in 1..n, i - 1 \in T PROVE i \in T
    <2>1. PICK f : Places(f, K[i - 1], q, i - 1, S)
      BY <1>3
    <2> DEFINE s == K[i - 1]
               m == Len(s)
    <2>2. s \in Seq(A) /\ m \in Nat /\ q[i] \in A
      BY <1>1
    <2>3. CASE q[i] \notin S
      <3>1. K[i] = s
        BY <1>1, <2>3
      <3>2. Places(f, s, q, i, S)
        BY <2>1, <2>2, <2>3 DEF Places
      <3> HIDE DEF s
      <3> QED
        BY <3>1, <3>2
    <2>4. CASE q[i] \in S
      <3> DEFINE g == [a \in 1..(m + 1) |-> IF a = m + 1 THEN i ELSE f[a]]
                 t == Append(s, q[i])
      <3>1. K[i] = t
        BY ZenonT(30), <1>1, <2>4
      <3>2. t \in Seq(A) /\ Len(t) = m + 1 /\ t[m + 1] = q[i] /\ \A a \in 1..m : t[a] = s[a]
        BY <2>2
      <3>3. f \in [1..m -> 1..(i - 1)]
        BY <2>1 DEF Places
      <3>4. g \in [1..(m + 1) -> 1..i]
        BY <2>2, <3>3
      <3>5. \A a, b \in 1..(m + 1) : a < b => g[a] < g[b]
        <4>1. \A a \in 1..m : f[a] < i /\ f[a] \in Nat
          BY <3>3
        <4>2. ASSUME NEW a \in 1..(m + 1), NEW b \in 1..(m + 1), a < b PROVE g[a] < g[b]
          <5>1. a \in 1..m /\ g[a] = f[a]
            BY <2>2, <4>2
          <5>2. CASE b = m + 1
            BY <4>1, <5>1, <5>2, <2>2
          <5>3. CASE b # m + 1
            <6>1. b \in 1..m
              BY <2>2, <4>2, <5>3
            <6>2. g[b] = f[b]
              BY <5>3
            <6> QED
              BY <2>1, <4>2, <5>1, <6>1, <6>2 DEF Places
          <5> QED
            BY <5>2, <5>3
        <4> QED
          BY ZenonT(30), <4>2
      <3>6. \A a \in 1..(m + 1) : t[a] = q[g[a]] /\ q[g[a]] \in S
        BY <2>1, <2>2, <2>4, <3>2 DEF Places
      <3>7. ASSUME NEW j \in 1..i, q[j] \in S PROVE \E a \in 1..(m + 1) : g[a] = j
        <4>1. CASE j = i
          <5>1. m + 1 \in 1..(m + 1) /\ g[m + 1] = i
            BY <2>2
          <5> QED
            BY ZenonT(30), <4>1, <5>1
        <4>2. CASE j # i
          <5>1. j \in 1..(i - 1)
            BY <4>2
          <5>2. PICK a \in 1..m : f[a] = j
            BY <2>1, <3>7, <5>1 DEF Places
          <5>3. a \in 1..(m + 1) /\ g[a] = f[a]
            BY <2>2
          <5> QED
            BY <5>2, <5>3
        <4> QED
          BY <4>1, <4>2
      <3>8. Places(g, t, q, i, S)
        <4> HIDE DEF g, t, m
        <4> QED
          BY <3>2, <3>4, <3>5, <3>6, <3>7 DEF Places
      <3> HIDE DEF g, t
      <3> QED
        BY <3>1, <3>8
    <2> QED
      BY <2>3, <2>4
  <1>4. n \in T
    <2> HIDE DEF T
    <2>1. n \in Nat
      OBVIOUS
    <2>2. 0..n \subseteq T
      BY ZenonT(30), <1>2, <1>3, <2>1, UpTo
    <2> QED
      BY <2>1, <2>2
  <1> QED
    BY <1>1, <1>4

\* Its items are those of q that are in S, and none is there twice if none is in q.
LEMMA KeepItems ==
    ASSUME NEW A, NEW q \in Seq(A), NEW S
    PROVE  /\ Keep(q, S) \in Seq(A)
           /\ ToSet(Keep(q, S)) = ToSet(q) \cap S
           /\ Distinct(q) => Distinct(Keep(q, S))
  <1> DEFINE k == Keep(q, S)
  <1>1. k \in Seq(A)
    BY KeepIs
  <1>2. PICK f : Places(f, k, q, Len(q), S)
    BY KeepIs
  <1> HIDE DEF k
  <1>3. ToSet(k) \subseteq ToSet(q) \cap S
    BY <1>1, <1>2 DEF Places, ToSet
  <1>4. ASSUME NEW x \in ToSet(q) \cap S PROVE x \in ToSet(k)
    <2>1. PICK j \in 1..Len(q) : q[j] = x
      BY DEF ToSet
    <2>2. PICK a \in 1..Len(k) : f[a] = j
      BY <1>2, <2>1 DEF Places
    <2> QED
      BY <1>1, <1>2, <2>1, <2>2 DEF Places, ToSet
  <1>5. ASSUME Distinct(q), NEW a \in DOMAIN k, NEW b \in DOMAIN k, k[a] = k[b]
        PROVE  a = b
    <2>1. a \in 1..Len(k) /\ b \in 1..Len(k) /\ Len(k) \in Nat /\ Len(q) \in Nat
      BY <1>1
    <2>2. f[a] \in 1..Len(q) /\ f[b] \in 1..Len(q) /\ q[f[a]] = q[f[b]]
      BY <1>2, <1>5, <2>1 DEF Places
    <2>3. f[a] = f[b]
      BY <1>5, <2>2 DEF Distinct
    <2>4. ~(f[a] < f[b]) /\ ~(f[b] < f[a])
      BY <2>2, <2>3
    <2>5. ~(a < b) /\ ~(b < a)
      BY <1>2, <2>1, <2>4 DEF Places
    <2> QED
      BY <2>1, <2>5
  <1> QED
    BY <1>1, <1>3, <1>4, <1>5 DEF Distinct, k

\* It keeps the order: of two items of a sequence without repetition the first
\* stays before the other.
LEMMA KeepOrder ==
    ASSUME NEW A, NEW q \in Seq(A), NEW S, Distinct(q),
           NEW i \in 1..Len(q), NEW j \in 1..Len(q), i < j, q[i] \in S, q[j] \in S
    PROVE  \E a, b \in 1..Len(Keep(q, S)) :
              a < b /\ Keep(q, S)[a] = q[i] /\ Keep(q, S)[b] = q[j]
  <1> DEFINE k == Keep(q, S)
  <1>1. k \in Seq(A)
    BY KeepIs
  <1>2. PICK f : Places(f, k, q, Len(q), S)
    BY KeepIs
  <1> HIDE DEF k
  <1>3. PICK a \in 1..Len(k) : f[a] = i
    BY <1>2 DEF Places
  <1>4. PICK b \in 1..Len(k) : f[b] = j
    BY <1>2 DEF Places
  <1>5. Len(k) \in Nat /\ ~(f[b] < f[a])
    BY <1>1, <1>3, <1>4
  <1>6. ~(b < a) /\ a # b
    BY <1>2, <1>3, <1>4, <1>5 DEF Places
  <1>7. k[a] = q[i] /\ k[b] = q[j]
    BY <1>2, <1>3, <1>4 DEF Places
  <1> QED
    BY <1>5, <1>6, <1>7 DEF k

-----------------------------------------------------------------------------
(* Counting.                                                                *)

\* f lists the members of S, each once, and there are n of them.
Counts(f, n, S) ==
    /\ f \in [1..n -> S]
    /\ \A i, j \in 1..n : f[i] = f[j] => i = j
    /\ \A x \in S : \E i \in 1..n : f[i] = x

\* A list without repetition is not longer than the numbers it is made of.
LEMMA Pigeonhole ==
    ASSUME NEW m \in Nat, NEW n \in Nat, NEW f \in [1..m -> 1..n],
           \A i, j \in 1..m : f[i] = f[j] => i = j
    PROVE  m <= n
  <1> DEFINE Apart(l, g) == \A i, j \in 1..l : g[i] = g[j] => i = j
             T == {k \in 0..n : \A l \in Nat : \A g \in [1..l -> 1..k] : Apart(l, g) => l <= k}
  <1>1. 0 \in T
    <2>1. ASSUME NEW l \in Nat, NEW g \in [1..l -> 1..0] PROVE l <= 0
      <3>1. l > 0 => 1 \in 1..l /\ g[1] \in 1..0
        OBVIOUS
      <3> QED
        BY <3>1
    <2> HIDE DEF Apart
    <2> QED
      BY <2>1
  <1>2. ASSUME NEW k \in 1..n, k - 1 \in T PROVE k \in T
    <2>1. ASSUME NEW l \in Nat, NEW g \in [1..l -> 1..k], Apart(l, g), l > 0 PROVE l <= k
      <3> DEFINE h == [i \in 1..(l - 1) |-> IF g[i] = k THEN g[l] ELSE g[i]]
      <3>1. \A i \in 1..(l - 1) : i \in 1..l /\ l \in 1..l /\ g[i] # g[l]
        BY <2>1
      <3>2. h \in [1..(l - 1) -> 1..(k - 1)]
        BY <3>1
      <3>3. Apart(l - 1, h)
        BY <2>1, <3>1
      <3>4. l - 1 \in Nat
        BY <2>1
      <3> HIDE DEF h, Apart
      <3>5. l - 1 <= k - 1
        <4>1. \A a \in Nat : \A g1 \in [1..a -> 1..(k - 1)] : Apart(a, g1) => a <= k - 1
          BY ZenonT(30), <1>2
        <4> QED
          BY ZenonT(30), <3>2, <3>3, <3>4, <4>1
      <3> QED
        BY <3>5
    <2> HIDE DEF Apart
    <2> QED
      BY <2>1
  <1>3. n \in T
    <2> HIDE DEF T
    <2>1. 0..n \subseteq T
      BY ZenonT(30), <1>1, <1>2, UpTo
    <2> QED
      BY <2>1
  <1>4. Apart(m, f)
    OBVIOUS
  <1> HIDE DEF Apart
  <1> QED
    BY <1>3, <1>4

\* Two counts of a set agree.
LEMMA SameCount ==
    ASSUME NEW S, NEW m \in Nat, NEW n \in Nat, NEW f, NEW g, Counts(f, m, S), Counts(g, n, S)
    PROVE  m <= n
  <1> DEFINE h == [i \in 1..m |-> CHOOSE j \in 1..n : g[j] = f[i]]
  <1>1. \A i \in 1..m : h[i] \in 1..n /\ g[h[i]] = f[i]
    <2> TAKE i \in 1..m
    <2>1. \E j \in 1..n : g[j] = f[i]
      BY DEF Counts
    <2> QED
      BY <2>1
  <1>2. h \in [1..m -> 1..n]
    BY <1>1
  <1> HIDE DEF h
  <1>3. \A i, j \in 1..m : h[i] = h[j] => i = j
    BY <1>1 DEF Counts
  <1> QED
    BY <1>2, <1>3, Pigeonhole

\* A count without one of the members.
LEMMA CountWithout ==
    ASSUME NEW S, NEW n \in Nat, NEW f, Counts(f, n, S), NEW x \in S
    PROVE  n - 1 \in Nat /\ \E g : Counts(g, n - 1, S \ {x})
  <1>1. PICK j \in 1..n : f[j] = x
    BY DEF Counts
  <1> DEFINE g == [i \in 1..(n - 1) |-> IF i = j THEN f[n] ELSE f[i]]
  <1>2. \A i \in 1..(n - 1) : i \in 1..n /\ n \in 1..n /\ i # n
    OBVIOUS
  <1>3. g \in [1..(n - 1) -> S \ {x}]
    BY <1>1, <1>2 DEF Counts
  <1>4. \A a, b \in 1..(n - 1) : g[a] = g[b] => a = b
    BY <1>1, <1>2 DEF Counts
  <1>5. ASSUME NEW y \in S \ {x} PROVE \E i \in 1..(n - 1) : g[i] = y
    <2>1. PICK i \in 1..n : f[i] = y
      BY DEF Counts
    <2>2. i # j
      BY <1>1, <2>1
    <2>3. CASE i = n
      BY <1>1, <2>1, <2>2, <2>3
    <2>4. CASE i # n
      BY <1>1, <2>1, <2>2, <2>4
    <2> QED
      BY <2>3, <2>4
  <1> HIDE DEF g
  <1> QED
    BY <1>3, <1>4, <1>5 DEF Counts

\* The counts of two sets that have no member in common add up.
LEMMA CountBoth ==
    ASSUME NEW S, NEW T, S \cap T = {}, NEW m \in Nat, NEW n \in Nat, NEW f, NEW g,
           Counts(f, m, S), Counts(g, n, T)
    PROVE  \E h : Counts(h, m + n, S \cup T)
  <1> DEFINE h == [i \in 1..(m + n) |-> IF i <= m THEN f[i] ELSE g[i - m]]
  <1>1. \A i \in 1..(m + n) : IF i <= m THEN i \in 1..m /\ f[i] \in S ELSE i - m \in 1..n /\ g[i - m] \in T
    BY DEF Counts
  <1>2. h \in [1..(m + n) -> S \cup T]
    BY <1>1
  <1>3. ASSUME NEW i \in 1..(m + n), NEW j \in 1..(m + n), h[i] = h[j] PROVE i = j
    <2>1. i <= m <=> j <= m
      BY <1>1, <1>3
    <2>2. CASE i <= m
      BY <1>1, <1>3, <2>1, <2>2 DEF Counts
    <2>3. CASE ~(i <= m)
      <3>1. g[i - m] = g[j - m] /\ i - m \in 1..n /\ j - m \in 1..n
        BY <1>1, <1>3, <2>1, <2>3
      <3>2. i - m = j - m
        BY <3>1 DEF Counts
      <3> QED
        BY <3>2
    <2> QED
      BY <2>2, <2>3
  <1>4. ASSUME NEW x \in S \cup T PROVE \E i \in 1..(m + n) : h[i] = x
    <2>1. CASE x \in S
      <3>1. PICK i \in 1..m : f[i] = x
        BY <2>1 DEF Counts
      <3>2. i \in 1..(m + n) /\ h[i] = x
        BY <3>1
      <3> QED
        BY <3>2
    <2>2. CASE x \in T
      <3>1. PICK i \in 1..n : g[i] = x
        BY <2>2 DEF Counts
      <3>2. i + m \in 1..(m + n) /\ h[i + m] = x
        BY <3>1
      <3> QED
        BY <3>2
    <2> QED
      BY <2>1, <2>2
  <1> HIDE DEF h
  <1>5. Counts(h, m + n, S \cup T)
    BY <1>2, <1>3, <1>4 DEF Counts
  <1> QED
    BY <1>5

\* A set whose members are all in a list has a count, the length of the list only
\* if everything in the list is in the set.
LEMMA Listed ==
    ASSUME NEW n \in Nat, NEW q, NEW S, \A x \in S : \E i \in 1..n : q[i] = x
    PROVE  \E m \in 0..n : /\ \E f : Counts(f, m, S)
                           /\ m = n => \A i \in 1..n : q[i] \in S
  <1> DEFINE Upto(k) == {x \in S : \E i \in 1..k : q[i] = x}
             Good(k, m) == /\ \E f : Counts(f, m, Upto(k))
                           /\ m = k => \A i \in 1..k : q[i] \in S
             T == {k \in 0..n : \E m \in 0..k : Good(k, m)}
  <1>1. 0 \in T
    <2>1. Counts([i \in 1..0 |-> 0], 0, Upto(0))
      BY DEF Counts
    <2> HIDE DEF Upto
    <2>2. Good(0, 0)
      BY <2>1
    <2> HIDE DEF Good
    <2> QED
      BY <2>2
  <1>2. ASSUME NEW k \in 1..n, k - 1 \in T PROVE k \in T
    <2>1. PICK m \in 0..(k - 1) : Good(k - 1, m)
      <3> HIDE DEF Good
      <3> QED
        BY <1>2
    <2>2. PICK f : Counts(f, m, Upto(k - 1))
      BY <2>1
    <2>3. CASE q[k] \in S /\ q[k] \notin Upto(k - 1)
      <3>1. Upto(k) = Upto(k - 1) \cup {q[k]}
        BY <2>3
      <3>2. Counts([i \in 1..1 |-> q[k]], 1, {q[k]})
        BY DEF Counts
      <3>3. Upto(k - 1) \cap {q[k]} = {} /\ m \in Nat /\ 1 \in Nat
        BY <2>3
      <3>4. m = k - 1 => \A i \in 1..(k - 1) : q[i] \in S
        BY <2>1
      <3>5. m + 1 = k => \A i \in 1..k : q[i] \in S
        BY <2>3, <3>4
      <3> HIDE DEF Upto
      <3>6. \E h : Counts(h, m + 1, Upto(k - 1) \cup {q[k]})
        BY ZenonT(30), <2>2, <3>2, <3>3, CountBoth
      <3>7. Good(k, m + 1) /\ m + 1 \in 0..k
        BY <3>1, <3>5, <3>6
      <3> HIDE DEF Good
      <3> QED
        BY <3>7
    <2>4. CASE ~(q[k] \in S /\ q[k] \notin Upto(k - 1))
      <3>1. Upto(k) = Upto(k - 1)
        BY <2>4
      <3> HIDE DEF Upto
      <3>2. Good(k, m) /\ m \in 0..k
        BY <2>2, <3>1
      <3> HIDE DEF Good
      <3> QED
        BY <3>2
    <2> HIDE DEF Upto, T
    <2> QED
      BY ZenonT(30), <2>3, <2>4
  <1>3. n \in T
    <2> HIDE DEF T
    <2>1. 0..n \subseteq T
      BY ZenonT(30), <1>1, <1>2, UpTo
    <2> QED
      BY <2>1
  <1>4. Upto(n) = S
    OBVIOUS
  <1> HIDE DEF Upto
  <1> QED
    BY <1>3, <1>4

\* The subsets of a set that has a count have one.
LEMMA SubsetCounts ==
    ASSUME NEW S, NEW n \in Nat, NEW f, Counts(f, n, S), NEW T, T \subseteq S
    PROVE  \E m \in 0..n : (\E g : Counts(g, m, T)) /\ (m = n => T = S)
  <1>1. \A x \in T : \E i \in 1..n : f[i] = x
    BY DEF Counts
  <1>2. PICK m \in 0..n : (\E g : Counts(g, m, T)) /\ (m = n => \A i \in 1..n : f[i] \in T)
    BY ZenonT(30), <1>1, Listed
  <1>3. m = n => T = S
    BY ZenonT(30), <1>2 DEF Counts
  <1> QED
    BY <1>2, <1>3

\* Cardinality is the count.
LEMMA CardinalityCounts ==
    ASSUME NEW S, NEW n \in Nat, NEW f, Counts(f, n, S)
    PROVE  Cardinality(S) = n
  <1> DEFINE Some(T) == CHOOSE x : x \in T
             Body(F) == [T \in SUBSET S |-> IF T = {} THEN 0 ELSE 1 + F[T \ {Some(T)}]]
             Has(k, T) == \E g : Counts(g, k, T)
             Z == [T \in SUBSET S |-> CHOOSE k \in Nat : Has(k, T)]
             C == CHOOSE F : F = Body(F)
  <1>1. ASSUME NEW T \in SUBSET S PROVE \E k \in Nat : Has(k, T)
    BY SubsetCounts
  <1>2. ASSUME NEW T, NEW k \in Nat, NEW l \in Nat, Has(k, T), Has(l, T) PROVE k = l
    <2>1. k <= l
      BY ZenonT(30), <1>2, SameCount
    <2>2. l <= k
      BY ZenonT(30), <1>2, SameCount
    <2> QED
      BY <2>1, <2>2
  <1>3. Has(0, {})
    <2>1. Counts([i \in 1..0 |-> 0], 0, {})
      BY DEF Counts
    <2> QED
      BY <2>1
  <1>4. ASSUME NEW T, NEW k \in Nat, Has(k, T), T # {}
        PROVE  k - 1 \in Nat /\ Has(k - 1, T \ {Some(T)})
    <2>1. Some(T) \in T
      BY <1>4
    <2> HIDE DEF Some
    <2> QED
      BY <1>4, <2>1, CountWithout
  <1> HIDE DEF Has
  <1>5. ASSUME NEW T \in SUBSET S, NEW k \in Nat, Has(k, T) PROVE Z[T] = k
    <2>1. Z[T] \in Nat /\ Has(Z[T], T)
      BY <1>5
    <2> HIDE DEF Z
    <2> QED
      BY <1>2, <1>5, <2>1
  <1> HIDE DEF Z
  <1>6. ASSUME NEW T \in SUBSET S PROVE Z[T] = IF T = {} THEN 0 ELSE 1 + Z[T \ {Some(T)}]
    <2>1. PICK k \in Nat : Has(k, T)
      BY <1>1
    <2>2. CASE T = {}
      BY <1>3, <1>5, <2>2
    <2>3. CASE T # {}
      <3>1. k - 1 \in Nat /\ Has(k - 1, T \ {Some(T)}) /\ T \ {Some(T)} \in SUBSET S
        BY <1>4, <2>1, <2>3
      <3> HIDE DEF Some
      <3>2. Z[T \ {Some(T)}] = k - 1 /\ Z[T] = k
        BY <1>5, <2>1, <3>1
      <3> QED
        BY <2>3, <3>1, <3>2
    <2> QED
      BY <2>2, <2>3
  <1>7. Z = Body(Z)
    <2>1. Z = [T \in SUBSET S |-> Z[T]]
      BY DEF Z
    <2>2. [T \in SUBSET S |-> Z[T]] = Body(Z)
      BY ZenonT(30), <1>6
    <2> QED
      BY ZenonT(30), <2>1, <2>2
  <1>8. C = Body(C)
    <2> HIDE DEF Body
    <2> QED
      BY ZenonT(30), <1>7
  <1>9. Cardinality(S) = C[S]
    BY ZenonT(30) DEF Cardinality
  <1> HIDE DEF C
  <1> DEFINE K == {k \in 0..n : \A T \in SUBSET S : Has(k, T) => C[T] = k}
  <1>10. \A T \in SUBSET S : C[T] = IF T = {} THEN 0 ELSE 1 + C[T \ {Some(T)}]
    BY ZenonT(30), <1>8
  <1> HIDE DEF Body
  <1>11. ASSUME NEW k \in 1..n, k - 1 \in K PROVE k \in K
    <2>1. ASSUME NEW T \in SUBSET S, Has(k, T) PROVE C[T] = k
      <3>1. T # {}
        BY <1>2, <1>3, <2>1
      <3>2. Has(k - 1, T \ {Some(T)}) /\ T \ {Some(T)} \in SUBSET S
        BY <1>4, <2>1, <3>1
      <3> HIDE DEF Some
      <3>3. C[T \ {Some(T)}] = k - 1
        BY <1>11, <3>2
      <3> QED
        BY <1>10, <3>1, <3>3
    <2> QED
      BY <2>1
  <1>12. 0 \in K
    <2>1. ASSUME NEW T \in SUBSET S, Has(0, T) PROVE C[T] = 0
      <3>1. T # {} => 0 - 1 \in Nat
        BY ZenonT(30), <1>4, <2>1, 0 \in Nat
      <3> HIDE DEF Some
      <3> QED
        BY <1>10, <3>1
    <2> QED
      BY <2>1
  <1>13. n \in K
    <2> HIDE DEF K
    <2>1. 0..n \subseteq K
      BY ZenonT(30), <1>11, <1>12, UpTo
    <2> QED
      BY <2>1
  <1>14. Has(n, S)
    BY DEF Has
  <1> QED
    BY <1>9, <1>13, <1>14

\* A finite set is one that has a count, and its cardinality is that.
LEMMA FiniteCounts ==
    ASSUME NEW S
    PROVE  /\ IsFiniteSet(S) => Cardinality(S) \in Nat /\ \E f : Counts(f, Cardinality(S), S)
           /\ \A n \in Nat : \A f : Counts(f, n, S) => IsFiniteSet(S) /\ Cardinality(S) = n
  <1>1. ASSUME IsFiniteSet(S) PROVE Cardinality(S) \in Nat /\ \E f : Counts(f, Cardinality(S), S)
    <2>1. PICK q \in Seq(S) : \A x \in S : \E i \in 1..Len(q) : q[i] = x
      BY <1>1 DEF IsFiniteSet
    <2>2. Len(q) \in Nat
      OBVIOUS
    <2>3. PICK m \in 0..Len(q) : \E f : Counts(f, m, S)
      BY ZenonT(30), <2>1, <2>2, Listed
    <2>4. m \in Nat
      BY <2>2
    <2>5. Cardinality(S) = m
      BY <2>3, <2>4, CardinalityCounts
    <2> QED
      BY <2>3, <2>4, <2>5
  <1>2. ASSUME NEW n \in Nat, NEW f, Counts(f, n, S) PROVE IsFiniteSet(S) /\ Cardinality(S) = n
    <2>1. f \in Seq(S) /\ Len(f) = n
      BY <1>2 DEF Counts
    <2>2. IsFiniteSet(S)
      BY <1>2, <2>1 DEF IsFiniteSet, Counts
    <2> QED
      BY <1>2, <2>2, CardinalityCounts
  <1> QED
    BY <1>1, <1>2

\* A part of a finite set is finite and smaller, and what is left has the rest.
LEMMA PartOf ==
    ASSUME NEW S, IsFiniteSet(S), NEW T, T \subseteq S
    PROVE  /\ IsFiniteSet(T) /\ Cardinality(T) \in Nat /\ Cardinality(S) \in Nat
           /\ Cardinality(T) <= Cardinality(S)
           /\ Cardinality(T) = Cardinality(S) => T = S
           /\ Cardinality(S \ T) = Cardinality(S) - Cardinality(T)
  <1> DEFINE n == Cardinality(S)
  <1>1. PICK f : n \in Nat /\ Counts(f, n, S)
    BY FiniteCounts
  <1> HIDE DEF n
  <1>2. PICK m \in 0..n : (\E g : Counts(g, m, T)) /\ (m = n => T = S)
    BY ZenonT(30), <1>1, SubsetCounts
  <1>3. PICK k \in 0..n : \E g : Counts(g, k, S \ T)
    <2>1. S \ T \subseteq S
      OBVIOUS
    <2> QED
      BY ZenonT(30), <1>1, <2>1, SubsetCounts
  <1>4. m \in Nat /\ k \in Nat /\ m + k \in Nat
    BY <1>1
  <1>5. \E h : Counts(h, m + k, S)
    <2>1. T \cap (S \ T) = {} /\ T \cup (S \ T) = S
      OBVIOUS
    <2>2. \E h : Counts(h, m + k, T \cup (S \ T))
      BY ZenonT(30), <1>2, <1>3, <1>4, <2>1, CountBoth
    <2> QED
      BY <2>1, <2>2
  <1>6. Cardinality(S) = m + k /\ IsFiniteSet(T) /\ Cardinality(T) = m /\ Cardinality(S \ T) = k
    BY ZenonT(30), <1>2, <1>3, <1>4, <1>5, FiniteCounts
  <1> QED
    BY <1>1, <1>2, <1>4, <1>6 DEF n

\* The empty set has no members.
LEMMA EmptyCount ==
    IsFiniteSet({}) /\ Cardinality({}) = 0
  <1>1. Counts([i \in 1..0 |-> 0], 0, {})
    BY DEF Counts
  <1> QED
    BY <1>1, FiniteCounts

\* A member more counts one more, a member less one less.
LEMMA OneMember ==
    ASSUME NEW S, IsFiniteSet(S), NEW x
    PROVE  /\ x \notin S => /\ IsFiniteSet(S \cup {x})
                            /\ Cardinality(S \cup {x}) = Cardinality(S) + 1
           /\ x \in S => Cardinality(S \ {x}) = Cardinality(S) - 1
  <1>1. Counts([i \in 1..1 |-> x], 1, {x})
    BY DEF Counts
  <1>2. Cardinality({x}) = 1 /\ 1 \in Nat
    BY <1>1, FiniteCounts
  <1>3. ASSUME x \notin S
        PROVE  IsFiniteSet(S \cup {x}) /\ Cardinality(S \cup {x}) = Cardinality(S) + 1
    <2>1. S \cap {x} = {}
      BY <1>3
    <2>2. Cardinality(S) \in Nat /\ \E f : Counts(f, Cardinality(S), S)
      BY ZenonT(30), FiniteCounts
    <2>3. \E h : Counts(h, Cardinality(S) + 1, S \cup {x})
      BY ZenonT(30), <1>1, <1>2, <2>1, <2>2, CountBoth
    <2>4. Cardinality(S) + 1 \in Nat
      BY <2>2
    <2> QED
      BY ZenonT(30), <2>3, <2>4, FiniteCounts
  <1>4. ASSUME x \in S PROVE Cardinality(S \ {x}) = Cardinality(S) - 1
    <2>1. {x} \subseteq S
      BY <1>4
    <2>2. Cardinality(S \ {x}) = Cardinality(S) - Cardinality({x})
      BY ZenonT(30), <2>1, PartOf
    <2> QED
      BY <1>2, <2>2
  <1> QED
    BY <1>3, <1>4

-----------------------------------------------------------------------------
(* Sequences without repetition.                                            *)

\* They have as many items as their set has members.
LEMMA InjectiveLength ==
    ASSUME NEW A, NEW s \in Seq(A), Distinct(s)
    PROVE  IsFiniteSet(ToSet(s)) /\ Cardinality(ToSet(s)) = Len(s)
  <1>1. Len(s) \in Nat /\ s \in [1..Len(s) -> ToSet(s)] /\ DOMAIN s = 1..Len(s)
    BY DEF ToSet
  <1>2. Counts(s, Len(s), ToSet(s))
    BY <1>1 DEF Counts, Distinct, ToSet
  <1> QED
    BY ZenonT(30), <1>1, <1>2, FiniteCounts

\* The head and the tail at a place of a sequence: popping from the free list.
LEMMA HeadAndRest ==
    ASSUME NEW A, NEW s \in Seq(A), NEW n \in 0..Len(s)
    PROVE  LET head == SubSeq(s, 1, n)
               rest == SubSeq(s, n + 1, Len(s))
           IN /\ head \in Seq(A) /\ Len(head) = n /\ \A i \in 1..n : head[i] = s[i]
              /\ rest \in Seq(A) /\ Len(rest) = Len(s) - n
              /\ \A i \in 1..(Len(s) - n) : rest[i] = s[i + n]
              /\ ToSet(s) = ToSet(head) \cup ToSet(rest)
              /\ Distinct(s) => /\ Distinct(head) /\ Distinct(rest)
                                   /\ ToSet(head) \cap ToSet(rest) = {}
  <1> DEFINE head == SubSeq(s, 1, n)
             rest == SubSeq(s, n + 1, Len(s))
             m == Len(s)
  <1>1. m \in Nat /\ n \in 0..m /\ DOMAIN s = 1..m
    OBVIOUS
  <1>2. head \in Seq(A) /\ Len(head) = n /\ \A i \in 1..n : head[i] = s[i]
    OBVIOUS
  <1>3. rest \in Seq(A) /\ Len(rest) = m - n /\ \A i \in 1..(m - n) : rest[i] = s[i + n]
    OBVIOUS
  <1> HIDE DEF head, rest, m
  <1>4. DOMAIN head = 1..n /\ DOMAIN rest = 1..(m - n)
    BY <1>2, <1>3
  <1>5. ToSet(head) \subseteq ToSet(s)
    BY <1>1, <1>2, <1>4 DEF ToSet
  <1>6. ASSUME NEW x \in ToSet(rest) PROVE \E i \in 1..m : i > n /\ s[i] = x
    <2>1. PICK i \in 1..(m - n) : rest[i] = x
      BY <1>4 DEF ToSet
    <2>2. i + n \in 1..m /\ i + n > n /\ s[i + n] = x
      BY <1>1, <1>3, <2>1
    <2> QED
      BY <2>2
  <1>7. ASSUME NEW x \in ToSet(s) PROVE x \in ToSet(head) \cup ToSet(rest)
    <2>1. PICK i \in 1..m : s[i] = x
      BY <1>1 DEF ToSet
    <2>2. CASE i <= n
      BY <1>1, <1>2, <1>4, <2>1, <2>2 DEF ToSet
    <2>3. CASE i > n
      <3>1. i - n \in 1..(m - n) /\ (i - n) + n = i
        BY <1>1, <2>1, <2>3
      <3>2. rest[i - n] = x
        BY <1>3, <2>1, <3>1
      <3> QED
        BY <1>4, <3>1, <3>2 DEF ToSet
    <2> QED
      BY <1>1, <2>1, <2>2, <2>3
  <1>8. ToSet(s) = ToSet(head) \cup ToSet(rest)
    <2>1. ToSet(rest) \subseteq ToSet(s)
      BY <1>1, <1>6 DEF ToSet
    <2> QED
      BY <1>5, <1>7, <2>1
  <1>9. ASSUME Distinct(s)
        PROVE  Distinct(head) /\ Distinct(rest) /\ ToSet(head) \cap ToSet(rest) = {}
    <2>1. \A i, j \in 1..m : s[i] = s[j] => i = j
      BY <1>1, <1>9 DEF Distinct
    <2>2. \A i, j \in 1..n : head[i] = head[j] => i = j
      BY <1>1, <1>2, <2>1
    <2>3. ASSUME NEW i \in 1..(m - n), NEW j \in 1..(m - n), rest[i] = rest[j] PROVE i = j
      <3>1. i + n \in 1..m /\ j + n \in 1..m
        BY <1>1
      <3>2. i + n = j + n
        BY <1>3, <2>1, <2>3, <3>1
      <3> QED
        BY <1>1, <3>2
    <2>4. ASSUME NEW x \in ToSet(head), x \in ToSet(rest) PROVE FALSE
      <3>1. PICK i \in 1..n : head[i] = x
        BY <1>4 DEF ToSet
      <3>2. PICK j \in 1..m : j > n /\ s[j] = x
        BY <1>6, <2>4
      <3>3. i \in 1..m /\ s[i] = x
        BY <1>1, <1>2, <3>1
      <3>4. i = j
        BY <2>1, <3>2, <3>3
      <3> QED
        BY <1>1, <3>1, <3>2, <3>4
    <2> QED
      BY <1>4, <2>2, <2>3, <2>4 DEF Distinct
  <1> QED
    BY <1>2, <1>3, <1>8, <1>9 DEF head, rest, m

\* Two sequences in a row: appending to the free list, or to the blocks of a request.
LEMMA InARow ==
    ASSUME NEW A, NEW s \in Seq(A), NEW t \in Seq(A)
    PROVE  /\ s \o t \in Seq(A) /\ Len(s \o t) = Len(s) + Len(t)
           /\ \A i \in 1..Len(s) : (s \o t)[i] = s[i]
           /\ \A i \in 1..Len(t) : (s \o t)[Len(s) + i] = t[i]
           /\ ToSet(s \o t) = ToSet(s) \cup ToSet(t)
           /\ Distinct(s) /\ Distinct(t) /\ ToSet(s) \cap ToSet(t) = {}
                 => Distinct(s \o t)
  <1> DEFINE m == Len(s)  n == Len(t)  u == s \o t
  <1>1. m \in Nat /\ n \in Nat /\ DOMAIN s = 1..m /\ DOMAIN t = 1..n
    OBVIOUS
  <1>2. u \in Seq(A) /\ Len(u) = m + n /\ DOMAIN u = 1..(m + n)
    OBVIOUS
  <1>3. \A i \in 1..m : u[i] = s[i]
    OBVIOUS
  <1>4. \A i \in 1..n : u[m + i] = t[i]
    OBVIOUS
  <1> HIDE DEF m, n, u
  <1>5. \A i \in 1..(m + n) : i \in 1..m \/ \E j \in 1..n : i = m + j
    <2> TAKE i \in 1..(m + n)
    <2>1. i > m => i - m \in 1..n /\ i = m + (i - m)
      BY <1>1
    <2> QED
      BY <1>1, <2>1
  <1>6. ASSUME NEW x \in ToSet(u) PROVE x \in ToSet(s) \cup ToSet(t)
    <2>1. PICK i \in 1..(m + n) : u[i] = x
      BY <1>2 DEF ToSet
    <2>2. CASE i \in 1..m
      BY <1>1, <1>3, <2>1, <2>2 DEF ToSet
    <2>3. ASSUME NEW j \in 1..n, i = m + j PROVE x \in ToSet(t)
      BY ZenonT(30), <1>1, <1>4, <2>1, <2>3 DEF ToSet
    <2> QED
      BY <1>5, <2>2, <2>3
  <1>7. ToSet(s) \subseteq ToSet(u)
    BY <1>1, <1>2, <1>3 DEF ToSet
  <1>8. ToSet(t) \subseteq ToSet(u)
    <2>1. \A j \in 1..n : m + j \in 1..(m + n)
      BY <1>1
    <2> QED
      BY ZenonT(30), <1>1, <1>2, <1>4, <2>1 DEF ToSet
  <1>9. ASSUME Distinct(s), Distinct(t), ToSet(s) \cap ToSet(t) = {},
               NEW a \in 1..(m + n), NEW b \in 1..(m + n), u[a] = u[b]
        PROVE  a = b
    <2>1. CASE a \in 1..m /\ b \in 1..m
      BY <1>1, <1>3, <1>9, <2>1 DEF Distinct
    <2>2. ASSUME NEW i \in 1..n, NEW j \in 1..n, a = m + i, b = m + j PROVE a = b
      <3>1. t[i] = t[j]
        BY <1>4, <1>9, <2>2
      <3> QED
        BY <1>1, <1>9, <2>2, <3>1 DEF Distinct
    <2>3. ASSUME NEW c \in 1..m, NEW j \in 1..n, u[c] = u[m + j] PROVE FALSE
      <3>1. s[c] = t[j]
        BY <1>3, <1>4, <2>3
      <3>2. s[c] \in ToSet(s) /\ t[j] \in ToSet(t)
        BY <1>1 DEF ToSet
      <3> QED
        BY <1>9, <3>1, <3>2
    <2> QED
      BY <1>5, <1>9, <2>1, <2>2, <2>3
  <1> QED
    BY <1>2, <1>3, <1>4, <1>6, <1>7, <1>8, <1>9 DEF Distinct, m, n, u

\* A sequence and its reverse have the same items.
LEMMA Reversed ==
    ASSUME NEW A, NEW s \in Seq(A)
    PROVE  /\ Reverse(s) \in Seq(A) /\ Len(Reverse(s)) = Len(s)
           /\ \A i \in 1..Len(s) : Reverse(s)[i] = s[Len(s) - i + 1]
           /\ ToSet(Reverse(s)) = ToSet(s)
           /\ Distinct(s) => Distinct(Reverse(s))
  <1> DEFINE n == Len(s)  v == Reverse(s)
  <1>1. n \in Nat /\ DOMAIN s = 1..n
    OBVIOUS
  <1>2. \A i \in 1..n : n - i + 1 \in 1..n /\ n - (n - i + 1) + 1 = i
    BY <1>1
  <1>3. v \in Seq(A) /\ Len(v) = n /\ DOMAIN v = 1..n /\ \A i \in 1..n : v[i] = s[n - i + 1]
    BY DEF Reverse
  <1> HIDE DEF n, v
  <1>4. ToSet(v) \subseteq ToSet(s)
    BY <1>1, <1>2, <1>3 DEF ToSet
  <1>5. ASSUME NEW i \in 1..n PROVE s[i] \in ToSet(v)
    <2>1. v[n - i + 1] = s[i]
      BY <1>2, <1>3
    <2> QED
      BY <1>2, <1>3, <2>1 DEF ToSet
  <1>6. ASSUME Distinct(s), NEW i \in 1..n, NEW j \in 1..n, v[i] = v[j] PROVE i = j
    <2>1. n - i + 1 = n - j + 1
      BY <1>1, <1>2, <1>3, <1>6 DEF Distinct
    <2> QED
      BY <1>1, <2>1
  <1>7. ToSet(v) = ToSet(s)
    BY <1>1, <1>4, <1>5 DEF ToSet
  <1>8. Distinct(s) => Distinct(v)
    BY <1>3, <1>6 DEF Distinct
  <1> QED
    BY <1>3, <1>7, <1>8 DEF n, v

\* A sequence is its head followed by the rest.
LEMMA CutAndJoined ==
    ASSUME NEW A, NEW s \in Seq(A), NEW n \in 0..Len(s)
    PROVE  s = SubSeq(s, 1, n) \o SubSeq(s, n + 1, Len(s))
  <1> DEFINE u == SubSeq(s, 1, n)
             v == SubSeq(s, n + 1, Len(s))
             m == Len(s)
             w == u \o v
  <1>1. /\ u \in Seq(A) /\ v \in Seq(A) /\ Len(u) = n /\ Len(v) = m - n
        /\ \A i \in 1..n : u[i] = s[i]
        /\ \A i \in 1..(m - n) : v[i] = s[i + n]
    BY HeadAndRest
  <1>2. m \in Nat /\ n \in Nat /\ n <= m
    OBVIOUS
  <1> HIDE DEF u, v
  <1>3. w \in Seq(A) /\ Len(w) = m
    BY <1>1, <1>2
  <1>4. /\ \A i \in 1..n : w[i] = u[i]
        /\ \A i \in 1..(m - n) : w[n + i] = v[i]
    BY <1>1, InARow
  <1> HIDE DEF w, m
  <1>5. ASSUME NEW i \in 1..m PROVE w[i] = s[i]
    <2>1. CASE i <= n
      BY <1>1, <1>2, <1>4, <2>1
    <2>2. CASE i > n
      <3>1. i - n \in 1..(m - n) /\ n + (i - n) = i /\ (i - n) + n = i
        BY <1>2, <2>2
      <3>2. w[n + (i - n)] = v[i - n] /\ v[i - n] = s[(i - n) + n]
        BY <1>1, <1>4, <3>1
      <3> QED
        BY <3>1, <3>2
    <2> QED
      BY <1>2, <2>1, <2>2
  <1>6. w = s
    BY <1>3, <1>5 DEF m
  <1> QED
    BY ZenonT(30), <1>6 DEF w, u, v, m

\* The items of a sequence.
LEMMA Items ==
    ASSUME NEW A, NEW s \in Seq(A)
    PROVE  /\ \A x \in ToSet(s) : x \in A /\ \E i \in 1..Len(s) : s[i] = x
           /\ \A i \in 1..Len(s) : s[i] \in ToSet(s)
  BY DEF ToSet

\* Item x comes before item y in q.
Before(q, x, y) == \E i, j \in 1..Len(q) : i < j /\ q[i] = x /\ q[j] = y

\* Order in two sequences one after the other.
LEMMA BeforeInARow ==
    ASSUME NEW A, NEW s \in Seq(A), NEW t \in Seq(A), NEW x, NEW y
    PROVE  /\ Before(s, x, y) => Before(s \o t, x, y)
           /\ Before(t, x, y) => Before(s \o t, x, y)
           /\ x \in ToSet(s) /\ y \in ToSet(t) => Before(s \o t, x, y)
           /\ Before(s \o t, x, y) /\ x \notin ToSet(s) => Before(t, x, y)
  <1> DEFINE m == Len(s)  n == Len(t)  u == s \o t
  <1>1. /\ m \in Nat /\ n \in Nat /\ Len(u) = m + n
        /\ \A i \in 1..m : u[i] = s[i] /\ i \in 1..(m + n)
        /\ \A i \in 1..n : u[m + i] = t[i] /\ m + i \in 1..(m + n)
    <2>1. m \in Nat /\ n \in Nat
      OBVIOUS
    <2>2. /\ Len(u) = m + n
          /\ \A i \in 1..m : u[i] = s[i]
          /\ \A i \in 1..n : u[m + i] = t[i]
      BY InARow
    <2> HIDE DEF m, n, u
    <2> QED
      BY <2>1, <2>2
  <1>2. DOMAIN s = 1..m /\ DOMAIN t = 1..n
    OBVIOUS
  <1> HIDE DEF m, n, u
  <1>3. ASSUME NEW i \in 1..m, NEW j \in 1..m, i < j, s[i] = x, s[j] = y PROVE Before(u, x, y)
    BY <1>1, <1>3 DEF Before
  <1>4. ASSUME NEW i \in 1..n, NEW j \in 1..n, i < j, t[i] = x, t[j] = y PROVE Before(u, x, y)
    <2>1. m + i < m + j
      BY <1>1, <1>4
    <2> QED
      BY <1>1, <1>4, <2>1 DEF Before
  <1>5. ASSUME NEW i \in 1..m, NEW j \in 1..n, s[i] = x, t[j] = y PROVE Before(u, x, y)
    <2>1. i < m + j
      BY <1>1
    <2> QED
      BY <1>1, <1>5, <2>1 DEF Before
  <1>6. ASSUME NEW i \in 1..(m + n), NEW j \in 1..(m + n), i < j, u[i] = x, u[j] = y,
               \A k \in 1..m : s[k] # x
        PROVE  Before(t, x, y)
    <2> DEFINE a == i - m  b == j - m
    <2>1. i > m
      BY <1>1, <1>6
    <2>2. a \in 1..n /\ b \in 1..n /\ a < b /\ m + a = i /\ m + b = j
      BY <1>1, <1>6, <2>1
    <2> HIDE DEF a, b
    <2>3. t[a] = x /\ t[b] = y
      BY <1>1, <1>6, <2>2
    <2> QED
      BY <2>2, <2>3 DEF Before, n
  <1>7. Before(s, x, y) => Before(u, x, y)
    BY <1>3 DEF Before, m
  <1>8. Before(t, x, y) => Before(u, x, y)
    BY <1>4 DEF Before, n
  <1>9. x \in ToSet(s) /\ y \in ToSet(t) => Before(u, x, y)
    BY <1>2, <1>5 DEF ToSet
  <1>10. Before(u, x, y) /\ x \notin ToSet(s) => Before(t, x, y)
    <2>1. x \notin ToSet(s) => \A k \in 1..m : s[k] # x
      BY <1>2 DEF ToSet
    <2>2. Before(u, x, y) => \E i, j \in 1..(m + n) : i < j /\ u[i] = x /\ u[j] = y
      BY <1>1 DEF Before
    <2> QED
      BY <1>6, <2>1, <2>2
  <1> QED
    BY <1>7, <1>8, <1>9, <1>10 DEF u

\* Keep keeps the order.
LEMMA KeepBefore ==
    ASSUME NEW A, NEW q \in Seq(A), NEW S, Distinct(q), NEW x \in S, NEW y \in S, Before(q, x, y)
    PROVE  Before(Keep(q, S), x, y)
  <1>1. PICK i, j \in 1..Len(q) : i < j /\ q[i] = x /\ q[j] = y
    BY DEF Before
  <1> DEFINE k == Keep(q, S)
  <1>2. \E a, b \in 1..Len(k) : a < b /\ k[a] = q[i] /\ k[b] = q[j]
    BY <1>1, KeepOrder
  <1> HIDE DEF k
  <1>3. Before(k, x, y)
    BY <1>1, <1>2 DEF Before
  <1> QED
    BY <1>3 DEF k

\* Each item of a list comes before the preceding one in its reverse.
LEMMA ReverseBefore ==
    ASSUME NEW A, NEW s \in Seq(A), NEW i \in 2..Len(s)
    PROVE  Before(Reverse(s), s[i], s[i - 1])
  <1> DEFINE n == Len(s)  v == Reverse(s)  a == n - i + 1  b == n - (i - 1) + 1
  <1>1. n \in Nat /\ a \in 1..n /\ b \in 1..n /\ a < b /\ n - a + 1 = i /\ n - b + 1 = i - 1
    OBVIOUS
  <1>2. Len(v) = n /\ \A k \in 1..n : v[k] = s[n - k + 1]
    BY Reversed
  <1> HIDE DEF n, v, a, b
  <1>3. v[a] = s[i] /\ v[b] = s[i - 1]
    BY <1>1, <1>2
  <1>4. Before(v, s[i], s[i - 1])
    BY <1>1, <1>2, <1>3 DEF Before
  <1> QED
    BY <1>4 DEF v

-----------------------------------------------------------------------------
(* Hashes.                                                                  *)

Hashes == Seq(Seq(Nat) \X Seq(Nat))
KeysAndNext == [keys : Seq(Nat), next : Nat]

\* The hashes of consecutive blocks from the first on: each extends the one
\* before it by one block.
Chained(hs) ==
    /\ hs \in Seq(Hashes)
    /\ \A i \in 1..Len(hs) :
          /\ Len(hs[i]) = i
          /\ Front(hs[i]) = IF i = 1 THEN NoHash ELSE hs[i - 1]

\* The hashes from place a + 1 on are of the blocks of ids.
Tells(hs, ids, a) == \A i \in (a + 1)..Len(hs) : hs[i][i][1] = BlockTokens(ids, i)

\* One more block.
LEMMA HashExtends ==
    ASSUME NEW h \in Hashes, NEW ids, NEW i, NEW keys \in Seq(Nat),
           BlockTokens(ids, i) \in Seq(Nat)
    PROVE  LET g == HashBlockTokens(h, ids, i, keys)
           IN /\ g \in Hashes /\ Len(g) = Len(h) + 1 /\ g # NoHash
              /\ Front(g) = h /\ g[Len(h) + 1] = <<BlockTokens(ids, i), keys>>
              /\ \A j \in 1..Len(h) : g[j] = h[j]
  <1> DEFINE A == Seq(Nat) \X Seq(Nat)
             x == <<BlockTokens(ids, i), keys>>
             g == HashBlockTokens(h, ids, i, keys)
  <1>1. h \in Seq(A) /\ x \in A
    BY DEF Hashes
  <1>2. g = Append(h, x)
    BY DEF HashBlockTokens
  <1>3. Hashes = Seq(A)
    BY DEF Hashes
  <1> HIDE DEF A, x, g
  <1>4. /\ g \in Seq(A) /\ Len(g) = Len(h) + 1 /\ g[Len(h) + 1] = x
        /\ \A j \in 1..Len(h) : g[j] = h[j]
    BY <1>1, <1>2
  <1>5. Front(g) = h
    <2>1. Front(g) = SubSeq(g, 1, Len(h)) /\ Len(h) \in Nat
      BY <1>1, <1>4 DEF Front
    <2>2. SubSeq(g, 1, Len(h)) \in Seq(A) /\ Len(SubSeq(g, 1, Len(h))) = Len(h)
          /\ \A j \in 1..Len(h) : SubSeq(g, 1, Len(h))[j] = h[j]
      BY <1>1, <1>4
    <2> QED
      BY <1>1, <2>1, <2>2
  <1>6. g # NoHash
    BY <1>1, <1>4 DEF NoHash
  <1> QED
    BY <1>3, <1>4, <1>5, <1>6 DEF g, x

\* The tokens of a full block.
LEMMA FullBlock ==
    ASSUME BlockSize \in Nat \ {0}, NEW ids \in Seq(Nat), NEW i \in 1..(Len(ids) \div BlockSize)
    PROVE  BlockTokens(ids, i) \in Seq(Nat) /\ Len(BlockTokens(ids, i)) = BlockSize
  <1> DEFINE a == (i - 1) * BlockSize
             b == i * BlockSize
             n == Len(ids)
             q == n \div BlockSize
  <1>1. n \in Nat /\ q \in Nat /\ q * BlockSize <= n
    OBVIOUS
  <1>2. a \in Nat /\ b = a + BlockSize /\ b <= q * BlockSize
    BY <1>1
  <1>3. BlockTokens(ids, i) = SubSeq(ids, a + 1, b)
    BY DEF BlockTokens
  <1>4. b <= n /\ b \in Nat
    BY <1>1, <1>2
  <1> HIDE DEF a, b, q
  <1>5. \A j \in (a + 1)..b : ids[j] \in Nat
    BY <1>1, <1>2, <1>4
  <1> QED
    BY <1>1, <1>2, <1>3, <1>4, <1>5

\* The images of a request: each has at least one placeholder, and no two overlap.
LEMMA InputsAre ==
    ASSUME NEW r \in DOMAIN MMPositions
    PROVE  /\ Len(MMPositions[r]) \in Nat
           /\ \A i \in 1..Len(MMPositions[r]) :
                 /\ MMPositions[r][i].hash \in Nat
                 /\ InputStart(r, i) \in Nat /\ InputEnd(r, i) \in Nat
                 /\ InputStart(r, i) < InputEnd(r, i)
           /\ \A i \in 2..Len(MMPositions[r]) : InputEnd(r, i - 1) <= InputStart(r, i)
  <1> DEFINE I == [offset : Nat, length : Nat \ {0}, hash : Nat]
             m == MMPositions[r]
  <1>1. m \in Seq(I) /\ \A i \in 2..Len(m) : m[i - 1].offset + m[i - 1].length <= m[i].offset
    BY InputsAssumption
  <1>2. \A x \in I : x.offset \in Nat /\ x.length \in Nat /\ x.length > 0 /\ x.hash \in Nat
    OBVIOUS
  <1> HIDE DEF I
  <1>3. Len(m) \in Nat /\ \A i \in 1..Len(m) : m[i] \in I
    BY <1>1
  <1> QED
    BY <1>1, <1>2, <1>3 DEF InputStart, InputEnd, InputLength

\* The loop of _gen_mm_extra_hash_keys, read from the last image back: what it
\* returns when it comes to image i.
KeysFrom(K, r, start, end, first) ==
    LET n == Len(MMPositions[r])
    IN /\ K \in [first..(n + 1) -> KeysAndNext]
       /\ K[n + 1] = [keys |-> <<>>, next |-> n + 1]
       /\ \A i \in first..n :
             K[i] = IF end <= InputStart(r, i) THEN [keys |-> <<>>, next |-> i]
                    ELSE IF start > InputEnd(r, i) THEN K[i + 1]
                    ELSE IF end < InputEnd(r, i)
                    THEN [keys |-> <<MMPositions[r][i].hash>>, next |-> i]
                    ELSE [keys |-> <<MMPositions[r][i].hash>> \o K[i + 1].keys,
                          next |-> K[i + 1].next]
       /\ MMKeys(r, start, end, first)
          = IF n = 0 \/ InputEnd(r, n) < start THEN [keys |-> <<>>, next |-> first] ELSE K[first]

\* It is what MMKeys says.
LEMMA KeysUnfold ==
    ASSUME NEW r \in DOMAIN MMPositions, NEW start, NEW end,
           NEW first \in 1..(Len(MMPositions[r]) + 1)
    PROVE  \E K : KeysFrom(K, r, start, end, first)
  <1> DEFINE n == Len(MMPositions[r])
             hash(i) == MMPositions[r][i].hash
             D == KeysAndNext
             Body(K) == [i \in first..(n + 1) |->
                            IF i > n \/ end <= InputStart(r, i) THEN [keys |-> <<>>, next |-> i]
                            ELSE IF start > InputEnd(r, i) THEN K[i + 1]
                            ELSE IF end < InputEnd(r, i)
                            THEN [keys |-> <<hash(i)>>, next |-> i]
                            ELSE LET rest == K[i + 1]
                                 IN [rest EXCEPT !.keys = <<hash(i)>> \o @]]
             Step(i, x) == IF end <= InputStart(r, i) THEN [keys |-> <<>>, next |-> i]
                           ELSE IF start > InputEnd(r, i) THEN x
                           ELSE IF end < InputEnd(r, i) THEN [keys |-> <<hash(i)>>, next |-> i]
                           ELSE [keys |-> <<hash(i)>> \o x.keys, next |-> x.next]
             step == [i \in first..((n + 1) - 1) |-> [x \in D |-> Step(i, x)]]
             base == [keys |-> <<>>, next |-> n + 1]
             C == CHOOSE K : K = Body(K)
  <1>1. n \in Nat /\ first \in 1..(n + 1) /\ \A i \in 1..n : hash(i) \in Nat
    BY InputsAre
  <1>2. MMKeys(r, start, end, first)
        = IF n = 0 \/ InputEnd(r, n) < start THEN [keys |-> <<>>, next |-> first] ELSE C[first]
    BY Zenon DEF MMKeys
  <1> HIDE DEF n
  <1>3. base \in D
    BY <1>1 DEF KeysAndNext
  <1>4. \A i \in first..n, x \in D : Step(i, x) \in D
    <2> TAKE i \in first..n, x \in D
    <2>1. i \in 1..n /\ hash(i) \in Nat /\ x.keys \in Seq(Nat) /\ x.next \in Nat
      BY <1>1 DEF KeysAndNext
    <2> HIDE DEF hash
    <2>2. <<hash(i)>> \in Seq(Nat) /\ <<hash(i)>> \o x.keys \in Seq(Nat)
      BY <2>1
    <2> QED
      BY <1>1, <2>1, <2>2 DEF KeysAndNext
  <1> HIDE DEF base, Step, D
  <1>5. step \in [first..((n + 1) - 1) -> [D -> D]]
    BY <1>1, <1>4
  <1>6. ASSUME NEW K, NEW i \in first..n, K[i + 1] \in D
        PROVE  Body(K)[i] = Step(i, K[i + 1])
    <2>1. i \in first..(n + 1) /\ ~(i > n)
      BY <1>1
    <2>2. \A rest \in D : [rest EXCEPT !.keys = <<hash(i)>> \o @]
                          = [keys |-> <<hash(i)>> \o rest.keys, next |-> rest.next]
      <3> TAKE rest \in D
      <3> DEFINE k == <<hash(i)>> \o rest.keys
      <3>1. rest \in [keys : Seq(Nat), next : Nat]
        BY DEF D, KeysAndNext
      <3> HIDE DEF k
      <3>2. [rest EXCEPT !.keys = k] = [keys |-> k, next |-> rest.next]
        BY <3>1
      <3> QED
        BY <3>2 DEF k
    <2>3. Body(K)[i] = IF end <= InputStart(r, i) THEN [keys |-> <<>>, next |-> i]
                       ELSE IF start > InputEnd(r, i) THEN K[i + 1]
                       ELSE IF end < InputEnd(r, i)
                       THEN [keys |-> <<hash(i)>>, next |-> i]
                       ELSE [K[i + 1] EXCEPT !.keys = <<hash(i)>> \o @]
      BY <2>1, Zenon
    <2> HIDE DEF Body, hash
    <2> QED
      BY ZenonT(30), <1>6, <2>2, <2>3 DEF Step
  <1>7. \A K : Body(K)[n + 1] = base
    <2>1. n + 1 \in first..(n + 1) /\ n + 1 > n
      BY <1>1
    <2> QED
      BY <2>1 DEF base
  <1>8. \A K : DOMAIN Body(K) = first..(n + 1) /\ Body(K) = [i \in first..(n + 1) |-> Body(K)[i]]
    OBVIOUS
  <1> HIDE DEF Body
  <1>9. \E K : K = Body(K)
    <2> HIDE DEF step
    <2>0. first \in Int /\ n + 1 \in Int /\ first <= n + 1
      BY <1>1
    <2>1. PICK F : IteratedDown(F, first, n + 1, D, base, step)
      BY <2>0, <1>3, <1>5, IteratesDown
    <2>2. ASSUME NEW i \in first..(n + 1) PROVE F[i] = Body(F)[i]
      <3>1. CASE i = n + 1
        BY <1>7, <2>1, <3>1 DEF IteratedDown
      <3>2. CASE i # n + 1
        <4>1. i \in first..n /\ i \in first..((n + 1) - 1) /\ i + 1 \in first..(n + 1)
          BY <1>1, <3>2
        <4>2. F[i] = step[i][F[i + 1]] /\ F[i + 1] \in D
          BY <2>1, <4>1 DEF IteratedDown
        <4>3. step[i][F[i + 1]] = Step(i, F[i + 1])
          BY <4>1, <4>2 DEF step
        <4> QED
          BY <1>6, <4>1, <4>2, <4>3
      <3> QED
        BY <3>1, <3>2
    <2>3. F = Body(F)
      <3>1. F = [i \in first..(n + 1) |-> F[i]]
        BY <2>1 DEF IteratedDown
      <3> QED
        BY ZenonT(30), <1>8, <2>2, <3>1
    <2> QED
      BY <2>3
  <1>10. C = Body(C)
    BY <1>9
  <1> HIDE DEF C
  <1>11. C[n + 1] = base
    BY <1>7, <1>10
  <1>12. \A i \in first..(n + 1) : C[i] \in D
    <2> DEFINE T == {i \in first..(n + 1) : C[i] \in D}
    <2>1. n + 1 \in T
      BY <1>1, <1>3, <1>11
    <2>2. ASSUME NEW i \in first..((n + 1) - 1), i + 1 \in T PROVE i \in T
      <3>1. i \in first..n /\ i \in first..(n + 1) /\ C[i + 1] \in D
        BY <1>1, <2>2
      <3>2. C[i] = Step(i, C[i + 1])
        BY <1>6, <1>10, <3>1
      <3> QED
        BY <1>4, <3>1, <3>2
    <2> HIDE DEF T
    <2>0. first \in Int /\ n + 1 \in Int /\ first <= n + 1
      BY <1>1
    <2>3. first..(n + 1) \subseteq T
      BY ZenonT(30), <2>0, <2>1, <2>2, DownTo
    <2> QED
      BY <2>3 DEF T
  <1>13. ASSUME NEW i \in first..n PROVE C[i] = Step(i, C[i + 1])
    <2>1. i + 1 \in first..(n + 1)
      BY <1>1
    <2> QED
      BY <1>6, <1>10, <1>12, <2>1
  <1>14. C \in [first..(n + 1) -> D]
    <2>1. C = [i \in first..(n + 1) |-> C[i]]
      BY <1>8, <1>10
    <2> QED
      BY <1>12, <2>1
  <1>15. KeysFrom(C, r, start, end, first)
    BY ZenonT(30), <1>2, <1>11, <1>13, <1>14 DEF KeysFrom, base, Step, D, n
  <1> QED
    BY <1>15

\* The keys are hashes of images, and the images passed are never looked at again.
LEMMA KeysType ==
    ASSUME NEW r \in DOMAIN MMPositions, NEW start, NEW end,
           NEW first \in 1..(Len(MMPositions[r]) + 1)
    PROVE  LET k == MMKeys(r, start, end, first)
           IN k.keys \in Seq(Nat) /\ k.next \in first..(Len(MMPositions[r]) + 1)
  <1> DEFINE n == Len(MMPositions[r])
             k == MMKeys(r, start, end, first)
  <1>1. PICK K : KeysFrom(K, r, start, end, first)
    BY KeysUnfold
  <1>2. n \in Nat /\ first \in 1..(n + 1) /\ first \in Int /\ n + 1 \in Int /\ first <= n + 1
    BY InputsAre
  <1>3. /\ K \in [first..(n + 1) -> KeysAndNext]
        /\ K[n + 1] = [keys |-> <<>>, next |-> n + 1]
        /\ k = IF n = 0 \/ InputEnd(r, n) < start THEN [keys |-> <<>>, next |-> first] ELSE K[first]
    BY ZenonT(30), <1>1 DEF KeysFrom
  <1> DEFINE T == {i \in first..(n + 1) : K[i].next \in i..(n + 1)}
  <1>4. n + 1 \in T
    BY <1>2, <1>3
  <1>5. ASSUME NEW i \in first..((n + 1) - 1), i + 1 \in T PROVE i \in T
    <2>1. i \in first..n /\ i \in first..(n + 1) /\ K[i + 1].next \in (i + 1)..(n + 1)
      BY <1>2, <1>5
    <2>2. \/ K[i] = [keys |-> <<>>, next |-> i]
          \/ K[i] = K[i + 1]
          \/ K[i] = [keys |-> <<MMPositions[r][i].hash>>, next |-> i]
          \/ K[i] = [keys |-> <<MMPositions[r][i].hash>> \o K[i + 1].keys, next |-> K[i + 1].next]
      BY ZenonT(30), <1>1, <2>1 DEF KeysFrom
    <2>3. K[i].next = i \/ K[i].next = K[i + 1].next
      BY <2>2
    <2>4. K[i].next \in i..(n + 1)
      BY <1>2, <2>1, <2>3
    <2> QED
      BY <2>1, <2>4
  <1> HIDE DEF T
  <1>6. first..(n + 1) \subseteq T
    BY ZenonT(30), <1>2, <1>4, <1>5, DownTo
  <1>7. K[first].next \in first..(n + 1) /\ K[first].keys \in Seq(Nat)
    BY <1>2, <1>3, <1>6 DEF T, KeysAndNext
  <1> HIDE DEF n, k
  <1>8. k.keys \in Seq(Nat) /\ k.next \in first..(n + 1)
    <2>1. CASE k = [keys |-> <<>>, next |-> first]
      BY <1>2, <2>1
    <2>2. CASE k = K[first]
      BY <1>7, <2>2
    <2> QED
      BY <1>3, <2>1, <2>2
  <1> QED
    BY <1>8 DEF n, k

\* cache_full_blocks asks for the keys of the last image; there may be none.
LEMMA LastKeysType ==
    ASSUME NEW r \in DOMAIN MMPositions, NEW i
    PROVE  LastKeys(r, i) \in Seq(Nat)
  <1> DEFINE n == Len(MMPositions[r])
  <1>1. n \in Nat
    BY InputsAre
  <1>2. CASE n = 0
    <2>1. \A a, b, c : MMKeys(r, a, b, c) = [keys |-> <<>>, next |-> c]
      BY <1>2, Zenon DEF MMKeys
    <2>2. \A a, b, c : MMKeys(r, a, b, c).keys = <<>>
      BY <2>1
    <2>3. LastKeys(r, i) = <<>>
      BY <2>2, Zenon DEF LastKeys
    <2> QED
      BY <2>3
  <1>3. CASE n # 0
    <2>1. n \in 1..(n + 1)
      BY <1>1, <1>3
    <2> QED
      BY <2>1, KeysType DEF LastKeys
  <1> QED
    BY <1>2, <1>3

\* The loop of hash_request_tokens: the hash of each full block and the image
\* to look at next.
Hashed(H, r, ids) ==
    LET n == Len(ids) \div BlockSize
        key(i) == MMKeys(r, (i - 1) * BlockSize, i * BlockSize, H[i - 1].next)
    IN /\ H \in [0..n -> [hash : Hashes, next : 1..(Len(MMPositions[r]) + 1)]]
       /\ H[0] = [hash |-> NoHash, next |-> 1]
       /\ \A i \in 1..n :
             /\ H[i].hash = HashBlockTokens(H[i - 1].hash, ids, i, key(i).keys)
             /\ H[i].next = key(i).next
       /\ HashRequestTokens(r, ids) = [i \in 1..n |-> H[i].hash]

\* It is what HashRequestTokens says.
LEMMA HashesUnfold ==
    ASSUME BlockSize \in Nat \ {0}, NEW r \in DOMAIN MMPositions, NEW ids \in Seq(Nat)
    PROVE  \E H : Hashed(H, r, ids)
  <1> DEFINE n == Len(ids) \div BlockSize
             D == [hash : Hashes, next : 1..(Len(MMPositions[r]) + 1)]
             Key(i, x) == MMKeys(r, (i - 1) * BlockSize, i * BlockSize, x.next)
             Step(i, x) == [hash |-> HashBlockTokens(x.hash, ids, i, Key(i, x).keys),
                            next |-> Key(i, x).next]
             base == [hash |-> NoHash, next |-> 1]
             Body(H) == [i \in 0..n |->
                            IF i = 0 THEN [hash |-> NoHash, next |-> 1]
                            ELSE LET prev == H[i - 1]
                                     k == MMKeys(r, (i - 1) * BlockSize, i * BlockSize, prev.next)
                                 IN [hash |-> HashBlockTokens(prev.hash, ids, i, k.keys),
                                     next |-> k.next]]
             step == [i \in 1..n |-> [x \in D |-> Step(i, x)]]
             C == CHOOSE H : H = Body(H)
  <1>1. n \in Nat
    OBVIOUS
  <1>2. HashRequestTokens(r, ids) = [i \in 1..n |-> C[i].hash]
    BY Zenon DEF HashRequestTokens
  <1>3. base \in D
    BY InputsAre DEF NoHash, Hashes
  <1>4. ASSUME NEW i \in 1..n, NEW x \in D PROVE Step(i, x) \in D
    <2>1. x.hash \in Hashes /\ x.next \in 1..(Len(MMPositions[r]) + 1)
      OBVIOUS
    <2>2. /\ Key(i, x).keys \in Seq(Nat)
          /\ Key(i, x).next \in x.next..(Len(MMPositions[r]) + 1)
      BY <2>1, KeysType
    <2>3. BlockTokens(ids, i) \in Seq(Nat)
      BY FullBlock
    <2> HIDE DEF Key, n
    <2>4. HashBlockTokens(x.hash, ids, i, Key(i, x).keys) \in Hashes
      BY <2>1, <2>2, <2>3, HashExtends
    <2>5. Key(i, x).next \in 1..(Len(MMPositions[r]) + 1)
      BY <2>1, <2>2, InputsAre
    <2> QED
      BY <2>4, <2>5
  <1> HIDE DEF n, D, base
  <1>5. \A H : /\ DOMAIN Body(H) = 0..n /\ Body(H)[0] = base
               /\ \A i \in 1..n : Body(H)[i] = Step(i, H[i - 1])
               /\ Body(H) = [i \in 0..n |-> Body(H)[i]]
    <2> TAKE H
    <2>1. DOMAIN Body(H) = 0..n /\ Body(H) = [i \in 0..n |-> Body(H)[i]]
      OBVIOUS
    <2>2. Body(H)[0] = base
      BY <1>1 DEF base
    <2>3. ASSUME NEW i \in 1..n PROVE Body(H)[i] = Step(i, H[i - 1])
      <3>1. i \in 0..n /\ i # 0
        BY <1>1
      <3> QED
        BY <3>1, Zenon
    <2> QED
      BY ZenonT(30), <2>1, <2>2, <2>3
  <1> HIDE DEF Step
  <1>6. step \in [1..n -> [D -> D]]
    BY <1>4
  <1> HIDE DEF Body
  <1>7. \E H : H = Body(H)
    <2> HIDE DEF step
    <2>1. PICK F : Iterated(F, n, D, base, step)
      BY <1>1, <1>3, <1>6, Iterates
    <2>2. ASSUME NEW i \in 0..n PROVE F[i] = Body(F)[i]
      <3>1. CASE i = 0
        BY <1>5, <2>1, <3>1 DEF Iterated
      <3>2. CASE i # 0
        <4>1. i \in 1..n /\ i - 1 \in 0..n
          BY <1>1, <3>2
        <4>2. F[i] = step[i][F[i - 1]] /\ F[i - 1] \in D
          BY <2>1, <4>1 DEF Iterated
        <4>3. step[i][F[i - 1]] = Step(i, F[i - 1])
          BY <4>1, <4>2 DEF step
        <4> QED
          BY <1>5, <4>1, <4>2, <4>3
      <3> QED
        BY <3>1, <3>2
    <2>3. F = [i \in 0..n |-> F[i]]
      BY <2>1 DEF Iterated
    <2>4. F = Body(F)
      BY ZenonT(30), <1>5, <2>2, <2>3
    <2> QED
      BY <2>4
  <1>8. C = Body(C)
    BY <1>7
  <1> HIDE DEF C
  <1>9. C[0] = base /\ \A i \in 1..n : C[i] = Step(i, C[i - 1])
    BY <1>5, <1>8
  <1>10. \A i \in 0..n : C[i] \in D
    <2> DEFINE T == {i \in 0..n : C[i] \in D}
    <2>1. 0 \in T
      BY <1>1, <1>3, <1>9
    <2>2. ASSUME NEW i \in 1..n, i - 1 \in T PROVE i \in T
      BY <1>1, <1>4, <1>9, <2>2
    <2> HIDE DEF T
    <2>3. 0..n \subseteq T
      BY ZenonT(30), <1>1, <2>1, <2>2, UpTo
    <2> QED
      BY <2>3 DEF T
  <1>11. C \in [0..n -> D]
    <2>1. C = [i \in 0..n |-> C[i]]
      BY <1>5, <1>8
    <2> QED
      BY <1>10, <2>1
  <1>12. \A i \in 1..n : /\ C[i].hash = HashBlockTokens(C[i - 1].hash, ids, i, Key(i, C[i - 1]).keys)
                         /\ C[i].next = Key(i, C[i - 1]).next
    <2> TAKE i \in 1..n
    <2> DEFINE k == Key(i, C[i - 1])
               h == HashBlockTokens(C[i - 1].hash, ids, i, k.keys)
    <2>1. C[i] = [hash |-> h, next |-> k.next]
      BY <1>9, Zenon DEF Step
    <2> HIDE DEF h, k
    <2>2. C[i].hash = h /\ C[i].next = k.next
      BY <2>1
    <2> QED
      BY <2>2 DEF h, k
  <1>13. Hashed(C, r, ids)
    BY <1>2, <1>9, <1>11, <1>12, Zenon DEF Hashed, D, n, base
  <1> QED
    BY <1>13

\* hash_request_tokens returns a chain, of one hash for each full block, and each
\* tells the tokens of its block.
LEMMA HashesChained ==
    ASSUME BlockSize \in Nat \ {0}, NEW r \in DOMAIN MMPositions, NEW ids \in Seq(Nat)
    PROVE  LET hs == HashRequestTokens(r, ids)
           IN Chained(hs) /\ Len(hs) = Len(ids) \div BlockSize /\ Tells(hs, ids, 0)
  <1> DEFINE n == Len(ids) \div BlockSize
             D == [hash : Hashes, next : 1..(Len(MMPositions[r]) + 1)]
             hs == HashRequestTokens(r, ids)
  <1>1. n \in Nat
    OBVIOUS
  <1>2. PICK H : Hashed(H, r, ids)
    BY HashesUnfold
  <1>3. /\ H \in [0..n -> D] /\ H[0].hash = NoHash
        /\ hs = [i \in 1..n |-> H[i].hash]
    BY <1>2 DEF Hashed
  <1>4. \A i \in 0..n : H[i].hash \in Hashes /\ H[i].next \in 1..(Len(MMPositions[r]) + 1)
    BY <1>3
  <1>5. ASSUME NEW i \in 1..n
        PROVE  /\ Len(H[i].hash) = Len(H[i - 1].hash) + 1
               /\ Front(H[i].hash) = H[i - 1].hash
               /\ H[i].hash[Len(H[i - 1].hash) + 1][1] = BlockTokens(ids, i)
    <2> DEFINE key == MMKeys(r, (i - 1) * BlockSize, i * BlockSize, H[i - 1].next)
    <2>1. H[i].hash = HashBlockTokens(H[i - 1].hash, ids, i, key.keys)
      BY <1>2 DEF Hashed
    <2>2. i - 1 \in 0..n
      BY <1>1
    <2>3. key.keys \in Seq(Nat)
      BY <1>4, <2>2, KeysType
    <2>4. BlockTokens(ids, i) \in Seq(Nat)
      BY FullBlock
    <2> HIDE DEF key, n
    <2> QED
      BY <1>4, <2>1, <2>2, <2>3, <2>4, HashExtends
  <1> HIDE DEF n, D, hs
  <1>6. \A i \in 0..n : Len(H[i].hash) = i
    <2> DEFINE T == {i \in 0..n : Len(H[i].hash) = i}
    <2>1. 0 \in T
      BY <1>1, <1>3 DEF NoHash
    <2>2. ASSUME NEW i \in 1..n, i - 1 \in T PROVE i \in T
      BY <1>1, <1>5, <2>2
    <2> HIDE DEF T
    <2>3. 0..n \subseteq T
      BY ZenonT(30), <1>1, <2>1, <2>2, UpTo
    <2> QED
      BY <2>3 DEF T
  <1>7. hs \in Seq(Hashes) /\ Len(hs) = n /\ \A i \in 1..n : hs[i] = H[i].hash
    BY <1>1, <1>3, <1>4
  <1>8. ASSUME NEW i \in 1..n
        PROVE  Len(hs[i]) = i /\ Front(hs[i]) = IF i = 1 THEN NoHash ELSE hs[i - 1]
    <2>1. hs[i] = H[i].hash /\ Len(hs[i]) = i /\ Front(hs[i]) = H[i - 1].hash
      BY <1>1, <1>5, <1>6, <1>7
    <2>2. i = 1 => H[i - 1].hash = NoHash
      BY <1>3
    <2>3. i # 1 => H[i - 1].hash = hs[i - 1]
      BY <1>1, <1>7
    <2> QED
      BY <2>1, <2>2, <2>3
  <1>9. ASSUME NEW i \in 1..n PROVE hs[i][i][1] = BlockTokens(ids, i)
    <2>1. i - 1 \in 0..n /\ (i - 1) + 1 = i
      BY <1>1
    <2>2. Len(H[i - 1].hash) + 1 = i
      BY <1>6, <2>1
    <2> QED
      BY ZenonT(30), <1>5, <1>7, <2>2
  <1> QED
    BY <1>1, <1>7, <1>8, <1>9 DEF Chained, Tells, n, hs

-----------------------------------------------------------------------------
(* The block pool.                                                          *)


Usable == Blocks \ {NullBlock}

Pools == [ref    : [Blocks -> Nat],
          hash   : [Blocks -> Hashes],
          cached : SUBSET (Hashes \X Blocks),
          queue  : Seq(Usable)]

\* A pool in good order.  The null block is never hashed.
PoolInv(p) ==
    /\ p \in Pools
    /\ QueueExact(p)
    /\ CacheExact(p)
    /\ p.hash[NullBlock] = NoHash

\* The hash table holds a pair exactly when the block carries that hash.
Pairs(p) ==
    \A h \in Hashes, b \in Blocks :
        <<h, b>> \in p.cached <=> (h # NoHash /\ p.hash[b] = h)

\* CacheExact, pair by pair.
LEMMA CacheByPairs ==
    ASSUME NEW p \in Pools
    PROVE  CacheExact(p) <=> Pairs(p)
  <1>1. p.cached \subseteq Hashes \X Blocks /\ p.hash \in [Blocks -> Hashes]
    BY DEF Pools
  <1>2. ASSUME CacheExact(p), NEW h \in Hashes, NEW b \in Blocks
        PROVE  <<h, b>> \in p.cached <=> (h # NoHash /\ p.hash[b] = h)
    <2> DEFINE L == {c[1] : c \in {d \in p.cached : d[2] = b}}
               R == IF p.hash[b] = NoHash THEN {} ELSE {p.hash[b]}
    <2>1. L = R
      BY <1>2 DEF CacheExact
    <2>2. <<h, b>> \in p.cached => h \in L
      OBVIOUS
    <2>3. ASSUME h \in L PROVE <<h, b>> \in p.cached
      <3>1. PICK c \in p.cached : c[2] = b /\ c[1] = h
        BY <2>3
      <3> QED
        BY <1>1, <3>1
    <2>4. h \in R <=> (h # NoHash /\ p.hash[b] = h)
      OBVIOUS
    <2> QED
      BY <2>1, <2>2, <2>3, <2>4
  <1>3. ASSUME Pairs(p), NEW b \in Blocks
        PROVE  {c[1] : c \in {d \in p.cached : d[2] = b}}
               = (IF p.hash[b] = NoHash THEN {} ELSE {p.hash[b]})
    <2> DEFINE L == {c[1] : c \in {d \in p.cached : d[2] = b}}
    <2>1. ASSUME NEW h \in L PROVE h # NoHash /\ p.hash[b] = h
      <3>1. PICK c \in p.cached : c[2] = b /\ c[1] = h
        OBVIOUS
      <3>2. c = <<h, b>> /\ h \in Hashes
        BY <1>1, <3>1
      <3> QED
        BY <1>3, <3>1, <3>2 DEF Pairs
    <2>2. ASSUME p.hash[b] # NoHash PROVE p.hash[b] \in L
      <3>1. <<p.hash[b], b>> \in p.cached
        BY <1>1, <1>3, <2>2 DEF Pairs
      <3> QED
        BY <3>1
    <2> QED
      BY <2>1, <2>2
  <1> QED
    BY ZenonT(30), <1>2, <1>3 DEF CacheExact, Pairs

\* The free list: a sequence without repetition of the blocks without a reference.
LEMMA QueueIs ==
    ASSUME NEW p, PoolInv(p)
    PROVE  /\ p \in Pools /\ p.ref \in [Blocks -> Nat] /\ p.queue \in Seq(Usable)
           /\ Distinct(p.queue) /\ ToSet(p.queue) = {b \in Usable : p.ref[b] = 0}
           /\ Len(p.queue) \in Nat
  <1>1. p \in Pools /\ p.ref \in [Blocks -> Nat] /\ p.queue \in Seq(Usable) /\ QueueExact(p)
    BY DEF PoolInv, Pools
  <1>2. Distinct(p.queue)
    BY <1>1 DEF QueueExact, Distinct
  <1>3. ToSet(p.queue) = {b \in Usable : p.ref[b] = 0}
    BY <1>1 DEF QueueExact, Usable
  <1> QED
    BY <1>1, <1>2, <1>3

\* __init__ leaves a pool in good order, with every block but the null block in
\* the free list.
LEMMA InitPoolInv == PoolInv(InitPool)
  <1> USE PoolAssumption DEF Blocks, Usable, NullBlock
  <1>1. NoHash \in Hashes
    BY DEF NoHash, Hashes
  <1>2. InitPool.queue \in Seq(Usable) /\ Len(InitPool.queue) = NumBlocks - 1
    BY DEF InitPool
  <1>3. InitPool \in Pools
    BY <1>1, <1>2 DEF Pools, InitPool
  <1>4. \A i \in 1..Len(InitPool.queue) : InitPool.queue[i] = i
    BY <1>2 DEF InitPool
  <1>5. QueueExact(InitPool)
    <2>1. ToSet(InitPool.queue) = 1..(NumBlocks - 1)
      BY <1>2, <1>4 DEF ToSet
    <2>2. \A b \in Blocks : InitPool.ref[b] = 0
      BY DEF InitPool
    <2> QED
      BY <1>2, <1>4, <2>1, <2>2 DEF QueueExact
  <1>6. Pairs(InitPool)
    BY DEF Pairs, InitPool
  <1> QED
    BY <1>3, <1>5, <1>6, CacheByPairs DEF PoolInv, InitPool

\* _maybe_evict_cached_block: a block of S leaves the table and its hash is
\* forgotten, whether it had one or not.
LEMMA EvictIs ==
    ASSUME NEW p \in Pools, CacheExact(p), NEW S \in SUBSET Blocks
    PROVE  LET e == Evict(p, S)
           IN /\ e \in Pools /\ CacheExact(e)
              /\ e.ref = p.ref /\ e.queue = p.queue
              /\ \A b \in Blocks : e.hash[b] = IF b \in S THEN NoHash ELSE p.hash[b]
              /\ e.cached = {c \in p.cached : c[2] \notin S}
  <1> DEFINE e == Evict(p, S)
             E == {b \in S : p.hash[b] # NoHash /\ CachedBlocks(p, p.hash[b]) # {}}
             hash == [b \in Blocks |-> IF b \in E THEN NoHash ELSE p.hash[b]]
             cached == {c \in p.cached : ~(c[2] \in E /\ c[1] = p.hash[c[2]])}
  <1>1. e = [p EXCEPT !.hash = hash, !.cached = cached]
    BY DEF Evict
  <1>2. Pairs(p) /\ p.cached \subseteq Hashes \X Blocks /\ p.hash \in [Blocks -> Hashes]
    BY CacheByPairs DEF Pools
  <1>3. \A b \in S : b \in E <=> p.hash[b] # NoHash
    <2> TAKE b \in S
    <2>1. ASSUME p.hash[b] # NoHash PROVE b \in CachedBlocks(p, p.hash[b])
      BY <1>2, <2>1 DEF Pairs, CachedBlocks
    <2> QED
      BY <2>1
  <1>4. \A b \in Blocks : hash[b] = IF b \in S THEN NoHash ELSE p.hash[b]
    BY <1>3
  <1>5. ASSUME NEW c \in p.cached PROVE c \in cached <=> c[2] \notin S
    <2>1. c[1] \in Hashes /\ c[2] \in Blocks /\ c = <<c[1], c[2]>>
      BY <1>2
    <2>2. c[1] # NoHash /\ p.hash[c[2]] = c[1]
      BY <1>2, <2>1 DEF Pairs
    <2> QED
      BY <1>3, <2>1, <2>2
  <1>6. cached = {c \in p.cached : c[2] \notin S}
    BY <1>5
  <1>7. hash \in [Blocks -> Hashes]
    BY <1>2 DEF NoHash, Hashes
  <1> HIDE DEF E, hash, cached
  <1>8. e \in Pools /\ e.ref = p.ref /\ e.queue = p.queue /\ e.hash = hash /\ e.cached = cached
    BY ZenonT(30), <1>1, <1>2, <1>6, <1>7 DEF Pools
  <1> HIDE DEF e
  <1>9. ASSUME NEW h \in Hashes, NEW b \in Blocks
        PROVE  <<h, b>> \in e.cached <=> (h # NoHash /\ e.hash[b] = h)
    <2>1. <<h, b>> \in e.cached <=> <<h, b>> \in p.cached /\ b \notin S
      BY <1>6, <1>8
    <2>2. <<h, b>> \in p.cached <=> (h # NoHash /\ p.hash[b] = h)
      BY <1>2 DEF Pairs
    <2>3. e.hash[b] = IF b \in S THEN NoHash ELSE p.hash[b]
      BY <1>4, <1>8
    <2> QED
      BY <2>1, <2>2, <2>3
  <1>10. CacheExact(e)
    BY <1>8, <1>9, CacheByPairs DEF Pairs
  <1> QED
    BY <1>4, <1>6, <1>8, <1>10 DEF e

\* The blocks of S that are in the free list of p.
Idle(p, S) == {b \in S : p.ref[b] = 0 /\ b # NullBlock}

\* touch: the blocks of S get a reference and leave the free list.
LEMMA TouchIs ==
    ASSUME NEW p, PoolInv(p), NEW S \in SUBSET Usable
    PROVE  LET t == Touch(p, S)
               taken == Idle(p, S)
           IN /\ PoolInv(t)
              /\ \A b \in Blocks : t.ref[b] = p.ref[b] + (IF b \in S THEN 1 ELSE 0)
              /\ t.hash = p.hash /\ t.cached = p.cached
              /\ t.queue = Keep(p.queue, Blocks \ taken)
              /\ NumFree(t) = NumFree(p) - Cardinality(taken)
  <1> DEFINE t == Touch(p, S)
             taken == Idle(p, S)
             queue == Keep(p.queue, Blocks \ taken)
             ref == [b \in Blocks |-> p.ref[b] + (IF b \in S THEN 1 ELSE 0)]
  <1>1. t = [p EXCEPT !.queue = queue, !.ref = ref]
    BY DEF Touch, Idle
  <1>2. /\ p \in Pools /\ p.ref \in [Blocks -> Nat] /\ p.queue \in Seq(Usable)
        /\ Distinct(p.queue) /\ ToSet(p.queue) = {b \in Usable : p.ref[b] = 0}
    BY QueueIs
  <1>3. queue \in Seq(Usable) /\ Distinct(queue)
        /\ ToSet(queue) = ToSet(p.queue) \cap (Blocks \ taken)
    BY <1>2, KeepItems
  <1>4. ref \in [Blocks -> Nat]
    BY <1>2
  <1>5. ToSet(queue) = {b \in Usable : ref[b] = 0}
    <2>1. \A b \in Usable : ref[b] = 0 <=> p.ref[b] = 0 /\ b \notin taken
      BY <1>2 DEF Usable, Idle
    <2> HIDE DEF ref, taken
    <2> QED
      BY ZenonT(30), <1>2, <1>3, <2>1 DEF Usable
  <1>6. ToSet(queue) = ToSet(p.queue) \ taken /\ taken \subseteq ToSet(p.queue)
    BY <1>2, <1>3 DEF Usable, Idle
  <1>7. Len(queue) = Len(p.queue) - Cardinality(taken)
    <2> HIDE DEF queue, taken
    <2>1. IsFiniteSet(ToSet(p.queue)) /\ Cardinality(ToSet(p.queue)) = Len(p.queue)
      BY ZenonT(30), <1>2, InjectiveLength
    <2>2. Cardinality(ToSet(queue)) = Len(queue)
      BY ZenonT(30), <1>3, InjectiveLength
    <2>3. Cardinality(ToSet(p.queue) \ taken)
          = Cardinality(ToSet(p.queue)) - Cardinality(taken)
      BY ZenonT(30), <1>6, <2>1, PartOf
    <2> QED
      BY ZenonT(30), <1>6, <2>1, <2>2, <2>3
  <1> HIDE DEF queue, ref, taken
  <1>8. t \in Pools /\ t.queue = queue /\ t.ref = ref /\ t.hash = p.hash /\ t.cached = p.cached
    BY ZenonT(30), <1>1, <1>2, <1>3, <1>4 DEF Pools
  <1> HIDE DEF t
  <1>9. QueueExact(t)
    BY <1>3, <1>5, <1>8 DEF QueueExact, Distinct, Usable
  <1>10. CacheExact(t) /\ t.hash[NullBlock] = NoHash
    BY <1>8 DEF CacheExact, PoolInv
  <1>11. \A b \in Blocks : t.ref[b] = p.ref[b] + (IF b \in S THEN 1 ELSE 0)
    BY <1>8 DEF ref
  <1> QED
    BY <1>7, <1>8, <1>9, <1>10, <1>11 DEF PoolInv, NumFree, t, queue, taken

\* What the cache keeps once the blocks of S are evicted.
Uncached(cached, S) == {c \in cached : c[2] \notin S}

\* get_new_blocks, when the free list is long enough: different blocks, without
\* a reference before the call, with one and without a hash after it.
LEMMA NewBlocksAre ==
    ASSUME NEW p, PoolInv(p), NEW n \in 1..NumFree(p)
    PROVE  LET g == GetNewBlocks(p, n)
               new == NewBlocks(p, n)
           IN /\ new \in Seq(Usable) /\ Len(new) = n /\ Distinct(new)
              /\ \A b \in ToSet(new) : p.ref[b] = 0
              /\ PoolInv(g)
              /\ \A b \in Blocks : g.ref[b] = p.ref[b] + (IF b \in ToSet(new) THEN 1 ELSE 0)
              /\ \A b \in Blocks : g.hash[b] = IF b \in ToSet(new) THEN NoHash ELSE p.hash[b]
              /\ g.cached = Uncached(p.cached, ToSet(new))
              /\ g.queue = SubSeq(p.queue, n + 1, Len(p.queue))
  <1> DEFINE g == GetNewBlocks(p, n)
             new == NewBlocks(p, n)
             S == ToSet(new)
             queue == SubSeq(p.queue, n + 1, Len(p.queue))
             q == [p EXCEPT !.queue = queue]
             e == Evict(q, S)
             ref == [b \in Blocks |-> p.ref[b] + (IF b \in S THEN 1 ELSE 0)]
             m == Len(p.queue)
  <1>1. /\ p \in Pools /\ p.ref \in [Blocks -> Nat] /\ p.queue \in Seq(Usable)
        /\ \A i, j \in 1..m : p.queue[i] = p.queue[j] => i = j
        /\ ToSet(p.queue) = {b \in Usable : p.ref[b] = 0}
        /\ m \in Nat /\ n \in 1..m /\ CacheExact(p)
    BY DEF PoolInv, Pools, QueueExact, Usable, NumFree
  <1>2. Distinct(p.queue)
    BY <1>1 DEF Distinct
  <1>3. /\ new \in Seq(Usable) /\ Len(new) = n /\ queue \in Seq(Usable)
        /\ ToSet(p.queue) = S \cup ToSet(queue) /\ S \cap ToSet(queue) = {}
        /\ Distinct(new) /\ Distinct(queue)
    BY <1>1, <1>2, HeadAndRest DEF NewBlocks
  <1> HIDE DEF new, queue
  <1>7. \A b \in S : p.ref[b] = 0
    BY <1>1, <1>3
  <1>8. S \subseteq Usable /\ S \in SUBSET Blocks
    BY <1>1, <1>3 DEF Usable
  <1> HIDE DEF S
  <1>9. q \in Pools /\ q.hash = p.hash /\ q.cached = p.cached /\ q.ref = p.ref /\ q.queue = queue
    BY ZenonT(30), <1>1, <1>3 DEF Pools
  <1>10. CacheExact(q)
    BY <1>1, <1>9 DEF CacheExact
  <1> HIDE DEF q
  <1>11. /\ e \in Pools /\ CacheExact(e) /\ e.ref = p.ref /\ e.queue = queue
         /\ \A b \in Blocks : e.hash[b] = IF b \in S THEN NoHash ELSE p.hash[b]
         /\ e.cached = {c \in p.cached : c[2] \notin S}
    BY <1>8, <1>9, <1>10, EvictIs
  <1>12. g = [e EXCEPT !.ref = ref]
    BY DEF GetNewBlocks, S, new, q, queue
  <1> HIDE DEF e, g
  <1>13. ref \in [Blocks -> Nat] /\ \A b \in Blocks : ref[b] = p.ref[b] + (IF b \in S THEN 1 ELSE 0)
    BY <1>1
  <1> HIDE DEF ref
  <1>14. g \in Pools /\ g.ref = ref /\ g.queue = queue /\ g.hash = e.hash /\ g.cached = e.cached
    BY ZenonT(30), <1>11, <1>12, <1>13 DEF Pools
  <1>15. QueueExact(g)
    <2>1. \A b \in Usable : ref[b] = 0 <=> p.ref[b] = 0 /\ b \notin S
      BY <1>1, <1>13 DEF Usable
    <2>2. ToSet(queue) = {b \in Usable : ref[b] = 0}
      BY <1>1, <1>3, <2>1
    <2> QED
      BY <1>3, <1>14, <2>2 DEF QueueExact, Distinct, Usable
  <1>16. CacheExact(g) /\ g.hash[NullBlock] = NoHash
    <2>1. NullBlock \in Blocks
      BY PoolAssumption DEF NullBlock, Blocks
    <2> QED
      BY <1>11, <1>14, <2>1 DEF CacheExact, PoolInv
  <1> QED
    BY <1>3, <1>7, <1>11, <1>13, <1>14, <1>15, <1>16 DEF PoolInv, S, new, g, queue, Uncached

\* The blocks of p without a reference.
Unheld(p) == {b \in Blocks : p.ref[b] = 0 /\ b # NullBlock}

\* free_blocks, for different blocks that all have a reference: each loses one,
\* and those left without any join the free list.
LEMMA FreedAre ==
    ASSUME NEW p, PoolInv(p), NEW s \in Seq(Usable), Distinct(s),
           \A b \in ToSet(s) : p.ref[b] > 0
    PROVE  LET f == FreeBlocks(p, s)
           IN /\ PoolInv(f)
              /\ \A b \in Blocks : f.ref[b] = p.ref[b] - (IF b \in ToSet(s) THEN 1 ELSE 0)
              /\ f.hash = p.hash /\ f.cached = p.cached
              /\ f.queue = p.queue \o Keep(s, Unheld(f))
  <1> DEFINE f == FreeBlocks(p, s)
             ref == [b \in Blocks |-> p.ref[b] - (IF b \in ToSet(s) THEN 1 ELSE 0)]
             D == {b \in Blocks : ref[b] = 0 /\ b # NullBlock}
             k == Keep(s, D)
             queue == p.queue \o k
  <1>1. f = [p EXCEPT !.ref = ref, !.queue = queue]
    BY DEF FreeBlocks
  <1>2. /\ p \in Pools /\ p.ref \in [Blocks -> Nat] /\ p.queue \in Seq(Usable)
        /\ Distinct(p.queue) /\ ToSet(p.queue) = {b \in Usable : p.ref[b] = 0}
    BY QueueIs
  <1>3. /\ ref \in [Blocks -> Nat]
        /\ \A b \in Blocks : ref[b] = p.ref[b] - (IF b \in ToSet(s) THEN 1 ELSE 0)
    <2>1. ASSUME NEW b \in Blocks PROVE p.ref[b] - (IF b \in ToSet(s) THEN 1 ELSE 0) \in Nat
      BY <1>2
    <2> QED
      BY <2>1
  <1>4. k \in Seq(Usable) /\ Distinct(k) /\ ToSet(k) = ToSet(s) \cap D
    BY ZenonT(30), KeepItems
  <1> HIDE DEF ref, D, k
  <1>5. ToSet(p.queue) \cap ToSet(k) = {}
    BY <1>2, <1>4
  <1>6. /\ queue \in Seq(Usable) /\ Distinct(queue)
        /\ ToSet(queue) = ToSet(p.queue) \cup ToSet(k)
    BY <1>2, <1>4, <1>5, InARow
  <1>7. \A b \in Usable : ref[b] = 0 <=> p.ref[b] = 0 \/ (b \in ToSet(s) /\ b \in D)
    <2> TAKE b \in Usable
    <2>1. b \in Blocks /\ b # NullBlock /\ p.ref[b] \in Nat
      BY <1>2 DEF Usable
    <2>2. b \in D <=> ref[b] = 0
      BY <2>1 DEF D
    <2>3. b \in ToSet(s) => p.ref[b] > 0
      OBVIOUS
    <2> QED
      BY <1>3, <2>1, <2>2, <2>3
  <1>8. ToSet(s) \subseteq Usable
    BY DEF ToSet
  <1>9. ToSet(queue) = {b \in Usable : ref[b] = 0}
    BY <1>2, <1>4, <1>6, <1>7, <1>8
  <1> HIDE DEF queue
  <1>10. f \in Pools /\ f.ref = ref /\ f.queue = queue /\ f.hash = p.hash /\ f.cached = p.cached
    BY ZenonT(30), <1>1, <1>2, <1>3, <1>6 DEF Pools
  <1> HIDE DEF f
  <1>11. QueueExact(f)
    BY <1>6, <1>9, <1>10 DEF QueueExact, Distinct, Usable
  <1>12. CacheExact(f) /\ f.hash[NullBlock] = NoHash
    BY ZenonT(30), <1>10 DEF CacheExact, PoolInv
  <1> QED
    BY <1>3, <1>10, <1>11, <1>12 DEF PoolInv, Unheld, f, queue, k, D

\* The pool c is p once the blocks a+1 .. m have got the hashes of H.
Published(c, p, blocks, H, a, m) ==
    /\ PoolInv(c) /\ c.ref = p.ref /\ c.queue = p.queue
    /\ \A i \in (a + 1)..m : c.hash[blocks[i]] = H[i]
    /\ \A b \in Blocks : (\A i \in (a + 1)..m : blocks[i] # b) => c.hash[b] = p.hash[b]

\* cache_full_blocks, with hashes for the blocks a+1 .. m that carry none yet.
LEMMA CachedAre ==
    ASSUME NEW p, PoolInv(p), NEW blocks \in Seq(Usable), Distinct(blocks),
           NEW r, NEW ids, NEW memo, NEW a \in Nat, NEW m \in a..Len(blocks), NEW H,
           H = ChainHashes(p, blocks, r, ids, memo, a, m),
           \A i \in (a + 1)..m : p.hash[blocks[i]] = NoHash,
           \A i \in (a + 1)..m : H[i] \in Hashes /\ H[i] # NoHash
    PROVE  Published(CacheFullBlocks(p, blocks, r, ids, memo, a, m), p, blocks, H, a, m)
  <1> DEFINE c == CacheFullBlocks(p, blocks, r, ids, memo, a, m)
             new == (a + 1)..m
             Place(b) == CHOOSE i \in new : blocks[i] = b
             hash == [b \in Blocks |-> IF \E i \in new : blocks[i] = b THEN H[Place(b)] ELSE p.hash[b]]
             cached == p.cached \cup {<<H[i], blocks[i]>> : i \in new}
  <1>1. c = [p EXCEPT !.hash = hash, !.cached = cached]
    BY ZenonT(30) DEF CacheFullBlocks
  <1>2. \A i \in new : H[i] \in Hashes /\ H[i] # NoHash /\ p.hash[blocks[i]] = NoHash
    OBVIOUS
  <1>3. p \in Pools /\ p.hash \in [Blocks -> Hashes] /\ p.cached \subseteq Hashes \X Blocks /\ Pairs(p)
    BY ZenonT(30), CacheByPairs DEF PoolInv, Pools
  <1>4. new \subseteq 1..Len(blocks) /\ \A i \in new : blocks[i] \in Usable /\ blocks[i] \in Blocks
    BY DEF Usable
  <1>5. \A i \in new : Place(blocks[i]) = i
    <2>1. \A i, j \in new : blocks[i] = blocks[j] => i = j
      BY <1>4 DEF Distinct
    <2> TAKE i \in new
    <2>2. Place(blocks[i]) \in new /\ blocks[Place(blocks[i])] = blocks[i]
      OBVIOUS
    <2> HIDE DEF Place
    <2> QED
      BY <2>1, <2>2
  <1> HIDE DEF Place
  <1>6. \A i \in new : hash[blocks[i]] = H[i]
    BY <1>4, <1>5
  <1>7. \A b \in Blocks : (\A i \in new : blocks[i] # b) => hash[b] = p.hash[b]
    OBVIOUS
  <1>8. hash \in [Blocks -> Hashes]
    <2>1. ASSUME NEW b \in Blocks PROVE hash[b] \in Hashes
      <3>1. CASE \E i \in new : blocks[i] = b
        <4>1. PICK i \in new : blocks[i] = b
          BY <3>1
        <4>2. hash[b] = H[i]
          BY ZenonT(30), <1>6, <4>1
        <4> HIDE DEF hash, new
        <4> QED
          BY <1>2, <4>1, <4>2
      <3>2. CASE \A i \in new : blocks[i] # b
        BY <1>3, <1>7, <3>2
      <3> QED
        BY <3>1, <3>2
    <2> HIDE DEF new
    <2> QED
      BY <2>1
  <1>9. cached \subseteq Hashes \X Blocks
    BY <1>2, <1>3, <1>4
  <1> HIDE DEF hash
  <1>10. ASSUME NEW h \in Hashes, NEW b \in Blocks
         PROVE  <<h, b>> \in cached <=> (h # NoHash /\ hash[b] = h)
    <2>1. <<h, b>> \in p.cached <=> (h # NoHash /\ p.hash[b] = h)
      BY <1>3 DEF Pairs
    <2>2. <<h, b>> \in cached <=> <<h, b>> \in p.cached \/ \E i \in new : H[i] = h /\ blocks[i] = b
      OBVIOUS
    <2>3. CASE \E i \in new : blocks[i] = b
      <3>1. PICK i \in new : blocks[i] = b
        BY <2>3
      <3>2. hash[b] = H[i] /\ H[i] # NoHash /\ p.hash[b] = NoHash
        BY <1>2, <1>6, <3>1
      <3>3. \A j \in new : blocks[j] = b => H[j] = H[i]
        BY <1>6, <3>2
      <3> QED
        BY <2>1, <2>2, <3>1, <3>2, <3>3
    <2>4. CASE \A i \in new : blocks[i] # b
      BY <1>7, <2>1, <2>2, <2>4
    <2> QED
      BY <2>3, <2>4
  <1> HIDE DEF cached
  <1>11. c \in Pools /\ c.ref = p.ref /\ c.queue = p.queue /\ c.hash = hash /\ c.cached = cached
    BY ZenonT(30), <1>1, <1>3, <1>8, <1>9 DEF Pools
  <1> HIDE DEF c
  <1>12. CacheExact(c)
    BY <1>10, <1>11, CacheByPairs DEF Pairs
  <1>13. QueueExact(c)
    BY <1>11 DEF PoolInv, QueueExact
  <1>14. c.hash[NullBlock] = NoHash
    <2>1. NullBlock \in Blocks /\ p.hash[NullBlock] = NoHash
      BY PoolAssumption DEF NullBlock, Blocks, PoolInv
    <2> QED
      BY <1>4, <1>7, <1>11, <2>1 DEF Usable
  <1> HIDE DEF new
  <1> QED
    BY <1>6, <1>7, <1>11, <1>12, <1>13, <1>14 DEF PoolInv, Published, c, new

\* reset_prefix_cache: when it is not refused every block is free, and no hash
\* is left; it never touches the references or the free list.
LEMMA ResetIs ==
    ASSUME NEW p, PoolInv(p)
    PROVE  LET z == ResetPool(p)
           IN /\ PoolInv(z) /\ z.ref = p.ref /\ z.queue = p.queue
              /\ \/ z = p
                 \/ /\ z.cached = {} /\ \A b \in Usable : p.ref[b] = 0
                    /\ \A b \in Blocks : z.hash[b] = NoHash
  <1> DEFINE z == ResetPool(p)
             hash == [b \in Blocks |-> NoHash]
  <1>1. /\ p \in Pools /\ p.ref \in [Blocks -> Nat] /\ p.queue \in Seq(Usable)
        /\ Distinct(p.queue) /\ ToSet(p.queue) = {b \in Usable : p.ref[b] = 0}
    BY QueueIs
  <1>2. CASE NumBlocks - NumFree(p) # 1
    BY <1>2 DEF ResetPool
  <1>3. CASE NumBlocks - NumFree(p) = 1
    <2>1. z = [p EXCEPT !.cached = {}, !.hash = hash]
      BY <1>3 DEF ResetPool
    <2>2. hash \in [Blocks -> Hashes]
      BY DEF NoHash, Hashes
    <2>3. z \in Pools /\ z.ref = p.ref /\ z.queue = p.queue /\ z.cached = {} /\ z.hash = hash
      BY ZenonT(30), <1>1, <2>1, <2>2 DEF Pools
    <2>4. \A b \in Blocks : z.hash[b] = NoHash
      BY <2>3
    <2> HIDE DEF z
    <2>5. CacheExact(z)
      BY <2>3, <2>4, CacheByPairs DEF Pairs
    <2>6. QueueExact(z)
      BY <2>3 DEF PoolInv, QueueExact
    <2>7. Usable = 1..(NumBlocks - 1) /\ NullBlock \in Blocks
      BY PoolAssumption DEF Usable, Blocks, NullBlock
    <2>8. IsFiniteSet(Usable) /\ Cardinality(Usable) = NumBlocks - 1
      <3>1. Counts([i \in 1..(NumBlocks - 1) |-> i], NumBlocks - 1, Usable) /\ NumBlocks - 1 \in Nat
        BY <2>7, PoolAssumption DEF Counts
      <3> QED
        BY ZenonT(30), <3>1, FiniteCounts
    <2>9. Cardinality(ToSet(p.queue)) = NumBlocks - 1
      <3>1. Cardinality(ToSet(p.queue)) = Len(p.queue) /\ Len(p.queue) \in Nat
        BY ZenonT(30), <1>1, QueueIs, InjectiveLength
      <3> QED
        BY <1>3, <3>1, PoolAssumption DEF NumFree
    <2>10. ToSet(p.queue) = Usable
      <3>1. ToSet(p.queue) \subseteq Usable
        BY <1>1
      <3> QED
        BY ZenonT(30), <2>8, <2>9, <3>1, PartOf
    <2> QED
      BY ZenonT(30), <1>1, <2>3, <2>4, <2>5, <2>6, <2>7, <2>10 DEF PoolInv, z
  <1> QED
    BY <1>2, <1>3

-----------------------------------------------------------------------------
(* The hashes of cache_full_blocks.                                         *)

\* H continues memo, from a to m.
ChainFrom(H, r, ids, memo, a, m) ==
    /\ H \in [a..m -> Hashes]
    /\ H[a] = IF a = 0 THEN NoHash ELSE memo[a]
    /\ \A i \in a..m : Len(H[i]) = i
    /\ \A i \in (a + 1)..m :
          H[i] = IF i <= Len(memo) THEN memo[i]
                 ELSE HashBlockTokens(H[i - 1], ids, i, LastKeys(r, i))

\* The hashes it gives to the blocks a+1 .. m continue the chain of the hash of
\* block a: those of memo as far as they go, then new ones.
LEMMA ChainIs ==
    ASSUME NEW p, NEW blocks, NEW r \in DOMAIN MMPositions, NEW ids \in Seq(Nat),
           NEW memo, Chained(memo), NEW a \in Nat, NEW m \in Nat, a <= m,
           m <= Len(ids) \div BlockSize, a <= Len(memo),
           a > 0 => p.hash[blocks[a]] = memo[a]
    PROVE  ChainFrom(ChainHashes(p, blocks, r, ids, memo, a, m), r, ids, memo, a, m)
  <1> DEFINE H == ChainHashes(p, blocks, r, ids, memo, a, m)
             l == Len(memo)
             base == IF a = 0 THEN NoHash ELSE p.hash[blocks[a]]
             Step(i, x) == IF i <= l THEN memo[i] ELSE HashBlockTokens(x, ids, i, LastKeys(r, i))
             Body(F) == [i \in a..m |->
                            IF i = a THEN IF i = 0 THEN NoHash ELSE p.hash[blocks[i]]
                            ELSE IF i <= Len(memo) THEN memo[i]
                            ELSE HashBlockTokens(F[i - 1], ids, i, LastKeys(r, i))]
             step == [i \in (a + 1)..m |-> [x \in Hashes |-> Step(i, x)]]
  <1>1. H = CHOOSE F : F = Body(F)
    BY Zenon DEF ChainHashes
  <1>2. /\ memo \in Seq(Hashes) /\ l \in Nat
        /\ \A i \in 1..l : memo[i] \in Hashes /\ Len(memo[i]) = i
    BY DEF Chained
  <1> HIDE DEF l
  <1>3. base \in Hashes /\ Len(base) = a /\ base = IF a = 0 THEN NoHash ELSE memo[a]
    <2>1. NoHash \in Hashes /\ Len(NoHash) = 0
      BY DEF NoHash, Hashes
    <2>2. a > 0 => a \in 1..l
      BY <1>2 DEF l
    <2> QED
      BY <1>2, <2>1, <2>2
  <1>4. ASSUME NEW i \in (a + 1)..m, NEW x \in Hashes
        PROVE  Step(i, x) \in Hashes /\ (Len(x) = i - 1 => Len(Step(i, x)) = i)
    <2>1. CASE i <= l
      <3>1. i \in 1..l
        BY <1>2, <2>1
      <3> QED
        BY <1>2, <2>1, <3>1
    <2>2. CASE ~(i <= l)
      <3>1. i \in 1..(Len(ids) \div BlockSize)
        BY PoolAssumption
      <3>2. BlockTokens(ids, i) \in Seq(Nat)
        BY <3>1, FullBlock, PoolAssumption
      <3>3. LastKeys(r, i) \in Seq(Nat)
        BY LastKeysType
      <3>4. /\ HashBlockTokens(x, ids, i, LastKeys(r, i)) \in Hashes
            /\ Len(HashBlockTokens(x, ids, i, LastKeys(r, i))) = Len(x) + 1
        BY <3>2, <3>3, HashExtends
      <3>5. Step(i, x) = HashBlockTokens(x, ids, i, LastKeys(r, i))
        BY <2>2
      <3> HIDE DEF Step
      <3> QED
        BY <3>4, <3>5
    <2> QED
      BY <2>1, <2>2
  <1>5. \A F : /\ Body(F) = [i \in a..m |-> Body(F)[i]]
               /\ Body(F)[a] = base
               /\ \A i \in (a + 1)..m : Body(F)[i] = Step(i, F[i - 1])
    <2> TAKE F
    <2>1. Body(F) = [i \in a..m |-> Body(F)[i]]
      OBVIOUS
    <2>2. Body(F)[a] = base
      <3>1. a \in a..m
        OBVIOUS
      <3> QED
        BY <3>1, Zenon
    <2>3. ASSUME NEW i \in (a + 1)..m PROVE Body(F)[i] = Step(i, F[i - 1])
      <3>1. i \in a..m /\ i # a
        OBVIOUS
      <3> QED
        BY <3>1, Zenon DEF l
    <2> QED
      BY ZenonT(30), <2>1, <2>2, <2>3
  <1> HIDE DEF Step, base
  <1>6. step \in [(a + 1)..m -> [Hashes -> Hashes]]
    BY <1>4
  <1> HIDE DEF Body
  <1>7. \E F : F = Body(F)
    <2> HIDE DEF step
    <2>1. a \in Int /\ m \in Int
      OBVIOUS
    <2>2. PICK F : IteratedUp(F, a, m, Hashes, base, step)
      BY ZenonT(30), <1>3, <1>6, <2>1, IteratesUp
    <2>3. ASSUME NEW i \in a..m PROVE F[i] = Body(F)[i]
      <3>1. CASE i = a
        BY <1>5, <2>2, <3>1 DEF IteratedUp
      <3>2. CASE i # a
        <4>1. i \in (a + 1)..m /\ i - 1 \in a..m
          BY <3>2
        <4>2. F[i] = step[i][F[i - 1]] /\ F[i - 1] \in Hashes
          BY <2>2, <4>1 DEF IteratedUp
        <4>3. step[i][F[i - 1]] = Step(i, F[i - 1])
          BY <4>1, <4>2 DEF step
        <4> QED
          BY <1>5, <4>1, <4>2, <4>3
      <3> QED
        BY <3>1, <3>2
    <2>4. F = [i \in a..m |-> F[i]]
      BY <2>2 DEF IteratedUp
    <2>5. F = Body(F)
      BY ZenonT(30), <1>5, <2>3, <2>4
    <2> QED
      BY <2>5
  <1>8. H = Body(H)
    BY <1>1, <1>7
  <1> HIDE DEF H
  <1>9. H[a] = base /\ \A i \in (a + 1)..m : H[i] = Step(i, H[i - 1])
    BY <1>5, <1>8
  <1>10. \A i \in a..m : H[i] \in Hashes /\ Len(H[i]) = i
    <2> DEFINE T == {i \in a..m : H[i] \in Hashes /\ Len(H[i]) = i}
    <2>1. a \in T /\ a \in Int /\ m \in Int
      BY <1>3, <1>9
    <2>2. ASSUME NEW i \in (a + 1)..m, i - 1 \in T PROVE i \in T
      <3>1. H[i - 1] \in Hashes /\ Len(H[i - 1]) = i - 1
        BY <2>2, Zenon
      <3>2. i \in a..m
        OBVIOUS
      <3> QED
        BY ZenonT(30), <1>4, <1>9, <3>1, <3>2
    <2> HIDE DEF T
    <2>3. a..m \subseteq T
      BY ZenonT(30), <2>1, <2>2, UpFrom
    <2> QED
      BY <2>3 DEF T
  <1>11. H \in [a..m -> Hashes]
    <2>1. H = [i \in a..m |-> H[i]]
      BY <1>5, <1>8
    <2> QED
      BY <1>10, <2>1
  <1>12. \A i \in (a + 1)..m :
            H[i] = IF i <= Len(memo) THEN memo[i]
                   ELSE HashBlockTokens(H[i - 1], ids, i, LastKeys(r, i))
    BY <1>9, Zenon DEF Step, l
  <1> QED
    BY <1>3, <1>9, <1>10, <1>11, <1>12, Zenon DEF ChainFrom, H

\* The list of hashes after goes on where memo ends, as far as block m.
Extended(after, memo, ids, H, a, m) ==
    /\ Tells(after, ids, Len(memo))
    /\ Chained(after) /\ Len(after) = IF m > Len(memo) THEN m ELSE Len(memo)
    /\ \A i \in 1..Len(memo) : after[i] = memo[i]
    /\ \A i \in (a + 1)..m : after[i] = H[i]

\* The list of hashes kept for the request stays a chain, and holds the hashes of
\* the blocks just cached.
LEMMA MemoIs ==
    ASSUME NEW p, NEW blocks, NEW r \in DOMAIN MMPositions, NEW ids \in Seq(Nat),
           NEW memo, Chained(memo), NEW a \in Nat, NEW m \in Nat, a <= m,
           m <= Len(ids) \div BlockSize, a <= Len(memo),
           a > 0 => p.hash[blocks[a]] = memo[a]
    PROVE  Extended(MemoAfter(p, blocks, r, ids, memo, a, m), memo, ids,
                    ChainHashes(p, blocks, r, ids, memo, a, m), a, m)
  <1> DEFINE H == ChainHashes(p, blocks, r, ids, memo, a, m)
             after == MemoAfter(p, blocks, r, ids, memo, a, m)
             l == Len(memo)
             n == IF m > l THEN m ELSE l
  <1>1. /\ \A i \in a..m : H[i] \in Hashes /\ Len(H[i]) = i
        /\ H[a] = IF a = 0 THEN NoHash ELSE memo[a]
        /\ \A i \in (a + 1)..m : H[i] = IF i <= l THEN memo[i]
                                 ELSE HashBlockTokens(H[i - 1], ids, i, LastKeys(r, i))
    <2>1. ChainFrom(H, r, ids, memo, a, m)
      BY ZenonT(30), ChainIs
    <2> HIDE DEF H
    <2> QED
      BY <2>1 DEF ChainFrom
  <1>2. after = [i \in 1..n |-> IF i <= l THEN memo[i] ELSE H[i]]
    BY Zenon DEF MemoAfter
  <1>3. /\ l \in Nat /\ n \in Nat /\ l <= n /\ m <= n /\ a <= l
        /\ \A i \in 1..l : memo[i] \in Hashes /\ Len(memo[i]) = i
        /\ \A i \in 1..l : Front(memo[i]) = IF i = 1 THEN NoHash ELSE memo[i - 1]
    BY DEF Chained
  <1>4. \A i \in 1..n : i \in 1..l \/ (i \in (a + 1)..m /\ i \in a..m /\ ~(i <= l))
    BY <1>3
  <1> HIDE DEF H, after, l, n
  <1>5. \A i \in 1..l : i \in 1..n /\ after[i] = memo[i]
    BY <1>2, <1>3
  <1>6. ASSUME NEW i \in (a + 1)..m PROVE after[i] = H[i]
    BY <1>1, <1>2, <1>3
  <1>7. after \in Seq(Hashes) /\ Len(after) = n
    <2>1. \A i \in 1..n : after[i] \in Hashes
      BY ZenonT(30), <1>1, <1>3, <1>4, <1>5, <1>6
    <2> QED
      BY <1>2, <1>3, <2>1
  <1>8. ASSUME NEW i \in 1..n
        PROVE  Len(after[i]) = i /\ Front(after[i]) = IF i = 1 THEN NoHash ELSE after[i - 1]
    <2>1. CASE i \in 1..l
      <3>1. i # 1 => i - 1 \in 1..l
        BY <1>3, <2>1
      <3> QED
        BY <1>3, <1>5, <2>1, <3>1
    <2>2. CASE i \in (a + 1)..m /\ ~(i <= l)
      <3>1. /\ after[i] = H[i] /\ Len(H[i]) = i
            /\ H[i] = HashBlockTokens(H[i - 1], ids, i, LastKeys(r, i))
        BY <1>1, <1>6, <2>2
      <3>2. i - 1 \in a..m /\ H[i - 1] \in Hashes
        BY <1>1, <2>2
      <3>3. i \in 1..(Len(ids) \div BlockSize)
        BY <2>2, PoolAssumption
      <3>4. BlockTokens(ids, i) \in Seq(Nat) /\ LastKeys(r, i) \in Seq(Nat)
        BY <3>3, FullBlock, LastKeysType, PoolAssumption
      <3>5. Front(H[i]) = H[i - 1]
        BY <3>1, <3>2, <3>4, HashExtends
      <3>6. CASE i - 1 = a
        <4>1. i # 1 => a \in 1..l
          BY <1>3, <3>6
        <4> QED
          BY <1>1, <1>5, <3>1, <3>5, <3>6, <4>1
      <3>7. CASE i - 1 # a
        <4>1. i - 1 \in (a + 1)..m /\ i # 1
          BY <2>2, <3>7
        <4> QED
          BY <1>6, <3>1, <3>5, <4>1
      <3> QED
        BY <3>6, <3>7
    <2> QED
      BY <1>4, <2>1, <2>2
  <1>9. ASSUME NEW i \in (l + 1)..n PROVE after[i][i][1] = BlockTokens(ids, i)
    <2>1. i \in (a + 1)..m /\ ~(i <= l) /\ i - 1 \in a..m /\ (i - 1) + 1 = i
      BY <1>3 DEF n
    <2>2. /\ after[i] = HashBlockTokens(H[i - 1], ids, i, LastKeys(r, i))
          /\ H[i - 1] \in Hashes /\ Len(H[i - 1]) + 1 = i
      BY <1>1, <1>6, <2>1
    <2>3. i \in 1..(Len(ids) \div BlockSize)
      BY <2>1, PoolAssumption
    <2>4. BlockTokens(ids, i) \in Seq(Nat) /\ LastKeys(r, i) \in Seq(Nat)
      BY <2>3, FullBlock, LastKeysType, PoolAssumption
    <2>5. after[i][i] = <<BlockTokens(ids, i), LastKeys(r, i)>>
      BY <2>2, <2>4, HashExtends
    <2> QED
      BY <2>5
  <1> QED
    BY ZenonT(30), <1>3, <1>5, <1>6, <1>7, <1>8, <1>9 DEF Chained, Tells, Extended, H, after, l, n
=============================================================================
