--------------------------- MODULE SchedulerProofs --------------------------
(***************************************************************************)
(* The scheduler keeps its queues, its budgets and the order of arrival,   *)
(* asks of the KV cache manager only what that allows, and gives the front *)
(* end what it is promised: for any number of requests and blocks and any  *)
(* limits.                                                                 *)
(***************************************************************************)
EXTENDS EngineCore, PoolProofs

USE SMTT(30), Z3T(30), ZenonT(30)

-----------------------------------------------------------------------------
(* Lists filtered, joined and taken apart, as the queues of the scheduler are. *)

\* Keep goes over two lists one after the other, and over an item appended last.
KeepsBoth(p, q, S) == Keep(p \o q, S) = Keep(p, S) \o Keep(q, S)
KeepsNext(q, x, S) ==
    Keep(Append(q, x), S) = IF x \in S THEN Append(Keep(q, S), x) ELSE Keep(q, S)

\* An item appended to the second of two lists in a row.
JoinsNext(p, q, x) == Append(p \o q, x) = p \o Append(q, x)

\* It is appended to both.
LEMMA AppendJoined ==
    ASSUME NEW A, NEW p \in Seq(A), NEW q \in Seq(A), NEW x \in A
    PROVE  JoinsNext(p, q, x)
  BY DEF JoinsNext

\* Keep of a concatenation: the queues running and waiting are filtered alike.
LEMMA KeepConcat ==
    ASSUME NEW A, NEW p \in Seq(A), NEW q \in Seq(A), NEW S
    PROVE  KeepsBoth(p, q, S)
  <1> DEFINE m == Len(p)  n == Len(q)  u == p \o q
  <1>0. PICK P : KeptSoFar(P, p, S, A)
    BY ZenonT(30), KeepUnfolds
  <1>1. PICK Q : KeptSoFar(Q, q, S, A)
    BY ZenonT(30), KeepUnfolds
  <1>2. u \in Seq(A) /\ Len(u) = m + n /\ m \in Nat /\ n \in Nat
        /\ (\A i \in 1..m : u[i] = p[i]) /\ (\A i \in 1..n : u[m + i] = q[i])
    BY InARow
  <1>3. PICK U : KeptSoFar(U, u, S, A)
    BY ZenonT(30), <1>2, KeepUnfolds
  <1> HIDE DEF m, n, u
  <1>4. P[0] = <<>> /\ \A i \in 1..m : P[i] = IF p[i] \in S THEN Append(P[i - 1], p[i]) ELSE P[i - 1]
    BY <1>0 DEF KeptSoFar, m
  <1>5. Q[0] = <<>> /\ \A i \in 1..n : Q[i] = IF q[i] \in S THEN Append(Q[i - 1], q[i]) ELSE Q[i - 1]
    BY <1>1 DEF KeptSoFar, n
  <1>6. U[0] = <<>> /\ \A i \in 1..(m + n) : U[i] = IF u[i] \in S THEN Append(U[i - 1], u[i]) ELSE U[i - 1]
    BY <1>2, <1>3 DEF KeptSoFar
  <1>7. (\A i \in 0..m : P[i] \in Seq(A)) /\ (\A i \in 0..n : Q[i] \in Seq(A))
        /\ (\A i \in 1..n : q[i] \in A)
    <2>1. \A i \in 1..n : q[i] \in A
      BY DEF n
    <2> QED
      BY ZenonT(30), <1>0, <1>1, <2>1 DEF KeptSoFar, m, n
  <1>8. U[m] = P[m]
    <2> DEFINE T == {i \in 0..m : U[i] = P[i]}
    <2>1. 0 \in T
      BY <1>2, <1>4, <1>6
    <2>2. ASSUME NEW i \in 1..m, i - 1 \in T PROVE i \in T
      <3>1. i \in 1..(m + n) /\ i \in 0..m /\ u[i] = p[i] /\ U[i - 1] = P[i - 1]
        BY <1>2, <2>2
      <3> QED
        BY <1>4, <1>6, <3>1
    <2> HIDE DEF T
    <2>3. 0..m \subseteq T
      BY ZenonT(30), <1>2, <2>1, <2>2, UpTo
    <2> QED
      BY <1>2, <2>3 DEF T
  <1>9. U[m + n] = P[m] \o Q[n]
    <2> DEFINE T == {i \in 0..n : U[m + i] = P[m] \o Q[i]}
    <2>1. 0 \in T
      <3>1. P[m] \in Seq(A) /\ m + 0 = m /\ 0 \in 0..n
        BY <1>2, <1>7
      <3>2. P[m] \o <<>> = P[m]
        BY <3>1
      <3> QED
        BY ZenonT(30), <1>5, <1>8, <3>1, <3>2
    <2>2. ASSUME NEW i \in 1..n, i - 1 \in T PROVE i \in T
      <3>0. m + i \in 1..(m + n) /\ i \in 0..n /\ i - 1 \in 0..n /\ m \in 0..m
            /\ (m + i) - 1 = m + (i - 1)
        BY <1>2
      <3>1. u[m + i] = q[i] /\ U[m + (i - 1)] = P[m] \o Q[i - 1]
        BY ZenonT(30), <1>2, <2>2
      <3>2. U[m + i] = IF q[i] \in S THEN Append(U[m + (i - 1)], q[i]) ELSE U[m + (i - 1)]
        BY ZenonT(30), <1>6, <3>0, <3>1
      <3>3. P[m] \in Seq(A) /\ Q[i - 1] \in Seq(A) /\ q[i] \in A
        BY <1>7, <3>0
      <3>4. Append(P[m] \o Q[i - 1], q[i]) = P[m] \o Append(Q[i - 1], q[i])
        <4>1. JoinsNext(P[m], Q[i - 1], q[i])
          BY <3>3, AppendJoined
        <4> QED
          BY <4>1, Zenon DEF JoinsNext
      <3>5. Q[i] = IF q[i] \in S THEN Append(Q[i - 1], q[i]) ELSE Q[i - 1]
        BY <1>5
      <3>6. U[m + i] = P[m] \o Q[i]
        BY <3>1, <3>2, <3>4, <3>5, Zenon
      <3> QED
        BY ZenonT(30), <3>0, <3>6
    <2> HIDE DEF T
    <2>3. 0..n \subseteq T
      BY ZenonT(30), <1>2, <2>1, <2>2, UpTo
    <2>4. n \in T
      BY <1>2, <2>3
    <2> QED
      BY ZenonT(30), <2>4 DEF T
  <1> QED
    BY <1>0, <1>1, <1>2, <1>3, <1>9 DEF KeptSoFar, KeepsBoth, m, n, u

\* Only what S says about the items of q matters.
LEMMA KeepSame ==
    ASSUME NEW A, NEW q \in Seq(A), NEW S, NEW T, ToSet(q) \cap S = ToSet(q) \cap T
    PROVE  Keep(q, S) = Keep(q, T)
  <1> DEFINE n == Len(q)
  <1>1. PICK K : KeptSoFar(K, q, S, A)
    BY KeepUnfolds
  <1>2. PICK L : KeptSoFar(L, q, T, A)
    BY KeepUnfolds
  <1>3. n \in Nat /\ \A i \in 1..n : q[i] \in S <=> q[i] \in T
    BY Items
  <1>4. K[0] = L[0] /\ Keep(q, S) = K[n] /\ Keep(q, T) = L[n]
    BY <1>1, <1>2 DEF KeptSoFar
  <1>5. \A i \in 1..n : /\ K[i] = IF q[i] \in S THEN Append(K[i - 1], q[i]) ELSE K[i - 1]
                        /\ L[i] = IF q[i] \in T THEN Append(L[i - 1], q[i]) ELSE L[i - 1]
    BY <1>1, <1>2 DEF KeptSoFar
  <1> HIDE DEF n
  <1> DEFINE U == {i \in 0..n : K[i] = L[i]}
  <1>6. 0 \in U
    BY <1>3, <1>4
  <1>7. ASSUME NEW i \in 1..n, i - 1 \in U PROVE i \in U
    <2>1. i \in 0..n /\ K[i - 1] = L[i - 1]
      BY <1>3, <1>7
    <2> QED
      BY <1>3, <1>5, <2>1
  <1> HIDE DEF U
  <1>8. 0..n \subseteq U
    BY ZenonT(30), <1>3, <1>6, <1>7, UpTo
  <1> QED
    BY <1>3, <1>4, <1>8 DEF U

\* The list of one item.
LEMMA KeepOne ==
    ASSUME NEW A, NEW x \in A, NEW S
    PROVE  Keep(<<x>>, S) = IF x \in S THEN <<x>> ELSE <<>>
  <1>1. <<x>> \in Seq(A) /\ Len(<<x>>) = 1 /\ <<x>>[1] = x
    OBVIOUS
  <1>2. PICK K : KeptSoFar(K, <<x>>, S, A)
    BY ZenonT(30), <1>1, KeepUnfolds
  <1>3. K[0] = <<>> /\ Keep(<<x>>, S) = K[1]
        /\ K[1] = IF x \in S THEN Append(K[0], x) ELSE K[0]
    BY <1>1, <1>2 DEF KeptSoFar
  <1> QED
    BY <1>3

\* The empty list.
LEMMA KeepEmpty == ASSUME NEW S PROVE Keep(<<>>, S) = <<>>
  <1>1. <<>> \in Seq({}) /\ Len(<<>>) = 0
    OBVIOUS
  <1>2. PICK K : KeptSoFar(K, <<>>, S, {})
    BY ZenonT(30), <1>1, KeepUnfolds
  <1> QED
    BY <1>1, <1>2 DEF KeptSoFar

\* append, then filter.
LEMMA KeepAppend ==
    ASSUME NEW A, NEW q \in Seq(A), NEW x \in A, NEW S
    PROVE  KeepsNext(q, x, S)
  <1>1. <<x>> \in Seq(A) /\ Append(q, x) = q \o <<x>>
    OBVIOUS
  <1>2. Keep(Append(q, x), S) = Keep(q, S) \o (IF x \in S THEN <<x>> ELSE <<>>)
    <2>0. KeepsBoth(q, <<x>>, S)
      BY ZenonT(30), <1>1, KeepConcat
    <2>1. Keep(q \o <<x>>, S) = Keep(q, S) \o Keep(<<x>>, S)
      BY ZenonT(30), <2>0 DEF KeepsBoth
    <2>2. Keep(<<x>>, S) = IF x \in S THEN <<x>> ELSE <<>>
      BY KeepOne
    <2> QED
      BY <1>1, <2>1, <2>2, Zenon
  <1>3. Keep(q, S) \in Seq(A)
    BY KeepItems
  <1>4. Keep(q, S) \o <<x>> = Append(Keep(q, S), x) /\ Keep(q, S) \o <<>> = Keep(q, S)
    BY <1>3
  <1> QED
    BY <1>2, <1>4, Zenon DEF KeepsNext

\* A list filtered twice.
LEMMA KeepKeep ==
    ASSUME NEW A, NEW q \in Seq(A), NEW S, NEW T
    PROVE  Keep(Keep(q, S), T) = Keep(q, S \cap T)
  <1> DEFINE n == Len(q)
  <1>1. PICK K : KeptSoFar(K, q, S, A)
    BY ZenonT(30), KeepUnfolds
  <1>2. PICK L : KeptSoFar(L, q, S \cap T, A)
    BY KeepUnfolds
  <1>3. n \in Nat /\ \A i \in 1..n : q[i] \in A
    OBVIOUS
  <1>4. K[0] = <<>> /\ L[0] = <<>> /\ Keep(q, S) = K[n] /\ Keep(q, S \cap T) = L[n]
        /\ \A i \in 0..n : K[i] \in Seq(A)
    BY ZenonT(30), <1>1, <1>2 DEF KeptSoFar
  <1>5. \A i \in 1..n : /\ K[i] = IF q[i] \in S THEN Append(K[i - 1], q[i]) ELSE K[i - 1]
                        /\ L[i] = IF q[i] \in S \cap T THEN Append(L[i - 1], q[i]) ELSE L[i - 1]
    BY <1>1, <1>2 DEF KeptSoFar
  <1> HIDE DEF n
  <1> DEFINE U == {i \in 0..n : Keep(K[i], T) = L[i]}
  <1>6. 0 \in U
    BY <1>3, <1>4, KeepEmpty
  <1>7. ASSUME NEW i \in 1..n, i - 1 \in U PROVE i \in U
    <2>1. i \in 0..n /\ i - 1 \in 0..n /\ Keep(K[i - 1], T) = L[i - 1] /\ K[i - 1] \in Seq(A) /\ q[i] \in A
      BY <1>3, <1>4, <1>7
    <2>2. Keep(Append(K[i - 1], q[i]), T) = IF q[i] \in T THEN Append(L[i - 1], q[i]) ELSE L[i - 1]
      <3>1. Keep(Append(K[i - 1], q[i]), T) =
               IF q[i] \in T THEN Append(Keep(K[i - 1], T), q[i]) ELSE Keep(K[i - 1], T)
        <4>1. KeepsNext(K[i - 1], q[i], T)
          BY <2>1, KeepAppend
        <4> QED
          BY <4>1, Zenon DEF KeepsNext
      <3> QED
        BY <2>1, <3>1, Zenon
    <2>3. CASE q[i] \in S
      BY <1>5, <2>1, <2>2, <2>3
    <2>4. CASE q[i] \notin S
      BY <1>5, <2>1, <2>4
    <2> QED
      BY <2>3, <2>4
  <1> HIDE DEF U
  <1>8. 0..n \subseteq U
    BY ZenonT(30), <1>3, <1>6, <1>7, UpTo
  <1> QED
    BY <1>3, <1>4, <1>8 DEF U

\* A filter that removes nothing.
LEMMA KeepAll ==
    ASSUME NEW A, NEW q \in Seq(A), NEW S, ToSet(q) \subseteq S
    PROVE  Keep(q, S) = q
  <1> DEFINE n == Len(q)
  <1>1. PICK K : KeptSoFar(K, q, S, A)
    BY KeepUnfolds
  <1>2. n \in Nat /\ \A i \in 1..n : q[i] \in S
    BY Items
  <1>3. K[0] = <<>> /\ Keep(q, S) = K[n]
    BY <1>1 DEF KeptSoFar
  <1>4. \A i \in 1..n : K[i] = Append(K[i - 1], q[i])
    BY ZenonT(30), <1>1, <1>2 DEF KeptSoFar
  <1> HIDE DEF n
  <1> DEFINE U == {i \in 0..n : K[i] = SubSeq(q, 1, i)}
  <1>5. 0 \in U
    <2>1. SubSeq(q, 1, 0) = <<>>
      OBVIOUS
    <2>2. K[0] = SubSeq(q, 1, 0) /\ 0 \in 0..n
      BY <1>2, <1>3, <2>1
    <2> QED
      BY <2>2
  <1>6. ASSUME NEW i \in 1..n, i - 1 \in U PROVE i \in U
    <2>1. i \in 0..n /\ K[i - 1] = SubSeq(q, 1, i - 1)
      BY <1>2, <1>6
    <2>2. Append(SubSeq(q, 1, i - 1), q[i]) = SubSeq(q, 1, i)
      BY <1>2 DEF n
    <2> QED
      BY ZenonT(30), <1>4, <2>1, <2>2
  <1> HIDE DEF U
  <1>7. 0..n \subseteq U
    BY ZenonT(30), <1>2, <1>5, <1>6, UpTo
  <1>8. SubSeq(q, 1, n) = q
    BY <1>2 DEF n
  <1> QED
    BY <1>2, <1>3, <1>7, <1>8 DEF U
\* Two lists in a row without repetition have none and nothing in common.
LEMMA Apart ==
    ASSUME NEW A, NEW p \in Seq(A), NEW q \in Seq(A), Distinct(p \o q)
    PROVE  Distinct(p) /\ Distinct(q) /\ ToSet(p) \cap ToSet(q) = {}
  <1> DEFINE m == Len(p)  n == Len(q)  u == p \o q
  <1>1. u \in Seq(A) /\ Len(u) = m + n /\ m \in Nat /\ n \in Nat
        /\ (\A i \in 1..m : u[i] = p[i]) /\ (\A i \in 1..n : u[m + i] = q[i])
    BY InARow
  <1>2. DOMAIN p = 1..m /\ DOMAIN q = 1..n /\ DOMAIN u = 1..(m + n)
    BY <1>1
  <1> HIDE DEF m, n, u
  <1>3. \A i, j \in 1..(m + n) : u[i] = u[j] => i = j
    BY ZenonT(30), <1>2 DEF Distinct, u
  <1>4. Distinct(p)
    <2> SUFFICES ASSUME NEW i \in 1..m, NEW j \in 1..m, p[i] = p[j] PROVE i = j
      BY <1>2 DEF Distinct
    <2>1. i \in 1..(m + n) /\ j \in 1..(m + n) /\ u[i] = u[j]
      BY <1>1
    <2> QED
      BY <1>3, <2>1
  <1>5. Distinct(q)
    <2> SUFFICES ASSUME NEW i \in 1..n, NEW j \in 1..n, q[i] = q[j] PROVE i = j
      BY <1>2 DEF Distinct
    <2>1. m + i \in 1..(m + n) /\ m + j \in 1..(m + n) /\ u[m + i] = u[m + j]
      BY <1>1
    <2>2. m + i = m + j
      BY <1>3, <2>1
    <2> QED
      BY <1>1, <2>2
  <1>6. ASSUME NEW x \in ToSet(p), x \in ToSet(q) PROVE FALSE
    <2>1. PICK i \in 1..m : p[i] = x
      BY <1>2 DEF ToSet
    <2>2. PICK j \in 1..n : q[j] = x
      BY <1>2, <1>6 DEF ToSet
    <2>3. i \in 1..(m + n) /\ m + j \in 1..(m + n) /\ u[i] = u[m + j] /\ i # m + j
      BY <1>1, <2>1, <2>2
    <2> QED
      BY <1>3, <2>3
  <1> QED
    BY <1>4, <1>5, <1>6

\* What u, a list with the item x after those of q, holds; q in parts.
OneLonger(u, q, x, A) ==
    /\ u \in Seq(A) /\ Len(u) = Len(q) + 1
    /\ u = q \o <<x>> /\ <<x>> \in Seq(A)
    /\ \A i \in 1..Len(q) : u[i] = q[i]
    /\ ToSet(u) = ToSet(q) \cup {x}
    /\ Distinct(q) /\ x \notin ToSet(q) => Distinct(u)
HeadAndTail(q, x, u, A) ==
    /\ x \in A /\ u \in Seq(A) /\ <<x>> \in Seq(A)
    /\ q = <<x>> \o u
    /\ ToSet(q) = {x} \cup ToSet(u)
    /\ Distinct(q) => Distinct(u) /\ x \notin ToSet(u)
FrontAndLast(q, u, x, A) ==
    /\ x \in A /\ u \in Seq(A) /\ Len(u) = Len(q) - 1
    /\ q = Append(u, x)
    /\ \A i \in 1..(Len(q) - 1) : u[i] = q[i]
    /\ ToSet(q) = ToSet(u) \cup {x}
    /\ Distinct(u) /\ x \notin ToSet(u)
    /\ Keep(q, A \ {x}) = u

\* An item at the end of a list.
LEMMA OneMore ==
    ASSUME NEW A, NEW q \in Seq(A), NEW x \in A
    PROVE  OneLonger(Append(q, x), q, x, A)
  <1>1. Append(q, x) = q \o <<x>> /\ <<x>> \in Seq(A) /\ Len(<<x>>) = 1
    OBVIOUS
  <1>2. ToSet(<<x>>) = {x} /\ Distinct(<<x>>)
    BY <1>1 DEF ToSet, Distinct
  <1> DEFINE u == <<x>>
  <1> HIDE DEF u
  <1>3. /\ q \o u \in Seq(A) /\ Len(q \o u) = Len(q) + 1
        /\ \A i \in 1..Len(q) : (q \o u)[i] = q[i]
        /\ ToSet(q \o u) = ToSet(q) \cup {x}
        /\ Distinct(q) /\ x \notin ToSet(q) => Distinct(q \o u)
    <2>1. u \in Seq(A) /\ Len(u) = 1 /\ ToSet(u) = {x} /\ Distinct(u)
      BY <1>1, <1>2 DEF u
    <2>2. x \notin ToSet(q) => ToSet(q) \cap ToSet(u) = {}
      BY <2>1
    <2>3. /\ q \o u \in Seq(A) /\ Len(q \o u) = Len(q) + Len(u)
          /\ \A i \in 1..Len(q) : (q \o u)[i] = q[i]
          /\ ToSet(q \o u) = ToSet(q) \cup ToSet(u)
      BY <2>1, InARow
    <2>4. Distinct(q) /\ ToSet(q) \cap ToSet(u) = {} => Distinct(q \o u)
      BY <2>1, InARow
    <2> QED
      BY <2>1, <2>2, <2>3, <2>4
  <1> QED
    BY <1>1, <1>3 DEF u, OneLonger

\* The first item and the others, as the queue of waiting requests is read.
LEMMA FirstOff ==
    ASSUME NEW A, NEW q \in Seq(A), q # <<>>
    PROVE  HeadAndTail(q, Head(q), Tail(q), A)
  <1>1. Head(q) \in A /\ Tail(q) \in Seq(A) /\ <<Head(q)>> \in Seq(A) /\ Len(<<Head(q)>>) = 1
    OBVIOUS
  <1>2. q = <<Head(q)>> \o Tail(q)
    OBVIOUS
  <1>3. ToSet(<<Head(q)>>) = {Head(q)}
    BY <1>1 DEF ToSet
  <1>4. ToSet(q) = ToSet(<<Head(q)>>) \cup ToSet(Tail(q))
    BY ZenonT(30), <1>1, <1>2, InARow
  <1>5. Distinct(q) => Distinct(Tail(q)) /\ ToSet(<<Head(q)>>) \cap ToSet(Tail(q)) = {}
    BY ZenonT(30), <1>1, <1>2, Apart
  <1> QED
    BY ZenonT(30), <1>1, <1>2, <1>3, <1>4, <1>5 DEF HeadAndTail

\* The last item and the others, as the victim leaves the running requests.
LEMMA LastOff ==
    ASSUME NEW A, NEW q \in Seq(A), q # <<>>, Distinct(q)
    PROVE  FrontAndLast(q, Front(q), Last(q), A)
  <1> DEFINE f == Front(q)  x == Last(q)
  <1>1. /\ x \in A /\ f \in Seq(A) /\ Len(f) = Len(q) - 1
        /\ q = Append(f, x) /\ \A i \in 1..(Len(q) - 1) : f[i] = q[i]
    <2>1. Len(q) \in Nat \ {0} /\ DOMAIN q = 1..Len(q) /\ \A i \in 1..Len(q) : q[i] \in A
      OBVIOUS
    <2>2. f \in Seq(A) /\ Len(f) = Len(q) - 1 /\ \A i \in 1..(Len(q) - 1) : f[i] = q[i]
      BY <2>1, HeadAndRest DEF Front
    <2>3. x \in A /\ x = q[Len(q)]
      BY <2>1 DEF Last
    <2> HIDE DEF f, x
    <2>4. Append(f, x) \in Seq(A) /\ Len(Append(f, x)) = Len(q)
          /\ \A i \in 1..Len(q) : Append(f, x)[i] = q[i]
      <3>1. /\ Append(f, x) \in Seq(A) /\ Len(Append(f, x)) = Len(f) + 1
            /\ Append(f, x)[Len(f) + 1] = x /\ \A i \in 1..Len(f) : Append(f, x)[i] = f[i]
        BY <2>2, <2>3
      <3>2. Len(f) + 1 = Len(q) /\ 1..Len(q) = 1..Len(f) \cup {Len(q)}
        BY <2>1, <2>2
      <3> QED
        BY <2>2, <2>3, <3>1, <3>2
    <2>5. q = Append(f, x)
      BY <2>4
    <2> QED
      BY <2>2, <2>3, <2>5
  <1>2. <<x>> \in Seq(A) /\ Len(<<x>>) = 1 /\ ToSet(<<x>>) = {x}
    BY <1>1 DEF ToSet
  <1> HIDE DEF f, x
  <1>3. q = f \o <<x>> /\ ToSet(q) = ToSet(f) \cup {x}
    BY <1>1, OneMore DEF OneLonger
  <1>4. Distinct(f) /\ ToSet(f) \cap ToSet(<<x>>) = {}
    <2>1. Distinct(f \o <<x>>)
      BY <1>3
    <2> QED
      BY ZenonT(30), <1>1, <1>2, <2>1, Apart
  <1>5. x \notin ToSet(f)
    BY <1>2, <1>4
  <1>6. KeepsNext(f, x, A \ {x})
    BY <1>1, KeepAppend
  <1>7. Keep(q, A \ {x}) = Keep(f, A \ {x})
    BY <1>1, <1>6 DEF KeepsNext
  <1>8. ToSet(f) \subseteq A \ {x}
    BY <1>1, <1>5, Items
  <1>9. Keep(f, A \ {x}) = f
    BY <1>1, <1>8, KeepAll
  <1> QED
    BY <1>1, <1>3, <1>4, <1>5, <1>7, <1>9 DEF f, x, FrontAndLast

\* F adds up f over the items of q.
Summed(F, f, q) ==
    /\ F \in [0..Len(q) -> Nat] /\ F[0] = 0
    /\ \A i \in 1..Len(q) : F[i] = F[i - 1] + f[q[i]]
    /\ SumOf(f, q) = F[Len(q)]

\* SumOf goes through the list.
LEMMA SumUnfolds ==
    ASSUME NEW A, NEW f \in [A -> Nat], NEW q \in Seq(A)
    PROVE  \E F : Summed(F, f, q)
  <1> DEFINE n == Len(q)
             Body(F) == [i \in 0..n |-> IF i = 0 THEN 0 ELSE F[i - 1] + f[q[i]]]
             add == [i \in 1..n |-> [x \in Nat |-> x + f[q[i]]]]
             C == CHOOSE F : F = Body(F)
  <1>1. n \in Nat /\ \A i \in 1..n : f[q[i]] \in Nat
    OBVIOUS
  <1>2. SumOf(f, q) = C[n]
    BY DEF SumOf, FoldLeft
  <1>3. add \in [1..n -> [Nat -> Nat]]
    BY <1>1
  <1> HIDE DEF n
  <1>4. \E F : F = Body(F)
    <2>1. PICK F : Iterated(F, n, Nat, 0, add)
      <3> HIDE DEF add
      <3> QED
        BY ZenonT(30), <1>1, <1>3, Iterates
    <2>2. ASSUME NEW i \in 1..n PROVE F[i] = F[i - 1] + f[q[i]]
      <3> HIDE DEF add
      <3>1. F[i] = add[i][F[i - 1]] /\ F[i - 1] \in Nat
        BY <1>1, <2>1 DEF Iterated
      <3> QED
        BY ZenonT(30), <3>1 DEF add
    <2>3. F = [i \in 0..n |-> F[i]] /\ F[0] = 0
      BY <2>1 DEF Iterated
    <2>4. ASSUME NEW i \in 0..n PROVE F[i] = Body(F)[i]
      <3>1. CASE i = 0
        BY <2>3, <3>1
      <3>2. CASE i # 0
        <4>1. i \in 1..n
          BY <1>1, <3>2
        <4> QED
          BY <2>2, <3>2, <4>1, Zenon
      <3> QED
        BY <3>1, <3>2
    <2>5. F = Body(F)
      BY ZenonT(30), <2>3, <2>4
    <2> QED
      BY ZenonT(30), <2>5
  <1>5. C = Body(C)
    BY ZenonT(30), <1>4
  <1> HIDE DEF C
  <1>6. C = [i \in 0..n |-> C[i]] /\ C[0] = 0 /\ \A i \in 1..n : C[i] = C[i - 1] + f[q[i]]
    BY <1>1, <1>5
  <1> DEFINE T == {i \in 0..n : C[i] \in Nat}
  <1>7. ASSUME NEW i \in 1..n, i - 1 \in T PROVE i \in T
    <2>1. C[i - 1] \in Nat /\ i \in 0..n
      BY <1>1, <1>7
    <2>2. f[q[i]] \in Nat /\ C[i] = C[i - 1] + f[q[i]]
      BY ZenonT(30), <1>1, <1>6
    <2>3. C[i] \in Nat
      BY <2>1, <2>2
    <2> QED
      BY <2>1, <2>3
  <1>8. 0 \in T
    BY <1>1, <1>6
  <1> HIDE DEF T
  <1>9. 0..n \subseteq T
    BY ZenonT(30), <1>1, <1>7, <1>8, UpTo
  <1>10. C \in [0..n -> Nat]
    BY <1>6, <1>9 DEF T
  <1> QED
    BY ZenonT(30), <1>2, <1>6, <1>10 DEF Summed, n

\* A sum depends on the items of the list only.
LEMMA SumSame ==
    ASSUME NEW A, NEW f \in [A -> Nat], NEW g \in [A -> Nat], NEW q \in Seq(A),
           \A x \in ToSet(q) : f[x] = g[x]
    PROVE  SumOf(f, q) \in Nat /\ SumOf(f, q) = SumOf(g, q)
  <1> DEFINE n == Len(q)
  <1>1. PICK F : Summed(F, f, q)
    BY SumUnfolds
  <1>2. PICK G : Summed(G, g, q)
    BY ZenonT(30), SumUnfolds
  <1>3. n \in Nat /\ \A i \in 1..n : f[q[i]] = g[q[i]]
    BY Items
  <1>4. F[0] = G[0] /\ F \in [0..n -> Nat] /\ SumOf(f, q) = F[n] /\ SumOf(g, q) = G[n]
    BY <1>1, <1>2 DEF Summed
  <1>5. \A i \in 1..n : F[i] = F[i - 1] + f[q[i]] /\ G[i] = G[i - 1] + g[q[i]]
    BY <1>1, <1>2 DEF Summed
  <1> HIDE DEF n
  <1> DEFINE T == {i \in 0..n : F[i] = G[i]}
  <1>6. 0 \in T
    BY <1>3, <1>4
  <1>7. ASSUME NEW i \in 1..n, i - 1 \in T PROVE i \in T
    <2>1. F[i - 1] = G[i - 1] /\ i \in 0..n
      BY <1>3, <1>7
    <2> QED
      BY <1>3, <1>5, <2>1
  <1> HIDE DEF T
  <1>8. 0..n \subseteq T
    BY ZenonT(30), <1>3, <1>6, <1>7, UpTo
  <1> QED
    BY <1>3, <1>4, <1>8 DEF T

\* One item more.
LEMMA SumNext ==
    ASSUME NEW A, NEW f \in [A -> Nat], NEW q \in Seq(A), NEW x \in A
    PROVE  SumOf(f, Append(q, x)) = SumOf(f, q) + f[x]
  <1> DEFINE n == Len(q)  u == Append(q, x)
  <1>1. /\ u \in Seq(A) /\ Len(u) = n + 1 /\ n \in Nat
        /\ u[n + 1] = x /\ \A i \in 1..n : u[i] = q[i]
    OBVIOUS
  <1>2. PICK F : Summed(F, f, q)
    BY SumUnfolds
  <1> HIDE DEF u
  <1>3. PICK G : Summed(G, f, u)
    BY <1>1, SumUnfolds
  <1> HIDE DEF n
  <1>4. F[0] = G[0] /\ SumOf(f, q) = F[n] /\ SumOf(f, u) = G[n + 1]
    BY <1>1, <1>2, <1>3 DEF Summed, n
  <1>5. \A i \in 1..n : F[i] = F[i - 1] + f[q[i]]
    BY <1>2 DEF Summed, n
  <1>6. \A i \in 1..(n + 1) : G[i] = G[i - 1] + f[u[i]]
    BY <1>1, <1>3 DEF Summed
  <1> DEFINE T == {i \in 0..n : F[i] = G[i]}
  <1>7. 0 \in T
    BY <1>1, <1>4
  <1>8. ASSUME NEW i \in 1..n, i - 1 \in T PROVE i \in T
    <2>1. F[i - 1] = G[i - 1] /\ i \in 0..n /\ i \in 1..(n + 1) /\ u[i] = q[i]
      BY <1>1, <1>8
    <2> QED
      BY <1>5, <1>6, <2>1
  <1> HIDE DEF T
  <1>9. 0..n \subseteq T
    BY ZenonT(30), <1>1, <1>7, <1>8, UpTo
  <1>10. F[n] = G[n]
    BY <1>1, <1>9 DEF T
  <1>11. n + 1 \in 1..(n + 1) /\ (n + 1) - 1 = n
    BY <1>1
  <1>12. G[n + 1] = G[n] + f[x]
    BY <1>1, <1>6, <1>11
  <1> QED
    BY <1>4, <1>10, <1>12 DEF u

\* Nothing.
LEMMA SumEmpty ==
    ASSUME NEW A, NEW f \in [A -> Nat]
    PROVE  SumOf(f, <<>>) = 0
  <1>1. <<>> \in Seq(A) /\ Len(<<>>) = 0
    OBVIOUS
  <1>2. PICK F : Summed(F, f, <<>>)
    BY ZenonT(30), <1>1, SumUnfolds
  <1> QED
    BY <1>1, <1>2 DEF Summed

\* A filter that removes everything.
LEMMA KeepNone ==
    ASSUME NEW A, NEW q \in Seq(A), NEW S, ToSet(q) \cap S = {}
    PROVE  Keep(q, S) = <<>>
  <1>1. Keep(q, S) \in Seq(A) /\ ToSet(Keep(q, S)) = {}
    BY KeepItems
  <1>2. Len(Keep(q, S)) = 0
    <2>1. \A i \in 1..Len(Keep(q, S)) : Keep(q, S)[i] \in ToSet(Keep(q, S))
      BY <1>1, Items
    <2>2. Len(Keep(q, S)) \in Nat /\ \A i \in 1..Len(Keep(q, S)) : FALSE
      BY <1>1, <2>1
    <2> QED
      BY <2>2
  <1> QED
    BY <1>1, <1>2

\* A filtered list is no longer.
LEMMA KeepShorter ==
    ASSUME NEW A, NEW q \in Seq(A), NEW S
    PROVE  Len(Keep(q, S)) \in Nat /\ Len(Keep(q, S)) <= Len(q)
  <1> DEFINE n == Len(q)
  <1>1. PICK K : KeptSoFar(K, q, S, A)
    BY KeepUnfolds
  <1>2. n \in Nat /\ \A i \in 1..n : q[i] \in A
    OBVIOUS
  <1>3. K[0] = <<>> /\ Keep(q, S) = K[n] /\ \A i \in 0..n : K[i] \in Seq(A)
    BY <1>1 DEF KeptSoFar
  <1>4. \A i \in 1..n : K[i] = IF q[i] \in S THEN Append(K[i - 1], q[i]) ELSE K[i - 1]
    BY <1>1 DEF KeptSoFar
  <1> HIDE DEF n
  <1> DEFINE U == {i \in 0..n : Len(K[i]) <= i}
  <1>5. 0 \in U
    BY <1>2, <1>3
  <1>6. ASSUME NEW i \in 1..n, i - 1 \in U PROVE i \in U
    <2>1. i \in 0..n /\ i - 1 \in 0..n /\ Len(K[i - 1]) <= i - 1 /\ K[i - 1] \in Seq(A) /\ q[i] \in A
      BY <1>2, <1>3, <1>6
    <2>2. Len(K[i - 1]) \in Nat /\ Len(Append(K[i - 1], q[i])) = Len(K[i - 1]) + 1
      BY <2>1
    <2>3. K[i] = Append(K[i - 1], q[i]) \/ K[i] = K[i - 1]
      BY <1>4, Zenon
    <2>4. Len(K[i]) <= i
      BY <2>1, <2>2, <2>3
    <2> QED
      BY <2>1, <2>4
  <1> HIDE DEF U
  <1>7. 0..n \subseteq U
    BY ZenonT(30), <1>2, <1>5, <1>6, UpTo
  <1> QED
    BY <1>2, <1>3, <1>7 DEF U, n

\* Only the number of x changed: it adds to the sum when x joins the list.
SumsNext(f, g, q, x) == SumOf(f, q) \in Nat /\ SumOf(g, Append(q, x)) = SumOf(f, q) + g[x]

\* An item that joins the list with a new number adds that number.
LEMMA SumGrows ==
    ASSUME NEW A, NEW f \in [A -> Nat], NEW g \in [A -> Nat], NEW q \in Seq(A), NEW x \in A,
           x \notin ToSet(q), \A y \in A \ {x} : g[y] = f[y]
    PROVE  SumsNext(f, g, q, x)
  <1>1. \A y \in ToSet(q) : f[y] = g[y]
    BY Items
  <1>2. SumOf(f, q) \in Nat /\ SumOf(f, q) = SumOf(g, q)
    BY ZenonT(30), <1>1, SumSame
  <1>3. SumOf(g, Append(q, x)) = SumOf(g, q) + g[x]
    BY SumNext
  <1> QED
    BY <1>2, <1>3 DEF SumsNext

-----------------------------------------------------------------------------
(* The invariant of the scheduler.                                          *)

StepFields == {"index", "budget", "encBudget", "preempted", "skipped", "order", "new",
               "resumed", "blocks", "inputs", "finished", "freed"}
StepShaped ==
    /\ DOMAIN step = StepFields
    /\ step.index \in Nat /\ step.budget \in Nat /\ step.encBudget \in Nat
    /\ step.skipped \in Seq(Requests) /\ step.order \in Seq(Requests)

\* The queues: each live request is in the one its status names.  Requests are
\* set aside in the loop over the waiting ones only, for their grammar.
Queued == {r \in Requests : status[r] \in {"waiting", "preempted"}}
Active == {r \in Requests : status[r] = "running"}
Queues ==
    /\ phase \in Phases
    /\ running \in Seq(Requests) /\ waiting \in Seq(Requests)
    /\ ToSet(running) = Active /\ ToSet(step.skipped) \cup ToSet(waiting) = Queued
    /\ Distinct(running) /\ Distinct(waiting) /\ Distinct(step.skipped)
    /\ ToSet(step.skipped) \cap ToSet(waiting) = {}
    /\ phase \notin {"waiting", "end"} => step.skipped = <<>>
    /\ ToSet(step.skipped) \subseteq Structured /\ compiling \subseteq Structured

\* The keys of num_scheduled_tokens; the loop over the running requests has not
\* scheduled those it has not come to, so that the last one may be preempted.
Order ==
    /\ Distinct(step.order)
    /\ ToSet(step.order) = {r \in Requests : scheduled[r] > 0}
    /\ phase = "idle" => step.order = <<>>
    /\ phase = "running" =>
          /\ step.index \in 1..(Len(running) + 1)
          /\ \A i \in step.index..Len(running) : scheduled[running[i]] = 0

\* Every token scheduled was taken from the budget.
Budgets ==
    /\ step.budget + SumOf(scheduled, step.order) = MaxBatchedTokens
    /\ Len(running) <= MaxNumSeqs

\* The order of arrival, queue by queue.
Plain == Requests \ Structured
Live == {r \in Plain : status[r] # "none"}
Ordered(p, q, a, L) == Keep(p, Plain) \o Keep(q, Plain) = Keep(a, L)
InOrder ==
    /\ arrived \in Seq(Requests)
    /\ Ordered(running, waiting, arrived, Live)

EngineInv == StepShaped /\ Queues /\ Order /\ Budgets /\ InOrder

\* What the KV cache manager keeps in order for the scheduler.
CacheSane ==
    /\ status \in [Requests -> Statuses]
    /\ tokens \in [Requests -> Seq(Nat)]
    /\ computed \in [Requests -> Nat] /\ scheduled \in [Requests -> Nat]
    /\ content \in [Blocks -> [Slots -> Seq(Nat)]]
    /\ reqBlocks = [r \in Requests |-> reqBlocks[r]]
    /\ numCached = [r \in Requests |-> numCached[r]]
    /\ reqHashes = [r \in Requests |-> reqHashes[r]]
    /\ \A r \in Requests :
          /\ computed[r] + scheduled[r] <= Len(tokens[r])
          /\ status[r] # "running" => computed[r] = 0 /\ scheduled[r] = 0
          /\ status[r] = "none" => tokens[r] = Prompt[r]
          /\ \A hit \in Hits(r) : Len(hit) \in Nat /\ Len(hit) * BlockSize < Len(tokens[r])

-----------------------------------------------------------------------------
(* _try_schedule_encoder_inputs.                                            *)

\* What is chosen so far when n0 tokens were asked for.
ChosenOf(n0) ==
    {acc \in [inputs : Seq(Nat), n : Int, budget : Nat, go : BOOLEAN] :
        acc.n <= n0 /\ (acc.go => acc.n > 0)}

\* One input leaves no more tokens and no more budget than there were.
LEMMA TryInputIs ==
    ASSUME NEW e, NEW r \in Requests, NEW done \in Nat, NEW n0 \in Int,
           NEW acc \in ChosenOf(n0), NEW i \in DOMAIN MMPositions[r]
    PROVE  TryInput(e, r, done, acc, i) \in ChosenOf(n0)
  <1> DEFINE s == InputStart(r, i)  l == InputLength(r, i)
             cutN == IF done < s THEN s - done ELSE 0
             cut == [acc EXCEPT !.n = cutN, !.go = FALSE]
             inputs == Append(acc.inputs, i)  left == acc.budget - l
             more == [acc EXCEPT !.inputs = inputs, !.budget = left]
  <1>1. s \in Nat /\ l \in Nat /\ i \in Nat
    <2>1. MMPositions[r] \in Seq([offset : Nat, length : Nat \ {0}, hash : Nat])
      BY InputsAssumption, SchedulerAssumption
    <2> DEFINE R == [offset : Nat, length : Nat \ {0}, hash : Nat]
               m == MMPositions[r]
    <2>2. i \in Nat /\ m[i] \in R
      <3> HIDE DEF R, m
      <3>1. m \in Seq(R) /\ i \in DOMAIN m
        BY <2>1 DEF R, m
      <3> QED
        BY <3>1
    <2> QED
      BY <2>2 DEF InputStart, InputLength
  <1>2. /\ acc \in [inputs : Seq(Nat), n : Int, budget : Nat, go : BOOLEAN]
        /\ acc.n <= n0 /\ (acc.go => acc.n > 0)
    BY DEF ChosenOf
  <1>4. CASE TryInput(e, r, done, acc, i) = acc
    BY <1>4
  <1>5. CASE acc.go /\ Overlaps(r, i, done, acc.n) /\ TryInput(e, r, done, acc, i) = cut
    <2>1. cutN \in Int /\ cutN <= n0
      BY <1>1, <1>2, <1>5 DEF Overlaps
    <2> HIDE DEF cutN
    <2>2. cut \in ChosenOf(n0)
      BY ZenonT(30), <1>2, <2>1 DEF ChosenOf
    <2> QED
      BY <1>5, <2>2
  <1>6. CASE acc.go /\ l <= acc.budget /\ TryInput(e, r, done, acc, i) = more
    <2>1. inputs \in Seq(Nat) /\ left \in Nat
      BY <1>1, <1>2, <1>6
    <2> HIDE DEF inputs, left
    <2>2. more \in ChosenOf(n0)
      BY ZenonT(30), <1>2, <2>1 DEF ChosenOf
    <2> QED
      BY <1>6, <2>2
  <1> HIDE DEF cut, more
  <1>7. \/ TryInput(e, r, done, acc, i) = acc
        \/ acc.go /\ Overlaps(r, i, done, acc.n) /\ TryInput(e, r, done, acc, i) = cut
        \/ acc.go /\ ~(l > acc.budget) /\ TryInput(e, r, done, acc, i) = more
    BY Zenon DEF TryInput, cut, more
  <1>8. ~(l > acc.budget) => l <= acc.budget
    BY <1>1, <1>2
  <1> QED
    BY <1>4, <1>5, <1>6, <1>7, <1>8

\* Of the n tokens after done at most n are chosen, and the budget is kept.
LEMMA ChoiceIs ==
    ASSUME NEW e, NEW r \in Requests, NEW done \in Nat, NEW n0 \in Int, NEW budget \in Nat
    PROVE  TryScheduleEncoderInputs(e, r, done, n0, budget) \in ChosenOf(n0)
  <1> DEFINE D == ChosenOf(n0)
             q == [i \in DOMAIN MMPositions[r] |-> i]
             n == Len(q)
             base == [inputs |-> <<>>, n |-> n0, budget |-> budget, go |-> n0 > 0]
             Op(x, i) == TryInput(e, r, done, x, q[i])
             Body(F) == [i \in 0..n |-> IF i = 0 THEN base ELSE Op(F[i - 1], i)]
             turn == [i \in 1..n |-> [x \in D |-> Op(x, i)]]
             C == CHOOSE F : F = Body(F)
  <1>1. n \in Nat /\ \A i \in 1..n : q[i] \in DOMAIN MMPositions[r]
    <2>1. MMPositions[r] \in Seq([offset : Nat, length : Nat \ {0}, hash : Nat])
      BY InputsAssumption, SchedulerAssumption
    <2>2. DOMAIN MMPositions[r] = 1..Len(MMPositions[r]) /\ Len(MMPositions[r]) \in Nat
      BY <2>1
    <2>3. q \in Seq(Nat) /\ Len(q) = Len(MMPositions[r])
      BY <2>2
    <2>4. \A i \in DOMAIN MMPositions[r] : q[i] = i
      OBVIOUS
    <2> QED
      BY ZenonT(30), <2>2, <2>3, <2>4
  <1>2. base \in D
    <2>1. <<>> \in Seq(Nat)
      OBVIOUS
    <2>2. base \in [inputs : Seq(Nat), n : Int, budget : Nat, go : BOOLEAN]
      BY <2>1
    <2>3. base.n = n0 /\ base.go = (n0 > 0)
      BY Zenon
    <2> HIDE DEF base
    <2> QED
      BY <2>2, <2>3 DEF ChosenOf
  <1>3. TryScheduleEncoderInputs(e, r, done, n0, budget) = C[n]
    BY Zenon DEF TryScheduleEncoderInputs, FoldLeft
  <1> HIDE DEF n, D, q, base
  <1>4. ASSUME NEW i \in 1..n, NEW x \in D PROVE Op(x, i) \in D
    BY <1>1, TryInputIs DEF D
  <1> HIDE DEF Op
  <1>5. turn \in [1..n -> [D -> D]]
    BY <1>4
  <1>6. \E F : F = Body(F)
    <2> HIDE DEF turn
    <2>1. PICK F : Iterated(F, n, D, base, turn)
      BY <1>1, <1>2, <1>5, Iterates
    <2>2. ASSUME NEW i \in 1..n PROVE F[i] = Op(F[i - 1], i)
      <3>1. F[i] = turn[i][F[i - 1]] /\ F[i - 1] \in D
        BY <1>1, <2>1 DEF Iterated
      <3> QED
        BY <3>1 DEF turn
    <2>3. F = [i \in 0..n |-> F[i]] /\ F[0] = base
      BY <2>1 DEF Iterated
    <2>4. ASSUME NEW i \in 0..n PROVE F[i] = Body(F)[i]
      <3>1. CASE i = 0
        BY <2>3, <3>1
      <3>2. CASE i # 0
        <4>1. i \in 1..n
          BY <1>1, <3>2
        <4> QED
          BY <2>2, <3>2, <4>1, Zenon
      <3> QED
        BY <3>1, <3>2
    <2>5. F = Body(F)
      BY ZenonT(30), <2>3, <2>4
    <2> QED
      BY ZenonT(30), <2>5
  <1>7. C = Body(C)
    BY ZenonT(30), <1>6
  <1> HIDE DEF C
  <1>8. C[0] = base /\ \A i \in 1..n : C[i] = Op(C[i - 1], i)
    BY <1>1, <1>7
  <1> DEFINE T == {i \in 0..n : C[i] \in D}
  <1>9. 0 \in T
    BY <1>1, <1>2, <1>8
  <1>10. ASSUME NEW i \in 1..n, i - 1 \in T PROVE i \in T
    <2>1. C[i - 1] \in D /\ i \in 0..n
      BY <1>1, <1>10
    <2>2. C[i] \in D
      BY <1>4, <1>8, <2>1
    <2> QED
      BY <2>1, <2>2
  <1> HIDE DEF T
  <1>11. 0..n \subseteq T
    BY ZenonT(30), <1>1, <1>9, <1>10, UpTo
  <1> QED
    BY <1>1, <1>3, <1>11 DEF T, D

-----------------------------------------------------------------------------
(* The numbers of tokens.                                                   *)

\* The chunk of a request is at most what it asks for and what the budget has.
LEMMA ChunkIs ==
    ASSUME StepShaped, NEW n \in Int
    PROVE  /\ Chunk(n) \in Int /\ Chunk(n) <= n /\ Chunk(n) <= step.budget
           /\ n > 0 /\ step.budget > 0 => Chunk(n) > 0
  BY SchedulerAssumption DEF StepShaped, Chunk, Smaller

\* A running request is asked for tokens that it has and that fit the model.
LEMMA RunningChunk ==
    ASSUME CacheSane, StepShaped, NEW r \in Requests, RunningChoice(r).n > 0
    PROVE  /\ RunningChoice(r).n \in Chunks(r) /\ RunningChoice(r).n \in Nat
           /\ RunningChoice(r).n <= step.budget /\ RunningChoice(r).budget \in Nat
  <1> DEFINE n0 == RunningTokens(r)  a == Len(tokens[r]) - computed[r]  c == RunningChoice(r)
             b == MaxModelLen - 1 - computed[r]
  <1>1. a \in Int /\ b \in Int /\ computed[r] \in Nat /\ step.encBudget \in Nat /\ step.budget \in Nat
    BY ManagerAssumption DEF CacheSane, StepShaped
  <1> HIDE DEF a, b
  <1>2. Chunk(a) \in Int /\ Chunk(a) <= a /\ Chunk(a) <= step.budget
    BY <1>1, ChunkIs
  <1>3. n0 \in Int /\ n0 <= a /\ n0 <= b /\ n0 <= step.budget
    BY <1>1, <1>2 DEF RunningTokens, Smaller, a, b
  <1> HIDE DEF n0
  <1>4. c \in ChosenOf(n0)
    BY <1>1, <1>3, ChoiceIs DEF RunningChoice, n0
  <1> HIDE DEF c
  <1>5. c.n \in Int /\ c.n <= n0 /\ c.budget \in Nat /\ c.n > 0
    BY <1>4 DEF ChosenOf, c
  <1>6. c.n \in 1..Smaller(a, b)
    BY <1>1, <1>3, <1>5 DEF Smaller
  <1> QED
    BY <1>1, <1>3, <1>5, <1>6 DEF Chunks, a, b, c

\* A waiting request is asked for tokens after its hit, and has one at least.
LEMMA WaitingChunk ==
    ASSUME CacheSane, StepShaped, NEW r \in Requests, Tried(r), NEW hit \in Hits(r)
    PROVE  LET c == WaitingChoice(r, hit)
           IN /\ step.budget > 0 => WaitingTokens(r, hit) > 0
              /\ c.n > 0 => c.n \in ChunksAfter(r, hit)
              /\ c.n \in Int /\ c.n <= step.budget /\ c.budget \in Nat
  <1> DEFINE d == ComputedWith(r, hit)  a == Len(tokens[r]) - d  c == WaitingChoice(r, hit)
             n0 == WaitingTokens(r, hit)
  <1>1. /\ computed[r] = 0 /\ Len(hit) \in Nat /\ Len(tokens[r]) \in Nat
        /\ Len(hit) * BlockSize < Len(tokens[r])
    BY DEF CacheSane, Tried
  <1>2. BlockSize \in Nat /\ Len(hit) * BlockSize \in Nat
    BY <1>1, PoolAssumption
  <1>3. d \in Nat /\ a \in Int /\ a > 0 /\ a = Len(tokens[r]) - d
    <2> DEFINE k == Len(hit) * BlockSize
    <2>1. d = 0 + k /\ k \in Nat /\ k < Len(tokens[r])
      BY <1>1, <1>2 DEF ComputedWith
    <2> HIDE DEF k, d
    <2> QED
      BY <1>1, <2>1
  <1> HIDE DEF d, a
  <1>4. step.budget \in Nat /\ step.encBudget \in Nat
    BY DEF StepShaped
  <1>5. n0 \in Int /\ n0 <= a /\ n0 <= step.budget /\ (step.budget > 0 => n0 > 0)
    BY ZenonT(30), <1>3, <1>4, ChunkIs DEF WaitingTokens, a, d
  <1> HIDE DEF n0
  <1>6. c \in ChosenOf(n0)
    BY ZenonT(30), <1>3, <1>4, <1>5, ChoiceIs DEF WaitingChoice, d, n0
  <1> HIDE DEF c
  <1>7. c.n \in Int /\ c.n <= n0 /\ c.budget \in Nat
    BY <1>6 DEF ChosenOf
  <1>8. c.n > 0 => c.n \in 1..(Len(tokens[r]) - d)
    BY <1>1, <1>3, <1>5, <1>7
  <1> QED
    BY <1>4, <1>5, <1>7, <1>8 DEF ChunksAfter, c, d, n0

-----------------------------------------------------------------------------
(* Between steps.                                                           *)

\* The local variables at the start of schedule().
LEMMA NewStepIs ==
    /\ DOMAIN NewStep = StepFields
    /\ NewStep.index = 1 /\ NewStep.budget = MaxBatchedTokens /\ NewStep.encBudget \in Nat
    /\ NewStep.skipped = <<>> /\ NewStep.order = <<>> /\ <<>> \in Seq(Requests)
    /\ MaxBatchedTokens \in Nat /\ MaxNumSeqs \in Nat
  <1>1. <<>> \in Seq(Requests)
    OBVIOUS
  <1> QED
    BY <1>1, SchedulerAssumption DEF NewStep, StepFields

\* The empty list has no items.
LEMMA EmptyIs == ToSet(<<>>) = {} /\ Distinct(<<>>) /\ Len(<<>>) = 0
  BY DEF ToSet, Distinct

\* A fresh engine is in order.
LEMMA EngineInit == InitEngine => EngineInv
  <1> SUFFICES ASSUME InitEngine PROVE EngineInv
    OBVIOUS
  <1>1. /\ phase = "idle" /\ running = <<>> /\ waiting = <<>> /\ step = NewStep
        /\ compiling = {} /\ arrived = <<>>
        /\ status = [r \in Requests |-> "none"] /\ scheduled = [r \in Requests |-> 0]
    BY DEF InitEngine, InitScheduler, Init
  <1>2. StepShaped
    BY <1>1, NewStepIs DEF StepShaped
  <1>3. Queues
    BY <1>1, NewStepIs, EmptyIs DEF Queues, Phases, Active, Queued
  <1>4. Order
    BY <1>1, NewStepIs, EmptyIs DEF Order
  <1>5. scheduled \in [Requests -> Nat]
    BY <1>1
  <1>6. SumOf(scheduled, <<>>) = 0
    BY <1>5, SumEmpty
  <1>7. Budgets
    BY <1>1, <1>6, NewStepIs, EmptyIs DEF Budgets
  <1>8. InOrder
    <2>1. Keep(<<>>, Plain) = <<>> /\ Keep(<<>>, Live) = <<>> /\ <<>> \o <<>> = <<>>
      BY KeepEmpty
    <2> QED
      BY ZenonT(30), <1>1, <2>1, NewStepIs DEF InOrder, Ordered
  <1> QED
    BY ZenonT(30), <1>2, <1>3, <1>4, <1>7, <1>8 DEF EngineInv

\* Requests that leave the queues leave the order of arrival as it is.
LEMMA FilteredOrder ==
    ASSUME NEW p \in Seq(Requests), NEW q \in Seq(Requests), NEW a \in Seq(Requests),
           NEW L, NEW S, Ordered(p, q, a, L)
    PROVE  Ordered(Keep(p, Requests \ S), Keep(q, Requests \ S), a, L \ S)
  <1> DEFINE R == Requests \ S
  <1> HIDE DEF R
  <1>1. ASSUME NEW u \in Seq(Requests) PROVE Keep(Keep(u, R), Plain) = Keep(Keep(u, Plain), R)
    <2>1. Keep(Keep(u, R), Plain) = Keep(u, R \cap Plain)
      BY KeepKeep
    <2>2. Keep(Keep(u, Plain), R) = Keep(u, Plain \cap R)
      BY KeepKeep
    <2>3. R \cap Plain = Plain \cap R
      OBVIOUS
    <2> QED
      BY ZenonT(30), <2>1, <2>2, <2>3
  <1> DEFINE kp == Keep(p, Plain)  kq == Keep(q, Plain)
  <1>2. kp \in Seq(Requests) /\ kq \in Seq(Requests)
    BY KeepItems
  <1>3. KeepsBoth(kp, kq, R)
    BY <1>2, KeepConcat
  <1>4. Keep(kp \o kq, R) = Keep(kp, R) \o Keep(kq, R)
    BY <1>3 DEF KeepsBoth
  <1>5. Keep(Keep(a, L), R) = Keep(a, L \cap R)
    BY KeepKeep
  <1>6. ToSet(a) \cap (L \cap R) = ToSet(a) \cap (L \ S)
    BY Items DEF R
  <1>7. Keep(a, L \cap R) = Keep(a, L \ S)
    BY <1>6, KeepSame
  <1>8. Keep(Keep(p, R), Plain) = Keep(kp, R) /\ Keep(Keep(q, R), Plain) = Keep(kq, R)
    BY <1>1
  <1> QED
    BY ZenonT(30), <1>4, <1>5, <1>7, <1>8 DEF R, Ordered

\* A request that arrives joins the end of the queue and of the order of arrival.
LEMMA EngineAdd ==
    ASSUME CacheSane, EngineInv, NEW r \in Requests, Add(r)
    PROVE  AddRequest(r) /\ EngineInv'
  <1>1. /\ phase = "idle" /\ r \notin ToSet(arrived) /\ AddRequest(r)
        /\ waiting' = Append(waiting, r) /\ arrived' = Append(arrived, r)
        /\ compiling' = compiling \cup ({r} \cap Structured)
        /\ phase' = phase /\ running' = running /\ step' = step
    BY DEF Add
  <1>2. status[r] = "none" /\ status' = [status EXCEPT ![r] = "waiting"] /\ scheduled' = scheduled
        /\ status \in [Requests -> Statuses]
    BY <1>1 DEF AddRequest, CacheSane
  <1>3. StepShaped /\ Queues /\ Order /\ Budgets /\ InOrder
    BY DEF EngineInv
  <1>4. Active' = Active /\ Queued' = Queued \cup {r} /\ r \notin Queued
    BY ZenonT(30), <1>2 DEF Active, Queued
  <1>5. waiting \in Seq(Requests) /\ arrived \in Seq(Requests) /\ step.skipped = <<>>
    BY <1>1, <1>3 DEF Queues, InOrder
  <1>6. ToSet(waiting) = Queued /\ Distinct(waiting)
    BY ZenonT(30), <1>3, <1>5, EmptyIs DEF Queues
  <1>7. /\ waiting' \in Seq(Requests) /\ ToSet(waiting') = Queued' /\ Distinct(waiting')
        /\ arrived' \in Seq(Requests)
    <2>1. /\ Append(waiting, r) \in Seq(Requests) /\ ToSet(Append(waiting, r)) = ToSet(waiting) \cup {r}
          /\ Distinct(waiting) /\ r \notin ToSet(waiting) => Distinct(Append(waiting, r))
      <3>1. OneLonger(Append(waiting, r), waiting, r, Requests)
        BY <1>5, OneMore
      <3> QED
        BY <3>1 DEF OneLonger
    <2>2. Append(arrived, r) \in Seq(Requests)
      BY <1>5
    <2> QED
      BY ZenonT(30), <1>1, <1>4, <1>6, <2>1, <2>2
  <1>8. StepShaped'
    BY ZenonT(30), <1>1, <1>3 DEF StepShaped
  <1>9. Queues'
    BY ZenonT(30), <1>1, <1>3, <1>4, <1>5, <1>7, EmptyIs DEF Queues
  <1>10. Order' /\ Budgets'
    BY <1>1, <1>2, <1>3 DEF Order, Budgets
  <1>11. InOrder'
    <2> DEFINE kr == Keep(running, Plain)  kw == Keep(waiting, Plain)  ka == Keep(arrived, Live)
    <2>1. Live' = Live \cup ({r} \cap Plain) /\ Plain' = Plain
      BY ZenonT(30), <1>2 DEF Live, Plain
    <2>2. kr \o kw = ka /\ kr \in Seq(Requests) /\ kw \in Seq(Requests)
      BY ZenonT(30), <1>3, <1>5, KeepItems DEF InOrder, Queues, Ordered
    <2>3. KeepsNext(waiting, r, Plain) /\ KeepsNext(arrived, r, Live')
      BY ZenonT(30), <1>5, KeepAppend
    <2>4. Keep(arrived, Live') = ka
      <3>1. ToSet(arrived) \cap Live' = ToSet(arrived) \cap Live
        BY <1>1, <2>1
      <3> QED
        BY <1>5, <3>1, KeepSame
    <2>5. Keep(waiting', Plain) = IF r \in Plain THEN Append(kw, r) ELSE kw
      BY <1>1, <2>3, Zenon DEF KeepsNext
    <2>6. Keep(arrived', Live') = IF r \in Live' THEN Append(ka, r) ELSE ka
      BY <1>1, <2>3, <2>4, Zenon DEF KeepsNext
    <2>7. r \in Live' <=> r \in Plain
      BY <1>2, <2>1 DEF Live
    <2>8. JoinsNext(kr, kw, r)
      BY <2>2, AppendJoined
    <2>9. Append(kr \o kw, r) = kr \o Append(kw, r)
      BY <2>8 DEF JoinsNext
    <2> HIDE DEF kr, kw, ka
    <2>10. kr \o Keep(waiting', Plain) = Keep(arrived', Live')
      BY ZenonT(30), <2>2, <2>5, <2>6, <2>7, <2>9
    <2> QED
      BY ZenonT(30), <1>1, <1>7, <2>1, <2>10 DEF InOrder, Ordered, kr
  <1> QED
    BY ZenonT(30), <1>1, <1>8, <1>9, <1>10, <1>11 DEF EngineInv

\* A request that is aborted leaves its queue.
LEMMA EngineFinish ==
    ASSUME CacheSane, EngineInv, NEW r \in Requests, Finish(r)
    PROVE  Abort(r) /\ EngineInv'
  <1> DEFINE R == Requests \ {r}
  <1>1. /\ phase = "idle" /\ Abort(r)
        /\ waiting' = Keep(waiting, R) /\ running' = Keep(running, R)
        /\ compiling' = compiling \ {r}
        /\ phase' = phase /\ arrived' = arrived /\ step' = step
    BY DEF Finish, Without
  <1>2. status' = [status EXCEPT ![r] = "none"] /\ scheduled' = scheduled
        /\ status \in [Requests -> Statuses]
    BY <1>1 DEF Abort, CacheSane
  <1>3. StepShaped /\ Queues /\ Order /\ Budgets /\ InOrder
    BY DEF EngineInv
  <1>4. Active' = Active \cap R /\ Queued' = Queued \cap R
    BY ZenonT(30), <1>2 DEF Active, Queued
  <1>5. /\ running \in Seq(Requests) /\ waiting \in Seq(Requests) /\ arrived \in Seq(Requests)
        /\ step.skipped = <<>>
    BY <1>1, <1>3 DEF Queues, InOrder
  <1>6. ToSet(waiting) = Queued /\ Distinct(waiting) /\ ToSet(running) = Active /\ Distinct(running)
    BY ZenonT(30), <1>3, <1>5, EmptyIs DEF Queues
  <1>7. /\ waiting' \in Seq(Requests) /\ ToSet(waiting') = Queued' /\ Distinct(waiting')
    BY ZenonT(30), <1>1, <1>4, <1>5, <1>6, KeepItems
  <1>8. /\ running' \in Seq(Requests) /\ ToSet(running') = Active' /\ Distinct(running')
    BY ZenonT(30), <1>1, <1>4, <1>5, <1>6, KeepItems
  <1>9. StepShaped'
    BY <1>1, <1>3 DEF StepShaped
  <1>10. Queues'
    BY ZenonT(30), <1>1, <1>3, <1>5, <1>7, <1>8, EmptyIs DEF Queues
  <1>11. Order'
    BY ZenonT(30), <1>1, <1>2, <1>3 DEF Order
  <1>12. Len(running') <= Len(running)
    BY <1>1, <1>5, KeepShorter
  <1>13. Budgets'
    <2>1. Len(running) \in Nat /\ Len(running') \in Nat /\ MaxNumSeqs \in Nat
      BY <1>5, <1>8, NewStepIs
    <2> QED
      BY <1>1, <1>2, <1>3, <1>12, <2>1 DEF Budgets
  <1>14. InOrder'
    <2>1. Live' = Live \ {r} /\ Plain' = Plain
      BY <1>2 DEF Live, Plain
    <2>2. Ordered(running, waiting, arrived, Live)
      BY <1>3 DEF InOrder
    <2>3. Ordered(Keep(running, R), Keep(waiting, R), arrived, Live \ {r})
      BY ZenonT(30), <1>5, <2>2, FilteredOrder
    <2>4. Ordered(running', waiting', arrived, Live \ {r})
      BY <1>1, <2>3, Zenon
    <2> QED
      BY ZenonT(30), <1>1, <1>5, <2>1, <2>4 DEF InOrder, Ordered
  <1> QED
    BY ZenonT(30), <1>1, <1>9, <1>10, <1>11, <1>13, <1>14 DEF EngineInv

\* The grammar of a request may arrive at any time: the scheduler reads no more
\* than whether it is there.
LEMMA EngineGrammar ==
    ASSUME EngineInv, NEW r \in Requests, GrammarReady(r)
    PROVE  UNCHANGED vars /\ EngineInv'
  <1>1. /\ UNCHANGED <<phase, running, waiting, step, arrived>> /\ compiling' = compiling \ {r}
        /\ UNCHANGED vars
    BY DEF GrammarReady, kvVars
  <1>2. UNCHANGED <<status, scheduled>>
    BY <1>1 DEF vars
  <1>3. StepShaped /\ Queues /\ Order /\ Budgets /\ InOrder
    BY DEF EngineInv
  <1>4. StepShaped' /\ Order' /\ Budgets' /\ InOrder'
    BY ZenonT(30), <1>1, <1>2, <1>3 DEF StepShaped, Order, Budgets, InOrder, Ordered, Live, Plain
  <1>5. Queues'
    BY <1>1, <1>2, <1>3 DEF Queues, Active, Queued
  <1> QED
    BY <1>1, <1>4, <1>5 DEF EngineInv

\* A schedule() starts with nothing scheduled.
LEMMA EngineStart ==
    ASSUME EngineInv, CacheSane, StartSchedule
    PROVE  UNCHANGED vars /\ EngineInv'
  <1>1. /\ UNCHANGED <<running, waiting, arrived, compiling>> /\ UNCHANGED vars
        /\ phase = "idle" /\ phase' = "running" /\ step' = NewStep
    BY DEF StartSchedule, kvVars
  <1>2. UNCHANGED <<status, scheduled>> /\ scheduled \in [Requests -> Nat]
    BY <1>1 DEF vars, CacheSane
  <1>3. StepShaped /\ Queues /\ Order /\ Budgets /\ InOrder
    BY DEF EngineInv
  <1>4. StepShaped'
    BY <1>1, NewStepIs DEF StepShaped
  <1>5. step.skipped = <<>> /\ step.order = <<>> /\ step'.skipped = <<>> /\ step'.order = <<>>
    BY ZenonT(30), <1>1, <1>3, NewStepIs DEF Queues, Order
  <1>6. Queues'
    BY ZenonT(30), <1>1, <1>2, <1>3, <1>5, EmptyIs DEF Queues, Active, Queued, Phases
  <1>7. Order'
    <2>1. {r \in Requests : scheduled[r] > 0} = {}
      BY <1>3, <1>5, EmptyIs DEF Order
    <2>2. \A r \in Requests : scheduled[r] = 0
      BY <1>2, <2>1
    <2>3. running \in Seq(Requests) /\ Len(running) \in Nat
      BY <1>3 DEF Queues
    <2>4. step'.index \in 1..(Len(running) + 1)
          /\ \A i \in step'.index..Len(running) : scheduled[running[i]] = 0
      BY <1>1, <2>2, <2>3, NewStepIs
    <2> QED
      BY ZenonT(30), <1>1, <1>2, <1>5, <2>1, <2>4, EmptyIs DEF Order
  <1>8. Budgets'
    <2>1. SumOf(scheduled, <<>>) = 0
      BY <1>2, SumEmpty
    <2> QED
      BY <1>1, <1>2, <1>3, <1>5, <2>1, NewStepIs DEF Budgets
  <1>9. InOrder'
    BY ZenonT(30), <1>1, <1>2, <1>3 DEF InOrder, Ordered, Live, Plain
  <1> QED
    BY ZenonT(30), <1>1, <1>4, <1>6, <1>7, <1>8, <1>9 DEF EngineInv

\* A request that is passed over keeps its place.
LEMMA EnginePassOver ==
    ASSUME EngineInv, PassOver
    PROVE  UNCHANGED vars /\ EngineInv'
  <1>1. /\ UNCHANGED <<phase, running, waiting, arrived, compiling>> /\ UNCHANGED vars
        /\ phase = "running" /\ step.index <= Len(running)
        /\ step' = [step EXCEPT !.index = step.index + 1]
    BY DEF PassOver, RunningLeft, kvVars
  <1>2. UNCHANGED <<status, scheduled>>
    BY <1>1 DEF vars
  <1>3. StepShaped /\ Queues /\ Order /\ Budgets /\ InOrder
    BY DEF EngineInv
  <1>4. /\ DOMAIN step' = StepFields /\ step'.index = step.index + 1
        /\ step'.budget = step.budget /\ step'.encBudget = step.encBudget
        /\ step'.skipped = step.skipped /\ step'.order = step.order
    BY <1>1, <1>3 DEF StepShaped, StepFields
  <1>5. StepShaped'
    BY <1>3, <1>4 DEF StepShaped
  <1>6. Queues'
    BY <1>1, <1>2, <1>3, <1>4 DEF Queues, Active, Queued
  <1>7. Order'
    <2>1. running \in Seq(Requests) /\ Len(running) \in Nat /\ step.index \in Nat
      BY <1>3 DEF Queues, StepShaped
    <2>2. step'.index \in 1..(Len(running) + 1)
          /\ \A i \in step'.index..Len(running) : scheduled[running[i]] = 0
      BY <1>1, <1>3, <1>4, <2>1 DEF Order
    <2> QED
      BY ZenonT(30), <1>1, <1>2, <1>3, <1>4, <2>2 DEF Order
  <1>8. Budgets' /\ InOrder'
    BY ZenonT(30), <1>1, <1>2, <1>3, <1>4 DEF Budgets, InOrder, Ordered, Live, Plain
  <1> QED
    BY ZenonT(30), <1>1, <1>5, <1>6, <1>7, <1>8 DEF EngineInv

\* The ends of the two loops, and the worker's part of a step, leave all but the
\* phase alone.
LEMMA EngineTurns ==
    ASSUME EngineInv, RunningDone \/ WaitingDone \/ Prepare
    PROVE  UNCHANGED vars /\ EngineInv'
  <1>1. /\ UNCHANGED <<running, waiting, arrived, compiling, step>> /\ UNCHANGED vars
        /\ phase \in {"running", "waiting", "built"}
        /\ phase' \in {"waiting", "end", "forward"} /\ (phase' = "forward" => phase = "built")
    BY Zenon DEF RunningDone, WaitingDone, Prepare, kvVars
  <1>2. UNCHANGED <<status, scheduled>>
    BY <1>1 DEF vars
  <1>3. StepShaped /\ Queues /\ Order /\ Budgets /\ InOrder
    BY DEF EngineInv
  <1>4. StepShaped' /\ Budgets' /\ InOrder'
    BY ZenonT(30), <1>1, <1>2, <1>3 DEF StepShaped, Budgets, InOrder, Ordered, Live, Plain
  <1>5. Queues'
    <2>1. phase' \in Phases
      BY ZenonT(30), <1>1 DEF Phases
    <2>2. phase' \notin {"waiting", "end"} => step.skipped = <<>>
      <3>1. phase' \notin {"waiting", "end"} => phase = "built" \/ phase = "running"
        BY <1>1
      <3> QED
        BY <1>3, <3>1 DEF Queues
    <2> QED
      BY ZenonT(30), <1>1, <1>2, <1>3, <2>1, <2>2 DEF Queues, Active, Queued
  <1>6. Order'
    BY <1>1, <1>2, <1>3 DEF Order
  <1> QED
    BY <1>1, <1>4, <1>5, <1>6 DEF EngineInv

\* What a request that gets n tokens changes of the step.
LEMMA ScheduledIs ==
    ASSUME StepShaped, NEW r \in Requests, NEW choice, NEW blocks
    PROVE  LET s == Scheduled(r, choice, blocks)
           IN /\ DOMAIN s = StepFields /\ s.index = step.index /\ s.skipped = step.skipped
              /\ s.budget = step.budget - choice.n /\ s.encBudget = choice.budget
              /\ s.order = Append(step.order, r)
  BY DEF Scheduled, StepShaped, StepFields

\* The tokens a request is given are taken from the budget.
LEMMA OrderGrows ==
    ASSUME CacheSane, StepShaped, Order, Budgets, NEW r \in Requests, scheduled[r] = 0,
           NEW n \in Nat \ {0}, n <= step.budget,
           scheduled' = [scheduled EXCEPT ![r] = n],
           step'.order = Append(step.order, r), step'.budget = step.budget - n
    PROVE  /\ step'.order \in Seq(Requests) /\ Distinct(step'.order)
           /\ ToSet(step'.order) = {q \in Requests : scheduled'[q] > 0}
           /\ step'.budget \in Nat
           /\ step'.budget + SumOf(scheduled', step'.order) = MaxBatchedTokens
  <1> DEFINE q == step.order
  <1>1. /\ q \in Seq(Requests) /\ Distinct(q) /\ step.budget \in Nat
        /\ ToSet(q) = {x \in Requests : scheduled[x] > 0}
        /\ step.budget + SumOf(scheduled, q) = MaxBatchedTokens
    BY DEF StepShaped, Order, Budgets
  <1>2. scheduled \in [Requests -> Nat] /\ scheduled' \in [Requests -> Nat] /\ scheduled'[r] = n
    BY DEF CacheSane
  <1>3. r \notin ToSet(q)
    BY <1>1
  <1> HIDE DEF q
  <1>4. OneLonger(Append(q, r), q, r, Requests)
    BY ZenonT(30), <1>1, OneMore
  <1>5. Append(q, r) \in Seq(Requests) /\ Distinct(Append(q, r)) /\ ToSet(Append(q, r)) = ToSet(q) \cup {r}
    BY ZenonT(30), <1>1, <1>3, <1>4 DEF OneLonger
  <1>6. ToSet(q) \cup {r} = {x \in Requests : scheduled'[x] > 0}
    BY <1>1, <1>2
  <1>7. \A x \in Requests \ {r} : scheduled'[x] = scheduled[x]
    BY <1>2
  <1>8. SumOf(scheduled, q) \in Nat /\ SumOf(scheduled', Append(q, r)) = SumOf(scheduled, q) + n
    <2>1. q \in Seq(Requests)
      BY <1>1
    <2>2. SumsNext(scheduled, scheduled', q, r)
      BY ZenonT(30), <1>2, <1>3, <1>7, <2>1, SumGrows
    <2> QED
      BY <1>2, <2>2, Zenon DEF SumsNext
  <1>9. step'.budget \in Nat /\ step'.budget + (SumOf(scheduled, q) + n) = MaxBatchedTokens
    BY <1>1, <1>8
  <1>10. step'.budget + SumOf(scheduled', Append(q, r)) = MaxBatchedTokens
    BY <1>8, <1>9, Zenon
  <1> QED
    BY ZenonT(30), <1>5, <1>6, <1>9, <1>10 DEF q

\* A running request that gets its blocks.
LEMMA EngineScheduleRunning ==
    ASSUME CacheSane, EngineInv, ScheduleRunning
    PROVE  (\E r \in Requests : AllocateMore(r)) /\ EngineInv'
  <1> DEFINE r == Current  choice == RunningChoice(r)  i == step.index
             blocks == SubSeq(reqBlocks'[r], Len(reqBlocks[r]) + 1, Len(reqBlocks'[r]))
             s == Scheduled(r, choice, blocks)
  <1>1. /\ phase = "running" /\ i <= Len(running)
        /\ choice.n > 0 /\ AllocateMoreWith(r, choice.n)
        /\ step' = [s EXCEPT !.index = s.index + 1]
        /\ UNCHANGED <<phase, running, waiting, compiling, arrived>>
    BY DEF ScheduleRunning, RunningLeft
  <1>2. StepShaped /\ Queues /\ Order /\ Budgets /\ InOrder
    BY DEF EngineInv
  <1>3. running \in Seq(Requests) /\ Distinct(running) /\ ToSet(running) = Active /\ Len(running) \in Nat
    BY <1>2 DEF Queues
  <1>4. i \in 1..Len(running) /\ \A j \in i..Len(running) : scheduled[running[j]] = 0
    BY <1>1, <1>2, <1>3 DEF Order
  <1>5. r \in Requests /\ r \in Active /\ scheduled[r] = 0
    BY <1>3, <1>4, Items DEF Current
  <1> HIDE DEF i
  <1>6. r = running[i]
    BY DEF Current, i
  <1> HIDE DEF r
  <1>7. choice.n \in Chunks(r) /\ choice.n \in Nat /\ choice.n <= step.budget /\ choice.budget \in Nat
    BY ZenonT(30), <1>1, <1>2, <1>5, RunningChunk
  <1>8. AllocateMore(r)
    BY <1>1, <1>5, <1>7 DEF AllocateMore, Continues, Active
  <1>9. scheduled' = [scheduled EXCEPT ![r] = choice.n] /\ status' = status
    BY ZenonT(30), <1>1 DEF AllocateMoreWith
  <1>10. /\ DOMAIN s = StepFields /\ s.index = i /\ s.skipped = step.skipped
         /\ s.budget = step.budget - choice.n /\ s.encBudget = choice.budget
         /\ s.order = Append(step.order, r)
    BY ZenonT(30), <1>2, <1>5, ScheduledIs DEF i
  <1> HIDE DEF choice, s
  <1>11. /\ DOMAIN step' = StepFields /\ step'.index = i + 1 /\ step'.skipped = step.skipped
         /\ step'.budget = step.budget - choice.n /\ step'.encBudget = choice.budget
         /\ step'.order = Append(step.order, r)
    BY <1>1, <1>10 DEF StepFields
  <1>12. /\ step'.order \in Seq(Requests) /\ Distinct(step'.order)
         /\ ToSet(step'.order) = {q \in Requests : scheduled'[q] > 0}
         /\ step'.budget \in Nat
         /\ step'.budget + SumOf(scheduled', step'.order) = MaxBatchedTokens
    <2>1. choice.n \in Nat \ {0}
      BY <1>1, <1>7
    <2> QED
      BY <1>2, <1>5, <1>7, <1>9, <1>11, <2>1, OrderGrows, Zenon
  <1>13. StepShaped'
    BY <1>2, <1>3, <1>4, <1>7, <1>11, <1>12 DEF StepShaped
  <1>14. Queues'
    BY ZenonT(30), <1>1, <1>2, <1>9, <1>11 DEF Queues, Active, Queued
  <1>15. Order'
    <2>1. scheduled \in [Requests -> Nat]
      BY DEF CacheSane
    <2>2. ASSUME NEW j \in (i + 1)..Len(running) PROVE scheduled'[running[j]] = 0
      <3>1. j \in 1..Len(running) /\ j \in i..Len(running) /\ j # i /\ running[j] \in Requests
        BY <1>3, <1>4
      <3>2. running[j] # running[i]
        BY <1>3, <1>4, <3>1 DEF Distinct
      <3> QED
        BY ZenonT(30), <1>4, <1>6, <1>9, <2>1, <3>1, <3>2
    <2> QED
      BY <1>1, <1>3, <1>4, <1>11, <1>12, <2>2 DEF Order
  <1>16. Budgets'
    BY <1>1, <1>2, <1>12 DEF Budgets
  <1>17. InOrder'
    BY ZenonT(30), <1>1, <1>2, <1>9 DEF InOrder, Ordered, Live, Plain
  <1> QED
    BY ZenonT(30), <1>5, <1>8, <1>13, <1>14, <1>15, <1>16, <1>17 DEF EngineInv

\* A request between the two queues may be the last of the one or the first of
\* the other: the order is the same.
LEMMA BetweenQueues ==
    ASSUME NEW p \in Seq(Requests), NEW q \in Seq(Requests), NEW v \in Requests, NEW a, NEW L
    PROVE  Ordered(Append(p, v), q, a, L) <=> Ordered(p, <<v>> \o q, a, L)
  <1> DEFINE kp == Keep(p, Plain)  kq == Keep(q, Plain)  u == <<v>>
  <1>1. kp \in Seq(Requests) /\ kq \in Seq(Requests) /\ u \in Seq(Requests)
    BY KeepItems
  <1>2. KeepsNext(p, v, Plain) /\ KeepsBoth(u, q, Plain)
    BY ZenonT(30), <1>1, KeepAppend, KeepConcat
  <1>3. Keep(Append(p, v), Plain) = IF v \in Plain THEN Append(kp, v) ELSE kp
    BY <1>2 DEF KeepsNext
  <1>4. Keep(u \o q, Plain) = Keep(u, Plain) \o kq /\ Keep(u, Plain) = IF v \in Plain THEN u ELSE <<>>
    BY ZenonT(30), <1>2, KeepOne DEF KeepsBoth
  <1> HIDE DEF kp, kq
  <1>5. Append(kp, v) \o kq = kp \o (u \o kq) /\ <<>> \o kq = kq
    BY <1>1
  <1>6. Keep(Append(p, v), Plain) \o kq = kp \o Keep(u \o q, Plain)
    BY <1>3, <1>4, <1>5, Zenon
  <1> QED
    BY <1>6 DEF Ordered, kp, kq

\* Requests with a grammar count for nothing in the order.
LEMMA StructuredAhead ==
    ASSUME NEW p \in Seq(Requests), NEW q \in Seq(Requests), NEW s \in Seq(Requests),
           ToSet(s) \subseteq Structured, NEW a, NEW L
    PROVE  Ordered(p, s \o q, a, L) <=> Ordered(p, q, a, L)
  <1>1. Keep(s, Plain) = <<>>
    <2>1. ToSet(s) \cap Plain = {}
      BY DEF Plain
    <2> QED
      BY <2>1, KeepNone
  <1>2. KeepsBoth(s, q, Plain)
    BY KeepConcat
  <1>3. Keep(s \o q, Plain) = <<>> \o Keep(q, Plain)
    BY <1>1, <1>2 DEF KeepsBoth
  <1>4. Keep(q, Plain) \in Seq(Requests)
    BY KeepItems
  <1>5. Keep(s \o q, Plain) = Keep(q, Plain)
    BY <1>3, <1>4
  <1> QED
    BY <1>5 DEF Ordered

\* A queue with a request or some put ahead of it.
LEMMA QueueAhead ==
    ASSUME NEW s \in Seq(Requests), NEW q \in Seq(Requests), Distinct(s), Distinct(q),
           ToSet(s) \cap ToSet(q) = {}
    PROVE  /\ s \o q \in Seq(Requests) /\ Distinct(s \o q)
           /\ ToSet(s \o q) = ToSet(s) \cup ToSet(q)
  BY InARow

\* A list of one request.
LEMMA JustOne ==
    ASSUME NEW v \in Requests
    PROVE  <<v>> \in Seq(Requests) /\ Distinct(<<v>>) /\ ToSet(<<v>>) = {v}
  <1>1. <<v>> \in Seq(Requests) /\ Len(<<v>>) = 1
    OBVIOUS
  <1> QED
    BY <1>1 DEF Distinct, ToSet

\* The last of the running requests is preempted and is the first to wait.
LEMMA EnginePreemptLast ==
    ASSUME CacheSane, EngineInv, PreemptLast
    PROVE  (\E v \in Requests : Preempt(v)) /\ EngineInv'
  <1> DEFINE r == Current  v == Last(running)  f == Front(running)  i == step.index
  <1>1. /\ phase = "running" /\ i <= Len(running)
        /\ RunningChoice(r).n > 0 /\ ~CanAllocate(r, <<>>, RunningChoice(r).n)
        /\ Preempted(v) /\ running' = Keep(running, Requests \ {v}) /\ waiting' = <<v>> \o waiting
        /\ phase' = (IF v = r THEN "end" ELSE "running")
        /\ step' = [step EXCEPT !.preempted = TRUE]
        /\ UNCHANGED <<compiling, arrived>>
    BY DEF PreemptLast, RunningLeft, VictimOf, Without, Prepend
  <1>2. StepShaped /\ Queues /\ Order /\ Budgets /\ InOrder
    BY DEF EngineInv
  <1>3. running \in Seq(Requests) /\ Distinct(running) /\ ToSet(running) = Active /\ Len(running) \in Nat
    BY <1>2 DEF Queues
  <1>4. i \in 1..Len(running) /\ \A j \in i..Len(running) : scheduled[running[j]] = 0
    BY <1>1, <1>2, <1>3 DEF Order
  <1>5. r \in Requests /\ r \in Active /\ scheduled[r] = 0
    BY <1>3, <1>4, Items DEF Current
  <1>6. running # <<>>
    BY <1>3, <1>4
  <1>7. FrontAndLast(running, f, v, Requests)
    BY <1>3, <1>6, LastOff
  <1>8. v = running[Len(running)] /\ r = running[i]
    BY DEF Last, Current
  <1> HIDE DEF r, v, f, i
  <1>9. /\ v \in Requests /\ f \in Seq(Requests) /\ Len(f) = Len(running) - 1
        /\ running = Append(f, v) /\ \A j \in 1..(Len(running) - 1) : f[j] = running[j]
        /\ Active = ToSet(f) \cup {v} /\ Distinct(f) /\ v \notin ToSet(f) /\ running' = f
    BY ZenonT(30), <1>1, <1>3, <1>7 DEF FrontAndLast
  <1>10. v \in Active /\ scheduled[v] = 0
    BY <1>3, <1>4, <1>8, <1>9
  <1>11. Preempt(v)
    <2>1. RunningChoice(r).n \in Chunks(r)
      BY ZenonT(30), <1>1, <1>2, <1>5, RunningChunk
    <2> QED
      BY ZenonT(30), <1>1, <1>5, <1>10, <2>1 DEF Preempt, Continues, Victim, Active
  <1>12. scheduled' = scheduled /\ status' = [status EXCEPT ![v] = "preempted"] /\ status \in [Requests -> Statuses]
    BY <1>1 DEF Preempted, CacheSane
  <1>13. Active' = Active \ {v} /\ Queued' = Queued \cup {v} /\ v \notin Queued
    BY <1>9, <1>10, <1>12 DEF Active, Queued
  <1>14. /\ DOMAIN step' = StepFields /\ step'.index = i /\ step'.skipped = step.skipped
         /\ step'.budget = step.budget /\ step'.encBudget = step.encBudget
         /\ step'.order = step.order
    BY <1>1, <1>2 DEF StepShaped, StepFields, i
  <1>15. StepShaped'
    BY <1>2, <1>14 DEF StepShaped, i
  <1>16. step.skipped = <<>> /\ waiting \in Seq(Requests) /\ Distinct(waiting) /\ ToSet(waiting) = Queued
    BY ZenonT(30), <1>1, <1>2, EmptyIs DEF Queues
  <1>17. waiting' \in Seq(Requests) /\ Distinct(waiting') /\ ToSet(waiting') = Queued'
    <2>1. <<v>> \in Seq(Requests) /\ Distinct(<<v>>) /\ ToSet(<<v>>) = {v}
      BY <1>9, JustOne
    <2>2. ToSet(<<v>>) \cap ToSet(waiting) = {}
      BY <1>13, <1>16, <2>1
    <2>3. /\ <<v>> \o waiting \in Seq(Requests) /\ Distinct(<<v>> \o waiting)
          /\ ToSet(<<v>> \o waiting) = ToSet(<<v>>) \cup ToSet(waiting)
      BY ZenonT(30), <1>16, <2>1, <2>2, QueueAhead
    <2> QED
      BY ZenonT(30), <1>1, <1>13, <1>16, <2>1, <2>3
  <1>18. Queues'
    <2>1. phase' \in Phases
      BY <1>1 DEF Phases
    <2>2. ToSet(running') = Active'
      BY <1>9, <1>13
    <2> QED
      BY ZenonT(30), <1>1, <1>2, <1>9, <1>14, <1>16, <1>17, <2>1, <2>2, EmptyIs DEF Queues
  <1>19. Order'
    <2>1. ASSUME phase' = "running" PROVE i \in 1..(Len(f) + 1) /\ \A j \in i..Len(f) : scheduled[f[j]] = 0
      <3>1. i # Len(running)
        BY ZenonT(30), <1>1, <1>8, <2>1
      <3> QED
        BY <1>3, <1>4, <1>9, <3>1
    <2>2. phase' # "idle"
      BY ZenonT(30), <1>1
    <2> QED
      BY ZenonT(30), <1>2, <1>9, <1>12, <1>14, <2>1, <2>2 DEF Order
  <1>20. Budgets'
    <2>1. Len(f) <= MaxNumSeqs
      BY <1>2, <1>3, <1>9, NewStepIs DEF Budgets
    <2> QED
      BY ZenonT(30), <1>2, <1>9, <1>12, <1>14, <2>1 DEF Budgets
  <1>21. InOrder'
    <2>1. Live' = Live /\ Plain' = Plain
      BY <1>10, <1>12 DEF Live, Plain, Active
    <2>2. Ordered(Append(f, v), waiting, arrived, Live) /\ arrived \in Seq(Requests)
      BY <1>2, <1>9, Zenon DEF InOrder
    <2>3. Ordered(f, <<v>> \o waiting, arrived, Live)
      BY ZenonT(30), <1>9, <1>16, <2>2, BetweenQueues
    <2> QED
      BY ZenonT(30), <1>1, <1>9, <2>1, <2>2, <2>3 DEF InOrder, Ordered
  <1> QED
    BY ZenonT(30), <1>9, <1>11, <1>15, <1>18, <1>19, <1>20, <1>21 DEF EngineInv

\* A request whose grammar is not compiled is set aside.
LEMMA EngineSetAside ==
    ASSUME EngineInv, SetAside
    PROVE  UNCHANGED vars /\ EngineInv'
  <1> DEFINE c == Candidate  u == Tail(waiting)  s == step.skipped
  <1>1. /\ UNCHANGED <<phase, running, arrived, compiling>> /\ UNCHANGED vars
        /\ phase = "waiting" /\ waiting # <<>> /\ c \in compiling
        /\ waiting' = u /\ step' = [step EXCEPT !.skipped = <<c>> \o s]
    BY DEF SetAside, WaitingLeft, Prepend, kvVars
  <1>2. UNCHANGED <<status, scheduled>>
    BY <1>1 DEF vars
  <1>3. StepShaped /\ Queues /\ Order /\ Budgets /\ InOrder
    BY DEF EngineInv
  <1>4. /\ waiting \in Seq(Requests) /\ Distinct(waiting) /\ s \in Seq(Requests) /\ Distinct(s)
        /\ ToSet(s) \cup ToSet(waiting) = Queued /\ ToSet(s) \cap ToSet(waiting) = {}
        /\ ToSet(s) \subseteq Structured /\ c \in Structured /\ running \in Seq(Requests)
    BY <1>1, <1>3 DEF Queues, StepShaped
  <1>5. HeadAndTail(waiting, c, u, Requests)
    BY <1>1, <1>4, FirstOff DEF Candidate
  <1>6. /\ DOMAIN step' = StepFields /\ step'.index = step.index /\ step'.skipped = <<c>> \o s
        /\ step'.budget = step.budget /\ step'.encBudget = step.encBudget
        /\ step'.order = step.order
    BY ZenonT(30), <1>1, <1>3 DEF StepShaped, StepFields
  <1> HIDE DEF c, u, s
  <1>7. /\ c \in Requests /\ u \in Seq(Requests) /\ waiting = <<c>> \o u
        /\ ToSet(waiting) = {c} \cup ToSet(u) /\ Distinct(u) /\ c \notin ToSet(u)
    BY <1>4, <1>5 DEF HeadAndTail
  <1>8. <<c>> \in Seq(Requests) /\ Distinct(<<c>>) /\ ToSet(<<c>>) = {c}
    BY <1>7, JustOne
  <1>9. /\ <<c>> \o s \in Seq(Requests) /\ Distinct(<<c>> \o s)
        /\ ToSet(<<c>> \o s) = {c} \cup ToSet(s)
    <2>1. ToSet(<<c>>) \cap ToSet(s) = {}
      BY <1>4, <1>7, <1>8
    <2>2. /\ <<c>> \o s \in Seq(Requests) /\ Distinct(<<c>> \o s)
          /\ ToSet(<<c>> \o s) = ToSet(<<c>>) \cup ToSet(s)
      BY ZenonT(30), <1>4, <1>8, <2>1, QueueAhead
    <2> QED
      BY <1>8, <2>2
  <1>10. StepShaped'
    BY ZenonT(30), <1>3, <1>6, <1>9 DEF StepShaped
  <1>11. Queues'
    <2>1. /\ ({c} \cup ToSet(s)) \cup ToSet(u) = Queued /\ ({c} \cup ToSet(s)) \cap ToSet(u) = {}
          /\ {c} \cup ToSet(s) \subseteq Structured
      BY <1>4, <1>7
    <2>2. Queued' = Queued /\ Active' = Active
      BY <1>2 DEF Queued, Active
    <2> QED
      BY ZenonT(30), <1>1, <1>3, <1>6, <1>7, <1>9, <2>1, <2>2 DEF Queues
  <1>12. Order' /\ Budgets'
    BY ZenonT(30), <1>1, <1>2, <1>3, <1>6 DEF Order, Budgets
  <1>13. InOrder'
    <2>1. Live' = Live /\ Plain' = Plain
      BY <1>2 DEF Live, Plain
    <2>2. Ordered(running, <<c>> \o u, arrived, Live) /\ arrived \in Seq(Requests)
      BY <1>3, <1>7, Zenon DEF InOrder
    <2>3. ToSet(<<c>>) \subseteq Structured
      BY <1>4, <1>8
    <2>4. Ordered(running, u, arrived, Live)
      BY ZenonT(30), <1>4, <1>7, <1>8, <2>2, <2>3, StructuredAhead
    <2> QED
      BY ZenonT(30), <1>1, <2>1, <2>2, <2>4 DEF InOrder, Ordered
  <1> QED
    BY ZenonT(30), <1>1, <1>10, <1>11, <1>12, <1>13 DEF EngineInv

\* A waiting request that gets its blocks is the youngest of the running ones.
LEMMA EngineAdmit ==
    ASSUME CacheSane, EngineInv, Admit
    PROVE  (\E r \in Requests : AllocateNew(r)) /\ EngineInv'
  <1> DEFINE r == Candidate  u == Tail(waiting)
  <1>1. PICK hit \in Hits(r) :
            /\ WaitingChoice(r, hit).n > 0
            /\ AllocateNewWith(r, hit, WaitingChoice(r, hit).n)
            /\ step' = [Scheduled(r, WaitingChoice(r, hit), reqBlocks'[r]) EXCEPT
                           !.new = @ \cup {q \in {r} : status[q] = "waiting"},
                           !.resumed = @ \cup {q \in {r} : status[q] = "preempted"}]
            /\ running' = Append(running, r)
    BY ZenonT(30) DEF Admit
  <1>2. /\ phase = "waiting" /\ waiting # <<>> /\ Len(running) # MaxNumSeqs
        /\ waiting' = u /\ UNCHANGED <<phase, compiling, arrived>>
    BY DEF Admit, WaitingLeft
  <1>3. StepShaped /\ Queues /\ Order /\ Budgets /\ InOrder
    BY DEF EngineInv
  <1>4. /\ waiting \in Seq(Requests) /\ Distinct(waiting)
        /\ running \in Seq(Requests) /\ Distinct(running)
        /\ ToSet(step.skipped) \cup ToSet(waiting) = Queued /\ ToSet(step.skipped) \cap ToSet(waiting) = {}
        /\ ToSet(running) = Active
    BY <1>3 DEF Queues
  <1>5. HeadAndTail(waiting, r, u, Requests)
    BY ZenonT(30), <1>2, <1>4, FirstOff DEF Candidate
  <1> HIDE DEF r, u
  <1>6. /\ r \in Requests /\ u \in Seq(Requests) /\ waiting = <<r>> \o u
        /\ ToSet(waiting) = {r} \cup ToSet(u) /\ Distinct(u) /\ r \notin ToSet(u)
    BY <1>4, <1>5 DEF HeadAndTail
  <1> DEFINE choice == WaitingChoice(r, hit)  s == Scheduled(r, choice, reqBlocks'[r])
  <1>7. r \in Queued /\ Tried(r) /\ r \notin Active /\ scheduled[r] = 0
    BY ZenonT(30), <1>4, <1>6 DEF Queued, Active, Tried, CacheSane
  <1>8. choice.n \in ChunksAfter(r, hit) /\ choice.n \in Nat \ {0} /\ choice.n <= step.budget /\ choice.budget \in Nat
    BY <1>1, <1>3, <1>6, <1>7, WaitingChunk
  <1>9. AllocateNew(r)
    BY ZenonT(30), <1>1, <1>7, <1>8 DEF AllocateNew
  <1>10. /\ scheduled' = [scheduled EXCEPT ![r] = choice.n]
         /\ status' = [status EXCEPT ![r] = "running"] /\ status \in [Requests -> Statuses]
    BY <1>1 DEF AllocateNewWith, CacheSane
  <1>11. Active' = Active \cup {r} /\ Queued' = Queued \ {r}
    BY <1>6, <1>10 DEF Active, Queued
  <1>12. /\ DOMAIN s = StepFields /\ s.index = step.index /\ s.skipped = step.skipped
         /\ s.budget = step.budget - choice.n /\ s.encBudget = choice.budget
         /\ s.order = Append(step.order, r)
    BY ZenonT(30), <1>3, <1>6, ScheduledIs
  <1>13. step' = [s EXCEPT !.new = @ \cup {q \in {r} : status[q] = "waiting"},
                           !.resumed = @ \cup {q \in {r} : status[q] = "preempted"}]
    BY <1>1
  <1> HIDE DEF choice, s
  <1>14. /\ DOMAIN step' = StepFields /\ step'.index = step.index /\ step'.skipped = step.skipped
         /\ step'.budget = step.budget - choice.n /\ step'.encBudget = choice.budget
         /\ step'.order = Append(step.order, r)
    BY <1>12, <1>13 DEF StepFields
  <1>15. /\ step'.order \in Seq(Requests) /\ Distinct(step'.order)
         /\ ToSet(step'.order) = {q \in Requests : scheduled'[q] > 0}
         /\ step'.budget \in Nat
         /\ step'.budget + SumOf(scheduled', step'.order) = MaxBatchedTokens
    BY <1>3, <1>6, <1>7, <1>8, <1>10, <1>14, OrderGrows, Zenon
  <1>16. StepShaped'
    BY ZenonT(30), <1>3, <1>8, <1>14, <1>15 DEF StepShaped
  <1>17. OneLonger(running', running, r, Requests)
    BY ZenonT(30), <1>1, <1>4, <1>6, OneMore
  <1>18. /\ running' \in Seq(Requests) /\ Distinct(running') /\ ToSet(running') = Active'
         /\ Len(running') = Len(running) + 1
    BY ZenonT(30), <1>4, <1>7, <1>11, <1>17 DEF OneLonger
  <1>19. Queues'
    <2>1. ToSet(step.skipped) \cup ToSet(u) = Queued' /\ ToSet(step.skipped) \cap ToSet(u) = {}
      BY ZenonT(30), <1>4, <1>6, <1>11
    <2> QED
      BY ZenonT(30), <1>2, <1>3, <1>6, <1>14, <1>18, <2>1 DEF Queues
  <1>20. Order'
    BY ZenonT(30), <1>2, <1>15 DEF Order
  <1>21. Budgets'
    <2>1. Len(running') <= MaxNumSeqs
      BY <1>2, <1>3, <1>4, <1>18, NewStepIs DEF Budgets
    <2> QED
      BY ZenonT(30), <1>15, <2>1 DEF Budgets
  <1>22. InOrder'
    <2>1. Live' = Live /\ Plain' = Plain
      BY <1>7, <1>10 DEF Live, Plain, Queued
    <2>2. Ordered(running, <<r>> \o u, arrived, Live) /\ arrived \in Seq(Requests)
      BY <1>3, <1>6, Zenon DEF InOrder
    <2>3. Ordered(Append(running, r), u, arrived, Live)
      BY ZenonT(30), <1>4, <1>6, <2>2, BetweenQueues
    <2> QED
      BY ZenonT(30), <1>1, <1>2, <2>1, <2>2, <2>3 DEF InOrder, Ordered
  <1> QED
    BY ZenonT(30), <1>6, <1>9, <1>16, <1>19, <1>20, <1>21, <1>22 DEF EngineInv

\* A waiting request that is refused ends the loop; its hashes are kept.
LEMMA EngineRefuse ==
    ASSUME EngineInv, RefuseCandidate
    PROVE  (\E r \in Requests : AllocateNewFails(r)) /\ EngineInv'
  <1>1. /\ UNCHANGED <<running, waiting, arrived, compiling, step>>
        /\ phase = "waiting" /\ phase' = "end" /\ waiting # <<>> /\ KeepHashes(Candidate)
    BY DEF RefuseCandidate, WaitingLeft
  <1>2. UNCHANGED <<status, scheduled>>
    BY ZenonT(30), <1>1 DEF KeepHashes
  <1>3. StepShaped /\ Queues /\ Order /\ Budgets /\ InOrder
    BY DEF EngineInv
  <1>4. HeadAndTail(waiting, Candidate, Tail(waiting), Requests)
    BY ZenonT(30), <1>1, <1>3, FirstOff DEF Queues, Candidate
  <1>5. Candidate \in Requests /\ Candidate \in Queued
    BY ZenonT(30), <1>3, <1>4 DEF HeadAndTail, Queues
  <1>6. AllocateNewFails(Candidate)
    BY <1>1, <1>5 DEF AllocateNewFails, Tried, Queued
  <1>7. StepShaped' /\ Order' /\ Budgets' /\ InOrder'
    BY ZenonT(30), <1>1, <1>2, <1>3 DEF StepShaped, Order, Budgets, InOrder, Ordered, Live, Plain
  <1>8. Queues'
    BY ZenonT(30), <1>1, <1>2, <1>3 DEF Queues, Active, Queued, Phases
  <1> QED
    BY ZenonT(30), <1>5, <1>6, <1>7, <1>8 DEF EngineInv

\* The requests set aside return to the head of the queue.
LEMMA EngineEnd ==
    ASSUME EngineInv, EndSchedule
    PROVE  UNCHANGED vars /\ EngineInv'
  <1> DEFINE s == step.skipped
  <1>1. /\ UNCHANGED <<running, arrived, compiling>> /\ UNCHANGED vars
        /\ phase' = "built" /\ waiting' = s \o waiting
        /\ step' = [step EXCEPT !.finished = finishedIds, !.freed = enc.freed, !.skipped = <<>>]
    BY ZenonT(30) DEF EndSchedule, PrependAll, kvVars
  <1>2. UNCHANGED <<status, scheduled>>
    BY <1>1 DEF vars
  <1>3. StepShaped /\ Queues /\ Order /\ Budgets /\ InOrder
    BY DEF EngineInv
  <1>4. /\ DOMAIN step' = StepFields /\ step'.index = step.index /\ step'.skipped = <<>>
        /\ step'.budget = step.budget /\ step'.encBudget = step.encBudget
        /\ step'.order = step.order
    BY ZenonT(30), <1>1, <1>3 DEF StepShaped, StepFields
  <1>5. /\ waiting \in Seq(Requests) /\ Distinct(waiting) /\ s \in Seq(Requests) /\ Distinct(s)
        /\ ToSet(s) \cup ToSet(waiting) = Queued /\ ToSet(s) \cap ToSet(waiting) = {}
        /\ ToSet(s) \subseteq Structured /\ running \in Seq(Requests)
    BY ZenonT(30), <1>3 DEF Queues, StepShaped
  <1> HIDE DEF s
  <1>6. StepShaped'
    BY <1>3, <1>4, NewStepIs DEF StepShaped
  <1>7. s \o waiting \in Seq(Requests) /\ Distinct(s \o waiting) /\ ToSet(s \o waiting) = Queued
    BY ZenonT(30), <1>5, QueueAhead
  <1>8. Queues'
    <2>1. Queued' = Queued /\ Active' = Active /\ phase' \in Phases
      BY <1>1, <1>2 DEF Queued, Active, Phases
    <2> QED
      BY ZenonT(30), <1>1, <1>3, <1>4, <1>7, <2>1, EmptyIs DEF Queues
  <1>9. Order' /\ Budgets'
    BY ZenonT(30), <1>1, <1>2, <1>3, <1>4 DEF Order, Budgets
  <1>10. InOrder'
    <2>1. Live' = Live /\ Plain' = Plain
      BY <1>2 DEF Live, Plain
    <2>2. Ordered(running, waiting, arrived, Live) /\ arrived \in Seq(Requests)
      BY <1>3 DEF InOrder
    <2>3. Ordered(running, s \o waiting, arrived, Live)
      BY <1>5, <2>2, StructuredAhead
    <2> QED
      BY ZenonT(30), <1>1, <2>1, <2>2, <2>3 DEF InOrder, Ordered
  <1> QED
    BY ZenonT(30), <1>1, <1>6, <1>8, <1>9, <1>10 DEF EngineInv
=============================================================================
