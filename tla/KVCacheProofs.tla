---------------------------- MODULE KVCacheProofs ---------------------------
(***************************************************************************)
(* The accounting of the KV cache, for any number of blocks and requests,  *)
(* any block size and any prompts.                                         *)
(***************************************************************************)
EXTENDS AllocateProofs

USE SMTT(30), Z3T(30), ZenonT(30)

-----------------------------------------------------------------------------
(* KVCacheManager.free.                                                     *)

\* KVCacheManager.free: the blocks of r lose the reference of r, and hashes stay.
LEMMA FreeOne ==
    ASSUME NEW p, NEW held, Counted(p, held), NEW r \in Requests
    PROVE  LET f == FreeBlocks(p, FreeOrder(held[r]))
           IN /\ Counted(f, [held EXCEPT ![r] = <<>>])
              /\ f.hash = p.hash /\ f.cached = p.cached
  <1> DEFINE s == FreeOrder(held[r])
             f == FreeBlocks(p, s)
             after == [held EXCEPT ![r] = <<>>]
  <1>1. /\ PoolInv(p) /\ held \in [Requests -> Seq(Usable)] /\ held[r] \in Seq(Usable)
        /\ Distinct(held[r]) /\ p.ref \in [Blocks -> Nat]
    BY QueueIs DEF Counted
  <1>2. s \in Seq(Usable) /\ Distinct(s) /\ ToSet(s) = ToSet(held[r])
    BY <1>1, Reversed DEF FreeOrder
  <1>3. \A b \in ToSet(s) : p.ref[b] > 0
    BY <1>2, HeldCounts
  <1> HIDE DEF s
  <1>4. /\ PoolInv(f) /\ f.hash = p.hash /\ f.cached = p.cached
        /\ \A b \in Blocks : f.ref[b] = p.ref[b] - (IF b \in ToSet(s) THEN 1 ELSE 0)
    BY <1>1, <1>2, <1>3, FreedAre
  <1> HIDE DEF f
  <1>5. after \in [Requests -> Seq(Usable)] /\ after[r] = <<>>
        /\ \A x \in Requests : x # r => after[x] = held[x]
    BY <1>1
  <1>6. \A x \in Requests : Distinct(after[x])
    <2>1. Distinct(<<>>)
      BY DEF Distinct
    <2> QED
      BY <1>5, <2>1 DEF Counted
  <1>7. ASSUME NEW b \in Usable PROVE f.ref[b] = Cardinality(HoldersIn(after, b))
    <2>0. b \in Blocks /\ p.ref[b] = Cardinality(HoldersIn(held, b)) /\ p.ref[b] \in Nat
      BY <1>1 DEF Counted, Usable
    <2>1. HoldersIn(after, b) = HoldersIn(held, b) \ {r}
      <3>1. b \notin ToSet(after[r])
        BY <1>5 DEF ToSet
      <3> QED
        BY <1>5, <3>1 DEF HoldersIn
    <2>2. CASE b \in ToSet(s)
      <3>1. r \in HoldersIn(held, b)
        BY <1>2, <2>2 DEF HoldersIn
      <3>2. Cardinality(HoldersIn(held, b) \ {r}) = Cardinality(HoldersIn(held, b)) - 1
        BY ZenonT(30), <3>1, HoldersFinite, OneMember
      <3> QED
        BY ZenonT(30), <1>4, <2>0, <2>1, <2>2, <3>2
    <2>3. CASE b \notin ToSet(s)
      <3>1. HoldersIn(held, b) \ {r} = HoldersIn(held, b)
        BY <1>2, <2>3 DEF HoldersIn
      <3>2. f.ref[b] = p.ref[b]
        BY <1>4, <2>0, <2>3
      <3> QED
        BY ZenonT(30), <2>0, <2>1, <3>1, <3>2
    <2> QED
      BY <2>2, <2>3
  <1> QED
    BY ZenonT(30), <1>4, <1>5, <1>6, <1>7 DEF Counted, f, s

\* In a list, a block with the hash of a longer prefix follows the one with the
\* hash of the prefix before it.
Linked(p, held) ==
    \A r \in Requests : \A i \in 1..Len(held[r]) : Len(p.hash[held[r][i]]) > 1 =>
        i > 1 /\ p.hash[held[r][i - 1]] = Front(p.hash[held[r][i]])

\* For a published block in the free list, some block with the hash of the prefix
\* before it is in use, or is evicted later.
Parented(p) ==
    \A b \in Usable : p.ref[b] = 0 /\ Len(p.hash[b]) > 1 =>
        \E a \in Usable : /\ p.hash[a] = Front(p.hash[b])
                          /\ p.ref[a] > 0 \/ Before(p.queue, b, a)

\* KVCacheManager.free puts the tail of a request into the free list before its
\* head, so that this stays true.
LEMMA FreeParents ==
    ASSUME NEW p, NEW held, Counted(p, held), Linked(p, held), Parented(p), NEW r \in Requests
    PROVE  Parented(FreeBlocks(p, FreeOrder(held[r])))
  <1> DEFINE s == FreeOrder(held[r])
             f == FreeBlocks(p, s)
             k == Keep(s, Unheld(f))
  <1>1. /\ PoolInv(p) /\ held[r] \in Seq(Usable) /\ Distinct(held[r]) /\ p.ref \in [Blocks -> Nat]
        /\ p.queue \in Seq(Usable) /\ ToSet(p.queue) = {b \in Usable : p.ref[b] = 0}
    BY QueueIs DEF Counted
  <1>2. s \in Seq(Usable) /\ Distinct(s) /\ ToSet(s) = ToSet(held[r])
    BY <1>1, Reversed DEF FreeOrder
  <1>3. \A b \in ToSet(s) : p.ref[b] > 0
    BY <1>2, HeldCounts
  <1>4. \A i \in 2..Len(held[r]) : Before(s, held[r][i], held[r][i - 1])
    BY <1>1, ReverseBefore DEF FreeOrder
  <1> HIDE DEF s
  <1>5. /\ PoolInv(f) /\ f.hash = p.hash /\ f.queue = p.queue \o k
        /\ \A b \in Blocks : f.ref[b] = p.ref[b] - (IF b \in ToSet(s) THEN 1 ELSE 0)
    BY <1>1, <1>2, <1>3, FreedAre
  <1>6. f.ref \in [Blocks -> Nat]
    BY <1>5, QueueIs
  <1> HIDE DEF f
  <1>7. k \in Seq(Usable) /\ ToSet(k) = ToSet(s) \cap Unheld(f)
    BY <1>2, KeepItems
  <1>8. ASSUME NEW a \in Usable, a \in ToSet(s), ~(f.ref[a] > 0) PROVE a \in Unheld(f)
    BY <1>6, <1>8 DEF Unheld, Usable
  <1>9. \A x, y \in Unheld(f) : Before(s, x, y) => Before(k, x, y)
    BY <1>2, KeepBefore
  <1> HIDE DEF k
  <1> SUFFICES ASSUME NEW b \in Usable, f.ref[b] = 0, Len(f.hash[b]) > 1
               PROVE  \E a \in Usable : /\ f.hash[a] = Front(f.hash[b])
                                        /\ f.ref[a] > 0 \/ Before(f.queue, b, a)
    BY DEF Parented, f, s
  <1>10. CASE p.ref[b] = 0
    <2>1. PICK a \in Usable : /\ p.hash[a] = Front(p.hash[b])
                              /\ p.ref[a] > 0 \/ Before(p.queue, b, a)
      BY <1>5, <1>10 DEF Parented
    <2>2. CASE Before(p.queue, b, a)
      <3>1. Before(f.queue, b, a)
        BY <1>1, <1>5, <1>7, <2>2, BeforeInARow
      <3> QED
        BY <1>5, <2>1, <3>1
    <2>3. CASE p.ref[a] > 0 /\ ~(f.ref[a] > 0)
      <3>1. a \in Blocks /\ p.ref[a] \in Nat /\ f.ref[a] \in Nat
        BY <1>1, <1>6 DEF Usable
      <3>2. a \in ToSet(s)
        BY <1>5, <2>3, <3>1
      <3>3. a \in ToSet(k) /\ b \in ToSet(p.queue)
        BY <1>1, <1>7, <1>8, <1>10, <2>3, <3>2
      <3>4. Before(f.queue, b, a)
        BY <1>1, <1>5, <1>7, <3>3, BeforeInARow
      <3> QED
        BY <1>5, <2>1, <3>4
    <2> QED
      BY <1>5, <2>1, <2>2, <2>3
  <1>11. CASE p.ref[b] # 0
    <2>1. b \in Blocks /\ b \in ToSet(s)
      BY <1>1, <1>5, <1>11 DEF Usable
    <2>2. PICK i \in 1..Len(held[r]) : held[r][i] = b
      <3>1. held[r] \in Seq(Usable) /\ b \in ToSet(held[r])
        BY <1>1, <1>2, <2>1
      <3> QED
        BY <3>1, Items
    <2> DEFINE a == held[r][i - 1]
    <2>3. i > 1 /\ p.hash[a] = Front(p.hash[b])
      BY ZenonT(30), <1>5, <2>2 DEF Linked
    <2>4. i \in 2..Len(held[r]) /\ i - 1 \in 1..Len(held[r])
      BY <1>1, <2>3
    <2>5. a \in Usable /\ a \in ToSet(s)
      BY <1>1, <1>2, <2>4, Items
    <2>6. Before(s, b, a)
      BY <1>4, <2>2, <2>4
    <2> HIDE DEF a
    <2>7. CASE ~(f.ref[a] > 0)
      <3>1. a \in Unheld(f)
        BY <1>8, <2>5, <2>7
      <3>2. b \in Unheld(f)
        BY <2>1 DEF Unheld, Usable
      <3>3. Before(k, b, a)
        BY <1>9, <2>6, <3>1, <3>2
      <3>4. Before(f.queue, b, a)
        BY <1>1, <1>5, <1>7, <3>3, BeforeInARow
      <3> QED
        BY <1>5, <2>3, <2>5, <3>4
    <2> QED
      BY <1>5, <2>3, <2>5, <2>7
  <1> QED
    BY <1>10, <1>11

\* The pools while the requests of order are freed one after the other.
Freed(P, p, held, order) ==
    /\ P[0] = p
    /\ \A i \in 1..Len(order) : P[i] = FreeBlocks(P[i - 1], FreeOrder(held[order[i]]))

\* FreeAll goes through them.
LEMMA FreeAllUnfolds ==
    ASSUME pool \in Pools, reqBlocks \in [Requests -> Seq(Usable)],
           NEW order \in Seq(Requests), FreeAll(order)
    PROVE  \E P : Freed(P, pool, reqBlocks, order) /\ pool' = P[Len(order)]
  <1> DEFINE n == Len(order)
             D == [ref : [Blocks -> Int], hash : [Blocks -> Hashes],
                   cached : SUBSET (Hashes \X Blocks), queue : Seq(Usable)]
             Step(i, x) == FreeBlocks(x, FreeOrder(reqBlocks[order[i]]))
             Body(F) == [i \in 0..n |->
                            IF i = 0 THEN pool
                            ELSE FreeBlocks(F[i - 1], FreeOrder(reqBlocks[order[i]]))]
             step == [i \in 1..n |-> [x \in D |-> Step(i, x)]]
             C == CHOOSE F : F = Body(F)
  <1>1. n \in Nat /\ \A i \in 1..n : reqBlocks[order[i]] \in Seq(Usable)
    OBVIOUS
  <1>2. pool' = C[n]
    BY Zenon DEF FreeAll
  <1>3. pool \in D
    BY DEF Pools
  <1>4. ASSUME NEW x \in D, NEW s \in Seq(Usable) PROVE FreeBlocks(x, s) \in D
    <2> DEFINE ref == [b \in Blocks |-> x.ref[b] - (IF b \in ToSet(s) THEN 1 ELSE 0)]
               queue == x.queue \o Keep(s, {b \in Blocks : ref[b] = 0 /\ b # NullBlock})
    <2>1. x.ref \in [Blocks -> Int] /\ x.queue \in Seq(Usable)
      OBVIOUS
    <2>2. ref \in [Blocks -> Int]
      BY <2>1
    <2>3. queue \in Seq(Usable)
      BY <2>1, KeepItems, InARow
    <2>4. FreeBlocks(x, s) = [x EXCEPT !.ref = ref, !.queue = queue]
      BY DEF FreeBlocks
    <2> HIDE DEF ref, queue
    <2> QED
      BY ZenonT(30), <2>2, <2>3, <2>4
  <1> HIDE DEF n, D
  <1>5. ASSUME NEW i \in 1..n, NEW x \in D PROVE Step(i, x) \in D
    <2>1. FreeOrder(reqBlocks[order[i]]) \in Seq(Usable)
      BY <1>1, Reversed DEF FreeOrder
    <2> QED
      BY <1>4, <2>1
  <1>6. \A F : /\ Body(F) = [i \in 0..n |-> Body(F)[i]] /\ Body(F)[0] = pool
               /\ \A i \in 1..n : Body(F)[i] = Step(i, F[i - 1])
    <2> TAKE F
    <2>1. Body(F) = [i \in 0..n |-> Body(F)[i]]
      OBVIOUS
    <2>2. Body(F)[0] = pool
      BY <1>1
    <2>3. ASSUME NEW i \in 1..n PROVE Body(F)[i] = Step(i, F[i - 1])
      <3>1. i \in 0..n /\ i # 0
        BY <1>1
      <3> QED
        BY <3>1, Zenon
    <2> QED
      BY <2>1, <2>2, <2>3
  <1> HIDE DEF Step
  <1>7. step \in [1..n -> [D -> D]]
    BY <1>5
  <1> HIDE DEF Body
  <1>8. \E F : F = Body(F)
    <2> HIDE DEF step
    <2>1. PICK F : Iterated(F, n, D, pool, step)
      BY ZenonT(30), <1>1, <1>3, <1>7, Iterates
    <2>2. ASSUME NEW i \in 0..n PROVE F[i] = Body(F)[i]
      <3>1. CASE i = 0
        BY <1>6, <2>1, <3>1 DEF Iterated
      <3>2. CASE i # 0
        <4>1. i \in 1..n /\ i - 1 \in 0..n
          BY <1>1, <3>2
        <4>2. F[i] = step[i][F[i - 1]] /\ F[i - 1] \in D
          BY <2>1, <4>1 DEF Iterated
        <4>3. step[i][F[i - 1]] = Step(i, F[i - 1])
          BY <4>1, <4>2 DEF step
        <4> QED
          BY <1>6, <4>1, <4>2, <4>3
      <3> QED
        BY <3>1, <3>2
    <2>3. F = [i \in 0..n |-> F[i]]
      BY <2>1 DEF Iterated
    <2>4. F = Body(F)
      BY ZenonT(30), <1>6, <2>2, <2>3
    <2> QED
      BY <2>4
  <1>9. C = Body(C)
    BY <1>8
  <1> HIDE DEF C
  <1>10. C[0] = pool /\ \A i \in 1..n : C[i] = Step(i, C[i - 1])
    BY <1>6, <1>9
  <1>11. Freed(C, pool, reqBlocks, order)
    BY <1>10, Zenon DEF Freed, Step, n
  <1> QED
    BY <1>2, <1>11 DEF n

\* Different requests freed one after the other: all their references are gone.
LEMMA FreeSome ==
    ASSUME NEW P, NEW p, NEW held, Counted(p, held), NEW order \in Seq(Requests),
           Distinct(order), Freed(P, p, held, order)
    PROVE  LET f == P[Len(order)]
           IN /\ Counted(f, [r \in Requests |-> IF r \in ToSet(order) THEN <<>> ELSE held[r]])
              /\ f.hash = p.hash /\ f.cached = p.cached
              /\ Linked(p, held) /\ Parented(p) => Parented(f)
  <1> DEFINE n == Len(order)
             Gone(i) == {order[j] : j \in 1..i}
             left(i) == [r \in Requests |-> IF r \in Gone(i) THEN <<>> ELSE held[r]]
             Good(i) == /\ Counted(P[i], left(i)) /\ P[i].hash = p.hash /\ P[i].cached = p.cached
                        /\ Linked(p, held) /\ Parented(p) => Parented(P[i])
             T == {i \in 0..n : Good(i)}
  <1>1. /\ n \in Nat /\ \A i \in 1..n : order[i] \in Requests
        /\ \A i, j \in 1..n : order[i] = order[j] => i = j
        /\ held \in [Requests -> Seq(Usable)]
    BY DEF Distinct, Counted
  <1>2. Good(0)
    <2>1. left(0) = held
      BY <1>1
    <2> QED
      BY <2>1 DEF Freed
  <1>3. ASSUME NEW i \in 1..n, Good(i - 1) PROVE Good(i)
    <2> DEFINE r == order[i]
    <2>1. r \in Requests /\ r \notin Gone(i - 1)
      BY <1>1
    <2>2. left(i - 1)[r] = held[r]
      BY <2>1
    <2>3. left(i) = [left(i - 1) EXCEPT ![r] = <<>>]
      <3>1. Gone(i) = Gone(i - 1) \cup {r}
        <4>1. \A j \in 1..i : j \in 1..(i - 1) \/ j = i
          BY <1>1
        <4>2. \A j \in 1..(i - 1) : j \in 1..i
          BY <1>1
        <4>3. i \in 1..i
          BY <1>1
        <4> QED
          BY <4>1, <4>2, <4>3
      <3> HIDE DEF Gone
      <3> QED
        BY ZenonT(30), <1>1, <2>1, <3>1
    <2>4. P[i] = FreeBlocks(P[i - 1], FreeOrder(held[r]))
      BY DEF Freed
    <2>5. Counted(P[i - 1], left(i - 1)) /\ P[i - 1].hash = p.hash /\ P[i - 1].cached = p.cached
      BY <1>3
    <2> HIDE DEF left, r
    <2>6. P[i] = FreeBlocks(P[i - 1], FreeOrder(left(i - 1)[r]))
      BY <2>2, <2>4
    <2>7. /\ Counted(P[i], [left(i - 1) EXCEPT ![r] = <<>>])
          /\ P[i].hash = P[i - 1].hash /\ P[i].cached = P[i - 1].cached
      <3> DEFINE q == P[i - 1]  h == left(i - 1)  f == FreeBlocks(q, FreeOrder(h[r]))
      <3>1. Counted(q, h) /\ r \in Requests
        BY <2>1, <2>5
      <3> HIDE DEF q, h
      <3>2. Counted(f, [h EXCEPT ![r] = <<>>]) /\ f.hash = q.hash /\ f.cached = q.cached
        BY ZenonT(30), <3>1, FreeOne
      <3> QED
        BY <2>6, <3>2 DEF q, h
    <2>8. ASSUME Linked(p, held), Parented(p) PROVE Parented(P[i])
      <3> DEFINE q == P[i - 1]  h == left(i - 1)
      <3>1. Linked(q, h)
        <4>1. \A x \in Requests : h[x] = held[x] \/ h[x] = <<>>
          BY DEF left
        <4> HIDE DEF h
        <4>2. ASSUME NEW x \in Requests, NEW j \in 1..Len(h[x]) PROVE h[x] = held[x]
          <5>1. h[x] # <<>>
            BY <4>2
          <5> QED
            BY <4>1, <5>1
        <4> QED
          BY ZenonT(30), <2>5, <2>8, <4>2 DEF Linked
      <3>2. Counted(q, h) /\ Parented(q) /\ r \in Requests
        BY <1>3, <2>1, <2>5, <2>8
      <3> HIDE DEF q, h
      <3>3. Parented(FreeBlocks(q, FreeOrder(h[r])))
        BY <3>1, <3>2, FreeParents
      <3> QED
        BY <2>6, <3>3 DEF q, h
    <2> QED
      BY <2>3, <2>5, <2>7, <2>8
  <1> HIDE DEF Good
  <1>4. 0 \in T /\ \A i \in 1..n : i - 1 \in T => i \in T
    BY <1>1, <1>2, <1>3
  <1> HIDE DEF T
  <1>5. n \in T
    <2>1. 0..n \subseteq T
      BY ZenonT(30), <1>1, <1>4, UpTo
    <2>2. n \in 0..n
      BY <1>1
    <2> QED
      BY <2>1, <2>2, Zenon
  <1>6. Good(n)
    BY <1>5 DEF T
  <1>7. Gone(n) = ToSet(order)
    BY <1>1 DEF ToSet
  <1> QED
    BY <1>6, <1>7 DEF Good

-----------------------------------------------------------------------------
(* The invariant is inductive.                                              *)

\* The initial states.
LEMMA KVInit == Init => KVInv
  <1> SUFFICES ASSUME Init PROVE KVInv
    OBVIOUS
  <1>1. Types
    <2>1. content \in [Blocks -> [Slots -> Seq(Nat)]]
      BY BlankIs DEF Init
    <2> QED
      BY <2>1, ManagerAssumption DEF Init, Types, Statuses
  <1>2. Counted(pool, reqBlocks)
    <2>1. PoolInv(pool) /\ \A b \in Blocks : pool.ref[b] = 0
      BY InitPoolInv DEF Init, InitPool
    <2>2. reqBlocks \in [Requests -> Seq(Usable)] /\ \A r \in Requests : reqBlocks[r] = <<>>
      BY DEF Init
    <2>3. \A b : HoldersIn(reqBlocks, b) = {}
      BY <2>2, Fresh DEF HoldersIn
    <2> QED
      BY ZenonT(30), <2>1, <2>2, <2>3, Fresh, EmptyCount DEF Counted, Usable
  <1>3. ASSUME NEW r \in Requests PROVE Progress(r) /\ HashesKept(r)
    <2>1. /\ Total(r) = 0 /\ tokens[r] = Prompt[r] /\ reqHashes[r] = <<>> /\ status[r] = "none"
          /\ reqBlocks[r] = <<>> /\ numCached[r] = 0
      BY DEF Init, Total
    <2>2. Progress(r)
      BY <2>1, Fresh, PromptsAre DEF Progress
    <2>3. Len(tokens[r]) \div BlockSize \in Nat
      <3>1. Len(tokens[r]) \in Nat
        BY <2>1, PromptsAre
      <3>2. \A n \in Nat : n \div BlockSize \in Nat
        BY PoolAssumption
      <3> QED
        BY <3>1, <3>2, Zenon
    <2> QED
      BY <2>1, <2>2, <2>3, Fresh DEF HashesKept
  <1>4. \A r, s \in Requests : Shared(r, s)
    BY Fresh DEF Init, Shared
  <1> QED
    BY <1>1, <1>2, <1>3, <1>4 DEF KVInv

\* add_request.
LEMMA KVAdd ==
    ASSUME KVInv, NEW r \in Requests, AddRequest(r)
    PROVE  KVInv'
  <1>1. /\ status[r] = "none" /\ arrivals < MaxArrivals /\ arrivals' = arrivals + 1
        /\ status' = [status EXCEPT ![r] = "waiting"]
        /\ UNCHANGED <<pool, reqBlocks, numCached, reqHashes, tokens, computed, scheduled, content>>
    BY ZenonT(30) DEF AddRequest
  <1>2. Types'
    BY <1>1, ManagerAssumption DEF KVInv, Types, Statuses
  <1>3. Counted(pool, reqBlocks)'
    BY <1>1 DEF KVInv
  <1>4. ASSUME NEW s \in Requests PROVE Progress(s)' /\ HashesKept(s)'
    <2>1. Progress(s) /\ HashesKept(s)
      BY DEF KVInv
    <2>2. status'[s] = IF s = r THEN "waiting" ELSE status[s]
      BY <1>1 DEF KVInv, Types
    <2>3. Progress(s)'
      BY <1>1, <2>1, <2>2 DEF Progress, Total
    <2> QED
      BY <1>1, <2>1, <2>3 DEF HashesKept
  <1>5. \A x, y \in Requests : x # y => Shared(x, y)'
    BY <1>1 DEF KVInv, Shared
  <1> QED
    BY <1>2, <1>3, <1>4, <1>5 DEF KVInv

\* get_computed_blocks, when allocate_slots then refuses: the hashes are kept.
LEMMA KVFails ==
    ASSUME KVInv, NEW r \in Requests, AllocateNewFails(r)
    PROVE  KVInv'
  <1>1. /\ reqHashes' = [reqHashes EXCEPT ![r] = BlockHashes(r)] /\ status[r] # "none"
        /\ UNCHANGED <<pool, reqBlocks, numCached, status, tokens, computed,
                       scheduled, arrivals, content>>
    BY DEF AllocateNewFails, Tried, KeepHashes
  <1>2. /\ Chained(BlockHashes(r)) /\ Len(BlockHashes(r)) \in 0..(Len(tokens[r]) \div BlockSize)
        /\ numCached[r] <= Len(BlockHashes(r)) /\ BlockHashes(r) \in Seq(Hashes)
        /\ \A i \in 1..numCached[r] : BlockHashes(r)[i] = reqHashes[r][i]
    BY BlockHashesAre DEF Chained
  <1>3. Types'
    BY <1>1, <1>2 DEF KVInv, Types
  <1>4. Counted(pool, reqBlocks)'
    BY <1>1 DEF KVInv
  <1>5. ASSUME NEW s \in Requests PROVE Progress(s)' /\ HashesKept(s)'
    <2>1. Progress(s) /\ HashesKept(s) /\ numCached[s] \in Nat
      BY DEF KVInv, Types
    <2>2. reqHashes'[s] = IF s = r THEN BlockHashes(r) ELSE reqHashes[s]
      BY <1>1 DEF KVInv, Types
    <2>3. Progress(s)'
      BY <1>1, <2>1, <2>2 DEF Progress, Total
    <2>4. CASE s = r
      <3>1. \A i \in 1..Len(reqBlocks[s]) : i <= numCached[s] => BlockHashes(r)[i] = reqHashes[s][i]
        BY <1>2, <2>1, <2>4
      <3> QED
        BY <1>1, <1>2, <2>1, <2>2, <2>3, <2>4, <3>1 DEF HashesKept
    <2>5. CASE s # r
      BY ZenonT(30), <1>1, <2>1, <2>2, <2>3, <2>5 DEF HashesKept
    <2> QED
      BY <2>4, <2>5
  <1>6. \A x, y \in Requests : x # y => Shared(x, y)'
    BY <1>1 DEF KVInv, Shared
  <1> QED
    BY <1>3, <1>4, <1>5, <1>6 DEF KVInv

\* KVCacheManager.free, in preemption and in abort: r ends with no blocks and no
\* tokens computed, with its hashes and generated tokens or without them.
LEMMA KVRelease ==
    ASSUME KVInv, NEW r \in Requests, scheduled[r] = 0, FreeRequest(r),
           NEW st \in {"none", "preempted"}, status' = [status EXCEPT ![r] = st],
           computed' = [computed EXCEPT ![r] = 0],
           UNCHANGED <<scheduled, arrivals, content>>,
           \/ st = "preempted" /\ UNCHANGED <<reqHashes, tokens>>
           \/ /\ reqHashes' = [reqHashes EXCEPT ![r] = <<>>]
              /\ tokens' = [tokens EXCEPT ![r] = Prompt[r]]
    PROVE  KVInv'
  <1>1. /\ pool' = FreeBlocks(pool, FreeOrder(reqBlocks[r]))
        /\ reqBlocks' = [reqBlocks EXCEPT ![r] = <<>>]
        /\ numCached' = [numCached EXCEPT ![r] = 0]
    BY DEF FreeRequest
  <1>2. Types /\ Counted(pool, reqBlocks) /\ reqBlocks \in [Requests -> Seq(Usable)]
    BY DEF KVInv, Counted
  <1>3. Counted(pool', reqBlocks') /\ pool'.hash = pool.hash
    BY ZenonT(30), <1>1, <1>2, FreeOne
  <1>4. Types'
    <2>1. /\ numCached' \in [Requests -> Nat] /\ status' \in [Requests -> Statuses]
          /\ computed' \in [Requests -> Nat] /\ scheduled' \in [Requests -> Nat]
          /\ arrivals' \in 0..MaxArrivals /\ content' \in [Blocks -> [Slots -> Seq(Nat)]]
      BY <1>1, <1>2 DEF Types, Statuses
    <2>2. reqHashes' \in [Requests -> Seq(Hashes)]
      <3>1. <<>> \in Seq(Hashes) /\ reqHashes \in [Requests -> Seq(Hashes)]
        BY <1>2 DEF Types
      <3> QED
        BY ZenonT(30), <3>1
    <2>3. tokens' \in [Requests -> Seq(Nat)]
      <3>1. Prompt[r] \in Seq(Nat) /\ tokens \in [Requests -> Seq(Nat)]
        BY <1>2, PromptsAre DEF Types
      <3> QED
        BY ZenonT(30), <3>1
    <2> QED
      BY <2>1, <2>2, <2>3 DEF Types
  <1>5. ASSUME NEW s \in Requests, s # r
        PROVE  /\ reqBlocks'[s] = reqBlocks[s] /\ numCached'[s] = numCached[s]
               /\ reqHashes'[s] = reqHashes[s] /\ tokens'[s] = tokens[s] /\ status'[s] = status[s]
               /\ computed'[s] = computed[s] /\ scheduled'[s] = scheduled[s]
    BY <1>1, <1>2, <1>5 DEF Types
  <1>6. /\ reqBlocks'[r] = <<>> /\ numCached'[r] = 0 /\ computed'[r] = 0 /\ scheduled'[r] = 0
        /\ status'[r] = st
        /\ \/ st = "preempted" /\ reqHashes'[r] = reqHashes[r] /\ tokens'[r] = tokens[r]
           \/ reqHashes'[r] = <<>> /\ tokens'[r] = Prompt[r]
    BY <1>1, <1>2 DEF Types
  <1>7. Progress(r)' /\ HashesKept(r)'
    <2>1. Progress(r) /\ HashesKept(r) /\ reqHashes[r] \in Seq(Hashes) /\ tokens[r] \in Seq(Nat)
      BY DEF KVInv, Types
    <2>2. Total(r)' = 0
      BY <1>6 DEF Total
    <2>3. Len(tokens'[r]) \in Len(Prompt[r])..MaxModelLen /\ Len(tokens'[r]) \in Nat
      BY <1>6, <2>1, PromptsAre DEF Progress
    <2>4. Progress(r)'
      BY <1>6, <2>2, <2>3, Fresh DEF Progress
    <2>5. Chained(reqHashes'[r]) /\ Len(reqHashes'[r]) \in 0..(Len(tokens'[r]) \div BlockSize)
      <3>1. CASE reqHashes'[r] = <<>>
        BY <2>3, <3>1, Fresh, PoolAssumption
      <3>2. CASE reqHashes'[r] = reqHashes[r] /\ tokens'[r] = tokens[r]
        BY <2>1, <3>2 DEF HashesKept
      <3> QED
        BY <1>6, <3>1, <3>2
    <2> QED
      BY <1>6, <2>4, <2>5, Fresh DEF HashesKept
  <1>8. ASSUME NEW s \in Requests, s # r PROVE Progress(s)' /\ HashesKept(s)'
    <2>1. Progress(s) /\ HashesKept(s)
      BY DEF KVInv
    <2> QED
      BY ZenonT(30), <1>3, <1>5, <1>8, <2>1 DEF Progress, HashesKept, Total
  <1>9. ASSUME NEW x \in Requests, NEW y \in Requests, x # y PROVE Shared(x, y)'
    <2>1. Shared(x, y)
      BY <1>9 DEF KVInv
    <2>2. CASE x = r \/ y = r
      BY <1>6, <2>2, Fresh DEF Shared
    <2>3. CASE x # r /\ y # r
      BY <1>3, <1>5, <2>1, <2>3 DEF Shared
    <2> QED
      BY <2>2, <2>3
  <1> QED
    BY ZenonT(30), <1>3, <1>4, <1>7, <1>8, <1>9 DEF KVInv

\* Preemption of a running request.
LEMMA KVPreempt ==
    ASSUME KVInv, NEW r \in Requests, Preempt(r)
    PROVE  KVInv'
  <1>1. /\ scheduled[r] = 0 /\ FreeRequest(r) /\ status' = [status EXCEPT ![r] = "preempted"]
        /\ computed' = [computed EXCEPT ![r] = 0]
        /\ UNCHANGED <<reqHashes, tokens, scheduled, arrivals, content>>
    BY DEF Preempt, Victim, Preempted
  <1> QED
    BY ZenonT(30), <1>1, KVRelease

\* finish_requests for an aborted request.
LEMMA KVAbort ==
    ASSUME KVInv, NEW r \in Requests, Abort(r)
    PROVE  KVInv'
  <1>1. /\ scheduled[r] = 0 /\ FreeRequest(r) /\ status' = [status EXCEPT ![r] = "none"]
        /\ computed' = [computed EXCEPT ![r] = 0]
        /\ reqHashes' = [reqHashes EXCEPT ![r] = <<>>]
        /\ tokens' = [tokens EXCEPT ![r] = Prompt[r]]
        /\ UNCHANGED <<scheduled, arrivals, content>>
    BY DEF Abort, BetweenSteps
  <1> QED
    BY ZenonT(30), <1>1, KVRelease

\* reset_prefix_cache: it does nothing while a request holds a block.
LEMMA KVReset ==
    ASSUME KVInv, ResetPrefixCache
    PROVE  KVInv'
  <1>1. /\ pool' = ResetPool(pool)
        /\ UNCHANGED <<reqBlocks, numCached, reqHashes, status, tokens, computed,
                       scheduled, arrivals, content>>
    BY DEF ResetPrefixCache
  <1>2. Counted(pool, reqBlocks) /\ PoolInv(pool)
    BY DEF KVInv, Counted
  <1>3. /\ PoolInv(pool') /\ pool'.ref = pool.ref
        /\ pool' = pool \/ \A b \in Usable : pool.ref[b] = 0
    BY <1>1, <1>2, ResetIs
  <1>4. Counted(pool, reqBlocks)'
    BY <1>1, <1>2, <1>3 DEF Counted
  <1>5. pool' = pool \/ \A r \in Requests : Len(reqBlocks[r]) = 0
    <2>1. ASSUME \A b \in Usable : pool.ref[b] = 0, NEW r \in Requests PROVE Len(reqBlocks[r]) = 0
      <3>1. reqBlocks[r] \in Seq(Usable)
        BY <1>2 DEF Counted
      <3>2. ASSUME Len(reqBlocks[r]) # 0 PROVE FALSE
        <4>1. 1 \in 1..Len(reqBlocks[r]) /\ reqBlocks[r][1] \in ToSet(reqBlocks[r])
          BY <3>1, <3>2 DEF ToSet
        <4> QED
          BY <1>2, <2>1, <4>1, HeldCounts
      <3> QED
        BY <3>2
    <2> QED
      BY <1>3, <2>1
  <1>6. \A r \in Requests : \A i \in 1..Len(reqBlocks[r]) : pool' = pool
    BY <1>5
  <1>7. ASSUME NEW r \in Requests PROVE Progress(r)' /\ HashesKept(r)'
    <2>1. Progress(r) /\ HashesKept(r)
      BY DEF KVInv
    <2>2. Progress(r)'
      BY ZenonT(30), <1>1, <2>1 DEF Progress, Total
    <2> QED
      BY ZenonT(30), <1>1, <1>6, <2>1, <2>2 DEF HashesKept
  <1>8. \A x, y \in Requests : x # y => Shared(x, y)'
    BY <1>1, <1>6 DEF KVInv, Shared
  <1>9. Types'
    BY <1>1 DEF KVInv, Types
  <1> QED
    BY <1>4, <1>7, <1>8, <1>9 DEF KVInv

\* An order of a finite set lists each of its members once.
LEMMA OrderIs ==
    ASSUME NEW S, IsFiniteSet(S), NEW order \in SetToSeqs(S)
    PROVE  order \in Seq(S) /\ Distinct(order) /\ ToSet(order) = S
  <1> DEFINE n == Cardinality(S)
  <1>1. n \in Nat
    BY ZenonT(30), FiniteCounts
  <1>2. order \in [1..n -> S] /\ Distinct(order)
    BY DEF SetToSeqs
  <1> HIDE DEF n
  <1>3. order \in Seq(S) /\ Len(order) = n /\ DOMAIN order = 1..n
    BY <1>1, <1>2
  <1>4. Distinct(order)
    BY <1>2
  <1>5. Cardinality(ToSet(order)) = n /\ ToSet(order) \subseteq S
    <2>1. ToSet(order) \subseteq S
      BY <1>2, <1>3 DEF ToSet
    <2> QED
      BY <1>3, <1>4, <2>1, InjectiveLength
  <1>6. ToSet(order) = S
    BY ZenonT(30), <1>5, PartOf DEF n
  <1> QED
    BY <1>3, <1>4, <1>6

\* What ExecuteStep does to the requests; S is the set of those that stop.
Executed(t, S) ==
    /\ S \subseteq Sampled
    /\ \A r \in Sampled : Len(tokens[r]) + 1 >= MaxModelLen => r \in S
    /\ \A r \in Sampled : t[r] \in Nat
    /\ tokens' = [r \in Requests |->
           IF r \in S THEN Prompt[r]
           ELSE IF r \in Sampled THEN Append(tokens[r], t[r]) ELSE tokens[r]]
    /\ status' = [r \in Requests |-> IF r \in S THEN "none" ELSE status[r]]
    /\ computed' = [r \in Requests |-> IF r \in S THEN 0 ELSE computed[r] + scheduled[r]]
    /\ reqBlocks' = [r \in Requests |-> IF r \in S THEN <<>> ELSE reqBlocks[r]]
    /\ numCached' = [r \in Requests |-> IF r \in S THEN 0 ELSE numCached[r]]
    /\ reqHashes' = [r \in Requests |-> IF r \in S THEN <<>> ELSE reqHashes[r]]
    /\ scheduled' = [r \in Requests |-> 0]
    /\ arrivals' = arrivals /\ content' = Written
    /\ Counted(pool', reqBlocks') /\ pool'.hash = pool.hash /\ pool'.cached = pool.cached
    /\ Linked(pool, reqBlocks) /\ Parented(pool) => Parented(pool')

\* update_from_output frees those that stop, in the order of the step.
LEMMA ExecuteIs ==
    ASSUME KVInv, ExecuteStep
    PROVE  \E t, S : Executed(t, S)
  <1>1. PICK t \in [Sampled -> Tokens], stop \in Stopping(Sampled) :
            \E order \in SetToSeqs(stop) : ExecuteWith(t, order)
    BY DEF ExecuteStep
  <1>2. PICK order \in SetToSeqs(stop) : ExecuteWith(t, order)
    BY <1>1
  <1>3. /\ stop \subseteq Sampled /\ Sampled \subseteq Requests
        /\ \A r \in Sampled : Len(tokens[r]) + 1 >= MaxModelLen => r \in stop
    BY DEF Stopping, Sampled
  <1>4. IsFiniteSet(stop)
    BY ZenonT(30), <1>3, ManagerAssumption, PartOf
  <1>5. order \in Seq(stop) /\ Distinct(order) /\ ToSet(order) = stop
    BY <1>4, OrderIs
  <1>6. order \in Seq(Requests)
    <2>1. stop \subseteq Requests
      BY <1>3
    <2> QED
      BY <1>5, <2>1
  <1>7. Counted(pool, reqBlocks) /\ pool \in Pools /\ reqBlocks \in [Requests -> Seq(Usable)]
    BY DEF KVInv, Counted, PoolInv
  <1>8. FreeAll(order)
    BY <1>2 DEF ExecuteWith
  <1>9. PICK P : Freed(P, pool, reqBlocks, order) /\ pool' = P[Len(order)]
    BY ZenonT(30), <1>6, <1>7, <1>8, FreeAllUnfolds
  <1>10. /\ Counted(pool', [r \in Requests |-> IF r \in stop THEN <<>> ELSE reqBlocks[r]])
         /\ pool'.hash = pool.hash /\ pool'.cached = pool.cached
         /\ Linked(pool, reqBlocks) /\ Parented(pool) => Parented(pool')
    <2> DEFINE f == P[Len(order)]
    <2>1. /\ Counted(f, [r \in Requests |-> IF r \in ToSet(order) THEN <<>> ELSE reqBlocks[r]])
          /\ f.hash = pool.hash /\ f.cached = pool.cached
          /\ Linked(pool, reqBlocks) /\ Parented(pool) => Parented(f)
      BY <1>5, <1>6, <1>7, <1>9, FreeSome
    <2> QED
      BY ZenonT(30), <1>5, <1>9, <2>1
  <1>11. \A r \in Sampled : t[r] \in Nat
    BY ZenonT(30), <1>1, ManagerAssumption
  <1>12. Executed(t, stop)
    BY ZenonT(30), <1>2, <1>3, <1>5, <1>10, <1>11 DEF ExecuteWith, Executed
  <1> QED
    BY <1>12

\* What the forward pass leaves in memory.
LEMMA WrittenIs ==
    ASSUME KVInv
    PROVE  Written \in [Blocks -> [Slots -> Seq(Nat)]]
  <1> DEFINE Put(b, s) == IF WritesTo(b, s) = {} THEN content[b][s]
                          ELSE LET w == CHOOSE w \in WritesTo(b, s) : TRUE IN Entry(w[1], w[2])
  <1>1. ASSUME NEW b \in Blocks, NEW s \in Slots PROVE Put(b, s) \in Seq(Nat)
    <2>1. CASE WritesTo(b, s) = {}
      BY <2>1 DEF KVInv, Types
    <2>2. CASE WritesTo(b, s) # {}
      <3>1. PICK w : w \in WritesTo(b, s) /\ Put(b, s) = Entry(w[1], w[2])
        BY <2>2, Zenon
      <3>2. /\ w[1] \in Requests /\ w[2] \in 1..MaxModelLen
            /\ w[2] \in (computed[w[1]] + 1)..(computed[w[1]] + scheduled[w[1]])
        BY <3>1 DEF WritesTo, Writes
      <3>3. /\ tokens[w[1]] \in Seq(Nat) /\ Len(tokens[w[1]]) \in Nat
            /\ computed[w[1]] \in Nat /\ scheduled[w[1]] \in Nat
            /\ computed[w[1]] + scheduled[w[1]] <= Len(tokens[w[1]])
        BY <3>2 DEF KVInv, Types, Progress, Total
      <3>4. w[2] \in 1..Len(tokens[w[1]])
        BY <3>2, <3>3
      <3>5. ASSUME NEW q \in Seq(Nat), NEW p \in 1..Len(q) PROVE SubSeq(q, 1, p) \in Seq(Nat)
        OBVIOUS
      <3> QED
        BY ZenonT(30), <3>1, <3>3, <3>4, <3>5 DEF Entry
    <2> QED
      BY <2>1, <2>2
  <1>2. Written = [b \in Blocks |-> [s \in Slots |-> Put(b, s)]]
    BY Zenon DEF Written
  <1> HIDE DEF Put
  <1> QED
    BY ZenonT(30), <1>1, <1>2

\* execute_model and update_from_output.
LEMMA KVExecute ==
    ASSUME KVInv, ExecuteStep
    PROVE  KVInv'
  <1>1. PICK t, S : Executed(t, S)
    BY ExecuteIs
  <1>2. S \subseteq Sampled /\ Sampled \subseteq Requests
    BY <1>1 DEF Executed, Sampled
  <1>3. Types
    BY DEF KVInv
  <1>4. \A r \in Sampled : Append(tokens[r], t[r]) \in Seq(Nat)
                           /\ Len(Append(tokens[r], t[r])) = Len(tokens[r]) + 1
    BY <1>1, <1>2, <1>3 DEF Executed, Types
  <1>5. ASSUME NEW r \in Requests, r \notin S
        PROVE  /\ reqBlocks'[r] = reqBlocks[r] /\ numCached'[r] = numCached[r]
               /\ reqHashes'[r] = reqHashes[r] /\ status'[r] = status[r]
               /\ computed'[r] = computed[r] + scheduled[r] /\ scheduled'[r] = 0
               /\ tokens'[r] = IF r \in Sampled THEN Append(tokens[r], t[r]) ELSE tokens[r]
    BY ZenonT(30), <1>1, <1>5 DEF Executed
  <1>6. ASSUME NEW r \in S
        PROVE  /\ reqBlocks'[r] = <<>> /\ numCached'[r] = 0 /\ reqHashes'[r] = <<>>
               /\ status'[r] = "none" /\ computed'[r] = 0 /\ scheduled'[r] = 0
               /\ tokens'[r] = Prompt[r]
    BY ZenonT(30), <1>1, <1>2, <1>6 DEF Executed
  <1>7. Types'
    <2>1. \A r \in Requests : tokens'[r] \in Seq(Nat)
      BY ZenonT(30), <1>3, <1>4, <1>5, <1>6, PromptsAre DEF Types
    <2>2. tokens' \in [Requests -> Seq(Nat)]
      BY <1>1, <2>1 DEF Executed
    <2>3. reqHashes' \in [Requests -> Seq(Hashes)]
      <3>1. <<>> \in Seq(Hashes)
        OBVIOUS
      <3> QED
        BY <1>1, <1>3, <3>1 DEF Executed, Types
    <2>4. content' \in [Blocks -> [Slots -> Seq(Nat)]]
      BY ZenonT(30), <1>1, WrittenIs DEF Executed
    <2> QED
      BY <1>1, <1>3, <2>2, <2>3, <2>4 DEF Executed, Types, Statuses
  <1>8. Counted(pool, reqBlocks)'
    BY <1>1 DEF Executed
  <1>9. ASSUME NEW r \in Requests PROVE Progress(r)' /\ HashesKept(r)'
    <2>1. Progress(r) /\ HashesKept(r) /\ computed[r] \in Nat /\ scheduled[r] \in Nat
          /\ tokens[r] \in Seq(Nat) /\ Len(tokens[r]) \in Nat /\ numCached[r] \in Nat
      BY <1>3 DEF KVInv, Types
    <2>2. CASE r \in S
      <3>1. Total(r)' = 0 /\ Len(Prompt[r]) \in 1..MaxModelLen
        BY <1>6, <2>2, PromptsAre DEF Total
      <3>2. Progress(r)'
        BY <1>6, <2>2, <3>1, Fresh DEF Progress
      <3>3. Len(Prompt[r]) \div BlockSize \in Nat
        <4>1. Len(Prompt[r]) \in Nat
          BY PromptsAre
        <4> QED
          BY <4>1, FullCounts
      <3> QED
        BY <1>6, <2>2, <3>2, <3>3, Fresh DEF HashesKept
    <2>3. CASE r \notin S
      <3>1. Total(r)' = Total(r)
        BY <1>5, <2>1, <2>3 DEF Total
      <3>2. Len(tokens'[r]) \in Len(tokens[r])..MaxModelLen
        <4>1. CASE r \in Sampled
          <5>1. ~(Len(tokens[r]) + 1 >= MaxModelLen)
            BY <1>1, <2>3, <4>1 DEF Executed
          <5>2. Len(tokens'[r]) = Len(tokens[r]) + 1
            BY ZenonT(30), <1>4, <1>5, <2>3, <4>1
          <5>3. \A m, n \in Nat : ~(m + 1 >= n) => m + 1 \in m..n
            OBVIOUS
          <5>4. MaxModelLen \in Nat
            BY ZenonT(30), PromptsAre
          <5> QED
            BY ZenonT(30), <2>1, <5>1, <5>2, <5>3, <5>4
        <4>2. CASE r \notin Sampled
          BY <1>5, <2>1, <2>3, <4>2 DEF Progress
        <4> QED
          BY <4>1, <4>2
      <3>3. status'[r] = "none" => tokens'[r] = Prompt[r] /\ reqHashes'[r] = <<>>
        <4>1. status[r] = "none" => r \notin Sampled
          BY <2>1 DEF Progress, Total, Sampled
        <4> QED
          BY ZenonT(30), <1>5, <2>1, <2>3, <4>1 DEF Progress
      <3>4. Progress(r)'
        <4>1. Len(tokens'[r]) \in Len(Prompt[r])..MaxModelLen /\ Total(r) <= Len(tokens'[r])
          <5>1. \A p, l, m, n, k \in Nat :
                    l \in p..m /\ n \in l..m /\ k <= l => n \in p..m /\ k <= n
            OBVIOUS
          <5>2. Len(Prompt[r]) \in Nat /\ MaxModelLen \in Nat /\ Total(r) \in Nat
            BY <2>1, PromptsAre DEF Total
          <5>3. Len(tokens'[r]) \in Nat
            BY <2>1, <3>2
          <5>4. Len(tokens[r]) \in Len(Prompt[r])..MaxModelLen /\ Total(r) <= Len(tokens[r])
            BY <2>1 DEF Progress
          <5> HIDE DEF Total
          <5> QED
            BY ZenonT(30), <2>1, <3>2, <5>1, <5>2, <5>3, <5>4
        <4> QED
          BY ZenonT(30), <1>5, <2>1, <2>3, <3>1, <3>3, <4>1 DEF Progress
      <3>5. Len(tokens[r]) \div BlockSize <= Len(tokens'[r]) \div BlockSize
            /\ Len(tokens'[r]) \div BlockSize \in Nat /\ Len(tokens[r]) \div BlockSize \in Nat
        <4>1. Len(tokens[r]) <= Len(tokens'[r]) /\ Len(tokens'[r]) \in Nat
          BY <2>1, <3>2
        <4> QED
          BY <2>1, <4>1, FullCounts
      <3>6. Len(reqHashes'[r]) \in numCached'[r]..(Len(tokens'[r]) \div BlockSize)
        BY <1>5, <2>1, <2>3, <3>5 DEF HashesKept
      <3> QED
        BY <1>1, <1>5, <2>1, <2>3, <3>4, <3>6 DEF HashesKept, Executed
    <2> QED
      BY <2>2, <2>3
  <1>10. ASSUME NEW x \in Requests, NEW y \in Requests, x # y PROVE Shared(x, y)'
    <2>1. Shared(x, y)
      BY <1>10 DEF KVInv
    <2>2. CASE x \in S \/ y \in S
      BY <1>6, <2>2, Fresh DEF Shared
    <2>3. CASE x \notin S /\ y \notin S
      <3>1. /\ computed[x] \in Nat /\ computed'[x] \in Nat /\ computed[x] <= computed'[x]
            /\ computed[y] \in Nat /\ computed'[y] \in Nat /\ computed[y] <= computed'[y]
        BY <1>3, <1>5, <2>3 DEF Types
      <3>2. \A i \in Nat : /\ i * BlockSize <= computed[x] => i * BlockSize <= computed'[x]
                           /\ i * BlockSize <= computed[y] => i * BlockSize <= computed'[y]
        BY <3>1, PoolAssumption
      <3>3. reqBlocks'[x] = reqBlocks[x] /\ reqBlocks'[y] = reqBlocks[y] /\ pool'.hash = pool.hash
        BY <1>1, <1>5, <2>3 DEF Executed
      <3> QED
        BY <2>1, <3>2, <3>3 DEF Shared
    <2> QED
      BY <2>2, <2>3
  <1> QED
    BY <1>7, <1>8, <1>9, <1>10 DEF KVInv

\* Every step of the manager keeps the invariant.
LEMMA KVStep ==
    ASSUME KVInv, [Next]_vars
    PROVE  KVInv'
  <1>1. CASE UNCHANGED vars
    <2>1. /\ pool' = pool /\ reqBlocks' = reqBlocks /\ numCached' = numCached
          /\ reqHashes' = reqHashes /\ status' = status /\ tokens' = tokens
          /\ computed' = computed /\ scheduled' = scheduled /\ arrivals' = arrivals
          /\ content' = content
      BY <1>1 DEF vars
    <2>2. Types'
      BY <2>1 DEF KVInv, Types
    <2>3. \A r \in Requests : Progress(r)'
      BY <2>1 DEF KVInv, Progress, Total
    <2>4. \A r \in Requests : HashesKept(r)'
      BY <2>1 DEF KVInv, HashesKept
    <2>5. \A r, s \in Requests : r # s => Shared(r, s)'
      BY <2>1 DEF KVInv, Shared
    <2>6. Counted(pool', reqBlocks')
      BY <2>1 DEF KVInv
    <2> QED
      BY <2>2, <2>3, <2>4, <2>5, <2>6 DEF KVInv
  <1>2. ASSUME NEW r \in Requests, AddRequest(r) PROVE KVInv'
    BY <1>2, KVAdd
  <1>3. ASSUME NEW r \in Requests, AllocateNew(r) PROVE KVInv'
    BY ZenonT(30), <1>3, KVNew
  <1>4. ASSUME NEW r \in Requests, AllocateNewFails(r) PROVE KVInv'
    BY <1>4, KVFails
  <1>5. ASSUME NEW r \in Requests, AllocateMore(r) PROVE KVInv'
    BY <1>5, KVMore
  <1>6. ASSUME NEW r \in Requests, Preempt(r) PROVE KVInv'
    BY <1>6, KVPreempt
  <1>7. ASSUME NEW r \in Requests, Abort(r) PROVE KVInv'
    BY <1>7, KVAbort
  <1>8. CASE ExecuteStep
    BY <1>8, KVExecute
  <1>9. CASE ResetPrefixCache
    BY <1>9, KVReset
  <1> QED
    BY ZenonT(30), <1>1, <1>2, <1>3, <1>4, <1>5, <1>6, <1>7, <1>8, <1>9 DEF Next

\* The accounting of the cache is in order at all times.
LEMMA KVAlways == Spec => []KVInv
  <1>1. KVInv /\ [Next]_vars => KVInv'
    BY KVStep
  <1> QED
    BY <1>1, KVInit, PTL DEF Spec

-----------------------------------------------------------------------------
(* What follows.                                                            *)

\* Reference counting is exact: whatever series of hits, allocations, preemptions,
\* aborts, finishes and resets, ref_cnt of a block is the number of requests whose
\* list holds it.
THEOREM RefCountTheorem == Spec => []RefCountExact
  <1>1. KVInv => RefCountExact
    <2> SUFFICES ASSUME KVInv PROVE RefCountExact
      OBVIOUS
    <2>1. PoolInv(pool) /\ reqBlocks \in [Requests -> Seq(Usable)] /\ Types
      BY DEF KVInv, Counted
    <2>2. PoolType(pool)
      BY <2>1 DEF PoolInv, Pools, PoolType, Usable
    <2>3. reqBlocks \in [Requests -> Seq(Blocks)]
      BY <2>1 DEF Usable
    <2>4. ASSUME NEW r \in Requests
          PROVE  computed[r] \in 0..MaxModelLen /\ scheduled[r] \in 0..MaxModelLen
      <3>1. computed[r] \in Nat /\ scheduled[r] \in Nat
        BY <2>1 DEF Types
      <3>2. Progress(r)
        BY DEF KVInv
      <3>3. computed[r] + scheduled[r] <= Len(tokens[r]) /\ Len(tokens[r]) \in Len(Prompt[r])..MaxModelLen
        BY <3>2 DEF Progress, Total
      <3>4. Len(Prompt[r]) \in Nat /\ MaxModelLen \in Nat
        BY PromptsAre
      <3> QED
        BY <3>1, <3>3, <3>4
    <2>5. TypeOK
      BY ZenonT(30), <2>1, <2>2, <2>3, <2>4 DEF TypeOK, Types
    <2>6. \A r \in Requests : NullBlock \notin ToSet(reqBlocks[r])
      BY <2>1 DEF ToSet, Usable
    <2> QED
      BY <2>5, <2>6 DEF RefCountExact, KVInv, Counted, HoldersIn, Holders, Usable
  <1> QED
    BY <1>1, KVAlways, PTL

\* The free list holds the blocks without a reference, each once, although touch
\* takes them from the middle and free_blocks appends them.
THEOREM FreeListTheorem == Spec => []FreeListExact
  <1>1. KVInv => FreeListExact
    BY DEF KVInv, Counted, PoolInv, FreeListExact
  <1> QED
    BY <1>1, KVAlways, PTL

\* The hash table agrees with the hashes kept in the blocks: get_cached_block never
\* returns a block that get_new_blocks gave away since.
THEOREM CacheTableTheorem == Spec => []CacheTableExact
  <1>1. KVInv => CacheTableExact
    BY DEF KVInv, Counted, PoolInv, CacheTableExact
  <1> QED
    BY <1>1, KVAlways, PTL

\* allocate_slots never asks get_new_blocks for more than the free list has: its
\* check allows for the blocks that touch takes from the list in between.
THEOREM EnoughTheorem == Spec => []NeverOverdrawn
  <1>1. KVInv => NeverOverdrawn
    <2> SUFFICES ASSUME KVInv, NEW r \in Requests
                 PROVE  /\ Continues(r) => \A n \in Chunks(r) : CanAllocate(r, <<>>, n) =>
                               MissingBlocks(r, <<>>, n) <= NumFree(Touch(pool, ToSet(<<>>)))
                        /\ Tried(r) => \A hit \in Hits(r) : \A n \in ChunksAfter(r, hit) :
                               CanAllocate(r, hit, n) =>
                               MissingBlocks(r, hit, n) <= NumFree(Touch(pool, ToSet(hit)))
      BY DEF NeverOverdrawn
    <2>1. ASSUME Continues(r), NEW n \in Chunks(r), CanAllocate(r, <<>>, n)
          PROVE  MissingBlocks(r, <<>>, n) <= NumFree(Touch(pool, ToSet(<<>>)))
      BY <2>1, MoreAsks, EnoughFree
    <2>2. ASSUME Tried(r), NEW hit \in Hits(r), NEW n \in ChunksAfter(r, hit), CanAllocate(r, hit, n)
          PROVE  MissingBlocks(r, hit, n) <= NumFree(Touch(pool, ToSet(hit)))
      BY <2>2, NewAsks, EnoughFree
    <2> QED
      BY <2>1, <2>2
  <1> QED
    BY <1>1, KVAlways, PTL

\* The place of a token: block and slot tell it.
LEMMA PlaceOfToken ==
    ASSUME NEW p \in Nat \ {0}, NEW q \in Nat \ {0}, NEW d \in Nat \ {0},
           CeilDiv(p, d) = CeilDiv(q, d), (p - 1) % d = (q - 1) % d
    PROVE  p = q
  <1>1. CeilDiv(p, d) = (p - 1) \div d + 1 /\ CeilDiv(q, d) = (q - 1) \div d + 1
    BY DEF CeilDiv
  <1>2. ASSUME NEW k \in Nat, NEW l \in Nat, k \div d = l \div d, k % d = l % d PROVE k = l
    BY <1>2
  <1>3. (p - 1) \div d \in Nat /\ (q - 1) \div d \in Nat /\ p - 1 \in Nat /\ q - 1 \in Nat
    OBVIOUS
  <1>4. (p - 1) \div d = (q - 1) \div d
    <2> DEFINE x == (p - 1) \div d  y == (q - 1) \div d
    <2>1. x \in Nat /\ y \in Nat /\ x + 1 = y + 1
      BY ZenonT(30), <1>1, <1>3
    <2> HIDE DEF x, y
    <2>2. x = y
      BY <2>1
    <2> QED
      BY <2>2 DEF x, y
  <1> DEFINE k == p - 1  l == q - 1
  <1>5. k \in Nat /\ l \in Nat /\ k \div d = l \div d /\ k % d = l % d
    BY <1>3, <1>4
  <1>6. k = l
    <2> HIDE DEF k, l
    <2> QED
      BY ZenonT(30), <1>2, <1>5
  <1> QED
    BY <1>6

\* No two tokens of a step are stored in the same slot: requests share full blocks
\* only, and of the sharers of a block one has computed it before the step.
THEOREM OneWriterTheorem == Spec => []OneWriter
  <1>1. KVInv => OneWriter
    <2> SUFFICES ASSUME KVInv, NEW v \in Writes, NEW w \in Writes,
                        BlockOf(v[1], v[2]) = BlockOf(w[1], w[2]), SlotOf(v[2]) = SlotOf(w[2])
                 PROVE  v = w
      BY DEF OneWriter
    <2> DEFINE r == v[1]  p == v[2]  s == w[1]  q == w[2]  d == BlockSize
               i == CeilDiv(p, d)
               j == CeilDiv(q, d)
    <2>1. /\ r \in Requests /\ s \in Requests /\ v = <<r, p>> /\ w = <<s, q>>
          /\ p \in (computed[r] + 1)..(computed[r] + scheduled[r])
          /\ q \in (computed[s] + 1)..(computed[s] + scheduled[s])
      BY DEF Writes
    <2> HIDE DEF r, p, s, q, i, j
    <2>2. /\ d \in Nat \ {0} /\ computed[r] \in Nat /\ scheduled[r] \in Nat
          /\ computed[s] \in Nat /\ scheduled[s] \in Nat /\ p \in Nat \ {0} /\ q \in Nat \ {0}
          /\ computed[r] < p /\ p <= Total(r) /\ computed[s] < q /\ q <= Total(s)
          /\ Total(r) \in Nat /\ Total(s) \in Nat
      <3>1. /\ d \in Nat \ {0} /\ computed[r] \in Nat /\ scheduled[r] \in Nat
            /\ computed[s] \in Nat /\ scheduled[s] \in Nat
        BY <2>1, PoolAssumption DEF KVInv, Types
      <3> QED
        BY <2>1, <3>1 DEF Total
    <2>3. i \in 1..Len(reqBlocks[r]) /\ j \in 1..Len(reqBlocks[s])
      <3>1. /\ CeilDiv(p, d) <= CeilDiv(Total(r), d) /\ CeilDiv(q, d) <= CeilDiv(Total(s), d)
        BY <2>2, MoreTokens
      <3>2. CeilDiv(p, d) \in Nat \ {0} /\ CeilDiv(q, d) \in Nat \ {0}
        BY ZenonT(30), <2>2, CeilDivIs
      <3>3. Len(reqBlocks[r]) = CeilDiv(Total(r), d) /\ Len(reqBlocks[s]) = CeilDiv(Total(s), d)
        BY <2>1 DEF KVInv, Progress
      <3>4. CeilDiv(Total(r), d) \in Nat /\ CeilDiv(Total(s), d) \in Nat
        BY ZenonT(30), <2>2, CeilDivIs
      <3> QED
        BY <3>1, <3>2, <3>3, <3>4 DEF i, j
    <2>4. reqBlocks[r][i] = reqBlocks[s][j]
      BY DEF BlockOf, r, s, p, q, i, j
    <2>5. p <= i * d /\ q <= j * d
      BY ZenonT(30), <2>2, CeilDivIs DEF i, j
    <2>6. CASE r # s
      <3>1. i = j /\ (i * d <= computed[r] \/ i * d <= computed[s])
        BY <2>1, <2>3, <2>4, <2>6 DEF KVInv, Shared
      <3>2. i * d \in Nat
        <4>1. i \in Nat
          BY ZenonT(30), <2>2, CeilDivIs DEF i
        <4> QED
          BY <2>2, <4>1
      <3> QED
        BY <2>2, <2>5, <3>1, <3>2
    <2>7. CASE r = s
      <3>1. i = j
        <4>1. reqBlocks[r] \in Seq(Usable) /\ Distinct(reqBlocks[r])
          BY <2>1 DEF KVInv, Counted
        <4> QED
          BY <2>3, <2>4, <2>7, <4>1 DEF Distinct
      <3>2. (p - 1) % d = (q - 1) % d
        <4>1. (p - 1) % d \in Nat /\ (q - 1) % d \in Nat
          BY <2>2
        <4>2. ((p - 1) % d) + 1 = ((q - 1) % d) + 1
          BY DEF SlotOf, p, q
        <4> QED
          BY <4>1, <4>2
      <3>3. p = q
        BY <2>2, <3>1, <3>2, PlaceOfToken DEF i, j
      <3> QED
        BY <2>1, <2>7, <3>3
    <2> QED
      BY <2>6, <2>7
  <1> QED
    BY <1>1, KVAlways, PTL

-----------------------------------------------------------------------------
(* The head of a chain stays as long as its tail.                           *)

\* The lists of the requests are chains.
LEMMA ListsLinked ==
    ASSUME KVInv
    PROVE  Linked(pool, reqBlocks)
  <1> SUFFICES ASSUME NEW r \in Requests, NEW i \in 1..Len(reqBlocks[r]),
                      Len(pool.hash[reqBlocks[r][i]]) > 1
               PROVE  i > 1 /\ pool.hash[reqBlocks[r][i - 1]] = Front(pool.hash[reqBlocks[r][i]])
    BY DEF Linked
  <1> DEFINE hs == reqHashes[r]
  <1>1. /\ HashesKept(r) /\ numCached[r] \in Nat /\ Len(reqBlocks[r]) \in Nat
        /\ hs \in Seq(Hashes) /\ Len(hs) \in Nat
    BY DEF KVInv, Types, Counted
  <1>2. i <= numCached[r] /\ pool.hash[reqBlocks[r][i]] = hs[i]
    <2>1. Len(NoHash) = 0
      BY DEF NoHash
    <2>2. pool.hash[reqBlocks[r][i]] = IF i <= numCached[r] THEN hs[i] ELSE NoHash
      BY <1>1 DEF HashesKept
    <2> QED
      BY <2>1, <2>2
  <1>3. i \in 1..Len(hs)
    <2>1. numCached[r] <= Len(hs)
      BY <1>1 DEF HashesKept
    <2> QED
      BY <1>1, <1>2, <2>1
  <1>4. Len(hs[i]) = i /\ Front(hs[i]) = IF i = 1 THEN NoHash ELSE hs[i - 1]
    BY <1>1, <1>3 DEF HashesKept, Chained
  <1>5. i > 1 /\ i - 1 \in 1..Len(reqBlocks[r]) /\ i - 1 <= numCached[r]
    BY <1>1, <1>2, <1>4
  <1>6. pool.hash[reqBlocks[r][i - 1]] = hs[i - 1]
    BY ZenonT(30), <1>1, <1>5 DEF HashesKept
  <1> QED
    BY <1>2, <1>4, <1>5, <1>6

\* allocate_slots: what it evicts from the head of the free list has no children
\* further back.
LEMMA ParentsGranted ==
    ASSUME KVInv, Parented(pool), NEW r \in Requests, NEW hit, NEW n, NEW memo,
           Asked(r, hit, n, memo), NEW new, Granted(r, hit, n, memo, new)
    PROVE  Parented(pool')
  <1> DEFINE held == HeldWith(r, hit)
             blocks == held \o new
             taken == Idle(pool, ToSet(hit))
             k == Keep(pool.queue, Blocks \ taken)
  <1>1. /\ new \in Seq(Usable) /\ ToSet(blocks) = ToSet(held) \cup ToSet(new)
        /\ ToSet(held) \cap ToSet(new) = {}
        /\ reqBlocks' = [reqBlocks EXCEPT ![r] = blocks] /\ Counted(pool', reqBlocks')
        /\ \A b \in Blocks : b \notin ToSet(new) /\ pool.hash[b] # NoHash => pool'.hash[b] = pool.hash[b]
        /\ \A b \in Blocks : b \notin ToSet(blocks) => pool'.hash[b] = pool.hash[b]
        /\ k = new \o pool'.queue
        /\ \A b \in Blocks : pool.ref[b] <= pool'.ref[b]
    BY ZenonT(30) DEF Granted
  <1>2. ToSet(held) = ToSet(reqBlocks[r]) \cup ToSet(hit)
    BY ZenonT(30), AskedNumbers
  <1>3. /\ pool.queue \in Seq(Usable) /\ Distinct(pool.queue)
        /\ ToSet(pool.queue) = {b \in Usable : pool.ref[b] = 0}
        /\ pool.ref \in [Blocks -> Nat]
    BY ZenonT(30), QueueIs DEF KVInv, Counted
  <1>4. /\ pool'.queue \in Seq(Usable) /\ pool'.ref \in [Blocks -> Nat]
        /\ ToSet(pool'.queue) = {b \in Usable : pool'.ref[b] = 0}
    BY ZenonT(30), <1>1, QueueIs DEF Counted
  <1>5. taken \subseteq ToSet(hit)
    BY ZenonT(30) DEF Idle
  <1>6. k \in Seq(Usable) /\ Distinct(k) /\ ToSet(k) = ToSet(pool.queue) \cap (Blocks \ taken)
    BY ZenonT(30), <1>3, KeepItems
  <1>7. \A x, y \in Blocks \ taken : Before(pool.queue, x, y) => Before(k, x, y)
    BY ZenonT(30), <1>3, KeepBefore
  <1>8. ToSet(k) = ToSet(new) \cup ToSet(pool'.queue)
    <2>1. new \in Seq(Usable) /\ pool'.queue \in Seq(Usable)
      BY ZenonT(30), <1>1, <1>4
    <2>2. ToSet(new \o pool'.queue) = ToSet(new) \cup ToSet(pool'.queue)
      BY <2>1, InARow
    <2> HIDE DEF k
    <2> QED
      BY ZenonT(30), <1>1, <2>2
  <1>9. ASSUME NEW b \in ToSet(blocks) PROVE pool'.ref[b] > 0
    <2>1. b \in ToSet(reqBlocks'[r])
      <3>1. DOMAIN reqBlocks = Requests
        BY DEF KVInv, Counted
      <3> QED
        BY <1>1, <3>1
    <2> QED
      BY ZenonT(30), <1>1, <2>1, HeldCounts
  <1> HIDE DEF blocks, held, taken, k
  <1> SUFFICES ASSUME NEW b \in Usable, pool'.ref[b] = 0, Len(pool'.hash[b]) > 1
               PROVE  \E a \in Usable : /\ pool'.hash[a] = Front(pool'.hash[b])
                                        /\ pool'.ref[a] > 0 \/ Before(pool'.queue, b, a)
    BY ZenonT(30) DEF Parented
  <1>10. b \in Blocks /\ b \notin ToSet(blocks) /\ pool'.hash[b] = pool.hash[b] /\ pool.ref[b] = 0
    <2>1. b \in Blocks
      BY DEF Usable
    <2>2. b \notin ToSet(blocks)
      BY <1>9
    <2>3. pool.ref[b] \in Nat /\ pool.ref[b] <= pool'.ref[b]
      BY ZenonT(30), <1>1, <1>3, <2>1
    <2>4. pool'.hash[b] = pool.hash[b]
      BY ZenonT(30), <1>1, <2>1, <2>2
    <2>5. pool.ref[b] = 0
      BY <2>3
    <2> QED
      BY ZenonT(30), <2>1, <2>2, <2>4, <2>5
  <1>11. PICK a \in Usable : /\ pool.hash[a] = Front(pool.hash[b])
                             /\ pool.ref[a] > 0 \/ Before(pool.queue, b, a)
    BY ZenonT(30), <1>10 DEF Parented
  <1>12. a \in Blocks /\ pool.hash[a] # NoHash
    <2>1. pool.hash[b] \in Hashes
      BY ZenonT(30), <1>10 DEF KVInv, Counted, PoolInv, Pools
    <2>2. Len(Front(pool.hash[b])) = Len(pool.hash[b]) - 1 /\ Len(pool.hash[b]) \in Nat
      BY <1>10, <2>1 DEF Front, Hashes
    <2>3. Len(NoHash) = 0
      BY DEF NoHash
    <2> QED
      BY <1>10, <1>11, <2>2, <2>3 DEF Usable
  <1>13. CASE a \in ToSet(blocks) /\ a \notin ToSet(new)
    BY ZenonT(30), <1>1, <1>9, <1>10, <1>11, <1>12, <1>13
  <1>14. CASE pool.ref[a] > 0
    <2>1. a \notin ToSet(new)
      BY <1>3, <1>6, <1>8, <1>14
    <2>2. pool'.ref[a] > 0
      <3>1. pool.ref[a] \in Nat /\ pool'.ref[a] \in Nat /\ pool.ref[a] <= pool'.ref[a]
        BY ZenonT(30), <1>1, <1>3, <1>4, <1>12
      <3> QED
        BY <1>14, <3>1
    <2> QED
      BY ZenonT(30), <1>1, <1>10, <1>11, <1>12, <2>1, <2>2
  <1>15. CASE Before(pool.queue, b, a) /\ a \notin ToSet(hit)
    <2>1. a \in Blocks \ taken /\ b \in Blocks \ taken
      BY <1>1, <1>2, <1>5, <1>10, <1>12, <1>15
    <2>2. Before(k, b, a) /\ b \notin ToSet(new)
      BY ZenonT(30), <1>1, <1>7, <1>10, <1>15, <2>1
    <2>3. Before(pool'.queue, b, a)
      BY ZenonT(30), <1>1, <1>4, <2>2, BeforeInARow
    <2>4. a \notin ToSet(new)
      <3>1. a \in ToSet(pool'.queue)
        BY <1>4, <2>3 DEF Before, ToSet
      <3>2. pool'.ref[a] = 0
        BY <1>4, <3>1
      <3>3. a \notin ToSet(blocks)
        BY <1>9, <3>2
      <3> QED
        BY ZenonT(30), <1>1, <3>3
    <2> QED
      BY ZenonT(30), <1>1, <1>10, <1>11, <1>12, <2>3, <2>4
  <1> QED
    BY ZenonT(30), <1>1, <1>2, <1>11, <1>13, <1>14, <1>15

\* Initially nothing is published, and no step leaves an orphan.
LEMMA ParentsStep ==
    ASSUME KVInv, Parented(pool), [Next]_vars
    PROVE  Parented(pool')
  <1>1. CASE pool' = pool
    BY <1>1
  <1>2. ASSUME NEW r \in Requests, AllocateNew(r) PROVE Parented(pool')
    <2>1. Tried(r)
      BY <1>2 DEF AllocateNew
    <2>2. PICK hit \in Hits(r) : \E n \in ChunksAfter(r, hit) : AllocateNewWith(r, hit, n)
      BY <1>2 DEF AllocateNew
    <2>3. PICK n \in ChunksAfter(r, hit) : AllocateNewWith(r, hit, n)
      BY <2>2
    <2>4. CanAllocate(r, hit, n) /\ AllocateSlots(r, hit, n, BlockHashes(r))
      BY <2>3 DEF AllocateNewWith
    <2>5. Asked(r, hit, n, BlockHashes(r))
      BY <2>1, NewAsks
    <2>6. \E new : Granted(r, hit, n, BlockHashes(r), new)
      BY <2>4, <2>5, AllocateIs
    <2> QED
      BY <2>5, <2>6, ParentsGranted
  <1>3. ASSUME NEW r \in Requests, AllocateMore(r) PROVE Parented(pool')
    <2>1. Continues(r)
      BY <1>3 DEF AllocateMore
    <2>2. PICK n \in Chunks(r) : AllocateMoreWith(r, n)
      BY <1>3 DEF AllocateMore
    <2>3. CanAllocate(r, <<>>, n) /\ AllocateSlots(r, <<>>, n, reqHashes[r])
      BY <2>2 DEF AllocateMoreWith
    <2>4. Asked(r, <<>>, n, reqHashes[r])
      BY <2>1, MoreAsks
    <2>5. \E new : Granted(r, <<>>, n, reqHashes[r], new)
      BY <2>3, <2>4, AllocateIs
    <2> QED
      BY <2>4, <2>5, ParentsGranted
  <1>4. ASSUME NEW r \in Requests, Preempt(r) \/ Abort(r) PROVE Parented(pool')
    <2>1. pool' = FreeBlocks(pool, FreeOrder(reqBlocks[r]))
      BY <1>4 DEF Preempt, Preempted, Abort, FreeRequest
    <2>2. Counted(pool, reqBlocks) /\ Linked(pool, reqBlocks)
      BY ZenonT(30), ListsLinked DEF KVInv
    <2> QED
      BY <2>1, <2>2, FreeParents
  <1>5. CASE ExecuteStep
    <2>1. \E t, S : Executed(t, S)
      BY <1>5, ExecuteIs
    <2> QED
      BY <2>1, ListsLinked DEF Executed
  <1>6. CASE ResetPrefixCache
    <2>1. pool' = ResetPool(pool) /\ PoolInv(pool)
      BY <1>6 DEF ResetPrefixCache, KVInv, Counted
    <2>2. pool' = pool \/ \A b \in Blocks : pool'.hash[b] = NoHash
      BY <2>1, ResetIs
    <2>3. Len(NoHash) = 0
      BY DEF NoHash
    <2> QED
      BY <2>2, <2>3 DEF Parented, Usable
  <1> QED
    BY <1>1, <1>2, <1>3, <1>4, <1>5, <1>6 DEF Next, vars, AddRequest, AllocateNewFails, KeepHashes

\* The comment of find_longest_cache_hit is right: when the hash of a prefix is not
\* in the cache, no hash of a longer prefix that starts with it is, because free
\* puts the tail of a request into the free list before its head.
THEOREM NoOrphansTheorem == Spec => []NoOrphans
  <1>1. Init => Parented(pool)
    <2> SUFFICES ASSUME Init PROVE Parented(pool)
      OBVIOUS
    <2>1. \A b \in Blocks : pool.hash[b] = NoHash
      BY DEF Init, InitPool
    <2>2. Len(NoHash) = 0
      BY DEF NoHash
    <2> QED
      BY <2>1, <2>2 DEF Parented, Usable
  <1>2. KVInv /\ Parented(pool) /\ [Next]_vars => Parented(pool)'
    BY ParentsStep
  <1>3. KVInv /\ Parented(pool) => NoOrphans
    <2> SUFFICES ASSUME KVInv, Parented(pool), NEW c \in pool.cached, Len(c[1]) > 1
                 PROVE  CachedBlocks(pool, Front(c[1])) # {}
      BY ZenonT(30) DEF NoOrphans
    <2> DEFINE h == c[1]  b == c[2]
    <2>1. /\ h \in Hashes /\ b \in Blocks /\ c = <<h, b>>
          /\ Pairs(pool) /\ pool.ref \in [Blocks -> Nat]
      <3>1. pool \in Pools /\ CacheExact(pool)
        BY ZenonT(30) DEF KVInv, Counted, PoolInv
      <3>2. Pairs(pool)
        BY ZenonT(30), <3>1, CacheByPairs
      <3>3. pool.cached \subseteq Hashes \X Blocks /\ pool.ref \in [Blocks -> Nat]
        BY <3>1 DEF Pools
      <3>4. c \in Hashes \X Blocks
        BY ZenonT(30), <3>3
      <3> QED
        BY <3>2, <3>3, <3>4
    <2>2. pool.hash[b] = h /\ b \in Usable
      <3>1. pool.hash[b] = h /\ h # NoHash
        BY <2>1 DEF Pairs
      <3> QED
        BY <2>1, <3>1 DEF KVInv, Counted, PoolInv, Usable
    <2>3. \E a \in Usable : pool.hash[a] = Front(h)
      <3>1. CASE pool.ref[b] = 0
        BY <2>2, <3>1 DEF Parented
      <3>2. CASE pool.ref[b] # 0
        <4>1. HoldersIn(reqBlocks, b) # {}
          <5>1. pool.ref[b] = Cardinality(HoldersIn(reqBlocks, b))
            BY ZenonT(30), <2>2 DEF KVInv, Counted
          <5> QED
            BY ZenonT(30), <3>2, <5>1, EmptyCount
        <4>2. PICK r \in Requests : b \in ToSet(reqBlocks[r])
          BY <4>1 DEF HoldersIn
        <4>3. reqBlocks[r] \in Seq(Usable)
          BY DEF KVInv, Counted
        <4>4. PICK i \in 1..Len(reqBlocks[r]) : reqBlocks[r][i] = b
          BY <4>2, <4>3, Items
        <4>5. i > 1 /\ pool.hash[reqBlocks[r][i - 1]] = Front(h)
          BY ZenonT(30), <2>2, <4>4, ListsLinked DEF Linked
        <4>6. reqBlocks[r][i - 1] \in Usable
          BY <4>3, <4>5
        <4> QED
          BY <4>5, <4>6
      <3> QED
        BY <3>1, <3>2
    <2>4. PICK a \in Usable : pool.hash[a] = Front(h)
      BY <2>3
    <2>5. Front(h) \in Hashes /\ Front(h) # NoHash
      <3>1. Len(Front(h)) = Len(h) - 1 /\ Len(h) \in Nat /\ Front(h) \in Hashes
        BY <2>1 DEF Front, Hashes
      <3>2. Len(NoHash) = 0
        BY DEF NoHash
      <3> QED
        BY <3>1, <3>2
    <2>6. <<Front(h), a>> \in pool.cached
      BY <2>1, <2>4, <2>5 DEF Pairs, Usable
    <2> QED
      BY <2>4, <2>6 DEF CachedBlocks, Usable
  <1> QED
    BY <1>1, <1>2, <1>3, KVAlways, PTL DEF Spec
=============================================================================
