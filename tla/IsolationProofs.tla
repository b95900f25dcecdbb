-------------------------- MODULE IsolationProofs --------------------------
(***************************************************************************)
(* What a forward pass reads.  A request finds its own entries at every    *)
(* position it counts as computed, provided that a hash stands for one     *)
(* prefix of inputs; for requests of text that is proved as well.          *)
(***************************************************************************)
EXTENDS KVCacheProofs

USE SMTT(30), Z3T(30), ZenonT(30)

-----------------------------------------------------------------------------
(* Isolation: what a request reads is its own prefix.                       *)

\* The block and the slot of a token.
LEMMA PlaceIs ==
    ASSUME NEW p \in Nat \ {0}
    PROVE  /\ CeilDiv(p, BlockSize) \in Nat \ {0} /\ SlotOf(p) \in Slots
           /\ p = (CeilDiv(p, BlockSize) - 1) * BlockSize + SlotOf(p)
           /\ p <= CeilDiv(p, BlockSize) * BlockSize
  <1> DEFINE d == BlockSize
             k == p - 1
  <1>1. d \in Nat \ {0} /\ k \in Nat
    BY PoolAssumption
  <1>2. CeilDiv(p, d) = k \div d + 1
    BY <1>1 DEF CeilDiv
  <1>3. SlotOf(p) = (k % d) + 1
    BY DEF SlotOf
  <1>4. p = k + 1
    OBVIOUS
  <1> HIDE DEF k, d
  <1>5. k \div d \in Nat /\ k % d \in 0..(d - 1) /\ k = (k \div d) * d + (k % d)
    BY <1>1
  <1> DEFINE x == k \div d  y == k % d
  <1>6. x \in Nat /\ y \in 0..(d - 1) /\ k = x * d + y
    BY <1>5
  <1> HIDE DEF x, y
  <1>7. (x + 1) \in Nat \ {0} /\ (x + 1) - 1 = x /\ (x + 1) * d = x * d + d
    BY <1>1, <1>6
  <1>8. x * d \in Nat
    BY <1>1, <1>6
  <1> DEFINE z == x * d
  <1> HIDE DEF z
  <1>9. z \in Nat /\ k = z + y /\ (x + 1) * d = z + d
    BY <1>6, <1>7, <1>8 DEF z
  <1>10. y + 1 \in 1..d /\ k + 1 = z + (y + 1) /\ k + 1 <= z + d
    BY <1>1, <1>6, <1>9
  <1>11. CeilDiv(p, BlockSize) = x + 1 /\ SlotOf(p) = y + 1 /\ d = BlockSize
    BY <1>2, <1>3 DEF x, y, d
  <1> QED
    BY <1>4, <1>7, <1>9, <1>10, <1>11 DEF Slots, z

\* The place of a token that is computed or scheduled.
LEMMA Placed ==
    ASSUME KVInv, NEW r \in Requests, NEW p \in 1..Total(r)
    PROVE  /\ Total(r) \in Nat /\ p \in Nat \ {0} /\ SlotOf(p) \in Slots
           /\ CeilDiv(p, BlockSize) \in 1..Len(reqBlocks[r])
           /\ BlockOf(r, p) = reqBlocks[r][CeilDiv(p, BlockSize)] /\ BlockOf(r, p) \in Usable
           /\ p \in 1..Len(tokens[r]) /\ p \in 1..MaxModelLen
  <1>1. /\ computed[r] \in Nat /\ scheduled[r] \in Nat /\ Progress(r) /\ Len(tokens[r]) \in Nat
        /\ reqBlocks[r] \in Seq(Usable) /\ MaxModelLen \in Nat /\ Len(Prompt[r]) \in Nat
    BY PromptsAre DEF KVInv, Types, Counted
  <1>2. Total(r) \in Nat
    BY <1>1 DEF Total
  <1>3. p \in Nat \ {0} /\ p <= Total(r)
    BY <1>2
  <1>4. /\ Total(r) <= Len(tokens[r]) /\ Len(tokens[r]) <= MaxModelLen
        /\ Len(reqBlocks[r]) = CeilDiv(Total(r), BlockSize)
    BY <1>1 DEF Progress
  <1>5. CeilDiv(p, BlockSize) <= CeilDiv(Total(r), BlockSize) /\ CeilDiv(Total(r), BlockSize) \in Nat
    BY ZenonT(30), <1>2, <1>3, MoreTokens, CeilDivIs, PoolAssumption
  <1>6. CeilDiv(p, BlockSize) \in Nat \ {0} /\ SlotOf(p) \in Slots
    BY <1>3, PlaceIs
  <1>7. CeilDiv(p, BlockSize) \in 1..Len(reqBlocks[r])
    BY <1>4, <1>5, <1>6
  <1>8. BlockOf(r, p) = reqBlocks[r][CeilDiv(p, BlockSize)]
    BY DEF BlockOf
  <1> QED
    BY <1>1, <1>2, <1>3, <1>4, <1>6, <1>7, <1>8

\* The token stored in slot s of block b, and what the slot holds after it.
Writer(b, s) == CHOOSE w \in WritesTo(b, s) : TRUE
After(b, s) ==
    IF WritesTo(b, s) = {} THEN content[b][s] ELSE Entry(Writer(b, s)[1], Writer(b, s)[2])

\* The forward pass stores the entry of each scheduled token at its place.
Stored ==
    \A r \in Requests : \A p \in (computed[r] + 1)..Total(r) :
        Written[BlockOf(r, p)][SlotOf(p)] = Entry(r, p)
LEMMA StoredAlways == KVInv /\ OneWriter => Stored
  <1> SUFFICES ASSUME KVInv, OneWriter, NEW r \in Requests, NEW p \in (computed[r] + 1)..Total(r)
               PROVE  Written[BlockOf(r, p)][SlotOf(p)] = Entry(r, p)
    BY DEF Stored
  <1> DEFINE b == BlockOf(r, p)
             s == SlotOf(p)
  <1>1. computed[r] \in Nat /\ Total(r) = computed[r] + scheduled[r] /\ scheduled[r] \in Nat
    BY DEF KVInv, Types, Total
  <1>2. p \in 1..Total(r)
    BY <1>1
  <1>3. b \in Blocks /\ s \in Slots /\ p \in 1..MaxModelLen
    BY <1>2, Placed DEF Usable
  <1>4. <<r, p>> \in Writes
    BY <1>1, <1>3 DEF Writes
  <1>5. <<r, p>> \in WritesTo(b, s)
    BY <1>4 DEF WritesTo
  <1>6. \A w \in WritesTo(b, s) : w = <<r, p>>
    BY <1>4 DEF WritesTo, OneWriter
  <1> HIDE DEF b, s
  <1>7. Writer(b, s) = <<r, p>> /\ WritesTo(b, s) # {}
    BY <1>5, <1>6 DEF Writer
  <1>8. Written[b][s] = After(b, s)
    BY <1>3, Zenon DEF Written, After, Writer
  <1>9. Written[b][s] = Entry(r, p)
    BY <1>7, <1>8 DEF After
  <1> QED
    BY <1>9 DEF b, s

\* A slot that the same tokens are written to has the same entry.
LEMMA WrittenSame ==
    ASSUME NEW b \in Blocks, NEW s \in Slots, WritesTo(b, s)' = WritesTo(b, s),
           content'[b][s] = content[b][s],
           \A w \in WritesTo(b, s) : Entry(w[1], w[2])' = Entry(w[1], w[2])
    PROVE  Written'[b][s] = Written[b][s]
  <1>1. Written[b][s] = After(b, s)
    BY Zenon DEF Written, After, Writer
  <1>2. Written'[b][s] = After(b, s)'
    BY Zenon DEF Written, After, Writer
  <1>3. CASE WritesTo(b, s) = {}
    BY <1>1, <1>2, <1>3 DEF After
  <1>4. CASE WritesTo(b, s) # {}
    <2>1. Writer(b, s) \in WritesTo(b, s)
      BY <1>4 DEF Writer
    <2>2. Writer(b, s)' = Writer(b, s)
      BY DEF Writer
    <2>3. PICK v : v = Writer(b, s)
      OBVIOUS
    <2>4. After(b, s) = Entry(v[1], v[2])
      BY <1>4, <2>3 DEF After
    <2>5. After(b, s)' = Entry(v[1], v[2])'
      BY ZenonT(30), <1>4, <2>2, <2>3 DEF After, Entry
    <2> QED
      BY <1>1, <1>2, <2>1, <2>3, <2>4, <2>5
  <1> QED
    BY <1>3, <1>4

\* M tells the inputs behind every hash in use.
HashMeans(M) ==
    \A r \in Requests : \A i \in 1..Len(BlockHashes(r)) :
        M[BlockHashes(r)[i]] = SubSeq(tokens[r], 1, i * BlockSize)

\* After the forward pass of the step, a request finds its own entries, and a
\* published block holds the entries its hash stands for.
Own(r) == \A p \in 1..Total(r) : Written[BlockOf(r, p)][SlotOf(p)] = Entry(r, p)
Holds(M, b) ==
    pool.hash[b] # NoHash =>
        \A s \in Slots : Written[b][s]
                         = SubSeq(M[pool.hash[b]], 1, (Len(pool.hash[b]) - 1) * BlockSize + s)
Isolated(M) == (\A r \in Requests : Own(r)) /\ (\A b \in Blocks : Holds(M, b))

\* A prefix of a prefix.
LEMMA PrefixOfPrefix ==
    ASSUME NEW q \in Seq(Nat), NEW m \in Nat, NEW k \in 1..m, m <= Len(q)
    PROVE  SubSeq(SubSeq(q, 1, m), 1, k) = SubSeq(q, 1, k)
  <1>1. Len(q) \in Nat /\ k \in Nat /\ k <= m
    OBVIOUS
  <1> DEFINE u == SubSeq(q, 1, m)
  <1>2. u \in Seq(Nat) /\ Len(u) = m /\ \A i \in 1..m : u[i] = q[i]
    BY <1>1
  <1> HIDE DEF u
  <1>3. SubSeq(u, 1, k) = [i \in 1..k |-> u[i]]
    BY <1>1, <1>2
  <1>4. SubSeq(q, 1, k) = [i \in 1..k |-> q[i]]
    BY <1>1
  <1>5. \A i \in 1..k : u[i] = q[i]
    BY <1>1, <1>2
  <1> QED
    BY <1>3, <1>4, <1>5 DEF u

\* A prefix of a longer sequence.
LEMMA PrefixOfMore ==
    ASSUME NEW q \in Seq(Nat), NEW x \in Nat, NEW k \in 1..Len(q)
    PROVE  SubSeq(Append(q, x), 1, k) = SubSeq(q, 1, k)
  <1>1. Len(q) \in Nat /\ k \in Nat /\ k <= Len(q)
    OBVIOUS
  <1> DEFINE u == Append(q, x)
  <1>2. u \in Seq(Nat) /\ Len(u) = Len(q) + 1 /\ \A i \in 1..Len(q) : u[i] = q[i]
    OBVIOUS
  <1> HIDE DEF u
  <1>3. SubSeq(u, 1, k) = [i \in 1..k |-> u[i]]
    BY <1>1, <1>2
  <1>4. SubSeq(q, 1, k) = [i \in 1..k |-> q[i]]
    BY <1>1
  <1>5. \A i \in 1..k : u[i] = q[i]
    BY <1>1, <1>2
  <1> QED
    BY <1>3, <1>4, <1>5 DEF u

\* The position of slot s of block i.
LEMMA PlaceBack ==
    ASSUME NEW i \in Nat \ {0}, NEW s \in Slots
    PROVE  LET p == (i - 1) * BlockSize + s
           IN /\ p \in Nat \ {0} /\ CeilDiv(p, BlockSize) = i /\ SlotOf(p) = s
              /\ p <= i * BlockSize
  <1> DEFINE d == BlockSize
             k == (i - 1) * d + (s - 1)
             p == (i - 1) * d + s
  <1>1. d \in Nat \ {0} /\ s \in 1..d
    BY PoolAssumption DEF Slots
  <1>2. (i - 1) * d \in Nat /\ i * d = (i - 1) * d + d
    BY <1>1
  <1>3. k \in Nat /\ p = k + 1 /\ p \in Nat \ {0} /\ p <= i * d
    BY <1>1, <1>2
  <1>4. k \div d = i - 1 /\ k % d = s - 1
    BY <1>1
  <1>5. p - 1 = k
    BY <1>3
  <1>6. CeilDiv(p, d) = k \div d + 1
    <2> HIDE DEF k, p
    <2> QED
      BY <1>1, <1>3 DEF CeilDiv
  <1>7. SlotOf(p) = (k % d) + 1
    <2> HIDE DEF k, p
    <2> QED
      BY <1>5 DEF SlotOf
  <1> HIDE DEF k, p
  <1>8. CeilDiv(p, d) = i /\ SlotOf(p) = s
    BY <1>1, <1>4, <1>6, <1>7
  <1> QED
    BY <1>3, <1>8 DEF p

\* allocate_slots: the tokens it makes room for go to new blocks or to the last block
\* of the request, which is not published, so that no entry is overwritten.
LEMMA WritesToOwn ==
    ASSUME KVInv, NEW r \in Requests, NEW hit, NEW n, NEW memo, Asked(r, hit, n, memo),
           NEW new, Granted(r, hit, n, memo, new),
           NEW p \in (ComputedWith(r, hit) + 1)..(ComputedWith(r, hit) + n)
    PROVE  LET blocks == HeldWith(r, hit) \o new
               i == CeilDiv(p, BlockSize)
           IN /\ i \in 1..Len(blocks) /\ blocks[i] \in Blocks
              /\ blocks[i] \in ToSet(new) \/ pool.hash[blocks[i]] = NoHash
  <1> DEFINE c == ComputedWith(r, hit)
             a == CachedWith(r, hit)
             held == HeldWith(r, hit)
             blocks == held \o new
             i == CeilDiv(p, BlockSize)
  <1>1. /\ c \in Nat /\ n \in Nat /\ a = c \div BlockSize /\ a \in Nat
        /\ held \in Seq(Usable) /\ Len(held) = CeilDiv(c, BlockSize)
        /\ \A j \in 1..Len(held) : pool.hash[held[j]] = IF j <= a THEN memo[j] ELSE NoHash
    BY AskedNumbers
  <1>2. /\ new \in Seq(Usable) /\ blocks \in Seq(Usable)
        /\ Len(blocks) = CeilDiv(c + n, BlockSize)
        /\ \A j \in 1..Len(held) : blocks[j] = held[j]
    BY DEF Granted
  <1> HIDE DEF c, a, held
  <1>3. Len(blocks) = Len(held) + Len(new) /\ Len(held) \in Nat /\ Len(new) \in Nat
        /\ \A j \in 1..Len(new) : blocks[Len(held) + j] = new[j]
    <2>1. held \in Seq(Usable) /\ new \in Seq(Usable)
      BY <1>1, <1>2
    <2> QED
      BY <2>1, InARow
  <1> HIDE DEF blocks
  <1>4. p \in Nat \ {0} /\ c < p /\ p <= c + n
    <2>1. p \in (c + 1)..(c + n)
      BY DEF c
    <2> QED
      BY <1>1, <2>1
  <1>5. i \in Nat \ {0} /\ p <= i * BlockSize
    BY <1>4, PlaceIs
  <1>6. i <= Len(blocks)
    <2>1. c + n \in Nat
      BY <1>1
    <2>2. CeilDiv(p, BlockSize) <= CeilDiv(c + n, BlockSize)
      BY ZenonT(30), <1>4, <2>1, MoreTokens, PoolAssumption
    <2> QED
      BY <1>2, <2>2
  <1>7. ~(i <= a)
    <2> HIDE DEF i
    <2>1. a * BlockSize <= c /\ a * BlockSize \in Nat /\ i * BlockSize \in Nat
      BY <1>1, <1>5, PoolAssumption
    <2>2. i <= a => i * BlockSize <= a * BlockSize
      BY <1>1, <1>5, PoolAssumption
    <2> QED
      BY <1>1, <1>4, <1>5, <2>1, <2>2
  <1> HIDE DEF i
  <1>8. i \in 1..Len(blocks) /\ blocks[i] \in Usable
    BY <1>2, <1>5, <1>6
  <1>9. CASE i <= Len(held)
    BY <1>1, <1>2, <1>3, <1>5, <1>7, <1>8, <1>9 DEF Usable, blocks, held, i
  <1>10. CASE i > Len(held)
    <2> DEFINE j == i - Len(held)
    <2>1. j \in 1..Len(new) /\ Len(held) + j = i
      BY <1>3, <1>5, <1>6, <1>10
    <2>2. blocks[i] = new[j]
      BY <1>3, <2>1
    <2>3. blocks[i] \in ToSet(new)
      BY <1>2, <2>1, <2>2, Items
    <2> QED
      BY <1>8, <2>3 DEF Usable, blocks, held, i
  <1> QED
    BY <1>3, <1>5, <1>9, <1>10

\* allocate_slots, with what the scheduler records of the request.
Allocates(r, hit, n, memo, new) ==
    /\ Asked(r, hit, n, memo) /\ Granted(r, hit, n, memo, new)
    /\ computed' = [computed EXCEPT ![r] = ComputedWith(r, hit)]
    /\ scheduled' = [scheduled EXCEPT ![r] = n]
    /\ tokens' = tokens

\* What that changes for r, and that it changes nothing for the others.
LEMMA AllocatesIs ==
    ASSUME KVInv, NEW r \in Requests, NEW hit, NEW n, NEW memo, NEW new,
           Allocates(r, hit, n, memo, new)
    PROVE  /\ scheduled[r] = 0 /\ ComputedWith(r, hit) \in Nat /\ n \in Nat
           /\ computed'[r] = ComputedWith(r, hit) /\ scheduled'[r] = n
           /\ Total(r)' = ComputedWith(r, hit) + n
           /\ reqBlocks'[r] = HeldWith(r, hit) \o new
           /\ \A s \in Requests : s # r =>
                 /\ computed'[s] = computed[s] /\ scheduled'[s] = scheduled[s]
                 /\ reqBlocks'[s] = reqBlocks[s] /\ Total(s)' = Total(s)
  <1>1. /\ scheduled[r] = 0 /\ computed \in [Requests -> Nat] /\ scheduled \in [Requests -> Nat]
        /\ DOMAIN reqBlocks = Requests
    BY DEF KVInv, Types, Counted, Allocates, Asked
  <1>2. Asked(r, hit, n, memo) /\ Granted(r, hit, n, memo, new)
    BY DEF Allocates
  <1>3. ComputedWith(r, hit) \in Nat /\ n \in Nat
    BY <1>2, AskedNumbers
  <1>4. reqBlocks' = [reqBlocks EXCEPT ![r] = HeldWith(r, hit) \o new]
    BY <1>2 DEF Granted
  <1>5. /\ computed' = [computed EXCEPT ![r] = ComputedWith(r, hit)]
        /\ scheduled' = [scheduled EXCEPT ![r] = n]
    BY DEF Allocates
  <1>6. computed'[r] = ComputedWith(r, hit) /\ scheduled'[r] = n
    BY <1>1, <1>5
  <1>7. Total(r)' = ComputedWith(r, hit) + n
    BY <1>6 DEF Total
  <1>8. reqBlocks'[r] = HeldWith(r, hit) \o new
    BY <1>1, <1>4
  <1>9. ASSUME NEW s \in Requests, s # r
        PROVE  /\ computed'[s] = computed[s] /\ scheduled'[s] = scheduled[s]
               /\ reqBlocks'[s] = reqBlocks[s] /\ Total(s)' = Total(s)
    BY ZenonT(30), <1>1, <1>4, <1>5, <1>9 DEF Total
  <1> QED
    BY ZenonT(30), <1>1, <1>3, <1>6, <1>7, <1>8, <1>9

\* None of the new tokens is stored in slot s of block b.
Misses(r, hit, n, new, b, s) ==
    \A p \in (ComputedWith(r, hit) + 1)..(ComputedWith(r, hit) + n) :
        ~((HeldWith(r, hit) \o new)[CeilDiv(p, BlockSize)] = b /\ SlotOf(p) = s)

\* Such a slot, of a block that is not new, is written as before.
LEMMA SameSlot ==
    ASSUME KVInv, NEW r \in Requests, NEW hit, NEW n, NEW memo, NEW new,
           Allocates(r, hit, n, memo, new), NEW b \in Blocks, NEW s \in Slots, b \notin ToSet(new),
           Misses(r, hit, n, new, b, s)
    PROVE  Written'[b][s] = Written[b][s]
  <1> DEFINE c == ComputedWith(r, hit)
             blocks == HeldWith(r, hit) \o new
  <1>1. /\ scheduled[r] = 0 /\ computed'[r] = c /\ scheduled'[r] = n /\ reqBlocks'[r] = blocks
        /\ \A q \in Requests : q # r =>
              /\ computed'[q] = computed[q] /\ scheduled'[q] = scheduled[q]
              /\ reqBlocks'[q] = reqBlocks[q]
    BY AllocatesIs
  <1>2. computed[r] \in Nat /\ tokens' = tokens
    BY DEF KVInv, Types, Allocates
  <1>3. content'[b][s] = content[b][s]
    <2>1. content' = [x \in Blocks |-> IF x \in ToSet(new) THEN Blank ELSE content[x]]
      BY DEF Allocates, Granted
    <2> QED
      BY ZenonT(30), <2>1
  <1>4. \A p \in (c + 1)..(c + n) : ~(blocks[CeilDiv(p, BlockSize)] = b /\ SlotOf(p) = s)
    BY ZenonT(30) DEF Misses
  <1> HIDE DEF c, blocks
  <1>5. ASSUME NEW w \in Requests \X (1..MaxModelLen)
        PROVE  w \in WritesTo(b, s)' <=> w \in WritesTo(b, s)
    <2>1. w[1] \in Requests
      OBVIOUS
    <2>2. w \in WritesTo(b, s) <=>
              /\ w[2] \in (computed[w[1]] + 1)..(computed[w[1]] + scheduled[w[1]])
              /\ reqBlocks[w[1]][CeilDiv(w[2], BlockSize)] = b /\ SlotOf(w[2]) = s
      BY DEF WritesTo, Writes, BlockOf
    <2>3. w \in WritesTo(b, s)' <=>
              /\ w[2] \in (computed'[w[1]] + 1)..(computed'[w[1]] + scheduled'[w[1]])
              /\ reqBlocks'[w[1]][CeilDiv(w[2], BlockSize)] = b /\ SlotOf(w[2]) = s
      BY ZenonT(30) DEF WritesTo, Writes, BlockOf, SlotOf
    <2>4. CASE w[1] # r
      BY ZenonT(30), <1>1, <2>1, <2>2, <2>3, <2>4
    <2>5. CASE w[1] = r
      <3>1. w \notin WritesTo(b, s)'
        BY <1>1, <1>4, <2>3, <2>5
      <3>2. (computed[r] + 1)..(computed[r] + 0) = {}
        BY <1>2
      <3> QED
        BY ZenonT(30), <1>1, <2>2, <2>5, <3>1, <3>2
    <2> QED
      BY <2>4, <2>5
  <1>6. WritesTo(b, s) \subseteq Requests \X (1..MaxModelLen)
        /\ WritesTo(b, s)' \subseteq Requests \X (1..MaxModelLen)
    BY DEF WritesTo, Writes
  <1>7. WritesTo(b, s)' = WritesTo(b, s)
    BY <1>5, <1>6
  <1>8. \A w \in WritesTo(b, s) : Entry(w[1], w[2])' = Entry(w[1], w[2])
    BY <1>2 DEF Entry
  <1> QED
    BY ZenonT(30), <1>3, <1>7, <1>8, WrittenSame

\* The blocks of the other requests, and those that stay published, are as before.
LEMMA SameBlock ==
    ASSUME KVInv, NEW r \in Requests, NEW hit, NEW n, NEW memo, NEW new,
           Allocates(r, hit, n, memo, new), NEW b \in Blocks, b \notin ToSet(new),
           b \notin ToSet(HeldWith(r, hit) \o new) \/ pool.hash[b] # NoHash
    PROVE  \A s \in Slots : Written'[b][s] = Written[b][s]
  <1> DEFINE blocks == HeldWith(r, hit) \o new
  <1>1. Asked(r, hit, n, memo) /\ Granted(r, hit, n, memo, new)
    BY ZenonT(30) DEF Allocates
  <1>2. blocks \in Seq(Usable)
    BY <1>1 DEF Granted
  <1>3. ASSUME NEW p \in (ComputedWith(r, hit) + 1)..(ComputedWith(r, hit) + n)
        PROVE  blocks[CeilDiv(p, BlockSize)] # b
    <2> DEFINE i == CeilDiv(p, BlockSize)
    <2>1. i \in 1..Len(blocks) /\ (blocks[i] \in ToSet(new) \/ pool.hash[blocks[i]] = NoHash)
      BY <1>1, WritesToOwn
    <2> HIDE DEF i, blocks
    <2>2. blocks[i] \in ToSet(blocks)
      BY <1>2, <2>1, Items
    <2> QED
      BY ZenonT(30), <2>1, <2>2 DEF i, blocks
  <1>4. \A s \in Slots : Misses(r, hit, n, new, b, s)
    BY ZenonT(30), <1>3 DEF Misses
  <1> QED
    BY <1>4, SameSlot

\* A request that gets no blocks now finds what it found.
LEMMA OthersOwn ==
    ASSUME KVInv, NEW r \in Requests, NEW hit, NEW n, NEW memo, NEW new,
           Allocates(r, hit, n, memo, new), NEW q \in Requests, q # r, Own(q)
    PROVE  Own(q)'
  <1> SUFFICES ASSUME NEW p \in 1..Total(q)'
               PROVE  Written'[BlockOf(q, p)'][SlotOf(p)] = Entry(q, p)'
    BY DEF Own, SlotOf
  <1>1. Total(q)' = Total(q) /\ reqBlocks'[q] = reqBlocks[q]
        /\ reqBlocks'[r] = HeldWith(r, hit) \o new
    BY AllocatesIs
  <1>2. Asked(r, hit, n, memo) /\ Granted(r, hit, n, memo, new) /\ tokens' = tokens
    BY DEF Allocates
  <1> DEFINE j == CeilDiv(p, BlockSize)
             b == reqBlocks[q][j]
  <1>3. j \in 1..Len(reqBlocks[q]) /\ SlotOf(p) \in Slots /\ BlockOf(q, p) = b /\ b \in Usable
    BY <1>1, Placed
  <1>4. BlockOf(q, p)' = b /\ Entry(q, p)' = Entry(q, p)
    BY ZenonT(30), <1>1, <1>2 DEF BlockOf, Entry
  <1>5. \A i \in 1..Len(reqBlocks'[r]) : reqBlocks'[r][i] = b => pool.hash[b] # NoHash
    BY <1>2, <1>3, OthersKeep
  <1> HIDE DEF j, b
  <1>6. b \in ToSet(reqBlocks[q])
    <2>1. reqBlocks[q] \in Seq(Usable)
      BY DEF KVInv, Counted
    <2> QED
      BY <1>3, <2>1, Items DEF b
  <1>7. b \notin ToSet(new) /\ HeldWith(r, hit) \o new \in Seq(Usable)
    BY ZenonT(30), <1>2, <1>6 DEF Granted
  <1>8. b \notin ToSet(HeldWith(r, hit) \o new) \/ pool.hash[b] # NoHash
    <2> DEFINE blocks == HeldWith(r, hit) \o new
    <2>1. blocks \in Seq(Usable) /\ \A i \in 1..Len(blocks) : blocks[i] = b => pool.hash[b] # NoHash
      BY ZenonT(30), <1>1, <1>5, <1>7
    <2> HIDE DEF blocks
    <2>2. b \notin ToSet(blocks) \/ pool.hash[b] # NoHash
      BY <2>1, Items
    <2> QED
      BY <2>2 DEF blocks
  <1>9. Written'[b][SlotOf(p)] = Written[b][SlotOf(p)]
    BY ZenonT(30), <1>3, <1>7, <1>8, SameBlock DEF Usable
  <1>10. Written[b][SlotOf(p)] = Entry(q, p)
    BY <1>1, <1>3 DEF Own
  <1> QED
    BY <1>4, <1>9, <1>10

\* The request that gets them finds what it had computed, or what the hashes of the
\* blocks it hits stand for, and the entries of the tokens now scheduled.
LEMMA OwnGranted ==
    ASSUME KVInv, KVInv', Stored', NEW M, Isolated(M), NEW r \in Requests, NEW hit, NEW n,
           NEW memo, NEW new, Allocates(r, hit, n, memo, new),
           \A i \in 1..Len(hit) : M[memo[i]] = SubSeq(tokens[r], 1, i * BlockSize)
    PROVE  Own(r)'
  <1> DEFINE c == ComputedWith(r, hit)
             held == HeldWith(r, hit)
             blocks == held \o new
  <1> SUFFICES ASSUME NEW p \in 1..Total(r)'
               PROVE  Written'[BlockOf(r, p)'][SlotOf(p)] = Entry(r, p)'
    BY DEF Own, SlotOf
  <1>1. Asked(r, hit, n, memo) /\ Granted(r, hit, n, memo, new) /\ tokens' = tokens
    BY DEF Allocates
  <1>2. /\ scheduled[r] = 0 /\ c \in Nat /\ n \in Nat /\ computed'[r] = c
        /\ Total(r)' = c + n /\ reqBlocks'[r] = blocks
    BY AllocatesIs
  <1>3. CASE p > c
    <2>1. p \in (computed'[r] + 1)..Total(r)'
      BY <1>2, <1>3
    <2> QED
      BY <2>1 DEF Stored, SlotOf
  <1>4. CASE p <= c
    <2> DEFINE i == CeilDiv(p, BlockSize)
               s == SlotOf(p)
               b == held[i]
    <2>1. p \in Nat \ {0} /\ p \in 1..c
      BY <1>2, <1>4
    <2>2. /\ held \in Seq(Usable) /\ Distinct(held) /\ Len(held) = CeilDiv(c, BlockSize)
          /\ ToSet(held) = ToSet(reqBlocks[r]) \cup ToSet(hit)
      BY <1>1, AskedNumbers
    <2>3. /\ blocks \in Seq(Usable) /\ Distinct(blocks) /\ ToSet(held) \cap ToSet(new) = {}
          /\ \A j \in 1..Len(held) : blocks[j] = held[j]
          /\ Len(blocks) = CeilDiv(c + n, BlockSize)
      BY ZenonT(30), <1>1 DEF Granted
    <2> HIDE DEF c, held, blocks
    <2>4. i \in 1..Len(held)
      <3>1. CeilDiv(p, BlockSize) <= CeilDiv(c, BlockSize) /\ CeilDiv(c, BlockSize) \in Nat
        BY ZenonT(30), <1>2, <1>4, <2>1, MoreTokens, CeilDivIs, PoolAssumption
      <3>2. i \in Nat \ {0}
        BY <2>1, PlaceIs
      <3> QED
        BY <2>2, <3>1, <3>2
    <2>5. s \in Slots /\ p = (i - 1) * BlockSize + s /\ i \in Nat \ {0}
      BY <2>1, PlaceIs
    <2>6. b \in ToSet(held) /\ b \in Usable /\ b \notin ToSet(new) /\ blocks[i] = b
          /\ i \in 1..Len(blocks)
      <3>1. b \in ToSet(held) /\ b \in Usable
        BY ZenonT(30), <2>2, <2>4, Items
      <3>2. Len(held) <= Len(blocks) /\ Len(held) \in Nat /\ Len(blocks) \in Nat
        <4>1. c + n \in Nat /\ c <= c + n
          BY <1>2
        <4>2. CeilDiv(c, BlockSize) <= CeilDiv(c + n, BlockSize)
          BY ZenonT(30), <1>2, <4>1, MoreTokens, PoolAssumption
        <4> QED
          BY <2>2, <2>3, <4>2
      <3> QED
        BY <2>3, <2>4, <3>1, <3>2
    <2>7. BlockOf(r, p)' = b /\ Entry(r, p)' = SubSeq(tokens[r], 1, p)
      BY <1>1, <1>2, <2>6 DEF BlockOf, Entry
    <2>8. ASSUME NEW q \in (c + 1)..(c + n), blocks[CeilDiv(q, BlockSize)] = b, SlotOf(q) = s
          PROVE  FALSE
      <3>1. q \in Nat \ {0} /\ q # p /\ q \in 1..Total(r)'
        BY <1>2, <1>4, <2>1
      <3>2. CeilDiv(q, BlockSize) \in 1..Len(blocks)
        BY <1>1, WritesToOwn DEF c, blocks, held
      <3>3. CeilDiv(q, BlockSize) = i
        BY <2>3, <2>6, <2>8, <3>2 DEF Distinct
      <3>4. q = (CeilDiv(q, BlockSize) - 1) * BlockSize + SlotOf(q)
        BY ZenonT(30), <3>1, PlaceIs
      <3> QED
        BY ZenonT(30), <2>5, <2>8, <3>1, <3>3, <3>4
    <2>9. Written'[b][s] = Written[b][s]
      <3>1. Misses(r, hit, n, new, b, s)
        BY ZenonT(30), <2>8 DEF Misses, c, blocks, held
      <3>2. b \in Blocks
        BY ZenonT(30), <2>6 DEF Usable
      <3> QED
        BY ZenonT(30), <2>5, <2>6, <3>1, <3>2, SameSlot
    <2>10. Written[b][s] = SubSeq(tokens[r], 1, p)
      <3>1. CASE hit = <<>>
        <4>1. held = reqBlocks[r] /\ c = computed[r] /\ Total(r) = computed[r]
          <5>1. reqBlocks[r] \in Seq(Usable) /\ computed[r] \in Nat
            BY ZenonT(30) DEF KVInv, Counted, Types
          <5>2. held = reqBlocks[r]
            BY <3>1, <5>1 DEF held, HeldWith
          <5>3. c = computed[r]
            BY <3>1, <5>1, PoolAssumption DEF c, ComputedWith
          <5> QED
            BY <1>2, <5>1, <5>2, <5>3 DEF Total
        <4>2. BlockOf(r, p) = b
          BY <4>1 DEF BlockOf
        <4> QED
          BY ZenonT(30), <2>1, <4>1, <4>2 DEF Isolated, Own, Entry
      <3>2. CASE reqBlocks[r] = <<>>
        <4>1. /\ hit \in Seq(Usable) /\ Chained(memo) /\ Len(hit) <= Len(memo)
              /\ Len(memo) <= Len(tokens[r]) \div BlockSize
              /\ \A j \in 1..Len(hit) : pool.hash[hit[j]] = memo[j]
          BY <1>1 DEF Asked
        <4>2. held = hit
          BY <3>2, <4>1 DEF held, HeldWith
        <4>3. /\ i \in 1..Len(hit) /\ i \in 1..Len(memo) /\ pool.hash[b] = memo[i]
              /\ Len(memo) \in Nat
          BY <2>4, <4>1, <4>2 DEF Chained
        <4>4. pool.hash[b] # NoHash /\ Len(pool.hash[b]) = i
          BY ZenonT(30), <4>1, <4>3, PlaceInChain
        <4>5. Written[b][s] = SubSeq(M[memo[i]], 1, p)
          <5>1. b \in Blocks
            BY <2>6 DEF Usable
          <5>2. Written[b][s] = SubSeq(M[pool.hash[b]], 1, (Len(pool.hash[b]) - 1) * BlockSize + s)
            BY ZenonT(30), <2>5, <4>4, <5>1 DEF Isolated, Holds
          <5> QED
            BY ZenonT(30), <2>5, <4>3, <4>4, <5>2
        <4>6. M[memo[i]] = SubSeq(tokens[r], 1, i * BlockSize)
          BY <4>3
        <4>7. tokens[r] \in Seq(Nat) /\ i * BlockSize \in Nat /\ p \in 1..(i * BlockSize)
              /\ i * BlockSize <= Len(tokens[r])
          <5>1. tokens[r] \in Seq(Nat) /\ Len(tokens[r]) \in Nat
            BY DEF KVInv, Types
          <5>2. p <= i * BlockSize /\ i * BlockSize \in Nat
            BY <2>1, <2>5, PlaceIs, PoolAssumption
          <5>3. i <= Len(tokens[r]) \div BlockSize
            BY <4>1, <4>3, <5>1, FullCounts
          <5>4. \A x, y \in Nat : y <= x \div BlockSize => y * BlockSize <= x
            BY PoolAssumption
          <5> QED
            BY <2>1, <2>5, <5>1, <5>2, <5>3, <5>4
        <4> HIDE DEF i
        <4> QED
          BY ZenonT(30), <4>5, <4>6, <4>7, PrefixOfPrefix
      <3> QED
        BY ZenonT(30), <1>1, <3>1, <3>2 DEF Asked
    <2> QED
      BY <2>7, <2>9, <2>10
  <1> QED
    BY <1>2, <1>3, <1>4

\* A block is published with the hash of what its request writes to it, or is as before.
LEMMA HoldsGranted ==
    ASSUME KVInv, NEW M, Isolated(M), HashMeans(M)', NEW r \in Requests, NEW hit, NEW n,
           NEW memo, NEW new, Allocates(r, hit, n, memo, new), Own(r)', NEW b \in Blocks
    PROVE  Holds(M, b)'
  <1> DEFINE c == ComputedWith(r, hit)
             m == FullBlocks(r, hit, n)
             blocks == HeldWith(r, hit) \o new
             h == pool'.hash[b]
  <1> SUFFICES ASSUME h # NoHash, NEW s \in Slots
               PROVE  Written'[b][s] = SubSeq(M[h], 1, (Len(h) - 1) * BlockSize + s)
    BY DEF Holds
  <1>1. Asked(r, hit, n, memo) /\ Granted(r, hit, n, memo, new) /\ tokens' = tokens
    BY DEF Allocates
  <1>2. c \in Nat /\ n \in Nat /\ Total(r)' = c + n /\ reqBlocks'[r] = blocks
    BY AllocatesIs
  <1>3. m \in Nat /\ m = (c + n) \div BlockSize /\ c + n <= Len(tokens[r])
    <2>1. m \in Nat /\ m = (c + n) \div BlockSize
      BY <1>1, AskedNumbers
    <2> QED
      BY ZenonT(30), <1>1, <2>1 DEF Asked
  <1>4. /\ blocks \in Seq(Usable)
        /\ ToSet(blocks) = ToSet(HeldWith(r, hit)) \cup ToSet(new)
        /\ Chained(reqHashes'[r]) /\ Len(reqHashes'[r]) \in m..(Len(tokens[r]) \div BlockSize)
        /\ \A i \in 1..Len(blocks) :
              pool'.hash[blocks[i]] = IF i <= m THEN reqHashes'[r][i] ELSE NoHash
        /\ b \notin ToSet(blocks) => pool'.hash[b] = pool.hash[b]
    BY ZenonT(30), <1>1 DEF Granted
  <1> HIDE DEF c, m
  <1>5. CASE b \in ToSet(blocks)
    <2> HIDE DEF blocks
    <2>1. PICK i \in 1..Len(blocks) : blocks[i] = b
      <3>1. blocks \in Seq(Usable)
        BY ZenonT(30), <1>4
      <3>2. \E i \in 1..Len(blocks) : blocks[i] = b
        BY ZenonT(30), <1>5, <3>1, Items
      <3> QED
        BY ZenonT(30), <3>2
    <2>2. i \in Nat \ {0} /\ i <= m /\ h = reqHashes'[r][i]
      BY <1>4, <2>1
    <2>3. i \in 1..Len(reqHashes'[r]) /\ reqHashes'[r] # <<>>
      <3>1. Len(reqHashes'[r]) \in Nat
        BY <1>4 DEF Chained
      <3>2. m <= Len(reqHashes'[r])
        BY <1>4
      <3>3. i \in 1..Len(reqHashes'[r])
        BY <1>3, <2>2, <3>1, <3>2
      <3> QED
        BY <3>3
    <2>4. Len(h) = i
      BY <1>4, <2>2, <2>3, PlaceInChain
    <2>5. M[h] = SubSeq(tokens[r], 1, i * BlockSize)
      <3>1. BlockHashes(r)' = reqHashes'[r]
        BY <2>3 DEF BlockHashes
      <3> QED
        BY ZenonT(30), <1>1, <2>2, <2>3, <3>1 DEF HashMeans
    <2> DEFINE p == (i - 1) * BlockSize + s
    <2>6. p \in Nat \ {0} /\ CeilDiv(p, BlockSize) = i /\ SlotOf(p) = s /\ p <= i * BlockSize
      BY ZenonT(30), <2>2, PlaceBack
    <2> HIDE DEF p
    <2>7. i * BlockSize \in Nat /\ i * BlockSize <= c + n
      <3>1. \A x, y \in Nat : y <= x \div BlockSize => y * BlockSize <= x /\ y * BlockSize \in Nat
        BY PoolAssumption
      <3>2. c + n \in Nat
        BY <1>2
      <3> QED
        BY <1>3, <2>2, <3>1, <3>2
    <2>8. p \in 1..Total(r)'
      BY <1>2, <2>6, <2>7
    <2>9. Written'[b][s] = SubSeq(tokens[r], 1, p)
      <3>1. BlockOf(r, p)' = b /\ Entry(r, p)' = SubSeq(tokens[r], 1, p)
        BY <1>1, <1>2, <2>1, <2>6 DEF BlockOf, Entry
      <3>2. Written'[BlockOf(r, p)'][SlotOf(p)] = Entry(r, p)'
        BY <2>8 DEF Own, SlotOf
      <3> QED
        BY <2>6, <3>1, <3>2
    <2>10. SubSeq(SubSeq(tokens[r], 1, i * BlockSize), 1, p) = SubSeq(tokens[r], 1, p)
      <3>1. tokens[r] \in Seq(Nat) /\ Len(tokens[r]) \in Nat /\ c + n \in Nat
        BY <1>2 DEF KVInv, Types
      <3>2. p \in 1..(i * BlockSize) /\ i * BlockSize <= Len(tokens[r])
        BY <1>3, <2>6, <2>7, <3>1
      <3> QED
        BY <2>7, <3>1, <3>2, PrefixOfPrefix
    <2> QED
      BY ZenonT(30), <2>4, <2>5, <2>9, <2>10 DEF p
  <1>6. CASE b \notin ToSet(blocks)
    <2>1. b \notin ToSet(new) /\ pool'.hash[b] = pool.hash[b]
      BY <1>4, <1>6
    <2>2. Written'[b][s] = Written[b][s]
      BY ZenonT(30), <1>6, <2>1, SameBlock
    <2>3. Written[b][s] = SubSeq(M[pool.hash[b]], 1, (Len(pool.hash[b]) - 1) * BlockSize + s)
      BY <2>1 DEF Isolated, Holds
    <2> QED
      BY ZenonT(30), <2>1, <2>2, <2>3
  <1> QED
    BY <1>5, <1>6

\* allocate_slots keeps the requests apart.
LEMMA IsolatedAllocate ==
    ASSUME KVInv, KVInv', Stored', NEW M, Isolated(M), HashMeans(M)', NEW r \in Requests,
           NEW hit, NEW n, NEW memo, NEW new, Allocates(r, hit, n, memo, new),
           \A i \in 1..Len(hit) : M[memo[i]] = SubSeq(tokens[r], 1, i * BlockSize)
    PROVE  Isolated(M)'
  <1>1. Own(r)'
    BY OwnGranted
  <1>2. ASSUME NEW q \in Requests, q # r PROVE Own(q)'
    BY <1>2, OthersOwn DEF Isolated
  <1>3. ASSUME NEW b \in Blocks PROVE Holds(M, b)'
    BY <1>1, HoldsGranted
  <1> QED
    BY ZenonT(30), <1>1, <1>2, <1>3 DEF Isolated

\* A waiting or preempted request gets its blocks, some of them hit in the cache.
LEMMA IsolatedNew ==
    ASSUME KVInv, KVInv', Stored', NEW M, Isolated(M), HashMeans(M), HashMeans(M)',
           NEW r \in Requests, AllocateNew(r)
    PROVE  Isolated(M)'
  <1>1. Tried(r)
    BY DEF AllocateNew
  <1>2. PICK hit \in Hits(r) : \E n \in ChunksAfter(r, hit) : AllocateNewWith(r, hit, n)
    BY DEF AllocateNew
  <1>3. PICK n \in ChunksAfter(r, hit) : AllocateNewWith(r, hit, n)
    BY <1>2
  <1> DEFINE memo == BlockHashes(r)
  <1>4. Asked(r, hit, n, memo)
    BY <1>1, NewAsks
  <1>5. CanAllocate(r, hit, n) /\ AllocateSlots(r, hit, n, memo)
    BY <1>3 DEF AllocateNewWith
  <1>6. PICK new : Granted(r, hit, n, memo, new)
    BY <1>4, <1>5, AllocateIs
  <1>7. Allocates(r, hit, n, memo, new)
    BY ZenonT(30), <1>3, <1>4, <1>6 DEF Allocates, AllocateNewWith
  <1>8. \A i \in 1..Len(hit) : M[memo[i]] = SubSeq(tokens[r], 1, i * BlockSize)
    <2>1. hit \in Seq(Usable) /\ Len(hit) <= Len(BlockHashes(r)) /\ Len(BlockHashes(r)) \in Nat
      BY HitsAre, BlockHashesAre DEF Chained
    <2>2. \A i \in 1..Len(hit) : i \in 1..Len(BlockHashes(r))
      BY <2>1
    <2> QED
      BY <2>2 DEF HashMeans
  <1> HIDE DEF memo
  <1> QED
    BY <1>7, <1>8, IsolatedAllocate

\* A running request gets more blocks.
LEMMA IsolatedMore ==
    ASSUME KVInv, KVInv', Stored', NEW M, Isolated(M), HashMeans(M)', NEW r \in Requests,
           AllocateMore(r)
    PROVE  Isolated(M)'
  <1>1. Continues(r)
    BY DEF AllocateMore
  <1>2. PICK n \in Chunks(r) : AllocateMoreWith(r, n)
    BY ZenonT(30) DEF AllocateMore
  <1> DEFINE memo == reqHashes[r]
             hit == <<>>
  <1>3. Asked(r, hit, n, memo) /\ ComputedWith(r, hit) = computed[r]
    BY <1>1, MoreAsks
  <1>4. CanAllocate(r, hit, n) /\ AllocateSlots(r, hit, n, memo)
    BY <1>2 DEF AllocateMoreWith
  <1> HIDE DEF memo, hit
  <1>5. PICK new : Granted(r, hit, n, memo, new)
    BY <1>3, <1>4, AllocateIs
  <1>6. Allocates(r, hit, n, memo, new)
    <2>1. computed' = computed /\ scheduled' = [scheduled EXCEPT ![r] = n] /\ tokens' = tokens
      BY <1>2 DEF AllocateMoreWith
    <2>2. computed' = [computed EXCEPT ![r] = ComputedWith(r, hit)]
      BY <1>3, <2>1 DEF KVInv, Types
    <2> QED
      BY ZenonT(30), <1>3, <1>5, <2>1, <2>2 DEF Allocates
  <1>7. \A i \in 1..Len(hit) : M[memo[i]] = SubSeq(tokens[r], 1, i * BlockSize)
    BY DEF hit
  <1> QED
    BY <1>6, <1>7, IsolatedAllocate

\* A step that changes no entry, publishes nothing and lets a request keep its tokens
\* and blocks or lose its blocks keeps them apart.
SameEntries == \A b \in Blocks, s \in Slots : Written'[b][s] = Written[b][s]
NonePublished == \A b \in Blocks : pool'.hash[b] = pool.hash[b] \/ pool'.hash[b] = NoHash
StaysOrLeaves(r) ==
    \/ Total(r)' = 0
    \/ /\ Total(r)' = Total(r) /\ reqBlocks'[r] = reqBlocks[r]
       /\ \A p \in 1..Total(r) : Entry(r, p)' = Entry(r, p)
LEMMA IsolatedKeeps ==
    ASSUME KVInv, NEW M, Isolated(M), SameEntries, NonePublished,
           \A r \in Requests : StaysOrLeaves(r)
    PROVE  Isolated(M)'
  <1>1. ASSUME NEW r \in Requests PROVE Own(r)'
    <2> SUFFICES ASSUME NEW p \in 1..Total(r)'
                 PROVE  Written'[BlockOf(r, p)'][SlotOf(p)] = Entry(r, p)'
      BY DEF Own, SlotOf
    <2>1. Total(r)' # 0
      OBVIOUS
    <2>2. /\ p \in 1..Total(r) /\ reqBlocks'[r] = reqBlocks[r] /\ Entry(r, p)' = Entry(r, p)
      BY <2>1 DEF StaysOrLeaves
    <2>3. BlockOf(r, p) \in Blocks /\ SlotOf(p) \in Slots
      BY ZenonT(30), <2>2, Placed DEF Usable
    <2>4. BlockOf(r, p)' = BlockOf(r, p)
      BY <2>2 DEF BlockOf
    <2>5. Written[BlockOf(r, p)][SlotOf(p)] = Entry(r, p)
      BY <2>2 DEF Isolated, Own
    <2> QED
      BY ZenonT(30), <2>2, <2>3, <2>4, <2>5 DEF SameEntries
  <1>2. ASSUME NEW b \in Blocks PROVE Holds(M, b)'
    <2> SUFFICES ASSUME pool'.hash[b] # NoHash, NEW s \in Slots
                 PROVE  Written'[b][s]
                        = SubSeq(M[pool'.hash[b]], 1, (Len(pool'.hash[b]) - 1) * BlockSize + s)
      BY DEF Holds
    <2>1. pool'.hash[b] = pool.hash[b] /\ Written'[b][s] = Written[b][s]
      BY DEF NonePublished, SameEntries
    <2> QED
      BY <2>1 DEF Isolated, Holds
  <1> QED
    BY <1>1, <1>2 DEF Isolated

\* A step that only moves requests in and out of the queues, or resets the cache.
LEMMA IsolatedIdle ==
    ASSUME KVInv, NEW M, Isolated(M), NonePublished,
           UNCHANGED <<reqBlocks, tokens, computed, scheduled, content>>
    PROVE  Isolated(M)'
  <1>1. SameEntries
    BY DEF SameEntries, Written, WritesTo, Writes, BlockOf, SlotOf, Entry
  <1>2. \A r \in Requests : StaysOrLeaves(r)
    BY DEF StaysOrLeaves, Total, Entry
  <1> QED
    BY ZenonT(30), <1>1, <1>2, IsolatedKeeps

\* KVCacheManager.free: what the blocks hold stays there.
LEMMA IsolatedRelease ==
    ASSUME KVInv, NEW M, Isolated(M), NEW r \in Requests, scheduled[r] = 0, FreeRequest(r),
           computed' = [computed EXCEPT ![r] = 0], UNCHANGED <<scheduled, content>>,
           tokens' = tokens \/ tokens' = [tokens EXCEPT ![r] = Prompt[r]]
    PROVE  Isolated(M)'
  <1>1. /\ computed \in [Requests -> Nat] /\ scheduled \in [Requests -> Nat]
        /\ DOMAIN tokens = Requests /\ DOMAIN reqBlocks = Requests /\ Counted(pool, reqBlocks)
    BY DEF KVInv, Types, Counted
  <1>2. /\ pool' = FreeBlocks(pool, FreeOrder(reqBlocks[r]))
        /\ reqBlocks' = [reqBlocks EXCEPT ![r] = <<>>]
    BY ZenonT(30) DEF FreeRequest
  <1>3. NonePublished
    <2>1. pool'.hash = pool.hash
      BY ZenonT(30), <1>1, <1>2, FreeOne
    <2> QED
      BY <2>1 DEF NonePublished
  <1>4. \A q \in Requests : q # r =>
            /\ computed'[q] = computed[q] /\ scheduled'[q] = scheduled[q]
            /\ reqBlocks'[q] = reqBlocks[q] /\ tokens'[q] = tokens[q]
    BY <1>1, <1>2
  <1>5. computed'[r] = 0 /\ scheduled'[r] = 0
    BY <1>1
  <1>6. ASSUME NEW q \in Requests PROVE StaysOrLeaves(q)
    BY <1>4, <1>5 DEF StaysOrLeaves, Total, Entry
  <1>7. ASSUME NEW b \in Blocks, NEW s \in Slots PROVE Written'[b][s] = Written[b][s]
    <2>1. ASSUME NEW w \in Requests \X (1..MaxModelLen)
          PROVE  /\ w \in WritesTo(b, s)' <=> w \in WritesTo(b, s)
                 /\ w \in WritesTo(b, s) => w[1] # r
      <3>1. w[1] \in Requests
        OBVIOUS
      <3>2. w \in WritesTo(b, s) <=>
                /\ w[2] \in (computed[w[1]] + 1)..(computed[w[1]] + scheduled[w[1]])
                /\ reqBlocks[w[1]][CeilDiv(w[2], BlockSize)] = b /\ SlotOf(w[2]) = s
        BY DEF WritesTo, Writes, BlockOf
      <3>3. w \in WritesTo(b, s)' <=>
                /\ w[2] \in (computed'[w[1]] + 1)..(computed'[w[1]] + scheduled'[w[1]])
                /\ reqBlocks'[w[1]][CeilDiv(w[2], BlockSize)] = b /\ SlotOf(w[2]) = s
        BY DEF WritesTo, Writes, BlockOf, SlotOf
      <3>4. \A k \in Nat : (k + 1)..(k + 0) = {}
        OBVIOUS
      <3>5. CASE w[1] # r
        BY ZenonT(30), <1>4, <3>1, <3>2, <3>3, <3>5
      <3>6. CASE w[1] = r
        <4>1. (computed[r] + 1)..(computed[r] + scheduled[r]) = {}
              /\ (computed'[r] + 1)..(computed'[r] + scheduled'[r]) = {}
          BY ZenonT(30), <1>1, <1>5, <3>4
        <4> QED
          BY ZenonT(30), <3>2, <3>3, <3>6, <4>1
      <3> QED
        BY <3>5, <3>6
    <2>2. WritesTo(b, s) \subseteq Requests \X (1..MaxModelLen)
          /\ WritesTo(b, s)' \subseteq Requests \X (1..MaxModelLen)
      BY DEF WritesTo, Writes
    <2>3. WritesTo(b, s)' = WritesTo(b, s)
      BY ZenonT(30), <2>1, <2>2
    <2>4. ASSUME NEW w \in WritesTo(b, s) PROVE Entry(w[1], w[2])' = Entry(w[1], w[2])
      <3>1. w \in Requests \X (1..MaxModelLen)
        BY <2>2
      <3>2. w[1] \in Requests /\ w[1] # r
        BY <2>1, <3>1
      <3> QED
        BY ZenonT(30), <1>4, <3>2 DEF Entry
    <2> QED
      BY <2>3, <2>4, WrittenSame
  <1>8. SameEntries
    BY <1>7 DEF SameEntries
  <1> QED
    BY ZenonT(30), <1>3, <1>6, <1>8, IsolatedKeeps

\* The forward pass writes what was to be written, and a request grows at its end.
LEMMA IsolatedExecute ==
    ASSUME KVInv, NEW M, Isolated(M), ExecuteStep
    PROVE  Isolated(M)'
  <1>1. PICK t, S : Executed(t, S)
    BY ExecuteIs
  <1>2. /\ content' = Written /\ scheduled' = [r \in Requests |-> 0] /\ pool'.hash = pool.hash
        /\ computed' = [r \in Requests |-> IF r \in S THEN 0 ELSE computed[r] + scheduled[r]]
        /\ reqBlocks' = [r \in Requests |-> IF r \in S THEN <<>> ELSE reqBlocks[r]]
        /\ tokens' = [r \in Requests |->
               IF r \in S THEN Prompt[r]
               ELSE IF r \in Sampled THEN Append(tokens[r], t[r]) ELSE tokens[r]]
        /\ S \subseteq Sampled /\ \A r \in Sampled : t[r] \in Nat
    BY ZenonT(30), <1>1 DEF Executed
  <1>3. computed \in [Requests -> Nat] /\ scheduled \in [Requests -> Nat]
        /\ tokens \in [Requests -> Seq(Nat)]
    BY DEF KVInv, Types
  <1>4. NonePublished
    BY <1>2 DEF NonePublished
  <1>5. ASSUME NEW r \in Requests PROVE StaysOrLeaves(r)
    <2>1. scheduled'[r] = 0
      BY <1>2
    <2>2. CASE r \in S
      BY <1>2, <2>1, <2>2 DEF StaysOrLeaves, Total
    <2>3. CASE r \notin S
      <3>1. computed'[r] = computed[r] + scheduled[r] /\ reqBlocks'[r] = reqBlocks[r]
        BY <1>2, <2>3
      <3>2. Total(r)' = Total(r) /\ Total(r) \in Nat
        BY <1>3, <2>1, <3>1 DEF Total
      <3>3. Total(r) <= Len(tokens[r]) /\ Len(tokens[r]) \in Nat /\ tokens[r] \in Seq(Nat)
        BY <1>3 DEF KVInv, Progress
      <3>4. ASSUME NEW p \in 1..Total(r) PROVE Entry(r, p)' = Entry(r, p)
        <4>1. p \in 1..Len(tokens[r])
          BY <3>2, <3>3
        <4>2. tokens'[r] = IF r \in Sampled THEN Append(tokens[r], t[r]) ELSE tokens[r]
          BY <1>2, <2>3
        <4>3. r \in Sampled => t[r] \in Nat
          BY <1>2
        <4>4. SubSeq(tokens'[r], 1, p) = SubSeq(tokens[r], 1, p)
          BY ZenonT(30), <3>3, <4>1, <4>2, <4>3, PrefixOfMore
        <4> QED
          BY <4>4 DEF Entry
      <3> QED
        BY ZenonT(30), <3>1, <3>2, <3>4 DEF StaysOrLeaves
    <2> QED
      BY ZenonT(30), <2>2, <2>3
  <1>6. ASSUME NEW b \in Blocks, NEW s \in Slots PROVE Written'[b][s] = Written[b][s]
    <2>1. ASSUME NEW w \in WritesTo(b, s)' PROVE FALSE
      <3>1. w[1] \in Requests /\ w[2] \in (computed'[w[1]] + 1)..(computed'[w[1]] + scheduled'[w[1]])
        BY DEF WritesTo, Writes
      <3>2. computed'[w[1]] \in Nat /\ scheduled'[w[1]] = 0
        BY <1>2, <1>3, <3>1
      <3>3. \A k \in Nat : (k + 1)..(k + 0) = {}
        OBVIOUS
      <3> QED
        BY ZenonT(30), <3>1, <3>2, <3>3
    <2>2. Written'[b][s] = After(b, s)'
      BY Zenon DEF Written, After, Writer
    <2>3. After(b, s)' = content'[b][s]
      BY <2>1 DEF After
    <2> QED
      BY <1>2, <2>2, <2>3
  <1>7. SameEntries
    BY <1>6 DEF SameEntries
  <1> QED
    BY ZenonT(30), <1>4, <1>5, <1>7, IsolatedKeeps

\* Every step keeps them apart, as long as M tells the inputs behind the hashes.
LEMMA IsolatedStep ==
    ASSUME NEW M
    PROVE  /\ KVInv /\ KVInv' /\ Stored' /\ HashMeans(M) /\ HashMeans(M)'
           /\ Isolated(M) /\ [Next]_vars
           => Isolated(M)'
  <1> SUFFICES ASSUME KVInv, KVInv', Stored', HashMeans(M), HashMeans(M)', Isolated(M), [Next]_vars
               PROVE  Isolated(M)'
    OBVIOUS
  <1>1. CASE UNCHANGED <<pool, reqBlocks, tokens, computed, scheduled, content>>
    <2>1. NonePublished
      BY <1>1 DEF NonePublished
    <2> QED
      BY <1>1, <2>1, IsolatedIdle
  <1>2. ASSUME NEW r \in Requests, AllocateNew(r) PROVE Isolated(M)'
    BY <1>2, IsolatedNew
  <1>3. ASSUME NEW r \in Requests, AllocateMore(r) PROVE Isolated(M)'
    BY <1>3, IsolatedMore
  <1>4. ASSUME NEW r \in Requests, Preempt(r) PROVE Isolated(M)'
    <2>1. /\ scheduled[r] = 0 /\ FreeRequest(r) /\ computed' = [computed EXCEPT ![r] = 0]
          /\ UNCHANGED <<tokens, scheduled, content>>
      BY <1>4 DEF Preempt, Victim, Preempted
    <2> QED
      BY ZenonT(30), <2>1, IsolatedRelease
  <1>5. ASSUME NEW r \in Requests, Abort(r) PROVE Isolated(M)'
    <2>1. /\ scheduled[r] = 0 /\ FreeRequest(r) /\ computed' = [computed EXCEPT ![r] = 0]
          /\ tokens' = [tokens EXCEPT ![r] = Prompt[r]] /\ UNCHANGED <<scheduled, content>>
      BY <1>5 DEF Abort, BetweenSteps
    <2> QED
      BY ZenonT(30), <2>1, IsolatedRelease
  <1>6. CASE ExecuteStep
    BY <1>6, IsolatedExecute
  <1>7. CASE ResetPrefixCache
    <2>1. pool' = ResetPool(pool) /\ PoolInv(pool)
      BY ZenonT(30), <1>7 DEF ResetPrefixCache, KVInv, Counted
    <2>2. pool' = pool \/ \A b \in Blocks : pool'.hash[b] = NoHash
      BY <2>1, ResetIs
    <2>3. NonePublished
      BY <2>2 DEF NonePublished
    <2>4. UNCHANGED <<reqBlocks, tokens, computed, scheduled, content>>
      BY <1>7 DEF ResetPrefixCache
    <2> QED
      BY ZenonT(30), <2>3, <2>4, IsolatedIdle
  <1>8. ASSUME NEW r \in Requests, AddRequest(r) \/ AllocateNewFails(r) PROVE Isolated(M)'
    BY <1>1, <1>8 DEF AddRequest, AllocateNewFails, KeepHashes
  <1>9. CASE UNCHANGED vars
    BY ZenonT(30), <1>1, <1>9 DEF vars
  <1> QED
    BY ZenonT(30), <1>2, <1>3, <1>4, <1>5, <1>6, <1>7, <1>8, <1>9 DEF Next

\* Nothing is published or computed at the start.
LEMMA IsolatedInit == ASSUME NEW M, Init PROVE Isolated(M)
  <1>1. \A b \in Blocks : pool.hash[b] = NoHash
    BY DEF Init, InitPool
  <1>2. \A r \in Requests : Total(r) = 0
    BY DEF Init, Total
  <1> QED
    BY <1>1, <1>2 DEF Isolated, Own, Holds

\* Isolation is what the forward pass needs.
LEMMA IsolatedReads == ASSUME NEW M, Isolated(M) PROVE ReadsOwnPrefix
  BY DEF Isolated, Own, ReadsOwnPrefix, Total

\* Isolation, for any prompts and images: as long as a hash stands for one prefix of
\* inputs, whoever it is computed for, the forward pass of a request finds its own
\* entries at every position it counts as computed, shared blocks included, although
\* blocks are published before they are written and reused after preemption.
THEOREM IsolationTheorem ==
    ASSUME NEW M
    PROVE  Spec /\ []HashMeans(M) => []ReadsOwnPrefix
  <1>1. Init => Isolated(M)
    BY IsolatedInit
  <1>2. Isolated(M) => ReadsOwnPrefix
    BY IsolatedReads
  <1>3. /\ KVInv /\ KVInv' /\ Stored' /\ HashMeans(M) /\ HashMeans(M)'
        /\ Isolated(M) /\ [Next]_vars
        => Isolated(M)'
    BY IsolatedStep
  <1>4. Spec => []KVInv /\ []OneWriter
    BY KVAlways, OneWriterTheorem, PTL
  <1> HIDE DEF HashMeans, Isolated, Stored
  <1> QED
    BY <1>1, <1>2, <1>3, <1>4, StoredAlways, PTL DEF Spec

-----------------------------------------------------------------------------
(* The hashes kept for a request tell the token ids of its blocks.          *)

\* A hash says of every block before its own what that block's hash says.
LEMMA ChainPlaces ==
    ASSUME NEW hs, Chained(hs), NEW i \in 1..Len(hs), NEW j \in 1..i
    PROVE  hs[i][j] = hs[j][j]
  <1>1. /\ hs \in Seq(Hashes) /\ Len(hs) \in Nat /\ i \in Nat /\ j \in Nat /\ j <= i /\ i <= Len(hs)
        /\ j >= 1
    BY DEF Chained
  <1> DEFINE T == {k \in j..i : hs[k][j] = hs[j][j]}
  <1>2. j \in T
    BY <1>1
  <1>3. ASSUME NEW k \in (j + 1)..i, k - 1 \in T PROVE k \in T
    <2>1. k \in 1..Len(hs) /\ k # 1 /\ j \in 1..(k - 1) /\ k - 1 \in Nat /\ k \in j..i
      BY <1>1
    <2>2. hs[k] \in Hashes /\ Len(hs[k]) = k /\ Front(hs[k]) = hs[k - 1]
      BY <1>1, <2>1 DEF Chained
    <2>3. hs[k - 1] = SubSeq(hs[k], 1, k - 1)
      BY <2>2 DEF Front
    <2>4. ASSUME NEW h \in Hashes, Len(h) = k PROVE SubSeq(h, 1, k - 1)[j] = h[j]
      BY <2>1, <2>4 DEF Hashes
    <2>5. hs[k - 1][j] = hs[k][j]
      BY <2>2, <2>3, <2>4
    <2> QED
      BY ZenonT(30), <1>3, <2>1, <2>5
  <1> HIDE DEF T
  <1>4. j..i \subseteq T
    <2>1. j \in Int /\ i \in Int /\ j <= i
      BY <1>1
    <2>2. \A k \in (j + 1)..i : k - 1 \in T => k \in T
      BY <1>3
    <2> QED
      BY ZenonT(30), <1>2, <2>1, <2>2, UpFrom
  <1>5. i \in T
    BY <1>1, <1>4
  <1> QED
    BY <1>5 DEF T

\* The tokens of a block depend on those as far as the block goes.
LEMMA SameTokens ==
    ASSUME NEW u \in Seq(Nat), NEW v \in Seq(Nat), NEW i \in Nat \ {0}, i * BlockSize <= Len(u),
           i * BlockSize <= Len(v), \A p \in 1..(i * BlockSize) : u[p] = v[p]
    PROVE  BlockTokens(u, i) = BlockTokens(v, i)
  <1> DEFINE a == (i - 1) * BlockSize
             b == i * BlockSize
  <1>1. a \in Nat /\ b \in Nat /\ b = a + BlockSize /\ BlockSize \in Nat \ {0}
    BY PoolAssumption
  <1>2. BlockTokens(u, i) = SubSeq(u, a + 1, b) /\ BlockTokens(v, i) = SubSeq(v, a + 1, b)
    BY DEF BlockTokens
  <1>3. b <= Len(u) /\ b <= Len(v) /\ \A p \in 1..b : u[p] = v[p]
    OBVIOUS
  <1> HIDE DEF a, b
  <1>4. ASSUME NEW w \in Seq(Nat), b <= Len(w)
        PROVE  SubSeq(w, a + 1, b) = [k \in 1..BlockSize |-> w[a + k]]
    BY <1>1, <1>4
  <1>5. \A k \in 1..BlockSize : a + k \in 1..b
    BY <1>1
  <1>6. [k \in 1..BlockSize |-> u[a + k]] = [k \in 1..BlockSize |-> v[a + k]]
    BY <1>3, <1>5
  <1> QED
    BY ZenonT(30), <1>2, <1>3, <1>4, <1>6

\* The hashes kept for each request tell its token ids.
Telling == \A r \in Requests : Tells(reqHashes[r], TokenIds(r), 0)

\* So do those get_computed_blocks works with.
LEMMA BlockHashesTell ==
    ASSUME KVInv, Telling, NEW r \in Requests
    PROVE  Tells(BlockHashes(r), TokenIds(r), 0)
  <1>1. CASE ~(reqHashes[r] = <<>> /\ LooksUp(r))
    <2>1. BlockHashes(r) = reqHashes[r]
      BY Zenon, <1>1 DEF BlockHashes
    <2> QED
      BY <2>1 DEF Telling
  <1>2. CASE reqHashes[r] = <<>> /\ LooksUp(r)
    <2>1. BlockHashes(r) = HashRequestTokens(r, TokenIds(r))
      BY Zenon, <1>2 DEF BlockHashes
    <2>2. TokenIds(r) \in Seq(Nat)
      BY ZenonT(30), TokenIdsAre DEF KVInv
    <2> QED
      BY ZenonT(30), <2>1, <2>2, HashesChained, PromptsAre, PoolAssumption
  <1> QED
    BY <1>1, <1>2

\* cache_full_blocks adds hashes of the tokens that are there.
LEMMA TellingGranted ==
    ASSUME KVInv, Telling, NEW r \in Requests, NEW hit, NEW n, NEW memo, NEW new,
           Granted(r, hit, n, memo, new), Chained(memo), Tells(memo, TokenIds(r), 0),
           tokens' = tokens
    PROVE  Telling'
  <1>1. /\ reqHashes' = [reqHashes EXCEPT ![r] = reqHashes'[r]] /\ Chained(reqHashes'[r])
        /\ Tells(reqHashes'[r], TokenIds(r), Len(memo))
        /\ \A i \in 1..Len(memo) : reqHashes'[r][i] = memo[i]
    BY DEF Granted
  <1>2. \A q \in Requests : q # r => reqHashes'[q] = reqHashes[q]
    BY ZenonT(30), <1>1 DEF KVInv, Types
  <1>3. \A q \in Requests : TokenIds(q)' = TokenIds(q)
    BY ZenonT(30) DEF TokenIds
  <1>4. Tells(reqHashes'[r], TokenIds(r), 0)
    <2> SUFFICES ASSUME NEW i \in (0 + 1)..Len(reqHashes'[r])
                 PROVE  reqHashes'[r][i][i][1] = BlockTokens(TokenIds(r), i)
      BY ZenonT(30) DEF Tells
    <2>1. Len(memo) \in Nat /\ Len(reqHashes'[r]) \in Nat
      BY <1>1 DEF Chained
    <2>2. CASE i <= Len(memo)
      <3>1. i \in 1..Len(memo) /\ i \in (0 + 1)..Len(memo)
        BY <2>1, <2>2
      <3> QED
        BY <1>1, <3>1 DEF Tells
    <2>3. CASE i > Len(memo)
      <3>1. i \in (Len(memo) + 1)..Len(reqHashes'[r])
        BY <2>1, <2>3
      <3> QED
        BY ZenonT(30), <1>1, <3>1 DEF Tells
    <2> QED
      <3>1. i <= Len(memo) \/ i > Len(memo)
        BY <2>1
      <3> QED
        BY ZenonT(30), <2>2, <2>3, <3>1
  <1>5. ASSUME NEW q \in Requests PROVE Tells(reqHashes'[q], TokenIds(q), 0)
    BY ZenonT(30), <1>2, <1>4, <1>5 DEF Telling
  <1> QED
    BY ZenonT(30), <1>3, <1>5 DEF Telling, Tells

\* A token appended leaves the full blocks as they are.
LEMMA TellingExecute ==
    ASSUME KVInv, Telling, ExecuteStep
    PROVE  Telling'
  <1>1. PICK t, S : Executed(t, S)
    BY ExecuteIs
  <1>2. /\ reqHashes' = [r \in Requests |-> IF r \in S THEN <<>> ELSE reqHashes[r]]
        /\ tokens' = [r \in Requests |->
               IF r \in S THEN Prompt[r]
               ELSE IF r \in Sampled THEN Append(tokens[r], t[r]) ELSE tokens[r]]
        /\ \A r \in Sampled : t[r] \in Nat
    BY ZenonT(30), <1>1 DEF Executed
  <1> SUFFICES ASSUME NEW r \in Requests, NEW i \in (0 + 1)..Len(reqHashes'[r])
               PROVE  reqHashes'[r][i][i][1] = BlockTokens(TokenIds(r)', i)
    BY DEF Telling, Tells, BlockTokens
  <1>3. r \notin S /\ reqHashes'[r] = reqHashes[r]
    BY <1>2, Fresh
  <1>4. reqHashes[r][i][i][1] = BlockTokens(TokenIds(r), i)
    BY ZenonT(30), <1>3 DEF Telling, Tells
  <1>5. /\ tokens[r] \in Seq(Nat) /\ Len(tokens[r]) \in Nat /\ Chained(reqHashes[r])
        /\ Len(reqHashes[r]) \in numCached[r]..(Len(tokens[r]) \div BlockSize)
        /\ Len(reqHashes[r]) \in Nat /\ numCached[r] \in Nat
    BY DEF KVInv, Types, HashesKept
  <1>6. i \in Nat \ {0} /\ i <= Len(tokens[r]) \div BlockSize
    <2>1. Len(tokens[r]) \div BlockSize \in Nat
      BY ZenonT(30), <1>5, FullCounts
    <2> QED
      BY <1>3, <1>5, <2>1
  <1>7. i * BlockSize \in Nat /\ i * BlockSize <= Len(tokens[r])
    <2>1. \A x, y \in Nat : y <= x \div BlockSize => y * BlockSize <= x /\ y * BlockSize \in Nat
      BY PoolAssumption
    <2> QED
      BY ZenonT(30), <1>5, <1>6, <2>1
  <1>8. /\ tokens'[r] \in Seq(Nat) /\ Len(tokens[r]) <= Len(tokens'[r])
        /\ \A p \in 1..Len(tokens[r]) : tokens'[r][p] = tokens[r][p]
    <2>1. tokens'[r] = IF r \in Sampled THEN Append(tokens[r], t[r]) ELSE tokens[r]
      BY <1>2, <1>3
    <2>2. r \in Sampled => t[r] \in Nat
      BY <1>2
    <2> QED
      BY <1>5, <2>1, <2>2
  <1>9. TokenIds(r) \in Seq(Nat) /\ Len(TokenIds(r)) = Len(tokens[r])
    BY TokenIdsAre DEF KVInv
  <1>10. TokenIds(r)' \in Seq(Nat) /\ Len(TokenIds(r)') = Len(tokens'[r])
    <2> DEFINE m == Len(tokens'[r])
               Id(p) == IF \E j \in DOMAIN MMPositions[r] : Overlaps(r, j, p - 1, 1)
                        THEN ImageToken ELSE tokens'[r][p]
    <2>1. TokenIds(r)' = [p \in 1..m |-> Id(p)]
      BY <1>8 DEF TokenIds
    <2>2. m \in Nat /\ \A p \in 1..m : Id(p) \in Nat
      BY <1>8, ManagerAssumption
    <2> HIDE DEF m, Id
    <2> QED
      BY <2>1, <2>2 DEF m
  <1>11. \A p \in 1..(i * BlockSize) : TokenIds(r)'[p] = TokenIds(r)[p]
    <2> TAKE p \in 1..(i * BlockSize)
    <2>1. p \in 1..Len(tokens[r]) /\ p \in 1..Len(tokens'[r])
      BY <1>5, <1>7, <1>8
    <2>2. tokens'[r][p] = tokens[r][p] /\ p \in DOMAIN tokens[r] /\ p \in DOMAIN tokens'[r]
      BY <1>5, <1>8, <2>1
    <2> QED
      BY <2>2 DEF TokenIds
  <1>12. BlockTokens(TokenIds(r)', i) = BlockTokens(TokenIds(r), i)
    <2>1. i * BlockSize <= Len(TokenIds(r)') /\ i * BlockSize <= Len(TokenIds(r))
      BY <1>5, <1>7, <1>8, <1>9, <1>10
    <2> QED
      BY ZenonT(30), <1>6, <1>9, <1>10, <1>11, <2>1, SameTokens
  <1> QED
    BY <1>3, <1>4, <1>12

\* Every step of the caller keeps the hashes telling the token ids.
LEMMA TellingStep == KVInv /\ Telling /\ [Next]_vars => Telling'
  <1> SUFFICES ASSUME KVInv, Telling, [Next]_vars PROVE Telling'
    OBVIOUS
  <1>1. CASE UNCHANGED <<reqHashes, tokens>>
    BY <1>1 DEF Telling, Tells, TokenIds
  <1>2. ASSUME NEW r \in Requests, AllocateNew(r) PROVE Telling'
    <2>1. Tried(r)
      BY <1>2 DEF AllocateNew
    <2>2. PICK hit \in Hits(r) : \E n \in ChunksAfter(r, hit) : AllocateNewWith(r, hit, n)
      BY <1>2 DEF AllocateNew
    <2>3. PICK n \in ChunksAfter(r, hit) : AllocateNewWith(r, hit, n)
      BY <2>2
    <2>4. Asked(r, hit, n, BlockHashes(r))
      BY <2>1, NewAsks
    <2>5. /\ CanAllocate(r, hit, n) /\ AllocateSlots(r, hit, n, BlockHashes(r))
          /\ tokens' = tokens
      BY <2>3 DEF AllocateNewWith
    <2>6. PICK new : Granted(r, hit, n, BlockHashes(r), new)
      BY ZenonT(30), <2>4, <2>5, AllocateIs
    <2>7. Chained(BlockHashes(r)) /\ Tells(BlockHashes(r), TokenIds(r), 0)
      BY BlockHashesAre, BlockHashesTell
    <2> QED
      BY <2>5, <2>6, <2>7, TellingGranted
  <1>3. ASSUME NEW r \in Requests, AllocateMore(r) PROVE Telling'
    <2>1. Continues(r)
      BY <1>3 DEF AllocateMore
    <2>2. PICK n \in Chunks(r) : AllocateMoreWith(r, n)
      BY <1>3 DEF AllocateMore
    <2>3. Asked(r, <<>>, n, reqHashes[r])
      BY <2>1, MoreAsks
    <2>4. /\ CanAllocate(r, <<>>, n) /\ AllocateSlots(r, <<>>, n, reqHashes[r])
          /\ tokens' = tokens
      BY <2>2 DEF AllocateMoreWith
    <2>5. PICK new : Granted(r, <<>>, n, reqHashes[r], new)
      BY <2>3, <2>4, AllocateIs
    <2>6. Chained(reqHashes[r]) /\ Tells(reqHashes[r], TokenIds(r), 0)
      BY ZenonT(30) DEF KVInv, HashesKept, Telling
    <2> QED
      BY ZenonT(30), <2>4, <2>5, <2>6, TellingGranted
  <1>4. ASSUME NEW r \in Requests, AllocateNewFails(r) PROVE Telling'
    <2>1. reqHashes' = [reqHashes EXCEPT ![r] = BlockHashes(r)] /\ tokens' = tokens
      BY <1>4 DEF AllocateNewFails, KeepHashes
    <2>2. Tells(BlockHashes(r), TokenIds(r), 0)
      BY BlockHashesTell
    <2>3. \A q \in Requests : reqHashes'[q] = IF q = r THEN BlockHashes(r) ELSE reqHashes[q]
      BY ZenonT(30), <2>1 DEF KVInv, Types
    <2>4. \A q \in Requests : TokenIds(q)' = TokenIds(q)
      BY <2>1 DEF TokenIds
    <2>5. ASSUME NEW q \in Requests PROVE Tells(reqHashes'[q], TokenIds(q), 0)
      BY <2>2, <2>3 DEF Telling
    <2> QED
      BY <2>4, <2>5 DEF Telling, Tells
  <1>5. ASSUME NEW r \in Requests, Abort(r) PROVE Telling'
    <2>1. reqHashes' = [reqHashes EXCEPT ![r] = <<>>] /\ tokens' = [tokens EXCEPT ![r] = Prompt[r]]
      BY <1>5 DEF Abort
    <2>2. /\ reqHashes'[r] = <<>>
          /\ \A q \in Requests : q # r => reqHashes'[q] = reqHashes[q] /\ tokens'[q] = tokens[q]
      BY <2>1 DEF KVInv, Types
    <2>3. \A q \in Requests : q # r => TokenIds(q)' = TokenIds(q)
      BY ZenonT(30), <2>2 DEF TokenIds
    <2>4. (0 + 1)..Len(reqHashes'[r]) = {}
      BY <2>2
    <2> SUFFICES ASSUME NEW q \in Requests, NEW i \in (0 + 1)..Len(reqHashes'[q])
                 PROVE  reqHashes'[q][i][i][1] = BlockTokens(TokenIds(q)', i)
      BY DEF Telling, Tells, BlockTokens
    <2>5. q # r
      BY <2>4
    <2> QED
      BY <2>2, <2>3, <2>5 DEF Telling, Tells
  <1>6. CASE ExecuteStep
    BY <1>6, TellingExecute
  <1>7. ASSUME NEW r \in Requests, AddRequest(r) \/ Preempt(r) PROVE Telling'
    BY <1>1, <1>7 DEF AddRequest, Preempt, Preempted
  <1>8. CASE ResetPrefixCache
    BY <1>1, <1>8 DEF ResetPrefixCache
  <1>9. CASE UNCHANGED vars
    BY ZenonT(30), <1>1, <1>9 DEF vars
  <1> QED
    BY ZenonT(30), <1>2, <1>3, <1>4, <1>5, <1>6, <1>7, <1>8, <1>9 DEF Next

-----------------------------------------------------------------------------
(* Requests of text alone: the chain of a hash spells out the prefix.       *)

\* No request has an image.
TextOnly == \A r \in Requests : MMPositions[r] = <<>>

\* The tokens a chain of hashed blocks spells.
TextOf ==
    [h \in Hashes |-> [p \in 1..(Len(h) * BlockSize) |-> h[CeilDiv(p, BlockSize)][1][SlotOf(p)]]]

\* Without images the hash of block i stands for the first i blocks of tokens.
LEMMA TextMeans ==
    ASSUME TextOnly, KVInv, Telling
    PROVE  HashMeans(TextOf)
  <1> SUFFICES ASSUME NEW r \in Requests, NEW i \in 1..Len(BlockHashes(r))
               PROVE  TextOf[BlockHashes(r)[i]] = SubSeq(tokens[r], 1, i * BlockSize)
    BY DEF HashMeans
  <1> DEFINE hs == BlockHashes(r)
  <1>1. /\ Chained(hs) /\ Len(hs) \in 0..(Len(tokens[r]) \div BlockSize)
    BY BlockHashesAre
  <1>2. Tells(hs, TokenIds(r), 0)
    BY BlockHashesTell
  <1>3. tokens[r] \in Seq(Nat) /\ Len(tokens[r]) \in Nat
    BY DEF KVInv, Types
  <1>4. TokenIds(r) = tokens[r]
    <2>1. DOMAIN MMPositions[r] = {}
      BY DEF TextOnly
    <2>2. TokenIds(r) = [p \in DOMAIN tokens[r] |-> tokens[r][p]]
      BY <2>1 DEF TokenIds
    <2> QED
      BY <1>3, <2>2
  <1> HIDE DEF hs
  <1>5. i \in 1..Len(hs) /\ i \in Nat \ {0} /\ i <= Len(tokens[r]) \div BlockSize
    <2>1. i \in 1..Len(hs) /\ Len(hs) \in Nat /\ Len(tokens[r]) \div BlockSize \in Nat
      BY <1>1, <1>3, FullCounts DEF hs, Chained
    <2> QED
      BY <1>1, <2>1
  <1>6. i * BlockSize \in Nat /\ i * BlockSize <= Len(tokens[r])
    <2>1. \A x, y \in Nat : y <= x \div BlockSize => y * BlockSize <= x /\ y * BlockSize \in Nat
      BY PoolAssumption
    <2> QED
      BY <1>3, <1>5, <2>1
  <1>7. hs[i] \in Hashes /\ Len(hs[i]) = i
    BY <1>1, <1>5 DEF Chained
  <1>8. TextOf[hs[i]] = [p \in 1..(i * BlockSize) |-> hs[i][CeilDiv(p, BlockSize)][1][SlotOf(p)]]
    BY ZenonT(30), <1>7 DEF TextOf
  <1>9. ASSUME NEW p \in 1..(i * BlockSize)
        PROVE  hs[i][CeilDiv(p, BlockSize)][1][SlotOf(p)] = tokens[r][p]
    <2> DEFINE j == CeilDiv(p, BlockSize)
    <2>1. p \in Nat \ {0} /\ p <= i * BlockSize
      BY <1>6
    <2>2. /\ j \in 1..i /\ SlotOf(p) \in 1..BlockSize /\ (j - 1) * BlockSize + SlotOf(p) = p
          /\ j * BlockSize <= i * BlockSize
      <3>1. j \in Nat \ {0} /\ SlotOf(p) \in 1..BlockSize /\ p = (j - 1) * BlockSize + SlotOf(p)
        BY <2>1, PlaceIs DEF Slots
      <3>2. CeilDiv(i * BlockSize, BlockSize) = i
        BY ZenonT(30), <1>5, WholeBlocks, PoolAssumption
      <3>3. j <= i
        BY ZenonT(30), <1>6, <2>1, <3>2, MoreTokens, PoolAssumption
      <3>4. \A x, y, d \in Nat : x <= y => x * d <= y * d
        OBVIOUS
      <3> HIDE DEF j
      <3>5. j * BlockSize <= i * BlockSize
        BY ZenonT(30), <1>5, <3>1, <3>3, <3>4, PoolAssumption
      <3> QED
        BY <1>5, <3>1, <3>3, <3>5
    <2>3. hs[i][j] = hs[j][j]
      BY ZenonT(30), <1>1, <1>5, <2>2, ChainPlaces
    <2>4. hs[j][j][1] = BlockTokens(tokens[r], j)
      <3>1. j \in (0 + 1)..Len(hs)
        BY <1>5, <2>2
      <3> QED
        BY ZenonT(30), <1>2, <1>4, <3>1 DEF Tells
    <2> DEFINE a == (j - 1) * BlockSize
               b == j * BlockSize
    <2>5. /\ BlockTokens(tokens[r], j) = SubSeq(tokens[r], a + 1, b)
          /\ a \in Nat /\ b \in Nat /\ b = a + BlockSize /\ b <= Len(tokens[r])
          /\ a + SlotOf(p) = p /\ SlotOf(p) \in 1..BlockSize
      <3>1. BlockTokens(tokens[r], j) = SubSeq(tokens[r], a + 1, b)
        BY DEF BlockTokens
      <3>2. j \in Nat \ {0}
        BY <1>5, <2>2
      <3>3. \A k, d \in Nat : k # 0 => /\ (k - 1) * d \in Nat /\ k * d \in Nat
                                     /\ k * d = (k - 1) * d + d
        OBVIOUS
      <3>4. a \in Nat /\ b \in Nat /\ b = a + BlockSize
        BY ZenonT(30), <3>2, <3>3, PoolAssumption
      <3> QED
        BY <1>3, <1>6, <2>2, <3>1, <3>4
    <2> HIDE DEF a, b
    <2>6. SubSeq(tokens[r], a + 1, b)[SlotOf(p)] = tokens[r][p]
      <3>1. ASSUME NEW w \in Seq(Nat), b <= Len(w), NEW s \in 1..BlockSize
            PROVE  SubSeq(w, a + 1, b)[s] = w[a + s]
        <4>1. SubSeq(w, a + 1, b) = [k \in 1..BlockSize |-> w[a + k]]
          BY <2>5, <3>1, PoolAssumption
        <4> QED
          BY ZenonT(30), <4>1
      <3>2. SubSeq(tokens[r], a + 1, b)[SlotOf(p)] = tokens[r][a + SlotOf(p)]
        BY ZenonT(30), <1>3, <2>5, <3>1
      <3> QED
        BY ZenonT(30), <2>5, <3>2
    <2> QED
      BY ZenonT(30), <2>3, <2>4, <2>5, <2>6
  <1>10. SubSeq(tokens[r], 1, i * BlockSize) = [p \in 1..(i * BlockSize) |-> tokens[r][p]]
    BY <1>3, <1>6
  <1> QED
    BY ZenonT(30), <1>8, <1>9, <1>10 DEF hs

\* Isolation of requests of text: whatever is preempted, aborted, reset or shared,
\* a request of text never computes on the keys and values of another prefix.
THEOREM TextIsolation ==
    ASSUME TextOnly
    PROVE  Spec => []ReadsOwnPrefix
  <1>1. Init => Telling
    <2> SUFFICES ASSUME Init, NEW r \in Requests PROVE Tells(reqHashes[r], TokenIds(r), 0)
      BY DEF Telling
    <2>1. reqHashes[r] = <<>>
      BY DEF Init
    <2>2. (0 + 1)..Len(reqHashes[r]) = {}
      BY <2>1
    <2> QED
      BY <2>2 DEF Tells
  <1>2. KVInv /\ Telling /\ [Next]_vars => Telling'
    BY TellingStep
  <1>3. Spec => []KVInv
    BY KVAlways
  <1>4. KVInv /\ Telling => HashMeans(TextOf)
    BY TextMeans
  <1>5. Spec => []KVInv /\ []HashMeans(TextOf) /\ []Stored
    BY <1>1, <1>2, <1>3, <1>4, OneWriterTheorem, StoredAlways, PTL DEF Spec
  <1>6. Init => Isolated(TextOf)
    BY IsolatedInit
  <1>7. Isolated(TextOf) => ReadsOwnPrefix
    BY IsolatedReads
  <1>8. /\ KVInv /\ KVInv' /\ Stored' /\ HashMeans(TextOf) /\ HashMeans(TextOf)'
        /\ Isolated(TextOf) /\ [Next]_vars
        => Isolated(TextOf)'
    BY IsolatedStep
  <1> QED
    BY <1>5, <1>6, <1>7, <1>8, PTL DEF Spec

=============================================================================
