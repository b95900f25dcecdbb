--------------------------- MODULE AllocateProofs ---------------------------
(***************************************************************************)
(* The invariant of the KV cache, and what get_computed_blocks and         *)
(* allocate_slots do to it, for any number of blocks and requests, any     *)
(* block size and any prompts.                                             *)
(***************************************************************************)
EXTENDS KVCacheManager, PoolProofs

USE SMTT(30), Z3T(30), ZenonT(30)

Total(r) == computed[r] + scheduled[r]

Types ==
    /\ numCached \in [Requests -> Nat]
    /\ reqHashes \in [Requests -> Seq(Hashes)]
    /\ status \in [Requests -> Statuses]
    /\ tokens \in [Requests -> Seq(Nat)]
    /\ computed \in [Requests -> Nat]
    /\ scheduled \in [Requests -> Nat]
    /\ arrivals \in 0..MaxArrivals
    /\ content \in [Blocks -> [Slots -> Seq(Nat)]]

\* The pool p is in good order and counts the references of the lists held.
HoldersIn(held, b) == {r \in Requests : b \in ToSet(held[r])}
Counted(p, held) ==
    /\ PoolInv(p)
    /\ held \in [Requests -> Seq(Usable)]
    /\ \A r \in Requests : Distinct(held[r])
    /\ \A b \in Usable : p.ref[b] = Cardinality(HoldersIn(held, b))

\* A request has blocks for its computed and scheduled tokens and no more, the
\* full ones are published, and its list of hashes is the chain of its blocks.
Progress(r) ==
    /\ Len(tokens[r]) \in Len(Prompt[r])..MaxModelLen
    /\ Total(r) <= Len(tokens[r])
    /\ status[r] # "running" => Total(r) = 0
    /\ status[r] = "running" => Total(r) > 0
    /\ status[r] = "none" => tokens[r] = Prompt[r] /\ reqHashes[r] = <<>>
    /\ Len(reqBlocks[r]) = CeilDiv(Total(r), BlockSize)
    /\ numCached[r] = Total(r) \div BlockSize
HashesKept(r) ==
    /\ Chained(reqHashes[r])
    /\ Len(reqHashes[r]) \in numCached[r]..(Len(tokens[r]) \div BlockSize)
    /\ \A i \in 1..Len(reqBlocks[r]) :
          pool.hash[reqBlocks[r][i]] = IF i <= numCached[r] THEN reqHashes[r][i] ELSE NoHash

\* Two requests share a block only at the same place and only if it is published,
\* and one of them at least has all of it computed.
Shared(r, s) ==
    \A i \in 1..Len(reqBlocks[r]), j \in 1..Len(reqBlocks[s]) :
        reqBlocks[r][i] = reqBlocks[s][j] =>
            /\ i = j
            /\ pool.hash[reqBlocks[r][i]] # NoHash
            /\ i * BlockSize <= computed[r] \/ i * BlockSize <= computed[s]

KVInv ==
    /\ Types
    /\ Counted(pool, reqBlocks)
    /\ \A r \in Requests : Progress(r) /\ HashesKept(r)
    /\ \A r, s \in Requests : r # s => Shared(r, s)

-----------------------------------------------------------------------------
(* Numbers.                                                                 *)

\* The blocks for n tokens are the fewest that have a slot for each.
LEMMA CeilDivIs ==
    ASSUME NEW n \in Nat, NEW d \in Nat \ {0}
    PROVE  /\ CeilDiv(n, d) \in Nat
           /\ n <= CeilDiv(n, d) * d /\ CeilDiv(n, d) * d < n + d
           /\ n \div d <= CeilDiv(n, d)
           /\ n = 0 <=> CeilDiv(n, d) = 0
  BY DEF CeilDiv

\* Whole blocks and some more tokens.
LEMMA WholeBlocks ==
    ASSUME NEW k \in Nat, NEW n \in Nat, NEW d \in Nat \ {0}
    PROVE  /\ CeilDiv(k * d, d) = k /\ (k * d) \div d = k
           /\ k <= (k * d + n) \div d
  BY DEF CeilDiv

\* More tokens take no fewer blocks, and fill no fewer.
LEMMA MoreTokens ==
    ASSUME NEW m \in Nat, NEW n \in Nat, NEW d \in Nat \ {0}, m <= n
    PROVE  CeilDiv(m, d) <= CeilDiv(n, d) /\ m \div d <= n \div d
  BY DEF CeilDiv

\* The full blocks of a number of tokens.
LEMMA FullCounts ==
    \A m, n \in Nat : /\ m \div BlockSize \in Nat
                      /\ m <= n => m \div BlockSize <= n \div BlockSize
  BY PoolAssumption, MoreTokens

-----------------------------------------------------------------------------
(* References.                                                              *)

\* The requests are finitely many, and so are the holders of a block.
LEMMA HoldersFinite ==
    ASSUME NEW held, NEW b
    PROVE  IsFiniteSet(HoldersIn(held, b)) /\ Cardinality(HoldersIn(held, b)) \in Nat
  <1>1. HoldersIn(held, b) \subseteq Requests
    BY DEF HoldersIn
  <1> QED
    BY ZenonT(30), <1>1, ManagerAssumption, PartOf

\* A block in a list has a reference.
LEMMA HeldCounts ==
    ASSUME NEW p, NEW held, Counted(p, held), NEW r \in Requests, NEW b \in ToSet(held[r])
    PROVE  b \in Usable /\ b \in Blocks /\ p.ref[b] \in Nat /\ p.ref[b] > 0
  <1>1. b \in Usable /\ p.ref[b] = Cardinality(HoldersIn(held, b))
    <2>1. held[r] \in Seq(Usable)
      BY DEF Counted
    <2>2. b \in Usable
      BY <2>1 DEF ToSet
    <2> QED
      BY <2>2 DEF Counted
  <1>2. r \in HoldersIn(held, b)
    BY DEF HoldersIn
  <1>3. Cardinality(HoldersIn(held, b)) # 0
    <2>1. Cardinality(HoldersIn(held, b) \ {r}) = Cardinality(HoldersIn(held, b)) - 1
      BY ZenonT(30), <1>2, HoldersFinite, OneMember
    <2>2. HoldersIn(held, b) \ {r} \subseteq HoldersIn(held, b)
      OBVIOUS
    <2>3. Cardinality(HoldersIn(held, b) \ {r}) \in Nat
      BY ZenonT(30), <2>2, HoldersFinite, PartOf
    <2> QED
      BY <2>1, <2>3
  <1> QED
    BY <1>1, <1>3, HoldersFinite DEF Usable

\* A request without blocks, as add_request finds it.
LEMMA Fresh ==
    /\ Chained(<<>>) /\ Distinct(<<>>) /\ ToSet(<<>>) = {} /\ Len(<<>>) = 0
    /\ CeilDiv(0, BlockSize) = 0 /\ 0 \div BlockSize = 0
  <1>1. Chained(<<>>)
    BY DEF Chained
  <1>2. Distinct(<<>>) /\ ToSet(<<>>) = {}
    BY DEF Distinct, ToSet
  <1> QED
    BY <1>1, <1>2, PoolAssumption DEF CeilDiv

\* A block handed out afresh.
LEMMA BlankIs == Blank \in [Slots -> Seq(Nat)]
  <1>1. <<>> \in Seq(Nat)
    OBVIOUS
  <1> QED
    BY <1>1 DEF Blank

\* The prompts.
LEMMA PromptsAre ==
    ASSUME NEW r \in Requests
    PROVE  /\ Prompt[r] \in Seq(Nat) /\ Len(Prompt[r]) \in 1..MaxModelLen /\ MaxModelLen \in Nat
           /\ r \in DOMAIN MMPositions
  BY ManagerAssumption

\* Request.all_token_ids has a number for every input.
LEMMA TokenIdsAre ==
    ASSUME Types, NEW r \in Requests
    PROVE  TokenIds(r) \in Seq(Nat) /\ Len(TokenIds(r)) = Len(tokens[r])
  <1>1. tokens[r] \in Seq(Nat) /\ ImageToken \in Nat
    BY ManagerAssumption DEF Types
  <1> DEFINE n == Len(tokens[r])
             Id(p) == IF \E i \in DOMAIN MMPositions[r] : Overlaps(r, i, p - 1, 1)
                      THEN ImageToken ELSE tokens[r][p]
  <1>2. TokenIds(r) = [p \in 1..n |-> Id(p)]
    BY <1>1 DEF TokenIds
  <1>3. n \in Nat /\ \A p \in 1..n : Id(p) \in Nat
    BY <1>1
  <1> HIDE DEF n, Id
  <1> QED
    BY <1>2, <1>3 DEF n

\* The hashes get_computed_blocks works with.
LEMMA BlockHashesAre ==
    ASSUME KVInv, NEW r \in Requests
    PROVE  /\ Chained(BlockHashes(r)) /\ Len(BlockHashes(r)) \in 0..(Len(tokens[r]) \div BlockSize)
           /\ numCached[r] <= Len(BlockHashes(r))
           /\ \A i \in 1..numCached[r] : BlockHashes(r)[i] = reqHashes[r][i]
  <1>1. /\ Chained(reqHashes[r]) /\ numCached[r] \in Nat
        /\ Len(reqHashes[r]) \in numCached[r]..(Len(tokens[r]) \div BlockSize)
    BY DEF KVInv, HashesKept, Types
  <1>2. CASE ~(reqHashes[r] = <<>> /\ LooksUp(r))
    <2>1. BlockHashes(r) = reqHashes[r]
      BY Zenon, <1>2 DEF BlockHashes
    <2> QED
      BY <1>1, <2>1
  <1>3. CASE reqHashes[r] = <<>> /\ LooksUp(r)
    <2>1. Len(reqHashes[r]) = 0 /\ numCached[r] = 0
      BY <1>1, <1>3
    <2>2. BlockHashes(r) = HashRequestTokens(r, TokenIds(r))
      BY Zenon, <1>3 DEF BlockHashes
    <2>3. TokenIds(r) \in Seq(Nat) /\ Len(TokenIds(r)) = Len(tokens[r])
      BY TokenIdsAre DEF KVInv
    <2>4. Chained(BlockHashes(r)) /\ Len(BlockHashes(r)) = Len(tokens[r]) \div BlockSize
      BY ZenonT(30), <2>2, <2>3, HashesChained, PromptsAre, PoolAssumption
    <2> QED
      BY <1>1, <2>1, <2>4
  <1> QED
    BY <1>2, <1>3

-----------------------------------------------------------------------------
(* get_computed_blocks and allocate_slots.                                  *)

\* What find_longest_cache_hit returns: different blocks, each with the hash of its
\* place, and at least one token is left to compute.
LEMMA HitsAre ==
    ASSUME KVInv, NEW r \in Requests, NEW hit \in Hits(r)
    PROVE  /\ hit \in Seq(Usable) /\ Distinct(hit)
           /\ Len(hit) <= Len(BlockHashes(r)) /\ Len(hit) * BlockSize < Len(tokens[r])
           /\ \A i \in 1..Len(hit) : pool.hash[hit[i]] = BlockHashes(r)[i]
  <1> DEFINE hs == BlockHashes(r)
             n == Smaller(MaxHit(r), Len(hs))
             Hit(k) == \A i \in 1..k : CachedBlocks(pool, hs[i]) # {}
             Right(k) == Hit(k) /\ (k < n => ~Hit(k + 1))
             l == HitLength(r)
  <1>1. /\ Chained(hs) /\ hs \in Seq(Hashes) /\ Len(hs) \in Nat
        /\ \A i \in 1..Len(hs) : hs[i] \in Hashes /\ Len(hs[i]) = i
    BY BlockHashesAre DEF Chained
  <1>2. Len(tokens[r]) \in Nat /\ Len(tokens[r]) > 0
    <2>1. tokens[r] \in Seq(Nat) /\ Len(tokens[r]) \in Len(Prompt[r])..MaxModelLen
      BY DEF KVInv, Types, Progress
    <2> QED
      BY <2>1, PromptsAre
  <1>3. MaxHit(r) \in Nat /\ MaxHit(r) * BlockSize < Len(tokens[r])
    <2>1. \A k \in Nat : k > 0 => /\ (k - 1) \div BlockSize \in Nat
                                  /\ ((k - 1) \div BlockSize) * BlockSize < k
      BY PoolAssumption
    <2>2. CASE LooksUp(r)
      BY <1>2, <2>1, <2>2 DEF MaxHit
    <2>3. CASE ~LooksUp(r)
      <3>1. MaxHit(r) = 0
        BY Zenon, <2>3 DEF MaxHit
      <3> QED
        BY <1>2, <3>1, PoolAssumption
    <2> QED
      BY <2>2, <2>3
  <1>4. n \in Nat /\ n <= MaxHit(r) /\ n <= Len(hs)
    BY <1>1, <1>3 DEF Smaller
  <1>5. l = CHOOSE k \in 0..n : Right(k)
    BY Zenon DEF HitLength
  <1> HIDE DEF n, hs
  <1>6. \E k \in 0..n : Right(k)
    <2> SUFFICES ASSUME \A k \in 0..n : ~Right(k) PROVE FALSE
      OBVIOUS
    <2> DEFINE T == {k \in 0..n : Hit(k)}
    <2>1. Hit(0)
      OBVIOUS
    <2>2. ASSUME NEW k \in 1..n, Hit(k - 1) PROVE Hit(k)
      <3>1. k - 1 \in 0..n /\ k - 1 < n /\ (k - 1) + 1 = k
        BY <1>4
      <3> HIDE DEF Hit
      <3>2. ~Right(k - 1)
        BY <3>1, Zenon
      <3> QED
        BY <2>2, <3>1, <3>2
    <2> HIDE DEF Hit
    <2>3. 0 \in T /\ \A k \in 1..n : k - 1 \in T => k \in T
      BY <1>4, <2>1, <2>2
    <2> HIDE DEF T
    <2>4. 0..n \subseteq T
      BY <1>4, <2>3, UpTo
    <2>5. n \in 0..n /\ ~(n < n)
      BY <1>4
    <2>6. Hit(n)
      BY <2>4, <2>5 DEF T
    <2> QED
      BY <2>5, <2>6
  <1> HIDE DEF Right
  <1>7. l \in 0..n
    BY <1>5, <1>6
  <1> HIDE DEF l
  <1>8. /\ hit \in [1..l -> Blocks]
        /\ \A i \in 1..l : hit[i] \in CachedBlocks(pool, hs[i])
    BY DEF Hits, l, hs
  <1>9. l \in Nat /\ l <= Len(hs) /\ l * BlockSize < Len(tokens[r])
    <2>1. \A i, j, k, d \in Nat : i <= j /\ j * d < k => i * d < k
      OBVIOUS
    <2>2. l \in Nat /\ l <= MaxHit(r) /\ l <= Len(hs)
      BY <1>1, <1>3, <1>4, <1>7
    <2> QED
      BY <1>2, <1>3, <2>1, <2>2, PoolAssumption
  <1>10. ASSUME NEW i \in 1..l
         PROVE  hit[i] \in Usable /\ pool.hash[hit[i]] = hs[i] /\ Len(hs[i]) = i
    <2>1. i \in 1..Len(hs) /\ i # 0
      BY <1>1, <1>9
    <2>2. hs[i] \in Hashes /\ Len(hs[i]) = i /\ hs[i] # NoHash
      BY <1>1, <2>1 DEF NoHash
    <2>3. hit[i] \in Blocks /\ <<hs[i], hit[i]>> \in pool.cached
      BY <1>8 DEF CachedBlocks
    <2>4. Pairs(pool) /\ pool.hash[NullBlock] = NoHash
      BY CacheByPairs DEF KVInv, Counted, PoolInv
    <2>5. pool.hash[hit[i]] = hs[i]
      BY <2>2, <2>3, <2>4 DEF Pairs
    <2> QED
      BY <2>2, <2>3, <2>4, <2>5 DEF Usable
  <1>11. hit \in Seq(Usable) /\ Len(hit) = l /\ DOMAIN hit = 1..l
    <2>1. hit = [i \in 1..l |-> hit[i]]
      BY <1>8
    <2> QED
      BY <1>9, <1>10, <2>1
  <1>12. Distinct(hit)
    <2>1. ASSUME NEW i \in 1..l, NEW j \in 1..l, hit[i] = hit[j] PROVE i = j
      BY ZenonT(30), <1>10, <2>1
    <2> QED
      BY <1>11, <2>1 DEF Distinct
  <1> QED
    BY <1>9, <1>10, <1>11, <1>12 DEF hs

\* What allocate_slots is called with: hit blocks only for a request without any,
\* and the hashes of the request.
Asked(r, hit, n, memo) ==
    /\ hit \in Seq(Usable) /\ Distinct(hit)
    /\ reqBlocks[r] = <<>> \/ hit = <<>>
    /\ scheduled[r] = 0
    /\ n \in Nat \ {0} /\ ComputedWith(r, hit) + n <= Len(tokens[r])
    /\ Chained(memo) /\ Len(memo) <= Len(tokens[r]) \div BlockSize
    /\ numCached[r] <= Len(memo) /\ \A i \in 1..numCached[r] : memo[i] = reqHashes[r][i]
    /\ Len(hit) <= Len(memo) /\ \A i \in 1..Len(hit) : pool.hash[hit[i]] = memo[i]

\* The numbers allocate_slots works with: c tokens computed, a blocks published, m
\* to be published.
LEMMA AskedNumbers ==
    ASSUME KVInv, NEW r \in Requests, NEW hit, NEW n, NEW memo, Asked(r, hit, n, memo)
    PROVE  LET c == ComputedWith(r, hit)
               a == CachedWith(r, hit)
               m == FullBlocks(r, hit, n)
           IN /\ c \in Nat /\ n \in Nat /\ TokensNeedSlot(r, hit, n) = c + n
              /\ a \in Nat /\ m \in Nat /\ a <= m /\ a <= Len(memo)
              /\ a = c \div BlockSize /\ m = (c + n) \div BlockSize
              /\ m <= Len(tokens[r]) \div BlockSize /\ Len(tokens[r]) \div BlockSize \in Nat
              /\ m <= CeilDiv(c + n, BlockSize)
              /\ CeilDiv(c + n, BlockSize) \in Nat
              /\ HeldWith(r, hit) \in Seq(Usable) /\ Distinct(HeldWith(r, hit))
              /\ Len(HeldWith(r, hit)) = CeilDiv(c, BlockSize)
              /\ CeilDiv(c, BlockSize) <= CeilDiv(c + n, BlockSize)
              /\ ToSet(HeldWith(r, hit)) = ToSet(reqBlocks[r]) \cup ToSet(hit)
              /\ \A i \in 1..Len(HeldWith(r, hit)) :
                    pool.hash[HeldWith(r, hit)[i]] = IF i <= a THEN memo[i] ELSE NoHash
  <1> DEFINE c == ComputedWith(r, hit)
             a == CachedWith(r, hit)
             m == FullBlocks(r, hit, n)
             held == HeldWith(r, hit)
             h == Len(hit)
             k == Len(tokens[r])
             d == BlockSize
  <1>1. /\ d \in Nat \ {0} /\ h \in Nat /\ computed[r] \in Nat /\ k \in Nat /\ numCached[r] \in Nat
        /\ hit \in Seq(Usable) /\ reqBlocks[r] \in Seq(Usable)
        /\ Distinct(hit) /\ Distinct(reqBlocks[r])
        /\ Progress(r) /\ HashesKept(r) /\ scheduled[r] = 0
    BY PoolAssumption DEF KVInv, Types, Counted, Asked
  <1>2. /\ Len(reqBlocks[r]) = CeilDiv(computed[r], d) /\ numCached[r] = computed[r] \div d
        /\ k <= MaxModelLen /\ MaxModelLen \in Nat
    BY <1>1, PromptsAre DEF Progress, Total
  <1>3. c = computed[r] + h * d
    BY DEF ComputedWith
  <1>4. n \in Nat \ {0} /\ c + n <= k
    BY DEF Asked
  <1>5. c \in Nat
    <2>1. \A x, y, z \in Nat : x + y * z \in Nat
      OBVIOUS
    <2> QED
      BY <1>1, <1>3, <2>1
  <1> HIDE DEF c, a, m, held, h, k, d
  <1>6. TokensNeedSlot(r, hit, n) = c + n
    BY <1>1, <1>2, <1>4, <1>5 DEF TokensNeedSlot, Smaller, c
  <1>7. m = (c + n) \div d
    <2>1. Smaller(c + n, k) = c + n
      BY <1>1, <1>4, <1>5 DEF Smaller
    <2> QED
      BY <2>1 DEF m, FullBlocks, c, d, k
  <1>8. m \in Nat /\ m <= k \div d /\ k \div d \in Nat
    <2>1. c + n \in Nat
      BY <1>4, <1>5
    <2> QED
      BY ZenonT(30), <1>1, <1>4, <1>7, <2>1, FullCounts DEF d
  <1>9. m <= CeilDiv(c + n, d) /\ CeilDiv(c + n, d) \in Nat /\ CeilDiv(c, d) <= CeilDiv(c + n, d)
    <2>1. c + n \in Nat /\ c <= c + n
      BY <1>4, <1>5
    <2> QED
      BY ZenonT(30), <1>1, <1>5, <1>7, <2>1, CeilDivIs, MoreTokens
  <1>10. CASE reqBlocks[r] = <<>>
    <2>1. computed[r] = 0
      BY <1>1, <1>2, <1>10, CeilDivIs
    <2>2. c = h * d /\ a = h /\ held = hit /\ numCached[r] = 0
      <3>1. held = hit
        BY <1>1, <1>10 DEF held, HeldWith
      <3>2. a = h
        BY <1>10 DEF a, CachedWith, h
      <3>3. \A x, y \in Nat : 0 + x * y = x * y
        OBVIOUS
      <3>4. numCached[r] = 0
        BY <1>1, <1>2, <2>1 DEF d
      <3> QED
        BY <1>1, <1>3, <2>1, <3>1, <3>2, <3>3, <3>4
    <2>3. CeilDiv(c, d) = h /\ c \div d = h /\ h <= (c + n) \div d
      BY ZenonT(30), <1>1, <1>4, <2>2, WholeBlocks
    <2>4. ToSet(held) = ToSet(reqBlocks[r]) \cup ToSet(hit)
      BY <1>10, <2>2, Fresh
    <2>5. h <= Len(memo) /\ \A i \in 1..h : pool.hash[hit[i]] = memo[i]
      BY DEF Asked, h
    <2>6. \A i \in 1..Len(held) : pool.hash[held[i]] = IF i <= a THEN memo[i] ELSE NoHash
      BY <1>1, <2>2, <2>5 DEF h
    <2>7. a \in Nat /\ a <= m /\ a <= Len(memo) /\ a = c \div d /\ Len(held) = CeilDiv(c, d)
          /\ held \in Seq(Usable) /\ Distinct(held)
      BY ZenonT(30), <1>1, <1>7, <2>2, <2>3, <2>5 DEF h
    <2> QED
      BY ZenonT(30), <1>4, <1>5, <1>6, <1>7, <1>8, <1>9, <2>4, <2>6, <2>7 DEF c, a, m, held, d, k
  <1>11. CASE reqBlocks[r] # <<>>
    <2>1. hit = <<>> /\ h = 0
      BY <1>11 DEF Asked, h
    <2>2. c = computed[r] /\ a = numCached[r] /\ held = reqBlocks[r]
      <3>1. held = reqBlocks[r]
        BY <1>1, <2>1 DEF held, HeldWith
      <3>2. a = numCached[r]
        BY <1>11 DEF a, CachedWith
      <3>3. \A x, y \in Nat : x + 0 * y = x
        OBVIOUS
      <3> QED
        BY <1>1, <1>3, <2>1, <3>1, <3>2, <3>3
    <2>3. a <= m
      <3>1. c <= c + n /\ c + n \in Nat
        BY <1>4, <1>5
      <3> QED
        BY <1>2, <1>5, <1>7, <2>2, <3>1, FullCounts DEF d
    <2>4. ToSet(held) = ToSet(reqBlocks[r]) \cup ToSet(hit)
      BY <2>1, <2>2, Fresh
    <2>5. a <= Len(memo) /\ \A i \in 1..a : memo[i] = reqHashes[r][i]
      BY <2>2 DEF Asked
    <2>6. \A i \in 1..Len(held) : pool.hash[held[i]] = IF i <= a THEN memo[i] ELSE NoHash
      <3> TAKE i \in 1..Len(held)
      <3>1. pool.hash[held[i]] = IF i <= a THEN reqHashes[r][i] ELSE NoHash
        BY <1>1, <2>2 DEF HashesKept
      <3>2. i <= a => i \in 1..a
        BY <1>1, <2>2
      <3> QED
        BY <2>5, <3>1, <3>2
    <2>7. a \in Nat /\ a = c \div d /\ Len(held) = CeilDiv(c, d)
          /\ held \in Seq(Usable) /\ Distinct(held)
      BY <1>1, <1>2, <2>2
    <2> QED
      BY ZenonT(30), <1>4, <1>5, <1>6, <1>7, <1>8, <1>9, <2>3, <2>4, <2>5, <2>6, <2>7 DEF c, a, m, held, d, k
  <1> QED
    BY ZenonT(30), <1>10, <1>11

\* The check of allocate_slots counts right: get_new_blocks finds the blocks it is
\* asked for, although touch has taken the hit ones from the free list before.
LEMMA EnoughFree ==
    ASSUME KVInv, NEW r \in Requests, NEW hit, NEW n, NEW memo, Asked(r, hit, n, memo),
           CanAllocate(r, hit, n)
    PROVE  MissingBlocks(r, hit, n) <= NumFree(Touch(pool, ToSet(hit)))
  <1> DEFINE x == CeilDiv(TokensNeedSlot(r, hit, n), BlockSize)
             taken == Idle(pool, ToSet(hit))
             y == Cardinality(taken)
             h == Len(hit)
             l == Len(reqBlocks[r])
  <1>1. hit \in Seq(Usable) /\ reqBlocks[r] \in Seq(Usable) /\ PoolInv(pool)
    BY DEF Asked, KVInv, Counted
  <1>2. h \in Nat /\ l \in Nat /\ Len(HeldWith(r, hit)) = l + h
    BY <1>1 DEF HeldWith
  <1>3. x \in Nat
    BY AskedNumbers
  <1>4. ToSet(hit) \in SUBSET Usable
    BY <1>1 DEF ToSet
  <1>5. NumFree(Touch(pool, ToSet(hit))) = NumFree(pool) - y
    BY ZenonT(30), <1>1, <1>4, TouchIs
  <1>6. y \in Nat
    <2>1. IsFiniteSet(ToSet(hit))
      BY <1>1, InjectiveLength DEF Asked
    <2>2. taken \subseteq ToSet(hit)
      BY DEF Idle
    <2> HIDE DEF taken
    <2> QED
      BY ZenonT(30), <2>1, <2>2, PartOf
  <1>7. NumFree(pool) \in Nat
    BY <1>1, QueueIs DEF NumFree
  <1>8. x - h - l + y <= NumFree(pool)
    BY DEF CanAllocate, NumBlocksToAllocate, Idle
  <1>9. MissingBlocks(r, hit, n) = x - Len(HeldWith(r, hit))
    BY DEF MissingBlocks
  <1> HIDE DEF x, y, h, l
  <1> QED
    BY <1>2, <1>3, <1>5, <1>6, <1>7, <1>8, <1>9

\* What allocate_slots does, with new the blocks get_new_blocks gives.
Granted(r, hit, n, memo, new) ==
    LET c == ComputedWith(r, hit)
        m == FullBlocks(r, hit, n)
        held == HeldWith(r, hit)
        blocks == held \o new
        taken == Idle(pool, ToSet(hit))
    IN /\ new \in Seq(Usable)
       /\ \A s \in Requests : ToSet(new) \cap ToSet(reqBlocks[s]) = {}
       /\ blocks \in Seq(Usable) /\ Distinct(blocks) /\ Len(blocks) = CeilDiv(c + n, BlockSize)
       /\ ToSet(blocks) = ToSet(held) \cup ToSet(new) /\ ToSet(held) \cap ToSet(new) = {}
       /\ \A i \in 1..Len(held) : blocks[i] = held[i]
       /\ reqBlocks' = [reqBlocks EXCEPT ![r] = blocks]
       /\ numCached' = [numCached EXCEPT ![r] = m]
       /\ reqHashes' = [reqHashes EXCEPT ![r] = reqHashes'[r]] /\ Chained(reqHashes'[r])
       /\ Len(reqHashes'[r]) \in m..(Len(tokens[r]) \div BlockSize)
       /\ Len(memo) <= Len(reqHashes'[r]) /\ Tells(reqHashes'[r], TokenIds(r), Len(memo))
       /\ \A i \in 1..Len(memo) : reqHashes'[r][i] = memo[i]
       /\ Counted(pool', reqBlocks')
       /\ \A i \in 1..Len(blocks) :
             pool'.hash[blocks[i]] = IF i <= m THEN reqHashes'[r][i] ELSE NoHash
       /\ \A b \in Blocks : b \notin ToSet(new) /\ pool.hash[b] # NoHash => pool'.hash[b] = pool.hash[b]
       /\ \A b \in Blocks : b \notin ToSet(blocks) => pool'.hash[b] = pool.hash[b]
       /\ Keep(pool.queue, Blocks \ taken) = new \o pool'.queue
       /\ \A b \in Blocks : pool.ref[b] <= pool'.ref[b]
       /\ content' = [b \in Blocks |-> IF b \in ToSet(new) THEN Blank ELSE content[b]]

\* The references after it: the blocks hit and the new ones are held by r as well.
LEMMA OneMoreHolder ==
    ASSUME NEW held, NEW blocks, NEW r \in Requests, NEW b,
           held \in [Requests -> Seq(Usable)], ToSet(held[r]) \subseteq ToSet(blocks)
    PROVE  Cardinality(HoldersIn([held EXCEPT ![r] = blocks], b))
           = Cardinality(HoldersIn(held, b))
             + (IF b \in ToSet(blocks) \ ToSet(held[r]) THEN 1 ELSE 0)
  <1> DEFINE after == [held EXCEPT ![r] = blocks]
  <1>1. after[r] = blocks /\ \A s \in Requests : s # r => after[s] = held[s]
    OBVIOUS
  <1> HIDE DEF after
  <1>2. CASE b \in ToSet(blocks) \ ToSet(held[r])
    <2>1. HoldersIn(after, b) = HoldersIn(held, b) \cup {r} /\ r \notin HoldersIn(held, b)
      BY <1>1, <1>2 DEF HoldersIn
    <2>2. Cardinality(HoldersIn(held, b) \cup {r}) = Cardinality(HoldersIn(held, b)) + 1
      BY ZenonT(30), <2>1, HoldersFinite, OneMember
    <2> QED
      BY ZenonT(30), <1>2, <2>1, <2>2 DEF after
  <1>3. CASE b \notin ToSet(blocks) \ ToSet(held[r])
    <2>1. HoldersIn(after, b) = HoldersIn(held, b)
      BY ZenonT(30), <1>1, <1>3 DEF HoldersIn
    <2>2. Cardinality(HoldersIn(held, b)) \in Nat
      BY HoldersFinite
    <2>3. \A k \in Nat : k = k + 0
      OBVIOUS
    <2> QED
      BY <1>3, <2>1, <2>2, <2>3 DEF after
  <1> QED
    BY <1>2, <1>3

\* allocate_slots: touch, save_new_computed_blocks, allocate_new_blocks, cache_blocks.
LEMMA AllocateIs ==
    ASSUME KVInv, NEW r \in Requests, NEW hit, NEW n, NEW memo, Asked(r, hit, n, memo),
           CanAllocate(r, hit, n), AllocateSlots(r, hit, n, memo)
    PROVE  \E new : Granted(r, hit, n, memo, new)
  <1> DEFINE c == ComputedWith(r, hit)
             a == CachedWith(r, hit)
             m == FullBlocks(r, hit, n)
             held == HeldWith(r, hit)
             S == ToSet(hit)
             taken == Idle(pool, S)
             touched == Touch(pool, S)
             missing == MissingBlocks(r, hit, n)
             grown == IF missing > 0 THEN GetNewBlocks(touched, missing) ELSE touched
             new == IF missing > 0 THEN NewBlocks(touched, missing) ELSE <<>>
             blocks == held \o new
             ids == TokenIds(r)
             after == MemoAfter(grown, blocks, r, ids, memo, a, m)
             H == ChainHashes(grown, blocks, r, ids, memo, a, m)
  <1>1. /\ c \in Nat /\ n \in Nat /\ a \in Nat /\ m \in Nat /\ a <= m /\ a <= Len(memo)
        /\ m <= CeilDiv(c + n, BlockSize) /\ CeilDiv(c + n, BlockSize) \in Nat
        /\ m <= Len(tokens[r]) \div BlockSize /\ Len(tokens[r]) \div BlockSize \in Nat
        /\ held \in Seq(Usable) /\ Distinct(held) /\ ToSet(held) = ToSet(reqBlocks[r]) \cup S
        /\ Len(held) <= CeilDiv(c + n, BlockSize)
        /\ \A i \in 1..Len(held) : pool.hash[held[i]] = IF i <= a THEN memo[i] ELSE NoHash
        /\ TokensNeedSlot(r, hit, n) = c + n
    BY AskedNumbers
  <1>2. /\ Counted(pool, reqBlocks) /\ PoolInv(pool) /\ hit \in Seq(Usable) /\ Types
        /\ Chained(memo) /\ Len(memo) <= Len(tokens[r]) \div BlockSize
        /\ reqBlocks[r] = <<>> \/ hit = <<>>
    BY ZenonT(30) DEF KVInv, Counted, Asked
  <1>3. S \in SUBSET Usable
    BY <1>2 DEF ToSet
  <1>4. /\ PoolInv(touched) /\ touched.hash = pool.hash
        /\ touched.queue = Keep(pool.queue, Blocks \ taken)
        /\ \A b \in Blocks : touched.ref[b] = pool.ref[b] + (IF b \in S THEN 1 ELSE 0)
    BY ZenonT(30), <1>2, <1>3, TouchIs
  <1>5. missing = CeilDiv(c + n, BlockSize) - Len(held) /\ missing \in Nat
    BY <1>1 DEF MissingBlocks
  <1>6. missing <= NumFree(touched)
    BY EnoughFree
  <1>7. /\ touched.queue \in Seq(Usable) /\ NumFree(touched) \in Nat
        /\ touched.ref \in [Blocks -> Nat] /\ pool.ref \in [Blocks -> Nat]
    BY <1>2, <1>4, QueueIs DEF NumFree
  <1>8. blocks = IF missing > 0 THEN held \o NewBlocks(touched, missing) ELSE held
    BY <1>1
  <1>9. /\ pool' = CacheFullBlocks(grown, blocks, r, ids, memo, a, m)
        /\ reqBlocks' = [reqBlocks EXCEPT ![r] = blocks]
        /\ numCached' = [numCached EXCEPT ![r] = m]
        /\ reqHashes' = [reqHashes EXCEPT ![r] = after]
        /\ content' = [b \in Blocks |-> IF b \in ToSet(blocks) \ ToSet(held) THEN Blank ELSE content[b]]
    BY <1>8, Zenon DEF AllocateSlots
  <1> HIDE DEF c, a, m, held, S, touched, missing
  <1>10. /\ new \in Seq(Usable) /\ Len(new) = missing /\ Distinct(new)
         /\ \A b \in ToSet(new) : touched.ref[b] = 0
         /\ PoolInv(grown)
         /\ \A b \in Blocks : grown.ref[b] = touched.ref[b] + (IF b \in ToSet(new) THEN 1 ELSE 0)
         /\ \A b \in Blocks : grown.hash[b] = IF b \in ToSet(new) THEN NoHash ELSE pool.hash[b]
         /\ touched.queue = new \o grown.queue
    <2>1. CASE missing > 0
      <3>1. missing \in 1..NumFree(touched)
        BY <1>5, <1>6, <1>7, <2>1
      <3>2. /\ new \in Seq(Usable) /\ Len(new) = missing /\ Distinct(new)
            /\ \A b \in ToSet(new) : touched.ref[b] = 0
            /\ PoolInv(grown)
            /\ \A b \in Blocks : grown.ref[b] = touched.ref[b] + (IF b \in ToSet(new) THEN 1 ELSE 0)
            /\ \A b \in Blocks : grown.hash[b] = IF b \in ToSet(new) THEN NoHash ELSE touched.hash[b]
            /\ grown.queue = SubSeq(touched.queue, missing + 1, Len(touched.queue))
        BY ZenonT(30), <1>4, <2>1, <3>1, NewBlocksAre
      <3>3. new = SubSeq(touched.queue, 1, missing)
        BY ZenonT(30), <2>1 DEF NewBlocks
      <3>4. touched.queue = new \o grown.queue
        <4> DEFINE q == touched.queue
        <4>1. q \in Seq(Usable) /\ missing \in 0..Len(q) /\ missing \in Nat /\ Len(q) \in Nat
          BY <1>5, <1>7, <3>1 DEF NumFree
        <4>2. new = SubSeq(q, 1, missing) /\ grown.queue = SubSeq(q, missing + 1, Len(q))
          BY ZenonT(30), <3>2, <3>3
        <4> HIDE DEF q
        <4>3. q = SubSeq(q, 1, missing) \o SubSeq(q, missing + 1, Len(q))
          BY ZenonT(30), <4>1, CutAndJoined
        <4> QED
          BY ZenonT(30), <4>2, <4>3 DEF q
      <3> QED
        BY ZenonT(30), <1>4, <3>2, <3>4
    <2>2. CASE ~(missing > 0)
      <3>1. new = <<>> /\ grown = touched /\ missing = 0
        BY <1>5, <2>2
      <3>2. touched.queue = <<>> \o touched.queue
        BY <1>7
      <3>3. \A b \in Blocks : touched.ref[b] = touched.ref[b] + 0
        BY <1>7
      <3> QED
        BY <1>4, <3>1, <3>2, <3>3, Fresh
    <2> QED
      BY ZenonT(30), <2>1, <2>2
  <1> HIDE DEF new, grown, taken, blocks
  <1>11. ToSet(new) \cap S = {} /\ \A s \in Requests : ToSet(new) \cap ToSet(reqBlocks[s]) = {}
    <2>1. ASSUME NEW b \in ToSet(new), NEW s \in Requests, b \in ToSet(reqBlocks[s]) PROVE FALSE
      <3>1. b \in Blocks /\ pool.ref[b] \in Nat /\ pool.ref[b] > 0
        BY <1>2, <2>1, HeldCounts
      <3>2. touched.ref[b] = 0
        BY <1>10
      <3> QED
        BY <1>4, <3>1, <3>2
    <2>2. ASSUME NEW b \in ToSet(new), b \in S PROVE FALSE
      <3>1. b \in Blocks /\ pool.ref[b] \in Nat
        BY <1>3, <1>7, <2>2 DEF Usable
      <3>2. touched.ref[b] = 0
        BY <1>10
      <3> QED
        BY <1>4, <2>2, <3>1, <3>2
    <2> QED
      BY <2>1, <2>2
  <1>12. ToSet(held) \cap ToSet(new) = {}
    BY <1>1, <1>11
  <1>13. /\ blocks \in Seq(Usable) /\ Distinct(blocks) /\ Len(blocks) = Len(held) + Len(new)
         /\ ToSet(blocks) = ToSet(held) \cup ToSet(new)
         /\ \A i \in 1..Len(held) : blocks[i] = held[i]
         /\ \A i \in 1..Len(new) : blocks[Len(held) + i] = new[i]
    <2>1. held \in Seq(Usable) /\ Distinct(held) /\ new \in Seq(Usable) /\ Distinct(new)
      BY <1>1, <1>10
    <2> QED
      BY <1>12, <2>1, InARow DEF blocks
  <1>14. Len(held) \in Nat /\ Len(new) \in Nat /\ a <= Len(held)
    <2>1. Len(held) = CeilDiv(c, BlockSize) /\ a = c \div BlockSize
      BY AskedNumbers DEF held, c, a
    <2>2. c \in Nat /\ BlockSize \in Nat \ {0}
      BY <1>1, PoolAssumption
    <2>3. CeilDiv(c, BlockSize) \in Nat /\ c \div BlockSize <= CeilDiv(c, BlockSize)
      BY ZenonT(30), <2>2, CeilDivIs
    <2>4. Len(new) \in Nat
      BY <1>10
    <2> QED
      BY ZenonT(30), <2>1, <2>3, <2>4
  <1>15. Len(blocks) = CeilDiv(c + n, BlockSize) /\ m \in a..Len(blocks) /\ a \in 0..Len(blocks)
    BY <1>1, <1>5, <1>10, <1>13, <1>14
  <1>16. ASSUME NEW i \in 1..Len(blocks)
         PROVE  blocks[i] \in Blocks /\ grown.hash[blocks[i]] = IF i <= a THEN memo[i] ELSE NoHash
    <2>1. CASE i <= Len(held)
      <3>1. i \in 1..Len(held) /\ blocks[i] = held[i] /\ held[i] \in Usable
        BY <1>1, <1>13, <1>14, <2>1
      <3>2. held[i] \in ToSet(held)
        BY <1>1, <3>1 DEF ToSet
      <3> QED
        BY ZenonT(30), <1>1, <1>10, <1>12, <3>1, <3>2 DEF Usable
    <2>2. CASE i > Len(held)
      <3> DEFINE j == i - Len(held)
      <3>1. j \in 1..Len(new) /\ Len(held) + j = i /\ ~(i <= a)
        BY <1>1, <1>13, <1>14, <2>2
      <3>2. blocks[Len(held) + j] = new[j]
        BY <1>13, <3>1
      <3>3. new[j] \in ToSet(new) /\ new[j] \in Usable
        BY <1>10, <3>1 DEF ToSet
      <3> QED
        BY <1>10, <3>1, <3>2, <3>3 DEF Usable
    <2> QED
      BY <1>14, <2>1, <2>2
  <1>17. r \in DOMAIN MMPositions /\ ids \in Seq(Nat) /\ Len(ids) = Len(tokens[r])
    BY <1>2, TokenIdsAre, ManagerAssumption
  <1>18. a > 0 => grown.hash[blocks[a]] = memo[a]
    BY <1>1, <1>15, <1>16
  <1> HIDE DEF ids, H, after
  <1>19. ChainFrom(H, r, ids, memo, a, m)
    BY ZenonT(30), <1>1, <1>2, <1>17, <1>18, ChainIs DEF H
  <1>20. /\ Chained(after) /\ Len(after) = IF m > Len(memo) THEN m ELSE Len(memo)
         /\ \A i \in 1..Len(memo) : after[i] = memo[i]
         /\ \A i \in (a + 1)..m : after[i] = H[i]
         /\ Tells(after, ids, Len(memo))
    <2>1. a \in Nat /\ m \in Nat /\ a <= m /\ m <= Len(ids) \div BlockSize /\ a <= Len(memo)
      BY <1>1, <1>17
    <2>2. Extended(after, memo, ids, H, a, m)
      BY ZenonT(30), <1>2, <1>17, <1>18, <2>1, MemoIs DEF H, after
    <2> QED
      BY <2>2 DEF Extended
  <1>21. ASSUME NEW i \in (a + 1)..m PROVE H[i] \in Hashes /\ H[i] # NoHash
    <2>1. i \in a..m /\ i # 0 /\ i \in Nat
      BY <1>1
    <2>2. H[i] \in Hashes /\ Len(H[i]) = i
      BY <1>19, <2>1 DEF ChainFrom
    <2>3. Len(NoHash) = 0
      BY DEF NoHash
    <2> QED
      BY <2>1, <2>2, <2>3
  <1>22. /\ PoolInv(pool') /\ pool'.ref = grown.ref /\ pool'.queue = grown.queue
         /\ \A i \in (a + 1)..m : pool'.hash[blocks[i]] = H[i]
         /\ \A b \in Blocks : (\A i \in (a + 1)..m : blocks[i] # b) => pool'.hash[b] = grown.hash[b]
    <2>1. \A i \in (a + 1)..m : grown.hash[blocks[i]] = NoHash
      BY <1>1, <1>15, <1>16
    <2>2. PoolInv(grown) /\ blocks \in Seq(Usable) /\ Distinct(blocks) /\ a \in Nat
      BY <1>1, <1>10, <1>13
    <2>3. pool' = CacheFullBlocks(grown, blocks, r, ids, memo, a, m)
      BY <1>9 DEF ids
    <2>4. Published(pool', grown, blocks, H, a, m)
      BY ZenonT(30), <1>15, <1>21, <2>1, <2>2, <2>3, CachedAre DEF H
    <2> QED
      BY <2>4 DEF Published
  <1>23. ASSUME NEW i \in 1..Len(blocks)
         PROVE  pool'.hash[blocks[i]] = IF i <= m THEN after[i] ELSE NoHash
    <2>0. \A j, k \in 1..Len(blocks) : blocks[j] = blocks[k] => j = k
      BY <1>13 DEF Distinct
    <2>1. CASE i <= a
      <3>1. \A j \in (a + 1)..m : j \in 1..Len(blocks) /\ j # i
        BY <1>1, <1>15, <2>1
      <3>2. i \in 1..Len(memo) /\ i <= m
        BY <1>1, <1>2, <2>1
      <3> QED
        BY ZenonT(30), <1>16, <1>20, <1>22, <2>0, <2>1, <3>1, <3>2
    <2>2. CASE i \in (a + 1)..m
      BY <1>1, <1>20, <1>22, <2>2
    <2>3. CASE i > m
      <3>1. \A j \in (a + 1)..m : j \in 1..Len(blocks) /\ j # i
        BY <1>1, <1>15, <2>3
      <3>2. ~(i <= a) /\ ~(i <= m)
        BY <1>1, <2>3
      <3> QED
        BY ZenonT(30), <1>16, <1>22, <2>0, <3>1, <3>2
    <2> QED
      BY <1>1, <1>15, <2>1, <2>2, <2>3
  <1>24. /\ \A b \in Blocks : b \notin ToSet(blocks) => pool'.hash[b] = pool.hash[b]
         /\ \A b \in Blocks : b \notin ToSet(new) /\ pool.hash[b] # NoHash => pool'.hash[b] = pool.hash[b]
    <2>1. ASSUME NEW b \in Blocks, NEW i \in (a + 1)..m, blocks[i] = b
          PROVE  b \in ToSet(blocks) /\ (b \notin ToSet(new) => pool.hash[b] = NoHash)
      <3>1. i \in 1..Len(blocks) /\ ~(i <= a)
        BY <1>1, <1>15
      <3>2. b \in ToSet(blocks)
        BY <1>13, <2>1, <3>1 DEF ToSet
      <3> QED
        BY ZenonT(30), <1>10, <1>16, <2>1, <3>1, <3>2
    <2>2. ASSUME NEW b \in Blocks, b \notin ToSet(new), \A i \in (a + 1)..m : blocks[i] # b
          PROVE  pool'.hash[b] = pool.hash[b]
      BY ZenonT(30), <1>10, <1>22, <2>2
    <2> QED
      BY <1>13, <2>1, <2>2
  <1>25. Counted(pool', reqBlocks')
    <2>1. reqBlocks \in [Requests -> Seq(Usable)] /\ \A s \in Requests : Distinct(reqBlocks[s])
      BY <1>2 DEF Counted
    <2>2. reqBlocks' \in [Requests -> Seq(Usable)] /\ \A s \in Requests : Distinct(reqBlocks'[s])
      BY ZenonT(30), <1>9, <1>13, <2>1
    <2>3. ToSet(reqBlocks[r]) \subseteq ToSet(blocks)
          /\ ToSet(blocks) \ ToSet(reqBlocks[r]) = S \cup ToSet(new)
      <3>1. ToSet(reqBlocks[r]) \cap S = {}
        BY <1>2, Fresh DEF S
      <3> QED
        BY ZenonT(30), <1>1, <1>11, <1>13, <3>1
    <2>4. ASSUME NEW b \in Usable PROVE pool'.ref[b] = Cardinality(HoldersIn(reqBlocks', b))
      <3>1. b \in Blocks /\ pool.ref[b] = Cardinality(HoldersIn(reqBlocks, b)) /\ pool.ref[b] \in Nat
        BY ZenonT(30), <1>2, <1>7 DEF Counted, Usable
      <3>2. Cardinality(HoldersIn(reqBlocks', b))
            = pool.ref[b] + (IF b \in ToSet(blocks) \ ToSet(reqBlocks[r]) THEN 1 ELSE 0)
        <4> DEFINE after2 == [reqBlocks EXCEPT ![r] = blocks]
        <4>1. Cardinality(HoldersIn(after2, b))
              = Cardinality(HoldersIn(reqBlocks, b))
                + (IF b \in ToSet(blocks) \ ToSet(reqBlocks[r]) THEN 1 ELSE 0)
          BY ZenonT(30), <2>1, <2>3, OneMoreHolder
        <4>2. reqBlocks' = after2
          BY <1>9
        <4> HIDE DEF after2
        <4> QED
          BY <3>1, <4>1, <4>2
      <3>3. pool'.ref[b] = pool.ref[b] + (IF b \in S THEN 1 ELSE 0) + (IF b \in ToSet(new) THEN 1 ELSE 0)
        BY <1>4, <1>10, <1>22, <3>1
      <3> QED
        BY <1>11, <2>3, <3>1, <3>2, <3>3
    <2> QED
      BY ZenonT(30), <1>22, <2>2, <2>4 DEF Counted
  <1>26. Keep(pool.queue, Blocks \ taken) = new \o pool'.queue
    BY ZenonT(30), <1>4, <1>10, <1>22
  <1>27. \A b \in Blocks : pool.ref[b] <= pool'.ref[b]
    <2> SUFFICES ASSUME NEW b \in Blocks PROVE pool.ref[b] <= pool'.ref[b]
      OBVIOUS
    <2>1. pool.ref[b] \in Nat /\ touched.ref[b] \in Nat
      BY <1>7
    <2>2. pool.ref[b] <= touched.ref[b]
      BY <1>4, <2>1
    <2>3. touched.ref[b] <= grown.ref[b] /\ grown.ref[b] \in Nat
      BY <1>10, <2>1
    <2>4. pool'.ref[b] = grown.ref[b]
      BY ZenonT(30), <1>22
    <2> QED
      BY <2>1, <2>2, <2>3, <2>4
  <1>28. /\ reqHashes' = [reqHashes EXCEPT ![r] = reqHashes'[r]] /\ reqHashes'[r] = after
         /\ Len(after) \in m..(Len(tokens[r]) \div BlockSize) /\ Len(memo) <= Len(after)
    <2>1. reqHashes'[r] = after
      BY <1>2, <1>9 DEF Types, after, ids
    <2>2. Len(memo) \in Nat
      BY <1>2 DEF Chained
    <2>3. reqHashes' = [reqHashes EXCEPT ![r] = reqHashes'[r]]
      BY ZenonT(30), <1>9, <2>1 DEF after, ids
    <2> QED
      BY <1>1, <1>2, <1>20, <2>1, <2>2, <2>3
  <1>29. content' = [b \in Blocks |-> IF b \in ToSet(new) THEN Blank ELSE content[b]]
    <2>1. ToSet(blocks) \ ToSet(held) = ToSet(new)
      BY <1>12, <1>13
    <2> QED
      BY <1>9, <2>1
  <1>30. Granted(r, hit, n, memo, new)
    <2>1. /\ Chained(reqHashes'[r])
          /\ \A i \in 1..Len(memo) : reqHashes'[r][i] = memo[i]
          /\ \A i \in 1..Len(blocks) :
                pool'.hash[blocks[i]] = IF i <= m THEN reqHashes'[r][i] ELSE NoHash
          /\ Tells(reqHashes'[r], TokenIds(r), Len(memo))
      BY ZenonT(30), <1>20, <1>23, <1>28 DEF ids
    <2> QED
      BY ZenonT(30), <1>9, <1>10, <1>11, <1>12, <1>13, <1>15, <1>24, <1>25, <1>26, <1>27, <1>28, <1>29, <2>1
      DEF Granted, c, m, held, blocks, taken, S
  <1> QED
    BY <1>30

\* A hash in a chain is not the hash of no block, and tells its place.
LEMMA PlaceInChain ==
    ASSUME NEW hs, Chained(hs), NEW i \in 1..Len(hs)
    PROVE  hs[i] # NoHash /\ Len(hs[i]) = i /\ Len(NoHash) = 0
  <1>1. Len(NoHash) = 0
    BY DEF NoHash
  <1>2. Len(hs[i]) = i
    BY DEF Chained
  <1> QED
    BY <1>1, <1>2

\* A block that r gets and another request holds was hit, or held by both: it is at
\* the same place of both lists and published, and it keeps its hash.
LEMMA OthersKeep ==
    ASSUME KVInv, NEW r \in Requests, NEW hit, NEW n, NEW memo, Asked(r, hit, n, memo),
           NEW new, Granted(r, hit, n, memo, new), NEW s \in Requests, s # r,
           NEW j \in 1..Len(reqBlocks[s])
    PROVE  /\ reqBlocks'[s] = reqBlocks[s]
           /\ reqBlocks[s][j] \in Blocks
           /\ pool'.hash[reqBlocks[s][j]] = pool.hash[reqBlocks[s][j]]
           /\ \A i \in 1..Len(reqBlocks'[r]) : reqBlocks'[r][i] = reqBlocks[s][j] =>
                 /\ i = j
                 /\ pool.hash[reqBlocks[s][j]] # NoHash
                 /\ i * BlockSize <= ComputedWith(r, hit) \/ i * BlockSize <= computed[s]
  <1> DEFINE b == reqBlocks[s][j]
             held == HeldWith(r, hit)
             blocks == held \o new
             h == Len(hit)
  <1>1. /\ reqBlocks \in [Requests -> Seq(Usable)] /\ Types
        /\ Shared(r, s) /\ HashesKept(s) /\ Progress(s) /\ Len(reqBlocks[s]) \in Nat
    BY DEF KVInv, Counted
  <1>2. b \in Usable /\ b \in Blocks /\ b \in ToSet(reqBlocks[s])
    BY <1>1 DEF Usable, ToSet
  <1>3. /\ reqBlocks' = [reqBlocks EXCEPT ![r] = blocks]
        /\ b \notin ToSet(new) /\ new \in Seq(Usable)
        /\ ToSet(blocks) = ToSet(held) \cup ToSet(new) /\ blocks \in Seq(Usable)
        /\ \A i \in 1..Len(held) : blocks[i] = held[i]
        /\ b \notin ToSet(new) /\ pool.hash[b] # NoHash => pool'.hash[b] = pool.hash[b]
        /\ b \notin ToSet(blocks) => pool'.hash[b] = pool.hash[b]
    BY ZenonT(30), <1>2 DEF Granted
  <1>4. /\ reqBlocks[r] = <<>> \/ hit = <<>>
        /\ hit \in Seq(Usable) /\ h \in Nat /\ h <= Len(memo) /\ Chained(memo)
        /\ \A i \in 1..h : pool.hash[hit[i]] = memo[i]
    BY DEF Asked
  <1>5. /\ held \in Seq(Usable)
        /\ hit = <<>> => held = reqBlocks[r]
        /\ reqBlocks[r] = <<>> => held = hit
    BY <1>1, <1>4 DEF HeldWith
  <1> HIDE DEF held
  <1>6. Len(blocks) = Len(held) + Len(new) /\ Len(held) \in Nat /\ Len(new) \in Nat
        /\ \A i \in 1..Len(new) : blocks[Len(held) + i] = new[i]
    BY <1>3, <1>5, InARow
  <1> HIDE DEF blocks
  <1>7. ASSUME NEW i \in 1..Len(blocks), blocks[i] = b
        PROVE  i \in 1..Len(held) /\ held[i] = b
    <2>1. CASE i > Len(held)
      <3> DEFINE k == i - Len(held)
      <3>1. k \in 1..Len(new) /\ Len(held) + k = i
        BY <1>6, <2>1
      <3>2. new[k] = b
        BY <1>6, <1>7, <3>1
      <3> QED
        BY <1>3, <3>1, <3>2 DEF ToSet
    <2> QED
      BY <1>3, <1>6, <1>7, <2>1
  <1>8. ASSUME NEW i \in 1..Len(held), held[i] = b
        PROVE  /\ i = j /\ pool.hash[b] # NoHash
               /\ i * BlockSize <= ComputedWith(r, hit) \/ i * BlockSize <= computed[s]
    <2>1. CASE hit = <<>>
      <3>1. i \in 1..Len(reqBlocks[r]) /\ reqBlocks[r][i] = b
        BY <1>5, <1>8, <2>1
      <3>2. i = j /\ pool.hash[b] # NoHash /\ (i * BlockSize <= computed[r] \/ i * BlockSize <= computed[s])
        BY <1>1, <3>1 DEF Shared
      <3>3. ComputedWith(r, hit) = computed[r]
        BY <1>1, <2>1, PoolAssumption DEF ComputedWith, Types
      <3> QED
        BY <3>2, <3>3
    <2>2. CASE reqBlocks[r] = <<>>
      <3>1. i \in 1..h /\ i \in 1..Len(memo) /\ pool.hash[b] = memo[i] /\ Len(memo) \in Nat
        <4>1. i \in 1..h /\ hit[i] = b
          BY ZenonT(30), <1>5, <1>8, <2>2
        <4>2. Len(memo) \in Nat
          BY <1>4 DEF Chained
        <4> QED
          BY <1>4, <4>1, <4>2
      <3>2. pool.hash[b] # NoHash /\ Len(pool.hash[b]) = i
        BY <1>4, <3>1, PlaceInChain
      <3>3. i = j
        <4>1. Len(reqHashes[s]) \in Nat /\ numCached[s] \in Nat /\ numCached[s] <= Len(reqHashes[s])
          BY <1>1 DEF HashesKept, Types, Chained
        <4>2. pool.hash[b] = IF j <= numCached[s] THEN reqHashes[s][j] ELSE NoHash
          BY ZenonT(30), <1>1 DEF HashesKept
        <4>3. j <= numCached[s] /\ pool.hash[b] = reqHashes[s][j]
          BY ZenonT(30), <3>2, <4>2
        <4>4. j \in 1..Len(reqHashes[s])
          BY <4>1, <4>3
        <4>5. Len(reqHashes[s][j]) = j
          BY <1>1, <4>4, PlaceInChain DEF HashesKept
        <4> QED
          BY ZenonT(30), <3>2, <4>3, <4>5
      <3>4. i * BlockSize <= ComputedWith(r, hit)
        <4>1. \A x, y, z, d \in Nat : x <= y => x * d <= z + y * d
          OBVIOUS
        <4>2. computed[r] \in Nat /\ BlockSize \in Nat /\ i \in Nat /\ i <= h
          BY <1>1, <3>1, PoolAssumption DEF Types
        <4> QED
          BY ZenonT(30), <1>4, <4>1, <4>2 DEF ComputedWith
      <3> QED
        BY ZenonT(30), <3>2, <3>3, <3>4
    <2> QED
      BY ZenonT(30), <1>4, <2>1, <2>2
  <1>9. pool'.hash[b] = pool.hash[b]
    <2>1. CASE b \in ToSet(held)
      <3>1. PICK i \in 1..Len(held) : held[i] = b
        BY <1>5, <2>1 DEF ToSet
      <3> QED
        BY <1>3, <1>8, <3>1
    <2> QED
      BY ZenonT(30), <1>3, <2>1
  <1>10. reqBlocks'[r] = blocks /\ reqBlocks'[s] = reqBlocks[s]
    BY ZenonT(30), <1>1, <1>3
  <1> HIDE DEF b
  <1>11. \A i \in 1..Len(blocks) : blocks[i] = b =>
             /\ i = j /\ pool.hash[b] # NoHash
             /\ i * BlockSize <= ComputedWith(r, hit) \/ i * BlockSize <= computed[s]
    BY <1>7, <1>8
  <1> QED
    BY ZenonT(30), <1>2, <1>9, <1>10, <1>11 DEF b

\* allocate_slots, with what the scheduler then records of the request.
LEMMA KVAllocate ==
    ASSUME KVInv, NEW r \in Requests, NEW hit, NEW n, NEW memo, Asked(r, hit, n, memo),
           CanAllocate(r, hit, n), AllocateSlots(r, hit, n, memo),
           computed' = [computed EXCEPT ![r] = ComputedWith(r, hit)],
           scheduled' = [scheduled EXCEPT ![r] = n],
           status' = [status EXCEPT ![r] = "running"],
           UNCHANGED <<tokens, arrivals>>
    PROVE  KVInv'
  <1> DEFINE c == ComputedWith(r, hit)
             m == FullBlocks(r, hit, n)
  <1>1. PICK new : Granted(r, hit, n, memo, new)
    BY AllocateIs
  <1> DEFINE blocks == HeldWith(r, hit) \o new
  <1>2. /\ c \in Nat /\ n \in Nat \ {0} /\ m \in Nat /\ m = (c + n) \div BlockSize
        /\ c + n <= Len(tokens[r])
    <2>1. c \in Nat /\ m \in Nat /\ m = (c + n) \div BlockSize
      BY ZenonT(30), AskedNumbers
    <2> QED
      BY <2>1 DEF Asked
  <1>3. Types /\ Progress(r)
    BY DEF KVInv
  <1>4. /\ reqBlocks' = [reqBlocks EXCEPT ![r] = blocks]
        /\ numCached' = [numCached EXCEPT ![r] = m]
        /\ reqHashes' = [reqHashes EXCEPT ![r] = reqHashes'[r]]
        /\ Chained(reqHashes'[r])
        /\ Len(reqHashes'[r]) \in m..(Len(tokens[r]) \div BlockSize)
        /\ Len(blocks) = CeilDiv(c + n, BlockSize)
        /\ Counted(pool', reqBlocks')
        /\ content' = [b \in Blocks |-> IF b \in ToSet(new) THEN Blank ELSE content[b]]
        /\ \A i \in 1..Len(blocks) :
              pool'.hash[blocks[i]] = IF i <= m THEN reqHashes'[r][i] ELSE NoHash
    BY ZenonT(30), <1>1 DEF Granted
  <1> HIDE DEF c, m, blocks
  <1>5. Types'
    <2>1. reqHashes'[r] \in Seq(Hashes)
      BY ZenonT(30), <1>4 DEF Chained
    <2>2. content' \in [Blocks -> [Slots -> Seq(Nat)]]
      BY ZenonT(30), <1>3, <1>4, BlankIs DEF Types
    <2> QED
      BY ZenonT(30), <1>2, <1>3, <1>4, <2>1, <2>2 DEF Types, Statuses, c
  <1>6. /\ computed'[r] = c /\ scheduled'[r] = n /\ status'[r] = "running"
        /\ reqBlocks'[r] = blocks /\ numCached'[r] = m /\ tokens' = tokens
        /\ Total(r)' = c + n
    <2>1. computed'[r] = c /\ scheduled'[r] = n /\ status'[r] = "running"
      BY <1>3 DEF Types, c
    <2>2. reqBlocks'[r] = blocks /\ numCached'[r] = m
      <3>1. DOMAIN reqBlocks = Requests
        BY DEF KVInv, Counted
      <3> QED
        BY <1>3, <1>4, <3>1 DEF Types
    <2> QED
      BY <2>1, <2>2 DEF Total
  <1>7. Progress(r)'
    <2>1. Len(tokens[r]) \in Len(Prompt[r])..MaxModelLen
      BY <1>3 DEF Progress
    <2>2. Total(r)' <= Len(tokens'[r]) /\ Total(r)' > 0
      BY <1>2, <1>6
    <2> QED
      BY ZenonT(30), <1>2, <1>4, <1>6, <2>1, <2>2 DEF Progress
  <1>8. HashesKept(r)'
    BY <1>4, <1>6 DEF HashesKept
  <1>9. ASSUME NEW s \in Requests, s # r
        PROVE  /\ computed'[s] = computed[s] /\ scheduled'[s] = scheduled[s]
               /\ status'[s] = status[s] /\ reqBlocks'[s] = reqBlocks[s]
               /\ numCached'[s] = numCached[s] /\ reqHashes'[s] = reqHashes[s]
    BY ZenonT(30), <1>3, <1>4, <1>9 DEF Types, KVInv, Counted
  <1>10. ASSUME NEW s \in Requests, s # r PROVE Progress(s)'
    <2>1. Progress(s)
      BY DEF KVInv
    <2>2. Total(s)' = Total(s)
      BY ZenonT(30), <1>9, <1>10 DEF Total
    <2> QED
      BY ZenonT(30), <1>6, <1>9, <1>10, <2>1, <2>2 DEF Progress
  <1>11. ASSUME NEW s \in Requests, s # r, NEW j \in 1..Len(reqBlocks[s])
         PROVE  /\ pool'.hash[reqBlocks[s][j]] = pool.hash[reqBlocks[s][j]]
                /\ \A i \in 1..Len(blocks) : blocks[i] = reqBlocks[s][j] =>
                      /\ i = j /\ pool.hash[reqBlocks[s][j]] # NoHash
                      /\ i * BlockSize <= c \/ i * BlockSize <= computed[s]
    BY <1>1, <1>6, <1>11, OthersKeep DEF c
  <1>12. ASSUME NEW s \in Requests, s # r PROVE HashesKept(s)'
    <2>1. HashesKept(s)
      BY ZenonT(30) DEF KVInv
    <2> QED
      BY <1>6, <1>9, <1>11, <1>12, <2>1 DEF HashesKept
  <1>13. ASSUME NEW s \in Requests, s # r PROVE Shared(r, s)' /\ Shared(s, r)'
    <2>1. reqBlocks'[s] = reqBlocks[s] /\ computed'[s] = computed[s]
      BY ZenonT(30), <1>9, <1>13
    <2> QED
      BY <1>6, <1>11, <1>13, <2>1 DEF Shared
  <1>14. ASSUME NEW s \in Requests, NEW t \in Requests, s # r, t # r, s # t PROVE Shared(s, t)'
    <2>1. Shared(s, t)
      BY ZenonT(30), <1>14 DEF KVInv
    <2>2. /\ reqBlocks'[s] = reqBlocks[s] /\ computed'[s] = computed[s]
          /\ reqBlocks'[t] = reqBlocks[t] /\ computed'[t] = computed[t]
      BY <1>9, <1>14
    <2>3. \A i \in 1..Len(reqBlocks[s]) : pool'.hash[reqBlocks[s][i]] = pool.hash[reqBlocks[s][i]]
      BY ZenonT(30), <1>11, <1>14
    <2> QED
      BY <2>1, <2>2, <2>3 DEF Shared
  <1> QED
    BY ZenonT(30), <1>4, <1>5, <1>7, <1>8, <1>10, <1>12, <1>13, <1>14 DEF KVInv

\* A request without blocks: it has computed nothing and nothing is scheduled.
LEMMA Idling ==
    ASSUME KVInv, NEW r \in Requests, status[r] # "running"
    PROVE  /\ reqBlocks[r] = <<>> /\ numCached[r] = 0
           /\ computed[r] = 0 /\ scheduled[r] = 0
  <1>1. Progress(r) /\ computed[r] \in Nat /\ scheduled[r] \in Nat /\ reqBlocks[r] \in Seq(Usable)
    BY ZenonT(30) DEF KVInv, Types, Counted
  <1>2. Total(r) = 0 /\ Len(reqBlocks[r]) = CeilDiv(0, BlockSize) /\ numCached[r] = 0 \div BlockSize
    BY <1>1 DEF Progress
  <1>3. Len(reqBlocks[r]) = 0 /\ numCached[r] = 0
    BY <1>2, Fresh
  <1> QED
    BY <1>1, <1>2, <1>3 DEF Total

\* A waiting or preempted request asks with the blocks it hits.
LEMMA NewAsks ==
    ASSUME KVInv, NEW r \in Requests, Tried(r), NEW hit \in Hits(r), NEW n \in ChunksAfter(r, hit)
    PROVE  Asked(r, hit, n, BlockHashes(r))
  <1>1. /\ hit \in Seq(Usable) /\ Distinct(hit) /\ Len(hit) <= Len(BlockHashes(r))
        /\ \A i \in 1..Len(hit) : pool.hash[hit[i]] = BlockHashes(r)[i]
    BY HitsAre
  <1>2. /\ Chained(BlockHashes(r)) /\ Len(BlockHashes(r)) \in 0..(Len(tokens[r]) \div BlockSize)
        /\ numCached[r] <= Len(BlockHashes(r))
        /\ \A i \in 1..numCached[r] : BlockHashes(r)[i] = reqHashes[r][i]
    BY BlockHashesAre
  <1>3. reqBlocks[r] = <<>> /\ computed[r] = 0 /\ scheduled[r] = 0
    BY Idling DEF Tried
  <1>4. n \in Nat \ {0} /\ ComputedWith(r, hit) + n <= Len(tokens[r])
    <2>1. ComputedWith(r, hit) \in Nat
      <3>1. \A l, d \in Nat : 0 + l * d \in Nat
        OBVIOUS
      <3>2. Len(hit) \in Nat /\ BlockSize \in Nat
        BY <1>1, PoolAssumption
      <3> QED
        BY <1>3, <3>1, <3>2 DEF ComputedWith
    <2>2. Len(tokens[r]) \in Nat
      BY DEF KVInv, Types
    <2> QED
      BY <2>1, <2>2 DEF ChunksAfter
  <1>5. Len(BlockHashes(r)) <= Len(tokens[r]) \div BlockSize
    <2>1. Len(tokens[r]) \in Nat
      BY DEF KVInv, Types
    <2>2. Len(tokens[r]) \div BlockSize \in Nat
      BY ZenonT(30), <2>1, FullCounts
    <2> QED
      BY <1>2, <2>2
  <1> QED
    BY <1>1, <1>2, <1>3, <1>4, <1>5 DEF Asked

\* A running request asks for more slots with no block hit.
LEMMA MoreAsks ==
    ASSUME KVInv, NEW r \in Requests, Continues(r), NEW n \in Chunks(r)
    PROVE  Asked(r, <<>>, n, reqHashes[r]) /\ ComputedWith(r, <<>>) = computed[r]
  <1>1. /\ HashesKept(r) /\ computed[r] \in Nat /\ numCached[r] \in Nat /\ Len(tokens[r]) \in Nat
        /\ scheduled[r] = 0 /\ MaxModelLen \in Nat
    BY ManagerAssumption DEF KVInv, Types, Continues
  <1>2. ComputedWith(r, <<>>) = computed[r]
    BY <1>1, PoolAssumption DEF ComputedWith
  <1>3. n \in Nat \ {0} /\ computed[r] + n <= Len(tokens[r])
    BY <1>1 DEF Chunks, Smaller
  <1>4. /\ Chained(reqHashes[r]) /\ Len(reqHashes[r]) <= Len(tokens[r]) \div BlockSize
        /\ numCached[r] <= Len(reqHashes[r]) /\ 0 <= Len(reqHashes[r])
    <2>1. Len(tokens[r]) \div BlockSize \in Nat
      BY <1>1, FullCounts
    <2> QED
      BY <1>1, <2>1 DEF HashesKept
  <1>5. <<>> \in Seq(Usable)
    OBVIOUS
  <1> QED
    BY <1>1, <1>2, <1>3, <1>4, <1>5, Fresh DEF Asked

\* A waiting or preempted request gets its blocks.
LEMMA KVNew ==
    ASSUME KVInv, NEW r \in Requests, AllocateNew(r)
    PROVE  KVInv'
  <1>1. Tried(r)
    BY DEF AllocateNew
  <1>2. PICK hit \in Hits(r) : \E n \in ChunksAfter(r, hit) : AllocateNewWith(r, hit, n)
    BY DEF AllocateNew
  <1>3. PICK n \in ChunksAfter(r, hit) : AllocateNewWith(r, hit, n)
    BY <1>2
  <1>4. Asked(r, hit, n, BlockHashes(r))
    BY <1>1, NewAsks
  <1> DEFINE memo == BlockHashes(r)
  <1>5. /\ CanAllocate(r, hit, n) /\ AllocateSlots(r, hit, n, memo)
        /\ computed' = [computed EXCEPT ![r] = ComputedWith(r, hit)]
        /\ scheduled' = [scheduled EXCEPT ![r] = n]
        /\ status' = [status EXCEPT ![r] = "running"]
        /\ UNCHANGED <<tokens, arrivals>>
    BY <1>3 DEF AllocateNewWith
  <1> HIDE DEF memo
  <1> QED
    BY ZenonT(30), <1>4, <1>5, KVAllocate DEF memo

\* A running request gets more blocks.
LEMMA KVMore ==
    ASSUME KVInv, NEW r \in Requests, AllocateMore(r)
    PROVE  KVInv'
  <1>1. Continues(r)
    BY DEF AllocateMore
  <1>2. PICK n \in Chunks(r) : AllocateMoreWith(r, n)
    BY DEF AllocateMore
  <1>3. Asked(r, <<>>, n, reqHashes[r]) /\ ComputedWith(r, <<>>) = computed[r]
    BY <1>1, MoreAsks
  <1>4. computed' = [computed EXCEPT ![r] = ComputedWith(r, <<>>)]
        /\ status' = [status EXCEPT ![r] = "running"]
    <2>1. computed' = computed /\ status' = status
      BY <1>2 DEF AllocateMoreWith
    <2> QED
      BY <1>1, <1>3, <2>1 DEF KVInv, Types, Continues
  <1>5. /\ CanAllocate(r, <<>>, n) /\ AllocateSlots(r, <<>>, n, reqHashes[r])
        /\ scheduled' = [scheduled EXCEPT ![r] = n]
        /\ UNCHANGED <<tokens, arrivals>>
    BY <1>2 DEF AllocateMoreWith
  <1> DEFINE memo == reqHashes[r]  hit == <<>>
  <1> HIDE DEF memo, hit
  <1> QED
    BY ZenonT(30), <1>3, <1>4, <1>5, KVAllocate DEF memo, hit
=============================================================================
