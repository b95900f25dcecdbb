------------------------------ MODULE BlockPool ------------------------------
(***************************************************************************)
(* vllm/v1/core/block_pool.py: the pool of KV-cache blocks.                *)
(*                                                                         *)
(* A pool is a record.  Every method of BlockPool that changes it is an    *)
(* operator from the pool before the call to the pool after it, so that a  *)
(* caller can make several calls in one step, as KVCacheManager does.      *)
(*                                                                         *)
(* The free list is a sequence here; FreeBlockList models the doubly       *)
(* linked list behind it.  BlockHash says what the hash of a block is.     *)
(* The cache is a set of pairs of a hash and a block; of several blocks    *)
(* with the same hash any one may be found (the code returns the oldest    *)
(* entry).                                                                 *)
(***************************************************************************)
EXTENDS BlockHash, FiniteSets

CONSTANT NumBlocks            \* num_gpu_blocks

ASSUME PoolAssumption ==
    /\ NumBlocks \in Nat \ {0}
    /\ BlockSize \in Nat \ {0}

Blocks == 0..(NumBlocks - 1)
NullBlock == 0                \* the first block, popped by __init__

InitPool ==
    [ref    |-> [b \in Blocks |-> 0],
     hash   |-> [b \in Blocks |-> NoHash],
     cached |-> {},
     queue  |-> [i \in 1..(NumBlocks - 1) |-> i]]

NumFree(p) == Len(p.queue)

\* get_cached_block: the blocks one of which a hit on hash h returns.
CachedBlocks(p, h) == {b \in Blocks : <<h, b>> \in p.cached}

Mut_Evict(p, S) ==
    [p EXCEPT !.hash = [b \in Blocks |-> IF b \in S THEN NoHash ELSE p.hash[b]]]

\* _maybe_evict_cached_block, for every block of S.
Evict(p, S) ==
    LET E == {b \in S : p.hash[b] # NoHash /\ CachedBlocks(p, p.hash[b]) # {}}
    IN [p EXCEPT !.hash = [b \in Blocks |-> IF b \in E THEN NoHash ELSE p.hash[b]],
                 !.cached = {c \in p.cached : ~(c[2] \in E /\ c[1] = p.hash[c[2]])}]

\* get_new_blocks: n blocks from the head of the free list, for n <= NumFree(p).
NewBlocks(p, n) == SubSeq(p.queue, 1, n)
GetNewBlocks(p, n) ==
    LET S == ToSet(NewBlocks(p, n))
        q == [p EXCEPT !.queue = SubSeq(p.queue, n + 1, Len(p.queue))]
    IN [Evict(q, S) EXCEPT !.ref = [b \in Blocks |-> p.ref[b] + (IF b \in S THEN 1 ELSE 0)]]

Mut_Touch(p, S) ==
    [p EXCEPT !.ref = [b \in Blocks |-> p.ref[b] + (IF b \in S THEN 1 ELSE 0)]]

Mut_TouchUncounted(p, S) ==
    [p EXCEPT !.queue = Keep(p.queue, Blocks \ S)]

\* touch: a block of S that is free leaves the free list.
Touch(p, S) ==
    [p EXCEPT !.queue = Keep(p.queue, Blocks \ {b \in S : p.ref[b] = 0 /\ b # NullBlock}),
              !.ref = [b \in Blocks |-> p.ref[b] + (IF b \in S THEN 1 ELSE 0)]]

Mut_FreeBlocks(p, s) ==
    LET ref == [b \in Blocks |-> p.ref[b] - (IF b \in ToSet(s) THEN 1 ELSE 0)]
    IN [p EXCEPT !.ref = ref, !.queue = p.queue \o s]

\* free_blocks: drops one reference of every block of s; those left without
\* one join the tail of the free list in the order of s.
FreeBlocks(p, s) ==
    LET ref == [b \in Blocks |-> p.ref[b] - (IF b \in ToSet(s) THEN 1 ELSE 0)]
    IN [p EXCEPT !.ref = ref,
                 !.queue = p.queue \o Keep(s, {b \in Blocks : ref[b] = 0 /\ b # NullBlock})]

\* cache_full_blocks for the blocks numCached+1 .. numFull of request r with the
\* given blocks and token ids; memo is its list of hashes computed so far.  A
\* hash that is not in memo is built from the hash of the preceding block.
ChainHashes(p, blocks, r, ids, memo, numCached, numFull) ==
    LET H[i \in numCached..numFull] ==
            IF i = numCached THEN IF i = 0 THEN NoHash ELSE p.hash[blocks[i]]
            ELSE IF i <= Len(memo) THEN memo[i]
            ELSE HashBlockTokens(H[i - 1], ids, i, LastKeys(r, i))
    IN H
CacheFullBlocks(p, blocks, r, ids, memo, numCached, numFull) ==
    LET H == ChainHashes(p, blocks, r, ids, memo, numCached, numFull)
        new == (numCached + 1)..numFull
    IN [p EXCEPT !.hash = [b \in Blocks |->
                              IF \E i \in new : blocks[i] = b
                              THEN H[CHOOSE i \in new : blocks[i] = b] ELSE p.hash[b]],
                 !.cached = @ \cup {<<H[i], blocks[i]>> : i \in new}]

\* The hashes cache_full_blocks appends to the request's list.
MemoAfter(p, blocks, r, ids, memo, numCached, numFull) ==
    LET H == ChainHashes(p, blocks, r, ids, memo, numCached, numFull)
    IN [i \in 1..(IF numFull > Len(memo) THEN numFull ELSE Len(memo)) |->
            IF i <= Len(memo) THEN memo[i] ELSE H[i]]

\* reset_prefix_cache: refused while any block but the null block is in use.
ResetPool(p) ==
    IF NumBlocks - NumFree(p) # 1 THEN p
    ELSE [p EXCEPT !.cached = {}, !.hash = [b \in Blocks |-> NoHash]]

-----------------------------------------------------------------------------
(* What a pool must satisfy.                                               *)

PoolType(p) ==
    /\ p.ref \in [Blocks -> Nat]
    /\ DOMAIN p.hash = Blocks
    /\ p.queue \in Seq(Blocks \ {NullBlock})

\* The free list holds every block without a reference, once, and no other.
QueueExact(p) ==
    /\ ToSet(p.queue) = {b \in Blocks \ {NullBlock} : p.ref[b] = 0}
    /\ \A i, j \in 1..Len(p.queue) : p.queue[i] = p.queue[j] => i = j

\* The cache and the hashes kept in the blocks say the same.
CacheExact(p) ==
    \A b \in Blocks : {c[1] : c \in {d \in p.cached : d[2] = b}}
                      = (IF p.hash[b] = NoHash THEN {} ELSE {p.hash[b]})
=============================================================================
