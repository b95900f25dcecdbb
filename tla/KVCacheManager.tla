--------------------------- MODULE KVCacheManager ---------------------------
(***************************************************************************)
(* vllm/v1/core/kv_cache_manager.py with its unitary coordinator and       *)
(* FullAttentionManager (single_type_kv_cache_manager.py), as deployed:    *)
(* one KV-cache group, prefix caching on, no speculative decoding, no KV   *)
(* connector, no KV events.                                                *)
(*                                                                         *)
(* The caller is the scheduler.  This module lets it choose any waiting or *)
(* running request, any chunk of its tokens and any victim of preemption;  *)
(* Scheduler fixes the choice.  A step of the engine is a series of        *)
(* allocations and preemptions that ends with ExecuteStep, which is the    *)
(* forward pass and update_from_output.  Requests enter and are aborted    *)
(* between steps.                                                          *)
(***************************************************************************)
EXTENDS BlockPool

CONSTANTS Requests,
          Prompt,            \* [Requests -> non-empty sequence of inputs]: tokens,
                             \* and an image where the prompt has its placeholder
          ImageToken,        \* the token id of the placeholders
          PromptLogprobs,    \* the requests that ask for prompt_logprobs
          Tokens,            \* what the model may sample
          MaxModelLen,
          MaxArrivals        \* bound on the requests that arrive

ASSUME ManagerAssumption ==
    /\ MaxModelLen \in Nat /\ MaxArrivals \in Nat
    /\ IsFiniteSet(Requests)
    /\ Tokens \subseteq Nat /\ ImageToken \in Nat
    /\ Prompt \in [Requests -> Seq(Nat)]
    /\ \A r \in Requests : Len(Prompt[r]) \in 1..MaxModelLen
    /\ PromptLogprobs \subseteq Requests
    /\ Requests \subseteq DOMAIN MMPositions
    /\ \A r \in Requests : \A i \in DOMAIN MMPositions[r] :
          \A p \in (InputStart(r, i) + 1)..InputEnd(r, i) :
              p \in DOMAIN Prompt[r] /\ Prompt[r][p] = MMPositions[r][i].hash

VARIABLES
    pool,            \* the block pool
    reqBlocks,       \* req_to_blocks, <<>> for a request that has none
    numCached,       \* num_cached_block of the requests that hold blocks
    reqHashes,       \* req_to_block_hashes
    status,          \* Request.status, "none" before it arrives and after it is deleted
    tokens,          \* the inputs of a request, whose ids are Request.all_token_ids
    computed,        \* Request.num_computed_tokens
    scheduled,       \* num_scheduled_tokens of the step being put together
    arrivals,        \* how many requests have arrived
    content          \* what the GPU memory of a block holds, slot by slot

vars == <<pool, reqBlocks, numCached, reqHashes, status, tokens, computed,
          scheduled, arrivals, content>>

\* The KV entry of a token depends on the input there, a token or a part of an
\* image, and all inputs before it: it is identified with that prefix, and <<>> is an entry never written.
\* A block handed out afresh counts as never written: what its last holder left
\* there must not be relied on.
Slots == 1..BlockSize
Blank == [s \in Slots |-> <<>>]
Statuses == {"none", "waiting", "running", "preempted"}

TypeOK ==
    /\ PoolType(pool)
    /\ reqBlocks \in [Requests -> Seq(Blocks)]
    /\ numCached \in [Requests -> Nat]
    /\ status \in [Requests -> Statuses]
    /\ tokens \in [Requests -> Seq(Nat)]
    /\ computed \in [Requests -> 0..MaxModelLen]
    /\ scheduled \in [Requests -> 0..MaxModelLen]
    /\ arrivals \in 0..MaxArrivals
    /\ DOMAIN content = Blocks

Init ==
    /\ pool = InitPool
    /\ reqBlocks = [r \in Requests |-> <<>>]
    /\ numCached = [r \in Requests |-> 0]
    /\ reqHashes = [r \in Requests |-> <<>>]
    /\ status = [r \in Requests |-> "none"]
    /\ tokens = Prompt
    /\ computed = [r \in Requests |-> 0]
    /\ scheduled = [r \in Requests |-> 0]
    /\ arrivals = 0
    /\ content = [b \in Blocks |-> Blank]

BetweenSteps == \A r \in Requests : scheduled[r] = 0

CeilDiv(n, d) == (n + d - 1) \div d
Smaller(m, n) == IF m < n THEN m ELSE n

-----------------------------------------------------------------------------
(* get_computed_blocks.                                                    *)

\* Request.all_token_ids: the placeholders of all images look the same.
TokenIds(r) ==
    [p \in DOMAIN tokens[r] |->
        IF \E i \in DOMAIN MMPositions[r] : Overlaps(r, i, p - 1, 1)
        THEN ImageToken ELSE tokens[r][p]]

\* A request that wants the logprobs of its prompt has all of it computed: for
\* it nothing is looked up and no hashes are made here.
LooksUp(r) == r \notin PromptLogprobs

\* The list of hashes is computed once and then reused.
BlockHashes(r) ==
    IF reqHashes[r] = <<>> /\ LooksUp(r)
    THEN HashRequestTokens(r, TokenIds(r)) ELSE reqHashes[r]

Mut_MaxHit(r) == Len(tokens[r]) \div BlockSize

\* At least the last token is computed again, to obtain its logits.
MaxHit(r) == IF LooksUp(r) THEN (Len(tokens[r]) - 1) \div BlockSize ELSE 0

\* find_longest_cache_hit: the cached blocks of the longest prefix of the
\* chain of hashes, at most MaxHit(r) of them.
HitLength(r) ==
    LET n == Smaller(MaxHit(r), Len(BlockHashes(r)))
        Hit(k) == \A i \in 1..k : CachedBlocks(pool, BlockHashes(r)[i]) # {}
    IN CHOOSE k \in 0..n : Hit(k) /\ (k < n => ~Hit(k + 1))
Hits(r) ==
    {hit \in [1..HitLength(r) -> Blocks] :
        \A i \in DOMAIN hit : hit[i] \in CachedBlocks(pool, BlockHashes(r)[i])}

-----------------------------------------------------------------------------
(* allocate_slots(request, n new tokens, blocks hit).                      *)

ComputedWith(r, hit) == computed[r] + Len(hit) * BlockSize
TokensNeedSlot(r, hit, n) == Smaller(ComputedWith(r, hit) + n, MaxModelLen)

Mut_NumBlocksToAllocate(r, hit, n) ==
    CeilDiv(TokensNeedSlot(r, hit, n), BlockSize) - Len(hit) - Len(reqBlocks[r])

\* get_num_blocks_to_allocate: a block hit in the free list counts as well.
NumBlocksToAllocate(r, hit, n) ==
    CeilDiv(TokensNeedSlot(r, hit, n), BlockSize) - Len(hit) - Len(reqBlocks[r])
    + Cardinality({b \in ToSet(hit) : pool.ref[b] = 0 /\ b # NullBlock})

CanAllocate(r, hit, n) == NumBlocksToAllocate(r, hit, n) <= NumFree(pool)

Mut_FullBlocks(r, hit, n) == Len(tokens[r]) \div BlockSize

\* The blocks to publish; the tokens excluded are those it does not have yet.
FullBlocks(r, hit, n) ==
    Smaller(ComputedWith(r, hit) + n, Len(tokens[r])) \div BlockSize

\* save_new_computed_blocks: the blocks hit join a request that has none.
HeldWith(r, hit) == reqBlocks[r] \o hit
CachedWith(r, hit) == IF reqBlocks[r] = <<>> THEN Len(hit) ELSE numCached[r]

\* allocate_new_blocks: how many it asks the pool for, none if negative.
MissingBlocks(r, hit, n) ==
    CeilDiv(TokensNeedSlot(r, hit, n), BlockSize) - Len(HeldWith(r, hit))

\* touch, save_new_computed_blocks, allocate_new_blocks, cache_blocks, in this
\* order.
AllocateSlots(r, hit, n, memo) ==
    LET touched == Touch(pool, ToSet(hit))
        held    == HeldWith(r, hit)
        missing == MissingBlocks(r, hit, n)
        grow    == missing > 0
        grown   == IF grow THEN GetNewBlocks(touched, missing) ELSE touched
        blocks  == IF grow THEN held \o NewBlocks(touched, missing) ELSE held
        cached  == CachedWith(r, hit)
        full    == FullBlocks(r, hit, n)
    IN /\ pool' = CacheFullBlocks(grown, blocks, r, TokenIds(r), memo, cached, full)
       /\ reqBlocks' = [reqBlocks EXCEPT ![r] = blocks]
       /\ numCached' = [numCached EXCEPT ![r] = full]
       /\ reqHashes' = [reqHashes EXCEPT ![r] =
                           MemoAfter(grown, blocks, r, TokenIds(r), memo, cached, full)]
       /\ content' = [b \in Blocks |->
                         IF b \in ToSet(blocks) \ ToSet(held) THEN Blank ELSE content[b]]

Mut_FreeOrder(blocks) == blocks

\* In reverse order, so that the tail of a request is evicted first.
FreeOrder(blocks) == Reverse(blocks)

\* KVCacheManager.free.
FreeRequest(r) ==
    /\ pool' = FreeBlocks(pool, FreeOrder(reqBlocks[r]))
    /\ reqBlocks' = [reqBlocks EXCEPT ![r] = <<>>]
    /\ numCached' = [numCached EXCEPT ![r] = 0]

-----------------------------------------------------------------------------
(* The steps of the caller.                                                *)

\* Scheduler.add_request.
AddRequest(r) ==
    /\ BetweenSteps
    /\ status[r] = "none" /\ arrivals < MaxArrivals
    /\ arrivals' = arrivals + 1
    /\ status' = [status EXCEPT ![r] = "waiting"]
    /\ UNCHANGED <<pool, reqBlocks, numCached, reqHashes, tokens, computed,
                   scheduled, content>>

\* A waiting or preempted request is tried with the blocks it hits and a chunk
\* of its other tokens.
Tried(r) == status[r] \in {"waiting", "preempted"}
ChunksAfter(r, hit) == 1..(Len(tokens[r]) - ComputedWith(r, hit))

AllocateNewWith(r, hit, n) ==
    /\ CanAllocate(r, hit, n)
    /\ AllocateSlots(r, hit, n, BlockHashes(r))
    /\ computed' = [computed EXCEPT ![r] = ComputedWith(r, hit)]
    /\ scheduled' = [scheduled EXCEPT ![r] = n]
    /\ status' = [status EXCEPT ![r] = "running"]
    /\ UNCHANGED <<tokens, arrivals>>

AllocateNew(r) ==
    /\ Tried(r)
    /\ \E hit \in Hits(r) : \E n \in ChunksAfter(r, hit) : AllocateNewWith(r, hit, n)

\* allocate_slots returns None, or no encoder space is left for the request;
\* get_computed_blocks has kept the hashes.
KeepHashes(r) ==
    /\ reqHashes' = [reqHashes EXCEPT ![r] = BlockHashes(r)]
    /\ UNCHANGED <<pool, reqBlocks, numCached, status, tokens, computed,
                   scheduled, arrivals, content>>

AllocateNewFails(r) == Tried(r) /\ KeepHashes(r)

\* The chunks the scheduler may ask for a running request.
Continues(r) == status[r] = "running" /\ scheduled[r] = 0
Chunks(r) ==
    1..Smaller(Len(tokens[r]) - computed[r], MaxModelLen - 1 - computed[r])

AllocateMoreWith(r, n) ==
    /\ CanAllocate(r, <<>>, n)
    /\ AllocateSlots(r, <<>>, n, reqHashes[r])
    /\ scheduled' = [scheduled EXCEPT ![r] = n]
    /\ UNCHANGED <<status, tokens, computed, arrivals>>

AllocateMore(r) == Continues(r) /\ \E n \in Chunks(r) : AllocateMoreWith(r, n)

\* The victim is the last of the running list, which no iteration has reached.
Victim(v) == status[v] = "running" /\ scheduled[v] = 0

\* allocate_slots returns None for a running request: a victim is freed.
Preempted(v) ==
    /\ FreeRequest(v)
    /\ status' = [status EXCEPT ![v] = "preempted"]
    /\ computed' = [computed EXCEPT ![v] = 0]
    /\ UNCHANGED <<reqHashes, tokens, scheduled, arrivals, content>>

Preempt(v) ==
    /\ \E r \in Requests : Continues(r) /\ \E n \in Chunks(r) : ~CanAllocate(r, <<>>, n)
    /\ Victim(v)
    /\ Preempted(v)

\* The KV entry of position p of a request, and where it is stored.
Entry(r, p) == SubSeq(tokens[r], 1, p)
BlockOf(r, p) == reqBlocks[r][CeilDiv(p, BlockSize)]
SlotOf(p) == ((p - 1) % BlockSize) + 1

\* The memory after the forward pass over the scheduled tokens.
Writes == {w \in Requests \X (1..MaxModelLen) :
               w[2] \in (computed[w[1]] + 1)..(computed[w[1]] + scheduled[w[1]])}
WritesTo(b, s) == {w \in Writes : BlockOf(w[1], w[2]) = b /\ SlotOf(w[2]) = s}
Written ==
    [b \in Blocks |-> [s \in Slots |->
        IF WritesTo(b, s) = {} THEN content[b][s]
        ELSE LET w == CHOOSE w \in WritesTo(b, s) : TRUE IN Entry(w[1], w[2])]]

\* The requests of a sequence finish: free and free_block_hashes for each.
FreeAll(order) ==
    LET P[i \in 0..Len(order)] ==
            IF i = 0 THEN pool ELSE FreeBlocks(P[i - 1], FreeOrder(reqBlocks[order[i]]))
    IN pool' = P[Len(order)]

Mut_Stopping(S) ==
    {stop \in SUBSET S : \A r \in S : Len(tokens[r]) + 1 > MaxModelLen => r \in stop}

\* check_stop, once a token is appended to the requests of S: one that reaches
\* the length cap stops, any other may, at its max_tokens or at a stop token.
Stopping(S) ==
    {stop \in SUBSET S : \A r \in S : Len(tokens[r]) + 1 >= MaxModelLen => r \in stop}

\* The requests of the step whose tokens are all computed: each gets a token.
Sampled == {r \in Requests : scheduled[r] > 0 /\ computed[r] + scheduled[r] = Len(tokens[r])}

\* execute_model and update_from_output: t is the token of each of Sampled,
\* those of order stop, in this order.
ExecuteWith(t, order) ==
    LET stop == ToSet(order)
    IN /\ FreeAll(order)
       /\ tokens' = [r \in Requests |->
              IF r \in stop THEN Prompt[r]
              ELSE IF r \in Sampled THEN Append(tokens[r], t[r]) ELSE tokens[r]]
       /\ status' = [r \in Requests |-> IF r \in stop THEN "none" ELSE status[r]]
       /\ computed' = [r \in Requests |-> IF r \in stop THEN 0 ELSE computed[r] + scheduled[r]]
       /\ reqBlocks' = [r \in Requests |-> IF r \in stop THEN <<>> ELSE reqBlocks[r]]
       /\ numCached' = [r \in Requests |-> IF r \in stop THEN 0 ELSE numCached[r]]
       /\ reqHashes' = [r \in Requests |-> IF r \in stop THEN <<>> ELSE reqHashes[r]]
       /\ scheduled' = [r \in Requests |-> 0]
       /\ content' = Written
       /\ UNCHANGED arrivals

ExecuteStep ==
    /\ ~BetweenSteps
    /\ \E t \in [Sampled -> Tokens], stop \in Stopping(Sampled) :
          \E order \in SetToSeqs(stop) : ExecuteWith(t, order)

\* finish_requests for a request of a client that went away.
Abort(r) ==
    /\ BetweenSteps
    /\ status[r] \in {"waiting", "running", "preempted"}
    /\ FreeRequest(r)
    /\ reqHashes' = [reqHashes EXCEPT ![r] = <<>>]
    /\ status' = [status EXCEPT ![r] = "none"]
    /\ tokens' = [tokens EXCEPT ![r] = Prompt[r]]
    /\ computed' = [computed EXCEPT ![r] = 0]
    /\ UNCHANGED <<scheduled, arrivals, content>>

ResetPrefixCache ==
    /\ BetweenSteps
    /\ pool' = ResetPool(pool)
    /\ UNCHANGED <<reqBlocks, numCached, reqHashes, status, tokens, computed,
                   scheduled, arrivals, content>>

Next ==
    \/ \E r \in Requests : \/ AddRequest(r) \/ AllocateNew(r) \/ AllocateNewFails(r)
                           \/ AllocateMore(r) \/ Preempt(r) \/ Abort(r)
    \/ ExecuteStep
    \/ ResetPrefixCache

Spec == Init /\ [][Next]_vars

-----------------------------------------------------------------------------
(* Properties.                                                             *)

Holders(b) == {r \in Requests : b \in ToSet(reqBlocks[r])}

\* Reference counting: the count of a block is the number of requests whose
\* list holds it, and no list holds a block twice.  A hit, a fresh block, a
\* preemption, an abort and a finish all keep it; the assertions on ref_cnt in
\* get_new_blocks depend on it.
RefCountExact ==
    /\ TypeOK
    /\ \A b \in Blocks \ {NullBlock} : pool.ref[b] = Cardinality(Holders(b))
    /\ \A r \in Requests : Distinct(reqBlocks[r]) /\ NullBlock \notin ToSet(reqBlocks[r])

\* A block is in the free list exactly when nobody holds it, and once: touch
\* takes it out of the middle, free_blocks puts it back at the end.
FreeListExact == QueueExact(pool)

\* The hash table and the hashes kept in the blocks agree, so that a lookup
\* never returns a block that was given away since.
CacheTableExact == CacheExact(pool)

\* The blocks of r that cache_full_blocks may have to hash: those that end in
\* generated tokens, and all blocks of a request that looks nothing up.
HashedLate(r, i) == ~LooksUp(r) \/ i * BlockSize > Len(Prompt[r])

\* What cache_full_blocks takes for granted: "we only need to consider the last
\* mm input".
LastImageAlone(r) ==
    \A i \in DOMAIN MMPositions[r] : \A b \in 1..CeilDiv(Len(Prompt[r]), BlockSize) :
        HashedLate(r, b) /\ Overlaps(r, i, (b - 1) * BlockSize, BlockSize)
        => i = Len(MMPositions[r])

\* The hash h of block i of r tells its tokens and its images.  One exception:
\* cache_full_blocks adds the last image to a block that starts where it ends.
TellsBlock(h, r, i) ==
    /\ h[i][1] = BlockTokens(TokenIds(r), i)
    /\ \/ h[i][2] = ImagesIn(r, i)
       \/ /\ AfterLastImage(r, i) /\ HashedLate(r, i)
          /\ h[i][2] = <<Last(MMPositions[r]).hash>>

\* The hashes kept for a request, over preemption too, chain the tokens and the
\* images of its own blocks, although hash_request_tokens moves on from image
\* to image within and across blocks and cache_full_blocks looks at the last one
\* only; images in such a block that are not the last are left out, see
\* ReadsOwnPrefix.  Its first numCached blocks carry those hashes and its other
\* blocks carry none, which is what the assertions of cache_full_blocks on
\* block_hash require.
HashesRight ==
    \A r \in Requests :
        /\ \A i \in 1..Len(reqBlocks[r]) :
              pool.hash[reqBlocks[r][i]] = IF i <= numCached[r] THEN reqHashes[r][i] ELSE NoHash
        /\ numCached[r] <= Len(reqHashes[r])
        /\ \A i \in DOMAIN reqHashes[r] :
              /\ Len(reqHashes[r][i]) = i
              /\ LastImageAlone(r) => \A j \in 1..i : TellsBlock(reqHashes[r][i], r, j)

\* Whenever allocate_slots passes its check, get_new_blocks finds the blocks it
\* asks for: the check counts the blocks hit in the free list, which touch
\* removes before get_new_blocks is called.
NeverOverdrawn ==
    \A r \in Requests :
        LET Enough(hit, n) == CanAllocate(r, hit, n) =>
                MissingBlocks(r, hit, n) <= NumFree(Touch(pool, ToSet(hit)))
        IN /\ Continues(r) => \A n \in Chunks(r) : Enough(<<>>, n)
           /\ Tried(r) => \A hit \in Hits(r) : \A n \in ChunksAfter(r, hit) : Enough(hit, n)

\* Isolation: once the forward pass of the step has run, every position a
\* request counts as computed holds the entry of that request's own prefix.
\* Blocks are published in the cache before they are computed, so a request
\* may hit a block that an earlier one writes in the same step.  It takes
\* LastImageAlone: two images in a block that is filled by generated tokens, of
\* which only the last is hashed, break it.
ReadsOwnPrefix ==
    LET memory == Written
    IN \A r \in Requests : status[r] = "running" =>
           \A p \in 1..(computed[r] + scheduled[r]) :
               memory[BlockOf(r, p)][SlotOf(p)] = Entry(r, p)

\* A block found under a hash holds, after the forward pass of the step, the
\* entries of the tokens and images of that hash: no published block is left
\* unwritten by a preemption, none is overwritten while published, and none of
\* one image is found for another whose placeholders look the same.  Like
\* ReadsOwnPrefix it takes LastImageAlone.
CachedContentRight ==
    LET memory == Written
        Means(h, p, x) ==
            LET block == h[CeilDiv(p, BlockSize)]
                id == block[1][SlotOf(p)]
            IN IF id = ImageToken THEN x \in ToSet(block[2]) ELSE x = id
    IN \A c \in pool.cached : \A s \in Slots :
           LET entry == memory[c[2]][s]
           IN /\ Len(entry) = (Len(c[1]) - 1) * BlockSize + s
              /\ \A p \in DOMAIN entry : Means(c[1], p, entry[p])

\* No two tokens of one step are stored in the same slot.
OneWriter ==
    \A v, w \in Writes :
        BlockOf(v[1], v[2]) = BlockOf(w[1], w[2]) /\ SlotOf(v[2]) = SlotOf(w[2]) => v = w

\* "If a block hash is not in the cached_block_hash_to_id, the following block
\* hashes are not computed yet for sure" (find_longest_cache_hit): eviction
\* takes the tail of a chain before its head, because free is in reverse order.
NoOrphans ==
    \A c \in pool.cached : Len(c[1]) > 1 => CachedBlocks(pool, Front(c[1])) # {}
=============================================================================
