----------------------------- MODULE BlockHash ------------------------------
(***************************************************************************)
(* vllm/v1/core/kv_cache_utils.py: the hashes of the blocks of a request.  *)
(*                                                                         *)
(* The hash of a block covers the hash of the block before it, the token   *)
(* ids of the block and the keys of its images, whose placeholders all     *)
(* have one token id.  The hash function is taken to be collision-free: a  *)
(* hash is the sequence of what was hashed, block after block.  No LoRA    *)
(* adapters and no cache salts are deployed.                               *)
(***************************************************************************)
EXTENDS MMInputs, Lists

CONSTANT BlockSize

NoHash == <<>>

BlockTokens(ids, i) == SubSeq(ids, (i - 1) * BlockSize + 1, i * BlockSize)

Mut_MMKeys(r, start, end, first) == [keys |-> <<>>, next |-> first]

\* _gen_mm_extra_hash_keys for the tokens start .. end-1, looking at the images
\* from the first one on: the keys, and the image to begin the next block with.
MMKeys(r, start, end, first) ==
    LET n == Len(MMPositions[r])
        K[i \in first..(n + 1)] ==
            IF i > n \/ end <= InputStart(r, i) THEN [keys |-> <<>>, next |-> i]
            ELSE IF start > InputEnd(r, i) THEN K[i + 1]
            ELSE IF end < InputEnd(r, i)
            THEN [keys |-> <<MMPositions[r][i].hash>>, next |-> i]
            ELSE LET rest == K[i + 1]
                 IN [rest EXCEPT !.keys = <<MMPositions[r][i].hash>> \o @]
    IN IF n = 0 \/ InputEnd(r, n) < start THEN [keys |-> <<>>, next |-> first] ELSE K[first]

Mut_LastKeys(r, i) == <<>>

\* The keys cache_full_blocks asks for: only the last image is considered
\* (start_mm_idx = -1).
LastKeys(r, i) == MMKeys(r, (i - 1) * BlockSize, i * BlockSize, Len(MMPositions[r])).keys

\* hash_block_tokens.
HashBlockTokens(parent, ids, i, keys) == Append(parent, <<BlockTokens(ids, i), keys>>)

\* hash_request_tokens: the chain of hashes of the full blocks.
HashRequestTokens(r, ids) ==
    LET n == Len(ids) \div BlockSize
        H[i \in 0..n] ==
            IF i = 0 THEN [hash |-> NoHash, next |-> 1]
            ELSE LET prev == H[i - 1]
                     k == MMKeys(r, (i - 1) * BlockSize, i * BlockSize, prev.next)
                 IN [hash |-> HashBlockTokens(prev.hash, ids, i, k.keys), next |-> k.next]
    IN [i \in 1..n |-> H[i].hash]

-----------------------------------------------------------------------------
(* The reference: the keys of a block are those of the images in it.       *)

ImagesIn(r, i) ==
    LET n == Len(MMPositions[r])
        in == Keep([j \in 1..n |-> j],
                   {j \in 1..n : Overlaps(r, j, (i - 1) * BlockSize, BlockSize)})
    IN [k \in DOMAIN in |-> MMPositions[r][in[k]].hash]

\* A block that starts where the last image of its request ends.
AfterLastImage(r, i) ==
    LET n == Len(MMPositions[r]) IN n > 0 /\ InputEnd(r, n) = (i - 1) * BlockSize
=============================================================================
