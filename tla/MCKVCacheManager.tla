-------------------------- MODULE MCKVCacheManager --------------------------
(* The KV cache with three requests whose token ids look the same.         *)
EXTENDS KVCacheManager, TLC

CONSTANTS r1, r2, r3

Image(offset, length, hash) == [offset |-> offset, length |-> length, hash |-> hash]

\* r1 has two images, which meet in its first block; the second one goes on into
\* the block that generated tokens fill.  r2 and r3 have the same image.
MCRequests == {r1, r2, r3}
MCPrompt == r1 :> <<7, 8, 8>> @@ r2 :> <<6, 6, 6>> @@ r3 :> <<6, 6, 6>>
MCPositions ==
    r1 :> <<Image(0, 1, 7), Image(1, 2, 8)>>
    @@ [r \in {r2, r3} |-> <<Image(0, 3, 6)>>]
MCPromptLogprobs == {r2}
MCTokens == {0, 1}
=============================================================================
