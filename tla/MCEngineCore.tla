---------------------------- MODULE MCEngineCore ----------------------------
(* Requests with text, an image or a grammar, in an engine that runs three *)
(* at a time.                                                              *)
EXTENDS EngineCore

CONSTANTS r1, r2, r3, r4

MCRequests == {r1, r2, r3, r4}
MCTokens == {0}

\* r3 and r4 share their first block; the image of r1 is the token 8, those of
\* r2 are 7 and 9.  r4 can come to its image, 6, while that of r1 fills the
\* encoder cache: it is passed over.
MCPrompt ==
    r1 :> <<0, 8, 8>> @@ r2 :> <<7, 9, 0, 0>> @@ r3 :> <<0, 0>> @@ r4 :> <<0, 0, 6, 6>>
MCPositions ==
    r1 :> <<[offset |-> 1, length |-> 2, hash |-> 8]>>
    @@ r2 :> <<[offset |-> 0, length |-> 1, hash |-> 7],
             [offset |-> 1, length |-> 1, hash |-> 9]>>
    @@ r4 :> <<[offset |-> 2, length |-> 2, hash |-> 6]>>
    @@ [r \in MCRequests |-> <<>>]
MCStructured == {r3}
MCBiased == {r1, r3}

\* The images of r1 are too large for two of them in one step, which leaves r2 a
\* part of every step.  r1 comes to its last one when the half-consumed image of
\* r2, which it has made the engine preempt, leaves no room for it.
Image(offset, length, hash) == [offset |-> offset, length |-> length, hash |-> hash]
TwoRequests == {r1, r2}
RobustPositions ==
    r1 :> <<Image(0, 3, 11), Image(3, 3, 12), Image(6, 3, 13), Image(9, 4, 14)>>
    @@ r2 :> <<Image(3, 2, 15)>>
RobustPrompt ==
    r1 :> <<11, 11, 11, 12, 12, 12, 13, 13, 13, 14, 14, 14, 14>>
    @@ r2 :> <<0, 0, 0, 15, 15>>

\* Two requests that differ only in the first of two images, both in the block
\* that the first generated token fills.
PairPositions ==
    r1 :> <<Image(0, 1, 6), Image(1, 1, 8)>> @@ r2 :> <<Image(0, 1, 7), Image(1, 1, 8)>>
PairPrompt == r1 :> <<6, 8>> @@ r2 :> <<7, 8>>

NoRequests == {}
=============================================================================
