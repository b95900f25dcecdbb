--------------------------- MODULE FreeBlockQueue ---------------------------
(***************************************************************************)
(* What FreeKVCacheBlockQueue promises its caller, BlockPool: a sequence   *)
(* of distinct blocks, taken from the head, dropped from anywhere and put  *)
(* back at the end.                                                        *)
(***************************************************************************)
EXTENDS Naturals, Sequences, FiniteSets, SequencesExt

CONSTANT Blocks

VARIABLE queue

TypeOK == queue \in Seq(Blocks) /\ IsInjective(queue)

Init == TypeOK /\ ToSet(queue) = Blocks

\* The first n blocks are handed out.
Take(n) == queue' = SubSeq(queue, n + 1, Len(queue))

\* A free block is hit and leaves its place in the queue.
Drop(b) == b \in ToSet(queue) /\ queue' = SelectSeq(queue, LAMBDA x : x # b)

\* Blocks that are not in the queue are appended in the order given.
Put(s) == ToSet(s) \cap ToSet(queue) = {} /\ queue' = queue \o s

Sequences1 == {s \in SeqOf(Blocks, Cardinality(Blocks)) : s # <<>> /\ IsInjective(s)}

Next ==
    \/ \E n \in 1..Len(queue) : Take(n)
    \/ \E b \in Blocks : Drop(b)
    \/ \E s \in Sequences1 : Put(s)

Spec == Init /\ [][Next]_queue
=============================================================================
