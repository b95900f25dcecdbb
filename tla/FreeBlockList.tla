---------------------------- MODULE FreeBlockList ----------------------------
(***************************************************************************)
(* FreeKVCacheBlockQueue of vllm/v1/core/kv_cache_utils.py: the doubly     *)
(* linked list of free blocks between a fake head and a fake tail, with    *)
(* the links kept in the blocks themselves.  An action is a whole method;  *)
(* it is called by BlockPool with blocks that are free or not as it        *)
(* should be, which the methods test only through the links.               *)
(***************************************************************************)
EXTENDS Naturals, Sequences, FiniteSets, SequencesExt

CONSTANT NumBlocks

ASSUME ListAssumption == NumBlocks \in Nat \ {0}

Blocks == 1..NumBlocks
Head0 == 0                      \* fake_free_list_head
Tail0 == NumBlocks + 1          \* fake_free_list_tail
None == NumBlocks + 2
Nodes == 0..(NumBlocks + 1)

VARIABLES next, prev,           \* next_free_block, prev_free_block
          count                 \* num_free_blocks

vars == <<next, prev, count>>

TypeOK ==
    /\ next \in [Nodes -> Nodes \cup {None}]
    /\ prev \in [Nodes -> Nodes \cup {None}]
    /\ count \in 0..NumBlocks

\* __init__ links all blocks in the order of their ids.
Init ==
    /\ next = [x \in Nodes |-> IF x = Tail0 THEN None ELSE x + 1]
    /\ prev = [x \in Nodes |-> IF x = Head0 THEN None ELSE x - 1]
    /\ count = NumBlocks

\* get_all_free_blocks: from the fake head along next up to the fake tail.  At
\* most one node more than there are blocks is visited.
Walk ==
    LET at[k \in 0..NumBlocks] ==
            IF k = 0 THEN next[Head0]
            ELSE IF at[k - 1] = None THEN None ELSE next[at[k - 1]]
    IN at
AllFreeBlocks ==
    SelectSeq([k \in 1..(NumBlocks + 1) |-> Walk[k - 1]], LAMBDA x : x \notin {Tail0, None})

PopLeft ==
    LET first == next[Head0]
    IN /\ first \notin {Tail0, None}
       /\ next[first] # None
       /\ next' = [next EXCEPT ![Head0] = next[first], ![first] = None]
       /\ prev' = [prev EXCEPT ![next[first]] = Head0, ![first] = None]
       /\ count' = count - 1

\* popleft_n: the links of all blocks popped are reset on the way.
PopLeftN(n) ==
    LET popped == {Walk[k] : k \in 0..(n - 1)}
        curr   == Walk[n]
    IN /\ n \in 1..count
       /\ next' = [x \in Nodes |->
                     IF x = Head0 /\ curr # None THEN curr
                     ELSE IF x \in popped THEN None ELSE next[x]]
       /\ prev' = [x \in Nodes |->
                     IF x = curr THEN Head0
                     ELSE IF x \in popped THEN None ELSE prev[x]]
       /\ count' = count - n

Mut_Remove(b) ==
    /\ prev[b] # None /\ next[b] # None
    /\ next' = [next EXCEPT ![prev[b]] = next[b]]
    /\ prev' = [prev EXCEPT ![next[b]] = prev[b]]
    /\ count' = count - 1

Remove1(b) ==
    /\ prev[b] # None /\ next[b] # None
    /\ next' = [next EXCEPT ![prev[b]] = next[b], ![b] = None]
    /\ prev' = [prev EXCEPT ![next[b]] = prev[b], ![b] = None]
    /\ count' = count - 1

\* Only blocks that are in use come back.
Unlinked(b) == next[b] = None /\ prev[b] = None

Append1(b) ==
    /\ Unlinked(b)
    /\ prev[Tail0] # None
    /\ next' = [next EXCEPT ![prev[Tail0]] = b, ![b] = Tail0]
    /\ prev' = [prev EXCEPT ![b] = prev[Tail0], ![Tail0] = b]
    /\ count' = count + 1

Mut_AppendN(s) ==
    LET chain == <<prev[Tail0]>> \o s
        n == Len(s)
    IN /\ \A b \in ToSet(s) : Unlinked(b)
       /\ prev[Tail0] # None
       /\ next' = [x \in Nodes |->
                     IF \E i \in 1..n : chain[i] = x THEN s[CHOOSE i \in 1..n : chain[i] = x]
                     ELSE IF x = s[n] THEN Tail0 ELSE next[x]]
       /\ prev' = [x \in Nodes |->
                     IF x \in ToSet(s) THEN chain[CHOOSE i \in 1..n : s[i] = x] ELSE prev[x]]
       /\ count' = count + n

\* append_n: each block is linked after the one before it, the first after the
\* last of the list and the fake tail after the last.
AppendN(s) ==
    LET chain == <<prev[Tail0]>> \o s
        n == Len(s)
    IN /\ \A b \in ToSet(s) : Unlinked(b)
       /\ prev[Tail0] # None
       /\ next' = [x \in Nodes |->
                     IF \E i \in 1..n : chain[i] = x THEN s[CHOOSE i \in 1..n : chain[i] = x]
                     ELSE IF x = s[n] THEN Tail0 ELSE next[x]]
       /\ prev' = [x \in Nodes |->
                     IF x \in ToSet(s) THEN chain[CHOOSE i \in 1..n : s[i] = x]
                     ELSE IF x = Tail0 THEN s[n] ELSE prev[x]]
       /\ count' = count + n

\* The lists of blocks free_blocks may pass.
Lists == {s \in SeqOf(Blocks, NumBlocks) : s # <<>> /\ IsInjective(s)}

Next ==
    \/ PopLeft
    \/ \E n \in Blocks : PopLeftN(n)
    \/ \E b \in Blocks : Remove1(b) \/ Append1(b)
    \/ \E s \in Lists : AppendN(s)

Spec == Init /\ [][Next]_vars

-----------------------------------------------------------------------------
(* Properties.                                                             *)

\* The two directions of the list agree, its ends are the fake blocks, and a
\* block outside it has no link left: the tests for None in popleft and remove,
\* and the assertion on num_free_blocks in popleft, never fail for a block of
\* the list and never pass for another.
LinksAgree ==
    /\ TypeOK
    /\ prev[Head0] = None /\ next[Tail0] = None
    /\ \A x, y \in Nodes : (next[x] = y) <=> (prev[y] = x)
    /\ \A b \in Blocks : (b \in ToSet(AllFreeBlocks)) <=> ~Unlinked(b)
    /\ count = Len(AllFreeBlocks)

\* The methods of the linked list implement those of a sequence: what
\* get_all_free_blocks returns behaves as FreeBlockQueue says.
Queue == INSTANCE FreeBlockQueue WITH queue <- AllFreeBlocks
ImplementsQueue == Queue!Spec
=============================================================================
