----------------------------- MODULE InputBatch -----------------------------
(***************************************************************************)
(* The persistent batch of a worker: vllm/v1/worker/gpu_input_batch.py     *)
(* with the block table (block_table.py), the BatchUpdateBuilder and one   *)
(* logits processor (LogitBias, sample/logits_processor.py).               *)
(*                                                                         *)
(* A batch is a record, and a method that changes it an operator from the  *)
(* batch before to the batch after.  Slots count from 1.  A row is what    *)
(* token_ids_cpu, num_tokens, num_computed_tokens_cpu and the block table  *)
(* hold at its index; a row past the end of the batch is written anew      *)
(* before it is read, and is blank here.                                   *)
(***************************************************************************)
EXTENDS Lists, FiniteSetsExt, TLC

CONSTANTS MaxNumReqs,     \* max_num_reqs of the worker
          NoRequest,      \* None in _req_ids and in the state of a processor
          Biased          \* requests with a logit_bias

Slots1 == 1..MaxNumReqs
BlankRow == [tokens |-> <<>>, computed |-> 0, blocks |-> <<>>]

EmptyBatch ==
    [ids     |-> <<>>,                             \* _req_ids
     index   |-> <<>>,                             \* req_id_to_index
     rows    |-> [i \in Slots1 |-> BlankRow],
     removed |-> {}, moved |-> <<>>, added |-> <<>>, \* the BatchUpdateBuilder
     biases  |-> [i \in Slots1 |-> NoRequest]]     \* LogitBias: whose bias is at an index

NumReqs(b) == Cardinality(DOMAIN b.index)
MapWithout(f, r) == [q \in DOMAIN f \ {r} |-> f[q]]

\* remove_request: the slot stays, empty, until it is filled or condensed.
RemoveRequest(b, r) ==
    IF r \notin DOMAIN b.index THEN b
    ELSE [b EXCEPT !.ids[b.index[r]] = NoRequest, !.removed = @ \cup {b.index[r]},
                   !.index = MapWithout(@, r)]

\* _get_next_add_index: pop_removed gives the lowest hole.
NextAddIndex(b) == IF b.removed # {} THEN Min(b.removed) ELSE NumReqs(b) + 1

\* add_request, given what the worker keeps of the request.
InsertRequest(b, r, state) ==
    LET i == NextAddIndex(b)
    IN [b EXCEPT !.ids = IF i = Len(@) + 1 THEN Append(@, r) ELSE [@ EXCEPT ![i] = r],
                 !.index = r :> i @@ @,
                 !.rows[i] = state,
                 !.removed = @ \ {i},
                 !.added = Append(@, <<i, r>>)]

\* The request of slot j slides down to the hole i.
MoveDown(b, j, i) ==
    [b EXCEPT !.ids[i] = b.ids[j], !.ids[j] = NoRequest, !.index[b.ids[j]] = i,
              !.rows[i] = b.rows[j], !.removed = @ \ {i}, !.moved = Append(@, <<j, i>>)]

\* condense: the lowest hole takes the highest request until none is above it.
Condense(b) ==
    LET Fill(c, i) == LET last == Max({j \in DOMAIN c.ids : c.ids[j] # NoRequest})
                      IN IF i >= last THEN c ELSE MoveDown(c, last, i)
        full == IF NumReqs(b) = 0 THEN b
                ELSE FoldLeft(Fill, b, Keep([i \in Slots1 |-> i], b.removed))
    IN [full EXCEPT !.ids = SubSeq(@, 1, NumReqs(b)),
                    !.rows = [i \in Slots1 |-> IF i <= NumReqs(b) THEN full.rows[i] ELSE BlankRow]]

Mut_BiasAdded(f, a) == IF a[2] \in Biased THEN [f EXCEPT ![a[1]] = a[2]] ELSE f

\* LogitBiasLogitsProcessor.update_state: those added, those removed, those
\* moved.  A request without a bias drops the one of its slot.
BiasAdded(f, a) == [f EXCEPT ![a[1]] = IF a[2] \in Biased THEN a[2] ELSE NoRequest]
BiasRemoved(f, S) == [i \in DOMAIN f |-> IF i \in S THEN NoRequest ELSE f[i]]
BiasMoved(f, m) == [f EXCEPT ![m[2]] = f[m[1]], ![m[1]] = NoRequest]
UpdateBiases(b) ==
    FoldLeft(BiasMoved, BiasRemoved(FoldLeft(BiasAdded, b.biases, b.added), b.removed), b.moved)

\* refresh_metadata: the update is applied and the builder reset.
RefreshMetadata(b) ==
    [b EXCEPT !.biases = UpdateBiases(b), !.removed = {}, !.moved = <<>>, !.added = <<>>]
=============================================================================
