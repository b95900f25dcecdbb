---------------------------- MODULE EncoderCache ----------------------------
(***************************************************************************)
(* vllm/v1/core/encoder_cache_manager.py and the scheduler's choice of     *)
(* encoder inputs, _try_schedule_encoder_inputs.                           *)
(*                                                                         *)
(* The manager counts the encoder tokens of the images of the requests.  A *)
(* cache is a record, and a method that changes it is an operator from the *)
(* cache before the call to the cache after it.  The list freed is a set:  *)
(* the worker drops each pair, in any order.                               *)
(***************************************************************************)
EXTENDS MMInputs, Lists

CONSTANTS EncoderCacheSize,       \* cache_size
          DisableChunkedMMInput   \* SchedulerConfig.disable_chunked_mm_input

ASSUME EncoderAssumption ==
    EncoderCacheSize \in Nat /\ DisableChunkedMMInput \in BOOLEAN

InitEncoder ==
    [cached |-> [r \in DOMAIN MMPositions |-> {}], free |-> EncoderCacheSize, freed |-> {}]

\* can_allocate: it does not count what the caller has chosen but not allocated.
CanEncode(e, r, i) == InputLength(r, i) <= e.free

\* allocate, for one input.
Encode(e, r, i) ==
    [e EXCEPT !.cached[r] = @ \cup {i}, !.free = @ - InputLength(r, i)]

Mut_FreeInput(e, r, i) ==
    [e EXCEPT !.cached[r] = @ \ {i}, !.freed = @ \cup {<<r, i>>}]

\* free_encoder_input; the request has entries.
FreeInput(e, r, i) ==
    [e EXCEPT !.cached[r] = @ \ {i}, !.free = @ + InputLength(r, i),
              !.freed = @ \cup {<<r, i>>}]
FreeInputs(e, r, S) == FoldLeft(LAMBDA d, i : FreeInput(d, r, i), e, SetToSeq(S))

\* Scheduler._free_encoder_inputs: the inputs the decoder has gone past.
FreeConsumed(e, r, done) == FreeInputs(e, r, {i \in e.cached[r] : InputEnd(r, i) <= done})

\* EncoderCacheManager.free.
FreeEncoder(e, r) == FreeInputs(e, r, e.cached[r])

\* get_freed_ids.
TakeFreed(e) == [e EXCEPT !.freed = {}]

\* One input of _try_schedule_encoder_inputs: acc is what is chosen so far.  An
\* input that cannot be encoded cuts the chunk just before it.
TryInput(e, r, done, acc, i) ==
    LET cut == [acc EXCEPT !.n = IF done < InputStart(r, i) THEN InputStart(r, i) - done ELSE 0,
                           !.go = FALSE]
        partial ==
            DisableChunkedMMInput /\ done < InputStart(r, i) /\ done + acc.n < InputEnd(r, i)
    IN IF ~acc.go \/ ~Overlaps(r, i, done, acc.n) \/ i \in e.cached[r] THEN acc
       ELSE IF partial \/ ~CanEncode(e, r, i) \/ InputLength(r, i) > acc.budget THEN cut
       ELSE [acc EXCEPT !.inputs = Append(@, i), !.budget = @ - InputLength(r, i)]

\* _try_schedule_encoder_inputs: the inputs to encode for the n tokens after
\* done, the tokens that can be scheduled and the budget left.
TryScheduleEncoderInputs(e, r, done, n, budget) ==
    FoldLeft(LAMBDA acc, i : TryInput(e, r, done, acc, i),
             [inputs |-> <<>>, n |-> n, budget |-> budget, go |-> n > 0],
             [i \in DOMAIN MMPositions[r] |-> i])

\* The pairs of a request and an input with space in the cache.
CachedInputs(e) == UNION {{r} \X e.cached[r] : r \in DOMAIN e.cached}
=============================================================================
