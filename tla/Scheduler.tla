----------------------------- MODULE Scheduler -----------------------------
(***************************************************************************)
(* vllm/v1/core/sched/scheduler.py with the FCFS queue of request_queue.py *)
(* and EngineCore.step, over the KV cache manager and the encoder cache.   *)
(* As deployed: FCFS policy, chunked prefill, no speculative decoding, no  *)
(* LoRA, no KV connector, no pipeline parallelism, no pooling.             *)
(*                                                                         *)
(* schedule() is a series of actions, one per iteration of its two loops,  *)
(* between StartSchedule and EndSchedule, and UpdateFromOutput follows the *)
(* forward pass; EngineCore adds the worker in between.  One thread runs   *)
(* them, so requests are added and aborted only in phase "idle".  The      *)
(* number of computed tokens, which _update_after_schedule advances,       *)
(* advances in UpdateFromOutput: nothing reads it in between but           *)
(* _free_encoder_inputs, which is given the new value.                     *)
(***************************************************************************)
EXTENDS KVCacheManager, EncoderCache

CONSTANTS MaxNumSeqs,             \* max_num_running_reqs
          MaxBatchedTokens,       \* max_num_scheduled_tokens
          MaxEncoderTokens,       \* max_num_encoder_input_tokens
          LongPrefillThreshold,   \* long_prefill_token_threshold, 0 for none
          Structured              \* the requests with a grammar to compile

ASSUME SchedulerAssumption ==
    /\ {MaxNumSeqs, MaxBatchedTokens} \subseteq Nat \ {0}
    /\ {MaxEncoderTokens, LongPrefillThreshold} \subseteq Nat
    /\ Structured \subseteq Requests
    /\ DOMAIN MMPositions = Requests

VARIABLES
    phase,           \* where the engine is in a step
    running,         \* Scheduler.running
    waiting,         \* Scheduler.waiting
    step,            \* the local variables of schedule()
    enc,             \* the encoder cache manager
    finishedIds,     \* Scheduler.finished_req_ids
    compiling,       \* requests WAITING_FOR_FSM, their grammar not yet there
    arrived          \* the requests in order of arrival

kvVars == vars
schedVars == <<phase, running, waiting, step, enc, finishedIds, compiling, arrived>>

Phases == {"idle", "running", "waiting", "end", "built", "forward"}

NoBlocks == [r \in Requests |-> <<>>]
NewStep ==
    [index |-> 1, budget |-> MaxBatchedTokens, encBudget |-> MaxEncoderTokens,
     preempted |-> FALSE,           \* preempted_reqs is not empty
     skipped |-> <<>>,              \* skipped_waiting_requests
     order |-> <<>>,                \* the keys of num_scheduled_tokens, in order
     new |-> {}, resumed |-> {},    \* which of them are new or resumed
     blocks |-> NoBlocks,           \* req_to_new_block_ids
     inputs |-> NoBlocks,           \* scheduled_encoder_inputs
     finished |-> {}, freed |-> {}] \* finished_req_ids, free_encoder_input_ids sent

InitScheduler ==
    /\ Init
    /\ phase = "idle"
    /\ running = <<>> /\ waiting = <<>>
    /\ step = NewStep
    /\ enc = InitEncoder
    /\ finishedIds = {}
    /\ compiling = {}
    /\ arrived = <<>>

\* FCFSRequestQueue: remove_requests, prepend_request and prepend_requests, which
\* extends the deque on the left with the reversed requests.
Without(queue, S) == Keep(queue, Requests \ S)
Mut_Prepend(queue, r) == Append(queue, r)
Prepend(queue, r) == <<r>> \o queue
Mut_PrependAll(queue, requests) == queue
PrependAll(queue, requests) == requests \o queue

-----------------------------------------------------------------------------
(* Between steps.                                                          *)

\* add_request: an id is used once.  StructuredOutputManager starts to compile
\* the grammar of the request.
Add(r) ==
    /\ phase = "idle" /\ r \notin ToSet(arrived)
    /\ AddRequest(r)
    /\ waiting' = Append(waiting, r)
    /\ arrived' = Append(arrived, r)
    /\ compiling' = compiling \cup ({r} \cap Structured)
    /\ UNCHANGED <<phase, running, step, enc, finishedIds>>

\* The grammar of a request is there: its future is done.
GrammarReady(r) ==
    /\ r \in compiling
    /\ compiling' = compiling \ {r}
    /\ UNCHANGED <<kvVars, phase, running, waiting, step, enc, finishedIds, arrived>>

\* finish_requests, for one request; an id that is not there is ignored.
Finish(r) ==
    /\ phase = "idle"
    /\ Abort(r)
    /\ running' = Without(running, {r})
    /\ waiting' = Without(waiting, {r})
    /\ enc' = FreeEncoder(enc, r)
    /\ finishedIds' = finishedIds \cup {r}
    /\ compiling' = compiling \ {r}
    /\ UNCHANGED <<phase, step, arrived>>

\* has_requests, and the start of schedule().
HasRequests == running # <<>> \/ waiting # <<>> \/ finishedIds # {}
StartSchedule ==
    /\ phase = "idle" /\ HasRequests
    /\ phase' = "running"
    /\ step' = NewStep
    /\ UNCHANGED <<kvVars, running, waiting, enc, finishedIds, compiling, arrived>>

-----------------------------------------------------------------------------
(* The loop over the running requests.                                     *)

Chunk(n) ==
    Smaller(step.budget, IF LongPrefillThreshold \in 1..(n - 1) THEN LongPrefillThreshold ELSE n)

RunningLeft == step.index <= Len(running) /\ step.budget > 0
Current == running[step.index]

RunningTokens(r) ==
    Smaller(Chunk(Len(tokens[r]) - computed[r]), MaxModelLen - 1 - computed[r])
RunningChoice(r) ==
    TryScheduleEncoderInputs(enc, r, computed[r], RunningTokens(r), step.encBudget)

\* What a request that got its blocks adds to the step.
Scheduled(r, choice, blocks) ==
    [step EXCEPT !.order = Append(@, r), !.budget = @ - choice.n, !.encBudget = choice.budget,
                 !.blocks[r] = blocks, !.inputs[r] = choice.inputs]
Allocated(r, choice) == FoldLeft(LAMBDA e, i : Encode(e, r, i), enc, choice.inputs)

\* num_new_tokens is 0: the request keeps its place and is passed over.
PassOver ==
    /\ phase = "running" /\ RunningLeft
    /\ RunningChoice(Current).n = 0
    /\ step' = [step EXCEPT !.index = @ + 1]
    /\ UNCHANGED <<kvVars, phase, running, waiting, enc, finishedIds, compiling, arrived>>

ScheduleRunning ==
    /\ phase = "running" /\ RunningLeft
    /\ LET r == Current
           choice == RunningChoice(r)
       IN /\ choice.n > 0
          /\ AllocateMoreWith(r, choice.n)
          /\ step' = [Scheduled(r, choice, SubSeq(reqBlocks'[r], Len(reqBlocks[r]) + 1,
                                                  Len(reqBlocks'[r])))
                      EXCEPT !.index = @ + 1]
          /\ enc' = Allocated(r, choice)
    /\ UNCHANGED <<phase, running, waiting, finishedIds, compiling, arrived>>

Mut_VictimOf(queue) == Head(queue)

\* FCFS: the victim is the youngest of the running requests.
VictimOf(queue) == Last(queue)

\* allocate_slots returns None: the last of the running requests is preempted
\* and goes to the head of the queue, and the current one is tried again unless
\* it was the victim.  The victim keeps its encoder outputs.
PreemptLast ==
    /\ phase = "running" /\ RunningLeft
    /\ RunningChoice(Current).n > 0
    /\ ~CanAllocate(Current, <<>>, RunningChoice(Current).n)
    /\ LET v == VictimOf(running)
       IN /\ Preempted(v)
          /\ running' = Without(running, {v})
          /\ waiting' = Prepend(waiting, v)
          /\ phase' = IF v = Current THEN "end" ELSE "running"
    /\ step' = [step EXCEPT !.preempted = TRUE]
    /\ UNCHANGED <<enc, finishedIds, compiling, arrived>>

\* A step that preempted admits nobody.
RunningDone ==
    /\ phase = "running" /\ ~RunningLeft
    /\ phase' = IF step.preempted THEN "end" ELSE "waiting"
    /\ UNCHANGED <<kvVars, running, waiting, step, enc, finishedIds, compiling, arrived>>

-----------------------------------------------------------------------------
(* The loop over the waiting requests.                                     *)

WaitingLeft == waiting # <<>> /\ step.budget > 0 /\ Len(running) # MaxNumSeqs
Candidate == Head(waiting)

WaitingTokens(r, hit) == Chunk(Len(tokens[r]) - ComputedWith(r, hit))
WaitingChoice(r, hit) ==
    TryScheduleEncoderInputs(enc, r, ComputedWith(r, hit), WaitingTokens(r, hit), step.encBudget)

\* The grammar is not compiled: the request is set aside.
SetAside ==
    /\ phase = "waiting" /\ WaitingLeft /\ Candidate \in compiling
    /\ waiting' = Tail(waiting)
    /\ step' = [step EXCEPT !.skipped = Prepend(@, Candidate)]
    /\ UNCHANGED <<kvVars, phase, running, enc, finishedIds, compiling, arrived>>

Admit ==
    /\ phase = "waiting" /\ WaitingLeft /\ Candidate \notin compiling
    /\ LET r == Candidate
       IN \E hit \in Hits(r) :
            LET choice == WaitingChoice(r, hit)
            IN /\ choice.n > 0
               /\ AllocateNewWith(r, hit, choice.n)
               /\ step' = [Scheduled(r, choice, reqBlocks'[r]) EXCEPT
                              !.new = @ \cup {q \in {r} : status[q] = "waiting"},
                              !.resumed = @ \cup {q \in {r} : status[q] = "preempted"}]
               /\ enc' = Allocated(r, choice)
               /\ running' = Append(running, r)
    /\ waiting' = Tail(waiting)
    /\ UNCHANGED <<phase, finishedIds, compiling, arrived>>

\* No encoder space, or allocate_slots returns None: the loop ends.
RefuseCandidate ==
    /\ phase = "waiting" /\ WaitingLeft /\ Candidate \notin compiling
    /\ \E hit \in Hits(Candidate) :
          LET n == WaitingChoice(Candidate, hit).n
          IN n = 0 \/ ~CanAllocate(Candidate, hit, n)
    /\ KeepHashes(Candidate)
    /\ phase' = "end"
    /\ UNCHANGED <<running, waiting, step, enc, finishedIds, compiling, arrived>>

WaitingDone ==
    /\ phase = "waiting" /\ ~WaitingLeft
    /\ phase' = "end"
    /\ UNCHANGED <<kvVars, running, waiting, step, enc, finishedIds, compiling, arrived>>

-----------------------------------------------------------------------------
(* The end of a step.                                                      *)

\* The requests set aside return to the head of the queue, the output is built,
\* and _update_after_schedule frees the encoder inputs that are consumed.
EndSchedule ==
    /\ phase = "end"
    /\ waiting' = PrependAll(waiting, step.skipped)
    /\ step' = [step EXCEPT !.finished = finishedIds, !.freed = enc.freed, !.skipped = <<>>]
    /\ enc' = FoldLeft(LAMBDA e, r : FreeConsumed(e, r, computed[r] + scheduled[r]),
                       TakeFreed(enc), step.order)
    /\ finishedIds' = {}
    /\ phase' = "built"
    /\ UNCHANGED <<kvVars, running, compiling, arrived>>

\* update_from_output, and what the forward pass writes to the KV cache: t is the
\* token of each request of Sampled, stop those that stop.
UpdateFromOutput(t, stop) ==
    LET order == Keep(step.order, stop)
    IN /\ phase = "forward"
       /\ ExecuteWith(t, order)
       /\ running' = Without(running, stop)
       /\ enc' = FoldLeft(FreeEncoder, enc, order)
       /\ finishedIds' = finishedIds \cup stop
       /\ phase' = "idle"
       /\ step' = NewStep
       /\ UNCHANGED <<waiting, compiling, arrived>>
=============================================================================
