----------------------------- MODULE EngineCore -----------------------------
(***************************************************************************)
(* The engine core (vllm/v1/engine/core.py, step) with its worker: the     *)
(* scheduler sends what is new about a step, the GPUModelRunner            *)
(* (vllm/v1/worker/gpu_model_runner.py) keeps the requests, their tokens   *)
(* and blocks, the encoder outputs and the persistent batch, and the two   *)
(* must agree at every forward pass.  One worker, the last pipeline rank;  *)
(* the attention backend does not reorder the batch.                       *)
(***************************************************************************)
EXTENDS Scheduler, InputBatch

VARIABLE worker          \* [requests, encoder, batch] of the GPUModelRunner

engineVars == <<kvVars, schedVars, worker>>

InitWorker == [requests |-> <<>>, encoder |-> {}, batch |-> EmptyBatch]

InitEngine == InitScheduler /\ worker = InitWorker

-----------------------------------------------------------------------------
(* GPUModelRunner._update_states.                                          *)

Mut_KeptOutputs(w) == {x \in w.encoder : x[1] \notin step.finished}
KeptOutputs(w) == {x \in w.encoder : x[1] \notin step.finished} \ step.freed

\* The finished requests and the encoder outputs freed are forgotten, and those
\* that are not scheduled leave the batch.
Forget(w) ==
    LET leave == step.finished \cup (DOMAIN w.batch.index \ ToSet(step.order))
    IN [requests |-> [r \in DOMAIN w.requests \ step.finished |-> w.requests[r]],
        encoder  |-> KeptOutputs(w),
        batch    |-> FoldLeft(RemoveRequest, w.batch, SetToSeq(leave))]

\* The lists of the output: new requests, then running ones, then resumed ones.
NewOnes == Keep(step.order, step.new)
CachedOnes == Keep(step.order, Requests \ (step.new \cup step.resumed))
              \o Keep(step.order, step.resumed)

LearnNew(w, r) ==
    [w EXCEPT !.requests = r :> [tokens |-> Prompt[r], computed |-> computed[r],
                                 blocks |-> step.blocks[r]] @@ @]

Mut_BlocksNow(r, old) == old \o step.blocks[r]

\* A running request gains blocks, a resumed one gets all its blocks.
BlocksNow(r, old) == IF r \in step.resumed THEN step.blocks[r] ELSE old \o step.blocks[r]

LearnCached(w, r) ==
    LET old == w.requests[r]
        new == [old EXCEPT !.computed = computed[r], !.blocks = BlocksNow(r, @)]
        b == w.batch
    IN [w EXCEPT !.requests[r] = new,
                 !.batch = IF r \notin DOMAIN b.index THEN b
                           ELSE [b EXCEPT !.rows[b.index[r]].computed = computed[r],
                                          !.rows[b.index[r]].blocks = @ \o step.blocks[r]]]

UpdateStates(w) ==
    LET known   == FoldLeft(LearnCached, FoldLeft(LearnNew, Forget(w), NewOnes), CachedOnes)
        entering == Keep(NewOnes \o CachedOnes, Requests \ DOMAIN known.batch.index)
        filled  == FoldLeft(LAMBDA b, r : InsertRequest(b, r, known.requests[r]),
                            known.batch, entering)
    IN [known EXCEPT !.batch = RefreshMetadata(Condense(filled))]

\* _execute_mm_encoder.
ScheduledInputs == UNION {{r} \X ToSet(step.inputs[r]) : r \in ToSet(step.order)}
RunEncoder(w) == [w EXCEPT !.encoder = @ \cup ScheduledInputs]

\* execute_model up to the forward pass.
Prepare ==
    /\ phase = "built"
    /\ worker' = RunEncoder(UpdateStates(worker))
    /\ phase' = "forward"
    /\ UNCHANGED <<kvVars, running, waiting, step, enc, finishedIds, compiling, arrived>>

\* The requests of the batch whose sampled token is kept: the others are still
\* in their prompt.
Keeps(w) == {r \in DOMAIN w.batch.index :
                w.requests[r].computed + scheduled[r] >= Len(w.requests[r].tokens)}

\* The sampled tokens join the cached state and the row of their request.
CacheSampled(w, t) ==
    LET b == w.batch
        Grow(r, toks) == IF r \in Keeps(w) THEN Append(toks, t[r]) ELSE toks
    IN [w EXCEPT
          !.requests = [r \in DOMAIN @ |-> [@[r] EXCEPT !.tokens = Grow(r, @)]],
          !.batch.rows = [i \in DOMAIN @ |->
                             IF i \in DOMAIN b.ids THEN [@[i] EXCEPT !.tokens = Grow(b.ids[i], @)]
                             ELSE @[i]]]

\* The rest of execute_model, and update_from_output.
Execute ==
    \E t \in [Sampled -> Tokens], stop \in Stopping(Sampled) :
        /\ UpdateFromOutput(t, stop)
        /\ worker' = CacheSampled(worker, t)

-----------------------------------------------------------------------------
(* The engine.                                                             *)

\* step(), which the busy loop repeats while there are requests.
Schedule ==
    \/ StartSchedule
    \/ PassOver \/ ScheduleRunning \/ PreemptLast \/ RunningDone
    \/ SetAside \/ Admit \/ RefuseCandidate \/ WaitingDone
    \/ EndSchedule
Step == (Schedule /\ UNCHANGED worker) \/ Prepare \/ Execute

NextEngine ==
    \/ \E r \in Requests : (Add(r) \/ Finish(r) \/ GrammarReady(r)) /\ UNCHANGED worker
    \/ Step

\* The busy loop goes on while it is in a step or has requests, which is weak
\* fairness of Step written out; and every grammar is compiled in the end.
Busy == phase # "idle" \/ HasRequests
Fairness ==
    /\ []<>~Busy \/ []<><<Step>>_engineVars
    /\ \A r \in Requests : []<>(r \notin compiling)

SpecEngine == InitEngine /\ [][NextEngine]_engineVars /\ Fairness

\* The same with the operator itself, which takes TLC too long on more than two
\* requests.
SpecEngineWF ==
    /\ InitEngine /\ [][NextEngine]_engineVars
    /\ WF_engineVars(Step)
    /\ \A r \in Requests : WF_compiling(GrammarReady(r))

-----------------------------------------------------------------------------
(* Properties.                                                             *)

TypeEngine ==
    /\ TypeOK
    /\ phase \in Phases
    /\ running \in Seq(Requests) /\ waiting \in Seq(Requests) /\ arrived \in Seq(Requests)
    /\ enc.free \in Int
    /\ finishedIds \subseteq Requests /\ compiling \subseteq Requests
    /\ worker.batch.ids \in Seq(Requests)
    /\ worker.encoder \subseteq CachedInputs([cached |-> [r \in Requests |-> DOMAIN MMPositions[r]]])

\* The scheduler only asks of the KV cache manager what its specification
\* allows a caller: every step of a schedule() is a step of that specification
\* or leaves the KV cache alone.
ImplementsKVCache == Spec

\* running and waiting hold each live request once, in the queue its status
\* names: prepends, pops, victims and stops never lose or double a request.
QueuesExact ==
    LET queued == step.skipped \o waiting
    IN /\ ToSet(running) = {r \in Requests : status[r] = "running"}
       /\ ToSet(queued) = {r \in Requests : status[r] \in {"waiting", "preempted"}}
       /\ Distinct(running) /\ Distinct(queued)

\* "fcfs": the requests that need no grammar are admitted in order of arrival,
\* and a preemption takes the youngest, so running followed by waiting is in
\* order of arrival.
FirstComeFirstServed ==
    Keep(running \o waiting, Requests \ Structured)
        = Keep(arrived, {r \in Requests \ Structured : status[r] # "none"})

\* The assertions at the end of schedule() hold, and so does the one before the
\* encoder inputs of a waiting request are chosen: a prefix hit leaves it a token.
EngineAsserts ==
    /\ step.budget >= 0 /\ step.encBudget >= 0
    /\ SumOf(scheduled, step.order) <= MaxBatchedTokens
    /\ Len(running) <= MaxNumSeqs
    /\ ToSet(step.order) \subseteq ToSet(running)
    /\ phase = "waiting" /\ WaitingLeft =>
          \A hit \in Hits(Candidate) : WaitingTokens(Candidate, hit) > 0

\* The state has its type.
\* At the forward pass the worker, which is only told differences, has the
\* scheduler's view: the batch is dense, holds the scheduled requests and no
\* other, the index is its inverse, and every row has the tokens, the number
\* of computed tokens and the blocks of its request.  The assertion of
\* execute_model, "Sampled token IDs exceed the max model length", holds.
BatchMatches ==
    LET b == worker.batch
    IN /\ TypeEngine
       /\ phase = "forward" =>
           /\ ToSet(b.ids) = ToSet(step.order) /\ Distinct(b.ids)
           /\ DOMAIN b.index = ToSet(b.ids)
           /\ \A i \in DOMAIN b.ids :
                 LET r == b.ids[i]
                 IN /\ b.index[r] = i
                    /\ b.rows[i] = [tokens |-> tokens[r], computed |-> computed[r],
                                    blocks |-> reqBlocks[r]]
                    /\ worker.requests[r] = b.rows[i]
                    /\ r \in Keeps(worker) => Len(tokens[r]) < MaxModelLen

\* The logits processor, which follows the batch through the list of removals,
\* additions and moves, has the bias of the request in each slot.
BiasesFollow ==
    phase = "forward" =>
        \A i \in 1..MaxNumReqs :
            worker.batch.biases[i] =
                IF i \in DOMAIN worker.batch.ids /\ worker.batch.ids[i] \in Biased
                THEN worker.batch.ids[i] ELSE NoRequest

\* The assertions of _gather_mm_embeddings: the encoder output of every image
\* the step touches is in the worker.
EncoderOutputsThere ==
    phase = "forward" =>
        \A r \in ToSet(step.order) : \A i \in DOMAIN MMPositions[r] :
            (computed[r]..(computed[r] + scheduled[r] - 1))
                \cap (InputStart(r, i)..(InputEnd(r, i) - 1)) # {}
            => <<r, i>> \in worker.encoder

\* Between steps the worker holds an encoder output exactly when the scheduler
\* counts it or is about to say that it is freed, and knows only requests that
\* are live or about to be said finished: nothing leaks.
WorkerForgets ==
    phase = "idle" =>
        /\ worker.encoder = CachedInputs(enc) \cup (enc.freed \cap worker.encoder)
        /\ DOMAIN worker.requests \subseteq
              {r \in Requests : status[r] # "none"} \cup finishedIds

\* num_free_slots is what the cached inputs leave of the cache.  It may be
\* negative, because can_allocate is asked for each input of a request before
\* any of them is allocated, but by less than the budget of one step.
EncoderCounted ==
    /\ enc.free = EncoderCacheSize
                  - MapThenSumSet(LAMBDA x : InputLength(x[1], x[2]), CachedInputs(enc))
    /\ enc.free > -MaxEncoderTokens

Service == INSTANCE CoreService WITH
    Ids  <- Requests,
    core <- [r \in {q \in Requests : status[q] # "none"} |-> Len(tokens[r]) - Len(Prompt[r])]

\* Every request that is added leaves the engine: neither preemption nor the
\* limits of the encoder keep one for ever.
EveryRequestEnds == Service!Ends

\* The front end sees an engine that gives a request one token at a time, never
\* takes one back, whatever is preempted and recomputed, and ends every request.
ImplementsService == Service!SpecCore
=============================================================================
