------------------------------ MODULE AsyncLLM ------------------------------
(***************************************************************************)
(* The front end of the inference server and its connection to the engine  *)
(* core: vllm/v1/engine/async_llm.py, output_processor.py,                 *)
(* parallel_sampling.py, core_client.py and the threads and busy loop of   *)
(* EngineCoreProc in core.py.                                              *)
(*                                                                         *)
(* The front end is an asyncio process: an action runs from one await to   *)
(* the next.  A call of generate() asks for one or more samples, each a    *)
(* request of the core with an id of its own.  Requests and aborts travel  *)
(* through a socket, an input thread and a queue, outputs through a queue, *)
(* an output thread and a socket; both ways keep the order.  The core may  *)
(* die, after an exception (it says so) or killed (a monitor notices).     *)
(***************************************************************************)
EXTENDS MirroredCache, FiniteSets, Functions, TLC

CONSTANTS Calls,         \* the calls of generate()
          Id,            \* [Calls -> request_id]
          N,             \* [Calls -> SamplingParams.n]
          Kind,          \* [Calls -> output_kind]
          Images,        \* [Calls -> sequence of mm_hashes]
          MaxTokens,     \* [request_id -> SamplingParams.max_tokens]
          ChunkSize      \* VLLM_V1_OUTPUT_PROC_CHUNK_SIZE

Kinds == {"delta", "cumulative", "final"}

\* The images of one call fit into the cache together; otherwise the second
\* sample of a call could name an image that its first one has pushed out.  Calls
\* that repeat an id ask for as many samples: the ids tell n = 1 from n > 1.
ASSUME FrontAssumption ==
    /\ N \in [Calls -> Nat \ {0}] /\ Kind \in [Calls -> Kinds]
    /\ ChunkSize \in Nat \ {0}
    /\ DOMAIN Id = Calls /\ DOMAIN Images = Calls
    /\ \A g \in Calls : MaxTokens[Id[g]] \in Nat \ {0}
    /\ \A g \in Calls : Len(Images[g]) <= MMCacheSize
    /\ \A g, h \in Calls : Id[g] = Id[h] => N[g] = N[h]

\* get_child_info: the ids of the samples of a call.
Samples(g) == 1..N[g]
Children(g) == {Id[g]} \X Samples(g)
AllIds == UNION {Children(g) : g \in Calls}

VARIABLES
    gen,         \* where each call of generate() is
    owner,       \* request_states: [id -> call]
    toks,        \* output_token_ids of the detokenizers: [call -> [sample -> tokens]]
    queue,       \* RequestOutputCollector of each call
    got,         \* what the caller of generate() has received
    p0, p1,      \* the mirrored caches
    inPipe,      \* messages on their way to the input thread
    inQueue,     \* input_queue of the core
    inputThread, \* does the input thread live?
    core,        \* the requests of the engine core
    stepping,    \* the busy loop has found input_queue empty
    outPipe,     \* outputs on their way to the output handler
    handler,     \* the output_handler task: [done, outs, abort]
    up,          \* does the process of the engine core live?
    engineDead   \* BackgroundResources.engine_dead

callVars  == <<gen, got>>
procVars  == <<owner, toks, queue>>
coreVars  == <<p1, inQueue, inputThread, core, stepping>>
frontVars == <<callVars, procVars, p0, inPipe, coreVars, outPipe, handler, up, engineDead>>

Core == INSTANCE CoreService WITH Ids <- AllIds

Outcomes == {"finished", "cancelled", "dead", "refused"}
NoOutput == [outs |-> <<>>, finished |-> FALSE, error |-> FALSE]
IsNone(q) == DOMAIN q.outs = {} /\ ~q.error
DeadMessage == [dead |-> TRUE, outs |-> <<>>]
Untold == [g \in Calls |-> [i \in Samples(g) |-> <<>>]]

InitFront ==
    /\ gen = [g \in Calls |-> "idle"]
    /\ owner = <<>> /\ toks = Untold /\ queue = [g \in Calls |-> NoOutput] /\ got = Untold
    /\ p0 = <<>> /\ p1 = <<>> /\ inPipe = <<>> /\ inQueue = <<>> /\ inputThread = TRUE
    /\ Core!InitCore /\ stepping = FALSE /\ outPipe = <<>>
    /\ handler = [done |-> FALSE, outs |-> <<>>, abort |-> {}]
    /\ up = TRUE /\ engineDead = FALSE

Without(f, S) == Restrict(f, DOMAIN f \ S)

\* _send_input_message: what is sent to a process that is gone is lost.
Send(messages) == inPipe' = IF up THEN inPipe \o messages ELSE inPipe

\* abort_requests_async.
AbortMessages(C) ==
    IF C = {} \/ engineDead THEN <<>> ELSE <<[type |-> "ABORT", ids |-> C, images |-> <<>>]>>

-----------------------------------------------------------------------------
(* generate().                                                             *)

Errored == engineDead \/ handler.done

Refuse(g) ==
    /\ gen[g] = "idle" /\ Errored
    /\ gen' = [gen EXCEPT ![g] = "dead"]
    /\ UNCHANGED <<got, procVars, p0, inPipe, coreVars, outPipe, handler, up, engineDead>>

\* add_request: process_inputs has updated P0 before OutputProcessor.add_request
\* refuses an id that is running; the samples before it have been added.
AddRequest(g) ==
    LET images == UpdateP0(p0, Images[g])
        taken  == {i \in Samples(g) : <<Id[g], i>> \in DOMAIN owner}
        added  == SelectSeq([i \in Samples(g) |-> i], LAMBDA i : \A j \in taken : i < j)
    IN /\ gen[g] = "idle" /\ ~Errored
       /\ p0' = images.cache
       /\ gen' = [gen EXCEPT ![g] = IF taken = {} THEN "running" ELSE "refused"]
       /\ owner' = [c \in {Id[g]} \X ToSet(added) |-> g] @@ owner
       /\ Send([i \in DOMAIN added |->
                   [type |-> "ADD", ids |-> {<<Id[g], i>>}, images |-> images.sent]])
       /\ UNCHANGED <<got, toks, queue, coreVars, outPipe, handler, up, engineDead>>

\* What the caller has once it is given the outputs outs: a delta extends it,
\* any other output replaces it.
Extend(g, before, outs) ==
    [i \in Samples(g) |->
        IF i \notin DOMAIN outs THEN before[i]
        ELSE IF Kind[g] = "delta" THEN before[i] \o outs[i] ELSE outs[i]]

\* One turn of the loop: get and yield.
Receive(g) ==
    /\ gen[g] = "running" /\ ~IsNone(queue[g])
    /\ queue' = [queue EXCEPT ![g] = NoOutput]
    /\ IF queue[g].error
       THEN /\ gen' = [gen EXCEPT ![g] = "dead"]
            /\ UNCHANGED got
       ELSE /\ got' = [got EXCEPT ![g] = Extend(g, @, queue[g].outs)]
            /\ gen' = [gen EXCEPT ![g] = IF queue[g].finished THEN "finished" ELSE @]
    /\ UNCHANGED <<owner, toks, p0, inPipe, coreVars, outPipe, handler, up, engineDead>>

\* The client goes away: abort.
Cancel(g) ==
    LET gone == Children(g) \cap DOMAIN owner
    IN /\ gen[g] = "running"
       /\ gen' = [gen EXCEPT ![g] = "cancelled"]
       /\ owner' = Without(owner, gone)
       /\ queue' = [queue EXCEPT ![g] = NoOutput]
       /\ toks' = [toks EXCEPT ![g] = Untold[g]] /\ got' = [got EXCEPT ![g] = Untold[g]]
       /\ Send(AbortMessages(gone))
       /\ UNCHANGED <<p0, coreVars, outPipe, handler, up, engineDead>>

-----------------------------------------------------------------------------
(* The output handler.                                                     *)

Mut_Put(g, q, out) == IF q.error THEN q ELSE out

\* RequestOutputCollector.put and RequestOutput.add.
Put(g, q, out) ==
    IF q.error THEN q
    ELSE [outs |-> [i \in DOMAIN out.outs |->
                       IF i \in DOMAIN q.outs /\ Kind[g] = "delta"
                       THEN q.outs[i] \o out.outs[i] ELSE out.outs[i]] @@ q.outs,
          finished |-> q.finished \/ out.finished, error |-> FALSE]

\* make_request_output and ParentRequest.get_outputs: NoOutput for None.  A
\* sample has all the tokens of "all"; it is done, and the last of its call.
MakeOutput(g, i, tok, all, done, last) ==
    LET give(outs) == [outs |-> outs, finished |-> done /\ last, error |-> FALSE]
    IN CASE Kind[g] = "delta"      -> give(i :> <<tok>>)
         [] Kind[g] = "cumulative" -> give(i :> all[i])
         [] OTHER                  -> IF done /\ last THEN give(all) ELSE NoOutput

Mut_ToAbort(o, g) == {}

\* A request that ends at a stop string still runs in the core.
ToAbort(o, g) == IF o.ended THEN {} ELSE {o.id}

\* process_outputs, for one output; stop says that its text completes a stop
\* string.  An output of a request that was aborted is ignored.
Process(f, o, stop) ==
    IF o.id \notin DOMAIN f.owner THEN f
    ELSE LET g    == f.owner[o.id]
             i    == o.id[2]
             all  == [f.toks[g] EXCEPT ![i] = Append(@, o.tok)]
             done == o.ended \/ stop
             rest == IF done THEN Without(f.owner, {o.id}) ELSE f.owner
             out  == MakeOutput(g, i, o.tok, all, done, g \notin Range(rest))
         IN [owner |-> rest,
             toks  |-> [f.toks EXCEPT ![g] = all],
             queue |-> IF IsNone(out) THEN f.queue ELSE [f.queue EXCEPT ![g] = Put(g, @, out)],
             abort |-> IF done THEN f.abort \cup ToAbort(o, g) ELSE f.abort]

\* The number of outputs in the first of the slices of np.array_split.
FirstSlice(n) ==
    LET slices == (n + ChunkSize - 1) \div ChunkSize IN (n + slices - 1) \div slices

Mut_Later(outs) == SubSeq(outs, FirstSlice(Len(outs)) + 2, Len(outs))
Later(outs) == SubSeq(outs, FirstSlice(Len(outs)) + 1, Len(outs))

\* One slice.  The aborts of a slice are sent after the other tasks had their
\* turn, just before the next slice, those of the last slice at once.
HandleOutputs ==
    LET fresh == handler.outs = <<>>
        outs  == IF fresh THEN Head(outPipe).outs ELSE handler.outs
        k     == FirstSlice(Len(outs))
        later == Later(outs)
    IN /\ ~handler.done
       /\ fresh => outPipe # <<>> /\ ~Head(outPipe).dead
       /\ \E stops \in SUBSET {outs[j].id : j \in 1..k} :
             LET f == FoldLeft(LAMBDA acc, o : Process(acc, o, o.id \in stops),
                               [owner |-> owner, toks |-> toks, queue |-> queue, abort |-> {}],
                               SubSeq(outs, 1, k))
             IN /\ owner' = f.owner /\ toks' = f.toks /\ queue' = f.queue
                /\ handler' = [handler EXCEPT !.outs = later,
                                              !.abort = IF later = <<>> THEN {} ELSE f.abort]
                /\ Send(AbortMessages(handler.abort)
                        \o (IF later = <<>> THEN AbortMessages(f.abort) ELSE <<>>))
       /\ outPipe' = IF fresh THEN Tail(outPipe) ELSE outPipe
       /\ UNCHANGED <<callVars, p0, coreVars, up, engineDead>>

Mut_PutError(q) == IF IsNone(q) THEN [NoOutput EXCEPT !.error = TRUE] ELSE q

\* put, for an exception: it takes the place of an output that waits.
PutError(q) == [NoOutput EXCEPT !.error = TRUE]

Mut_Affected == {g \in Calls : gen[g] = "running"}

\* propagate_error reaches the calls that have a request left.
Affected == Range(owner)

\* get_output_async raises EngineDeadError: the handler ends.
HandlerFails ==
    /\ ~handler.done /\ handler.outs = <<>> /\ engineDead
    /\ outPipe # <<>> /\ Head(outPipe).dead
    /\ handler' = [handler EXCEPT !.done = TRUE]
    /\ queue' = [g \in Calls |-> IF g \in Affected THEN PutError(queue[g]) ELSE queue[g]]
    /\ outPipe' = <<>>
    /\ UNCHANGED <<callVars, owner, toks, p0, inPipe, coreVars, up, engineDead>>

-----------------------------------------------------------------------------
(* The process of the engine core.                                         *)

\* process_input_sockets with preprocess_add_request: an exception ends the
\* thread and nothing else.
ReadInput ==
    LET m == Head(inPipe)
        images == UpdateP1(p1, m.images)
    IN /\ up /\ inputThread /\ inPipe # <<>>
       /\ inPipe' = Tail(inPipe)
       /\ p1' = images.cache
       /\ inputThread' = images.ok
       /\ inQueue' = IF images.ok THEN Append(inQueue, m) ELSE inQueue
       /\ UNCHANGED <<callVars, procVars, p0, core, stepping, outPipe, handler, up, engineDead>>

\* _process_input_queue, _handle_client_request.
HandleInput ==
    LET m == Head(inQueue)
    IN /\ up /\ ~stepping /\ inQueue # <<>>
       /\ inQueue' = Tail(inQueue)
       /\ IF m.type = "ADD" THEN \A c \in m.ids : Core!Accept(c) ELSE Core!Drop(m.ids)
       /\ UNCHANGED <<callVars, procVars, p0, p1, inPipe, inputThread, stepping, outPipe,
                      handler, up, engineDead>>

InputDrained ==
    /\ up /\ ~stepping /\ inQueue = <<>> /\ core # <<>>
    /\ stepping' = TRUE
    /\ UNCHANGED <<callVars, procVars, p0, p1, inPipe, inQueue, inputThread, core, outPipe,
                   handler, up, engineDead>>

\* _process_engine_step: some requests get a token, which is their last at
\* max_tokens or at a stop token.
EngineStep ==
    /\ up /\ stepping
    /\ \E C \in SUBSET DOMAIN core \ {{}} : \E ended \in SUBSET C :
          LET order == SetToSeq(C)
          IN /\ \A c \in C : core[c] + 1 = MaxTokens[c[1]] => c \in ended
             /\ Core!Produce(C, ended)
             /\ outPipe' = Append(outPipe,
                   [dead |-> FALSE,
                    outs |-> [j \in DOMAIN order |->
                        [id |-> order[j], tok |-> core[order[j]] + 1,
                         ended |-> order[j] \in ended]]])
    /\ stepping' = FALSE
    /\ UNCHANGED <<callVars, procVars, p0, p1, inPipe, inQueue, inputThread, handler, up,
                   engineDead>>

\* What the process held is gone with it.
CoreLost ==
    /\ up' = FALSE /\ inputThread' = FALSE /\ stepping' = FALSE
    /\ inPipe' = <<>> /\ inQueue' = <<>> /\ p1' = <<>> /\ core' = <<>>
    /\ UNCHANGED <<callVars, procVars, p0, handler, engineDead>>

\* run_engine_core: an exception in the busy loop, _send_engine_dead.
EngineFails == up /\ CoreLost /\ outPipe' = Append(outPipe, DeadMessage)

\* The process is killed.
EngineKilled == up /\ CoreLost /\ UNCHANGED outPipe

-----------------------------------------------------------------------------
(* The client's view of the core's death.                                  *)

\* validate_alive, in process_outputs_socket.
ReadDead ==
    /\ ~engineDead /\ outPipe # <<>> /\ Last(outPipe).dead
    /\ engineDead' = TRUE
    /\ UNCHANGED <<callVars, procVars, p0, inPipe, coreVars, outPipe, handler, up>>

\* monitor_engine_cores: shutdown cancels the task that reads the socket, which
\* loses what is not read yet and passes on an EngineDeadError.
Monitor ==
    /\ ~up /\ ~engineDead
    /\ engineDead' = TRUE
    /\ \E k \in 0..Len(outPipe) :
          /\ \A j \in 1..k : ~outPipe[j].dead
          /\ outPipe' = Append(SubSeq(outPipe, 1, k), DeadMessage)
    /\ UNCHANGED <<callVars, procVars, p0, inPipe, coreVars, handler, up>>

NextFront ==
    \/ \E g \in Calls : Refuse(g) \/ AddRequest(g) \/ Receive(g) \/ Cancel(g)
    \/ HandleOutputs \/ HandlerFails
    \/ ReadInput \/ HandleInput \/ InputDrained \/ EngineStep
    \/ EngineFails \/ EngineKilled \/ ReadDead \/ Monitor

BusyLoop == HandleInput \/ InputDrained \/ EngineStep
Idle == handler.outs = <<>> /\ (outPipe = <<>> \/ (Head(outPipe).dead /\ ~engineDead))
OutputHandler == HandleOutputs \/ HandlerFails

\* Weak fairness, with what enables each action written out: the caller of
\* generate() iterates, the event loop runs the output handler, the threads and
\* the monitor run, and the busy loop turns while it has requests.
FrontFairness ==
    /\ \A g \in Calls :
          []<>(gen[g] # "running" \/ IsNone(queue[g])) \/ []<><<Receive(g)>>_frontVars
    /\ []<>(handler.done \/ Idle) \/ []<><<OutputHandler>>_frontVars
    /\ []<>(~up \/ ~inputThread \/ inPipe = <<>>) \/ []<><<ReadInput>>_frontVars
    /\ []<>(~up \/ (inQueue = <<>> /\ core = <<>>)) \/ []<><<BusyLoop>>_frontVars
    /\ []<>(up \/ engineDead)

SpecFront == InitFront /\ [][NextFront]_frontVars /\ FrontFairness

-----------------------------------------------------------------------------
(* Properties.                                                             *)

TypeFront ==
    /\ gen \in [Calls -> {"idle", "running"} \cup Outcomes]
    /\ DOMAIN owner \subseteq AllIds /\ Range(owner) \subseteq Calls
    /\ DOMAIN core \subseteq AllIds /\ \A c \in DOMAIN core : core[c] < MaxTokens[c[1]]
    /\ Len(p0) <= MMCacheSize /\ Len(p1) <= MMCacheSize
    /\ \A g \in Calls : DOMAIN queue[g].outs \subseteq Samples(g)
    /\ inputThread \in BOOLEAN /\ stepping \in BOOLEAN /\ up \in BOOLEAN /\ engineDead \in BOOLEAN

\* The outputs of a request that are not processed yet, and the messages about
\* it that the core has not handled.
Coming(c) ==
    SelectSeq(FoldLeft(LAMBDA outs, m : outs \o m.outs, handler.outs, outPipe),
              LAMBDA o : o.id = c)
InTransit(type, c) ==
    \E m \in ToSet(inPipe) \cup ToSet(inQueue) : m.type = type /\ c \in m.ids

\* The tokens a request was given by the core are, in order and none twice,
\* those its detokenizer has seen and those on their way, over slices, stop
\* strings and aborts of other requests.
TokensInOrder ==
    \A c \in DOMAIN owner :
        LET coming == Coming(c)
            seen == toks[owner[c]][c[2]] \o [j \in DOMAIN coming |-> coming[j].tok]
        IN /\ seen = [k \in 1..Len(seen) |-> k]
           /\ c \in DOMAIN core => Len(seen) = core[c]

\* What the caller has and what waits in the collector are together what was
\* detokenized, for every sample, however many outputs were merged; a call that
\* has no request left has its last output or finds it in the collector.
AnswerWhole ==
    \A g \in Calls : gen[g] \in {"running", "finished"} /\ ~queue[g].error =>
        LET open == g \in Range(owner)
        IN /\ Extend(g, got[g], queue[g].outs) =
                  IF open /\ Kind[g] = "final" THEN Untold[g] ELSE toks[g]
           /\ gen[g] = "running" => (open <=> ~queue[g].finished)
           /\ gen[g] = "finished" => ~open /\ \A i \in Samples(g) : got[g][i] # <<>>

\* The two processes agree on the requests that live.  One the front end waits
\* for is on its way to the core, in it, or has its last output on its way back:
\* it never waits in vain.  One of the core that the front end has given up is
\* about to be aborted, whether the client left or a stop string was found: none
\* is computed to its end for nobody.
RequestsAgree ==
    /\ TypeFront
    /\ up => \A c \in DOMAIN owner :
          \/ InTransit("ADD", c) \/ c \in DOMAIN core
          \/ Coming(c) # <<>> /\ Last(Coming(c)).ended
    /\ \A c \in DOMAIN core \ DOMAIN owner : c \in handler.abort \/ InTransit("ABORT", c)

\* "The caching for both client and server is mirrored": once the requests in
\* the pipe are read, P1 is P0, and no image that was only named is missing.
MirrorKept ==
    up => /\ inputThread
          /\ FoldLeft(LAMBDA acc, m : IF acc.ok THEN UpdateP1(acc.cache, m.images) ELSE acc,
                      [ok |-> TRUE, cache |-> p1], inPipe) = [ok |-> TRUE, cache |-> p0]

\* The error of a dead engine never replaces the last output of a call that has
\* ended but whose task has not fetched it yet.
AnswerSurvivesDeath ==
    [][\A g \in Calls : queue[g].finished => queue'[g] \in {queue[g], NoOutput}]_frontVars

\* Every call ends, with an answer or an error, also when the core dies with
\* the request, with its outputs, or before it has read the request.
EveryCallEnds == \A g \in Calls : gen[g] = "running" ~> gen[g] # "running"
=============================================================================
