---------------------------- MODULE EngineProofs ----------------------------
(***************************************************************************)
(* The engine core as a whole: the scheduler and the KV cache manager keep *)
(* each other's invariants, so that what is proved of either holds of the  *)
(* two together, and the front end gets what CoreService promises.         *)
(***************************************************************************)
EXTENDS SchedulerProofs, KVCacheProofs

USE SMTT(30), Z3T(30), ZenonT(30)

-----------------------------------------------------------------------------
(* The end of a step.                                                       *)

\* A step that scheduled nothing leaves the KV cache as it is.
LEMMA NothingExecuted ==
    ASSUME CacheSane, BetweenSteps, NEW t, NEW order, order = <<>>, ExecuteWith(t, order)
    PROVE  UNCHANGED vars
  <1>1. Len(order) = 0 /\ ToSet(order) = {}
    BY EmptyIs
  <1>2. Sampled = {}
    BY DEF Sampled, BetweenSteps
  <1>3. /\ FreeAll(order) /\ content' = Written /\ arrivals' = arrivals
        /\ tokens' = [r \in Requests |-> tokens[r]] /\ status' = [r \in Requests |-> status[r]]
        /\ computed' = [r \in Requests |-> computed[r] + scheduled[r]]
        /\ reqBlocks' = [r \in Requests |-> reqBlocks[r]]
        /\ numCached' = [r \in Requests |-> numCached[r]]
        /\ reqHashes' = [r \in Requests |-> reqHashes[r]]
        /\ scheduled' = [r \in Requests |-> 0]
    BY <1>1, <1>2 DEF ExecuteWith
  <1>4. pool' = pool
    <2> DEFINE Body(F) == [i \in 0..Len(order) |->
                              IF i = 0 THEN pool
                              ELSE FreeBlocks(F[i - 1], FreeOrder(reqBlocks[order[i]]))]
               C == CHOOSE F : F = Body(F)
               W == [i \in 0..Len(order) |-> pool]
    <2>1. pool' = C[Len(order)]
      BY <1>3, Zenon DEF FreeAll
    <2>2. W = Body(W)
      BY <1>1
    <2>3. C = Body(C)
      BY <2>2, Zenon
    <2> HIDE DEF C
    <2>4. C[Len(order)] = pool
      BY <1>1, <2>3
    <2> QED
      BY <2>1, <2>4
  <1>5. content' = content
    <2>1. scheduled \in [Requests -> Nat] /\ computed \in [Requests -> Nat]
      BY DEF CacheSane
    <2>2. ASSUME NEW w \in Writes PROVE FALSE
      <3>1. w[1] \in Requests /\ w[2] \in (computed[w[1]] + 1)..(computed[w[1]] + scheduled[w[1]])
        BY DEF Writes
      <3>2. scheduled[w[1]] = 0 /\ computed[w[1]] \in Nat
        BY <2>1, <3>1 DEF BetweenSteps
      <3> QED
        BY <3>1, <3>2
    <2>3. \A b \in Blocks, s \in Slots : WritesTo(b, s) = {}
      BY <2>2 DEF WritesTo
    <2>4. Written = [b \in Blocks |-> [s \in Slots |-> content[b][s]]]
      BY <2>3 DEF Written
    <2>5. content \in [Blocks -> [Slots -> Seq(Nat)]]
      BY DEF CacheSane
    <2> HIDE DEF Slots
    <2>6. [b \in Blocks |-> [s \in Slots |-> content[b][s]]] = content
      BY <2>5
    <2> QED
      BY <1>3, <2>4, <2>6
  <1>6. tokens' = tokens /\ status' = status /\ computed' = computed /\ scheduled' = scheduled
    BY <1>3 DEF CacheSane, BetweenSteps
  <1>7. reqBlocks' = reqBlocks /\ numCached' = numCached /\ reqHashes' = reqHashes
    BY <1>3, Zenon DEF CacheSane
  <1> QED
    BY <1>3, <1>4, <1>5, <1>6, <1>7 DEF vars

\* The requests that stop leave the running ones, and their blocks are freed in
\* the order in which the step scheduled them.
LEMMA EngineExecute ==
    ASSUME CacheSane, EngineInv, Execute
    PROVE  (ExecuteStep \/ UNCHANGED vars) /\ EngineInv'
  <1>1. PICK t \in [Sampled -> Tokens], stop \in Stopping(Sampled) : UpdateFromOutput(t, stop)
    BY DEF Execute
  <1> DEFINE order == Keep(step.order, stop)  R == Requests \ stop
  <1>2. /\ phase = "forward" /\ ExecuteWith(t, order) /\ running' = Keep(running, R)
        /\ phase' = "idle" /\ step' = NewStep /\ UNCHANGED <<waiting, compiling, arrived>>
    BY <1>1 DEF UpdateFromOutput, Without
  <1>3. StepShaped /\ Queues /\ Order /\ Budgets /\ InOrder
    BY DEF EngineInv
  <1>4. /\ status \in [Requests -> Statuses] /\ scheduled \in [Requests -> Nat]
        /\ \A r \in Requests : status[r] # "running" => scheduled[r] = 0
    BY DEF CacheSane
  <1>5. stop \subseteq Sampled /\ stop \subseteq Active /\ stop \subseteq ToSet(step.order)
    <2>1. stop \subseteq Sampled
      BY DEF Stopping
    <2> QED
      BY <1>3, <1>4, <2>1 DEF Sampled, Active, Order
  <1>6. /\ order \in Seq(Requests) /\ ToSet(order) = stop /\ Distinct(order)
    <2>1. step.order \in Seq(Requests) /\ Distinct(step.order)
      BY <1>3 DEF StepShaped, Order
    <2>2. /\ order \in Seq(Requests) /\ ToSet(order) = ToSet(step.order) \cap stop /\ Distinct(order)
      BY <2>1, KeepItems
    <2> QED
      BY <1>5, <2>2
  <1> HIDE DEF order, R
  <1>7. order \in SetToSeqs(stop)
    <2>1. Len(order) = Cardinality(stop) /\ Len(order) \in Nat
      BY <1>6, InjectiveLength
    <2>2. order \in [1..Len(order) -> stop]
      BY <1>6, Items
    <2> QED
      BY <1>6, <2>1, <2>2 DEF SetToSeqs
  <1>8. ExecuteStep \/ UNCHANGED vars
    <2>1. CASE ~BetweenSteps
      BY <1>1, <1>2, <1>7, <2>1 DEF ExecuteStep
    <2>2. CASE BetweenSteps
      <3>1. stop = {}
        BY <1>5, <2>2 DEF Sampled, BetweenSteps
      <3>2. order = <<>>
        BY <1>6, <3>1, Items
      <3> QED
        BY <1>2, <2>2, <3>2, NothingExecuted
    <2> QED
      BY <2>1, <2>2
  <1>9. /\ status' = [r \in Requests |-> IF r \in stop THEN "none" ELSE status[r]]
        /\ scheduled' = [r \in Requests |-> 0]
    BY <1>2, <1>6 DEF ExecuteWith
  <1>10. Active' = Active \cap R /\ Queued' = Queued /\ Live' = Live \ stop /\ Plain' = Plain
    <2>1. stop \cap Queued = {}
      BY <1>5 DEF Active, Queued
    <2> QED
      BY <1>9, <2>1 DEF Active, Queued, Live, Plain, R
  <1>11. /\ running \in Seq(Requests) /\ Distinct(running) /\ ToSet(running) = Active
         /\ waiting \in Seq(Requests) /\ Distinct(waiting) /\ ToSet(waiting) = Queued
    BY ZenonT(30), <1>2, <1>3, EmptyIs DEF Queues
  <1>12. running' \in Seq(Requests) /\ Distinct(running') /\ ToSet(running') = Active'
    BY <1>2, <1>10, <1>11, KeepItems
  <1>13. StepShaped'
    BY <1>2, NewStepIs DEF StepShaped
  <1>14. Queues'
    BY <1>2, <1>3, <1>10, <1>11, <1>12, NewStepIs, EmptyIs DEF Queues, Phases
  <1>15. Order'
    <2>1. {r \in Requests : scheduled'[r] > 0} = {}
      BY <1>9
    <2> QED
      BY <1>2, <2>1, NewStepIs, EmptyIs DEF Order
  <1>16. Budgets'
    <2>1. scheduled' \in [Requests -> Nat]
      BY <1>9
    <2>2. SumOf(scheduled', <<>>) = 0
      BY <2>1, SumEmpty
    <2>3. Len(running') <= Len(running)
      BY <1>2, <1>11, KeepShorter
    <2>4. Len(running') <= MaxNumSeqs
      <3>1. Len(running) \in Nat /\ Len(running') \in Nat /\ MaxNumSeqs \in Nat
        BY <1>11, <1>12, NewStepIs
      <3> QED
        BY <1>3, <2>3, <3>1 DEF Budgets
    <2> QED
      BY <1>2, <2>2, <2>4, NewStepIs DEF Budgets
  <1>17. InOrder'
    <2>1. Ordered(running, waiting, arrived, Live) /\ arrived \in Seq(Requests)
      BY <1>3 DEF InOrder
    <2>2. Ordered(Keep(running, R), Keep(waiting, R), arrived, Live \ stop)
      BY ZenonT(30), <1>11, <2>1, FilteredOrder DEF R
    <2>3. Keep(waiting, R) = waiting
      <3>1. ToSet(waiting) \subseteq R
        BY <1>5, <1>11 DEF R, Queued, Active
      <3> QED
        BY <1>11, <3>1, KeepAll
    <2>4. Ordered(running', waiting', arrived, Live \ stop)
      BY <1>2, <2>2, <2>3, Zenon
    <2> QED
      BY <1>2, <1>10, <2>1, <2>4 DEF InOrder, Ordered
  <1> QED
    BY <1>8, <1>13, <1>14, <1>15, <1>16, <1>17 DEF EngineInv

-----------------------------------------------------------------------------
(* The engine takes only steps of the KV cache manager, and those are steps *)
(* of the service promised to the front end.                                *)

\* Every step of the engine is one the KV cache manager allows or leaves it alone.
LEMMA EngineStep ==
    ASSUME CacheSane, EngineInv, [NextEngine]_engineVars
    PROVE  [Next]_vars /\ EngineInv'
  <1>1. CASE UNCHANGED engineVars
    <2>1. UNCHANGED vars /\ UNCHANGED <<phase, running, waiting, step, compiling, arrived>>
      BY <1>1 DEF engineVars, kvVars, schedVars
    <2>2. UNCHANGED <<status, scheduled>>
      BY <2>1 DEF vars
    <2>3. StepShaped' /\ Order' /\ Budgets' /\ InOrder'
      BY ZenonT(30), <2>1, <2>2 DEF EngineInv, StepShaped, Order, Budgets, InOrder, Ordered, Live, Plain
    <2>4. Queues'
      BY <2>1, <2>2 DEF EngineInv, Queues, Active, Queued
    <2> QED
      BY <2>1, <2>3, <2>4 DEF EngineInv
  <1>2. ASSUME NEW r \in Requests, Add(r) PROVE [Next]_vars /\ EngineInv'
    BY <1>2, EngineAdd DEF Next
  <1>3. ASSUME NEW r \in Requests, Finish(r) PROVE [Next]_vars /\ EngineInv'
    BY <1>3, EngineFinish DEF Next
  <1>4. ASSUME NEW r \in Requests, GrammarReady(r) PROVE [Next]_vars /\ EngineInv'
    BY <1>4, EngineGrammar
  <1>5. CASE StartSchedule
    BY <1>5, EngineStart
  <1>6. CASE PassOver
    BY <1>6, EnginePassOver
  <1>7. CASE ScheduleRunning
    BY <1>7, EngineScheduleRunning DEF Next
  <1>8. CASE PreemptLast
    BY <1>8, EnginePreemptLast DEF Next
  <1>9. CASE RunningDone \/ WaitingDone \/ Prepare
    BY <1>9, EngineTurns
  <1>10. CASE SetAside
    BY <1>10, EngineSetAside
  <1>11. CASE Admit
    BY <1>11, EngineAdmit DEF Next
  <1>12. CASE RefuseCandidate
    BY <1>12, EngineRefuse DEF Next
  <1>13. CASE EndSchedule
    BY <1>13, EngineEnd
  <1>14. CASE Execute
    BY <1>14, EngineExecute DEF Next
  <1> QED
    BY <1>1, <1>2, <1>3, <1>4, <1>5, <1>6, <1>7, <1>8, <1>9, <1>10, <1>11, <1>12, <1>13, <1>14, Zenon
       DEF NextEngine, Step, Schedule

\* What the front end sees: how many tokens each live request was given.
Present == {q \in Requests : status[q] # "none"}
Given == [r \in Present |-> Len(tokens[r]) - Len(Prompt[r])]

\* Nothing is seen of a step that neither adds nor ends a request nor gives it a token.
LEMMA Unseen ==
    ASSUME Present' = Present, tokens' = tokens
    PROVE  Given' = Given
  BY DEF Given

\* A step of the KV cache manager adds a request, drops one, gives one token to
\* each of some requests, of which some end, or is not seen: a preemption takes
\* nothing back.
LEMMA ServiceStep ==
    ASSUME CacheSane, [Next]_vars
    PROVE  Service!NextCore \/ Given' = Given
  <1>1. /\ status \in [Requests -> Statuses] /\ tokens \in [Requests -> Seq(Nat)]
        /\ scheduled \in [Requests -> Nat]
        /\ \A r \in Requests : status[r] = "none" => tokens[r] = Prompt[r]
        /\ \A r \in Requests : status[r] # "running" => scheduled[r] = 0
    BY DEF CacheSane
  <1>2. \A r \in Requests : Len(Prompt[r]) \in Nat
    BY ManagerAssumption
  <1>3. CASE UNCHANGED vars
    BY <1>3, Unseen DEF Present, vars
  <1>4. ASSUME NEW r \in Requests, AddRequest(r) PROVE Service!NextCore
    <2>1. /\ status[r] = "none" /\ status' = [status EXCEPT ![r] = "waiting"] /\ tokens' = tokens
      BY <1>4 DEF AddRequest
    <2>2. Present' = Present \cup {r} /\ r \notin Present
      BY <1>1, <2>1 DEF Present
    <2>3. Len(tokens[r]) - Len(Prompt[r]) = 0
      BY <1>1, <1>2, <2>1
    <2>4. Given' = [q \in Present \cup {r} |-> IF q = r THEN 0 ELSE Given[q]]
      BY ZenonT(30), <2>1, <2>2, <2>3 DEF Given
    <2>5. Service!Accept(r)
      BY ZenonT(30), <2>2, <2>4 DEF Service!Accept, Given, Present
    <2> QED
      BY <2>5 DEF Service!NextCore
  <1>5. ASSUME NEW r \in Requests, AllocateNew(r) \/ AllocateNewFails(r) \/ AllocateMore(r) \/ Preempt(r)
        PROVE  Given' = Given
    <2>1. tokens' = tokens
      BY <1>5 DEF AllocateNew, AllocateNewWith, AllocateNewFails, KeepHashes, AllocateMore,
                  AllocateMoreWith, Preempt, Preempted
    <2>2. \/ status' = status
          \/ \E s \in {"running", "preempted"} : status[r] # "none" /\ status' = [status EXCEPT ![r] = s]
      BY <1>5 DEF AllocateNew, AllocateNewWith, AllocateNewFails, KeepHashes, AllocateMore,
                  AllocateMoreWith, Preempt, Preempted, Tried, Victim
    <2>3. Present' = Present
      BY <1>1, <2>2 DEF Present
    <2> QED
      BY <2>1, <2>3, Unseen
  <1>6. ASSUME NEW r \in Requests, Abort(r) PROVE Service!NextCore
    <2>1. /\ status' = [status EXCEPT ![r] = "none"] /\ tokens' = [tokens EXCEPT ![r] = Prompt[r]]
          /\ status[r] # "none"
      BY <1>6 DEF Abort
    <2>2. Present' = Present \ {r} /\ r \in Present
      BY <1>1, <2>1 DEF Present
    <2>3. Given' = [q \in Present \ {r} |-> Given[q]]
      BY ZenonT(30), <1>1, <2>1, <2>2 DEF Given, Present
    <2>4. Service!Drop({r}) /\ {r} \in SUBSET DOMAIN Given
      BY ZenonT(30), <2>2, <2>3 DEF Service!Drop, Given, Present
    <2> QED
      BY <2>4 DEF Service!NextCore, Given, Present
  <1>7. ASSUME ExecuteStep PROVE Service!NextCore
    <2>1. PICK t \in [Sampled -> Tokens], stop \in Stopping(Sampled) :
              \E order \in SetToSeqs(stop) : ExecuteWith(t, order)
      BY <1>7 DEF ExecuteStep
    <2>2. PICK order \in SetToSeqs(stop) : ExecuteWith(t, order)
      BY <2>1
    <2> DEFINE ended == ToSet(order)
    <2>3. ended \subseteq Sampled /\ Sampled \subseteq Present
      <3>1. stop \subseteq Sampled /\ order \in [1..Cardinality(stop) -> stop]
        BY DEF Stopping, SetToSeqs
      <3>2. ended \subseteq stop
        BY <3>1 DEF ToSet
      <3>3. Sampled \subseteq Present
        <4>1. \A q \in Sampled : q \in Requests /\ scheduled[q] # 0
          BY <1>1 DEF Sampled
        <4> QED
          BY <1>1, <4>1, Zenon DEF Present
      <3> QED
        BY <3>1, <3>2, <3>3
    <2>4. /\ tokens' = [r \in Requests |->
                  IF r \in ended THEN Prompt[r]
                  ELSE IF r \in Sampled THEN Append(tokens[r], t[r]) ELSE tokens[r]]
          /\ status' = [r \in Requests |-> IF r \in ended THEN "none" ELSE status[r]]
      BY <2>2 DEF ExecuteWith
    <2> HIDE DEF ended
    <2>5. Present' = Present \ ended
      BY <2>4 DEF Present
    <2>6. ASSUME NEW r \in Present \ ended
          PROVE  Len(tokens'[r]) - Len(Prompt[r]) = IF r \in Sampled THEN Given[r] + 1 ELSE Given[r]
      <3>1. r \in Requests /\ tokens[r] \in Seq(Nat) /\ Given[r] = Len(tokens[r]) - Len(Prompt[r])
        BY <1>1 DEF Present, Given
      <3>2. CASE r \in Sampled
        <4>1. t[r] \in Nat
          BY ZenonT(30), <3>2, ManagerAssumption
        <4>2. tokens'[r] = Append(tokens[r], t[r])
          BY <2>4, <2>6, <3>1, <3>2
        <4>3. Len(tokens'[r]) = Len(tokens[r]) + 1
          BY <3>1, <4>1, <4>2
        <4> QED
          BY <1>2, <3>1, <3>2, <4>3
      <3>3. CASE r \notin Sampled
        BY <2>4, <2>6, <3>1, <3>3
      <3> QED
        BY ZenonT(30), <3>2, <3>3
    <2>7. Given' = [r \in Present \ ended |-> IF r \in Sampled THEN Given[r] + 1 ELSE Given[r]]
      BY ZenonT(30), <2>5, <2>6 DEF Given
    <2>8. Service!Produce(Sampled, ended) /\ Sampled \in SUBSET DOMAIN Given /\ ended \in SUBSET Sampled
      BY ZenonT(30), <2>3, <2>7 DEF Service!Produce, Given, Present
    <2> QED
      BY <2>8 DEF Service!NextCore, Given, Present
  <1>8. CASE ResetPrefixCache
    BY <1>8, Unseen DEF ResetPrefixCache, Present
  <1> QED
    BY <1>3, <1>4, <1>5, <1>6, <1>7, <1>8 DEF Next

-----------------------------------------------------------------------------
(* What the invariant says.                                                 *)

\* Every live request is in its queue, once.
LEMMA QueuesAre == EngineInv => QueuesExact
  <1> SUFFICES ASSUME EngineInv PROVE QueuesExact
    OBVIOUS
  <1>1. Queues /\ step.skipped \in Seq(Requests)
    BY DEF EngineInv, StepShaped
  <1>2. /\ Distinct(step.skipped \o waiting)
        /\ ToSet(step.skipped \o waiting) = ToSet(step.skipped) \cup ToSet(waiting)
    BY <1>1, QueueAhead DEF Queues
  <1> QED
    BY <1>1, <1>2 DEF QueuesExact, Queues, Active, Queued

\* Running requests, then waiting ones, are in order of arrival.
LEMMA ArrivalsAre == EngineInv => FirstComeFirstServed
  <1> SUFFICES ASSUME EngineInv PROVE FirstComeFirstServed
    OBVIOUS
  <1>1. running \in Seq(Requests) /\ waiting \in Seq(Requests) /\ Ordered(running, waiting, arrived, Live)
    BY DEF EngineInv, Queues, InOrder
  <1>2. KeepsBoth(running, waiting, Plain)
    BY <1>1, KeepConcat
  <1>3. Keep(running \o waiting, Plain) = Keep(arrived, Live)
    BY <1>1, <1>2, Zenon DEF KeepsBoth, Ordered
  <1> QED
    BY <1>3, Zenon DEF FirstComeFirstServed, Plain, Live

\* The budgets are kept, only running requests are scheduled, and a prefix hit
\* leaves a token.
LEMMA AssertionsAre == CacheSane /\ EngineInv => EngineAsserts
  <1> SUFFICES ASSUME CacheSane, EngineInv PROVE EngineAsserts
    OBVIOUS
  <1>1. StepShaped /\ Queues /\ Order /\ Budgets
    BY DEF EngineInv
  <1>2. scheduled \in [Requests -> Nat] /\ \A r \in Requests : status[r] # "running" => scheduled[r] = 0
    BY DEF CacheSane
  <1>3. step.budget \in Nat /\ step.encBudget \in Nat /\ step.order \in Seq(Requests)
    BY <1>1 DEF StepShaped
  <1>4. SumOf(scheduled, step.order) \in Nat
    BY <1>2, <1>3, SumSame
  <1>5. SumOf(scheduled, step.order) <= MaxBatchedTokens /\ Len(running) <= MaxNumSeqs
    BY <1>1, <1>3, <1>4 DEF Budgets
  <1>6. ToSet(step.order) \subseteq ToSet(running)
    BY <1>1, <1>2 DEF Order, Queues, Active
  <1>7. ASSUME WaitingLeft, NEW hit \in Hits(Candidate) PROVE WaitingTokens(Candidate, hit) > 0
    <2>1. HeadAndTail(waiting, Candidate, Tail(waiting), Requests)
      BY <1>1, <1>7, FirstOff DEF WaitingLeft, Queues, Candidate
    <2>2. Candidate \in Requests /\ Candidate \in Queued
      BY <1>1, <2>1 DEF HeadAndTail, Queues
    <2>3. Tried(Candidate) /\ step.budget > 0
      BY <1>7, <2>2 DEF Tried, Queued, WaitingLeft
    <2> HIDE DEF Candidate
    <2> QED
      BY <1>1, <1>7, <2>2, <2>3, WaitingChunk
  <1> QED
    BY <1>3, <1>5, <1>6, <1>7 DEF EngineAsserts

\* A fresh engine has given nothing to nobody.
LEMMA ServiceInit == InitEngine => Service!InitCore
  <1> SUFFICES ASSUME InitEngine PROVE Given = <<>>
    BY ZenonT(30) DEF Service!InitCore, Given, Present
  <1>1. Present = {}
    BY DEF InitEngine, InitScheduler, Init, Present
  <1> QED
    BY <1>1 DEF Given

-----------------------------------------------------------------------------
(* The two together.                                                        *)

\* The invariant of the KV cache manager gives the scheduler what it relies on.
LEMMA CacheIsSane == KVInv => CacheSane
  <1> SUFFICES ASSUME KVInv PROVE CacheSane
    OBVIOUS
  <1>1. Types /\ reqBlocks \in [Requests -> Seq(Usable)]
    BY DEF KVInv, Counted
  <1>2. ASSUME NEW r \in Requests
        PROVE  /\ computed[r] + scheduled[r] <= Len(tokens[r])
               /\ status[r] # "running" => computed[r] = 0 /\ scheduled[r] = 0
               /\ status[r] = "none" => tokens[r] = Prompt[r]
    <2>1. Progress(r) /\ computed[r] \in Nat /\ scheduled[r] \in Nat
      BY <1>1 DEF KVInv, Types
    <2> QED
      BY <2>1 DEF Progress, Total
  <1>3. ASSUME NEW r \in Requests, NEW hit \in Hits(r)
        PROVE  Len(hit) \in Nat /\ Len(hit) * BlockSize < Len(tokens[r])
    <2>1. hit \in Seq(Usable) /\ Len(hit) * BlockSize < Len(tokens[r])
      BY HitsAre
    <2> QED
      BY <2>1
  <1>4. /\ reqBlocks = [r \in Requests |-> reqBlocks[r]]
        /\ numCached = [r \in Requests |-> numCached[r]]
        /\ reqHashes = [r \in Requests |-> reqHashes[r]]
    BY <1>1 DEF Types
  <1> QED
    BY <1>1, <1>2, <1>3, <1>4 DEF CacheSane, Types

\* Both invariants hold at all times, and the cache sees steps of its own only.
LEMMA EngineAlways == SpecEngine => [](KVInv /\ CacheSane /\ EngineInv) /\ Spec
  <1>1. InitEngine => Init /\ KVInv /\ EngineInv
    BY EngineInit, KVInit DEF InitEngine, InitScheduler
  <1>2. KVInv /\ EngineInv /\ [NextEngine]_engineVars => [Next]_vars /\ KVInv' /\ EngineInv'
    <2> SUFFICES ASSUME KVInv, EngineInv, [NextEngine]_engineVars
                 PROVE  [Next]_vars /\ KVInv' /\ EngineInv'
      OBVIOUS
    <2>1. CacheSane
      BY CacheIsSane
    <2>2. [Next]_vars /\ EngineInv'
      BY <2>1, EngineStep
    <2>3. KVInv'
      BY <2>2, KVStep
    <2> QED
      BY <2>2, <2>3
  <1> QED
    BY <1>1, <1>2, CacheIsSane, PTL DEF SpecEngine, Spec

\* Whatever schedule() does, it calls the KV cache manager only as that allows: the
\* tokens it asks for are there and fit the model, the victims have nothing
\* scheduled, and the requests that stop are those that got their last token.
THEOREM CallerTheorem == SpecEngine => ImplementsKVCache
  BY EngineAlways, PTL DEF ImplementsKVCache

\* So what is proved of the KV cache manager holds of it in the engine: exact
\* reference counts, free list and hash table, no allocation beyond the free list,
\* one writer for each slot and no cached block whose parent is gone.
THEOREM EngineCacheTheorem ==
    SpecEngine => [](/\ RefCountExact /\ FreeListExact /\ CacheTableExact
                     /\ NeverOverdrawn /\ OneWriter /\ NoOrphans)
  BY EngineAlways, RefCountTheorem, FreeListTheorem, CacheTableTheorem, EnoughTheorem,
     OneWriterTheorem, NoOrphansTheorem, PTL

\* No request is lost or doubled: running and waiting, with the requests set aside
\* in a schedule(), hold each live request once, in the queue its status names,
\* through every preemption, admission, abort and stop.
THEOREM QueuesTheorem == SpecEngine => []QueuesExact
  BY EngineAlways, QueuesAre, PTL

\* First come, first served: the requests without a grammar are, running ones before
\* waiting ones, in order of arrival; a preemption takes the youngest, and puts it
\* where it came from.
THEOREM ArrivalTheorem == SpecEngine => []FirstComeFirstServed
  BY EngineAlways, ArrivalsAre, PTL

\* The assertions of schedule() hold: the token and encoder budgets are never
\* exceeded, no more requests run than allowed, only running ones are scheduled,
\* and a prefix hit always leaves a waiting request a token to compute.
THEOREM AssertsTheorem == SpecEngine => []EngineAsserts
  BY EngineAlways, AssertionsAre, PTL

\* The front end sees each request get its tokens one at a time, none ever taken
\* back by a preemption and its recomputation, until it ends or is aborted.
THEOREM ServiceTheorem == SpecEngine => Service!SafeCore
  <1>1. CacheSane /\ [Next]_vars => Service!NextCore \/ Given' = Given
    BY ServiceStep
  <1>2. CacheSane /\ [Next]_vars => [Service!NextCore]_Given
    BY <1>1
  <1> QED
    BY <1>2, EngineAlways, ServiceInit, PTL DEF SpecEngine, Spec, Service!SafeCore, Given, Present
=============================================================================
