# Verification of the inference server

TLA+ models of the programs in this repository that keep state over time: the
resumable installer, the inference server from its asynchronous front end down
to the KV cache and the worker's batch, the chat front end and the middleware.
TLC checks them on small instances. TLAPS proves for every instance the main
properties of the installer, the chat and the middleware, the accounting of the
KV cache, the isolation of requests of text, and the safety of the engine core.

## 1. The system

| Part | Source | What it does | Model |
|---|---|---|---|
| Installer | `main.sh`, `scripts/install.sh` | walks through a list of step scripts, keeps its progress in `../.install_state`, restarts the machine on the way and resumes through a systemd user unit | `Installer` |
| Step scripts | `scripts/install/*.sh` | install packages, drivers, Docker, vLLM | one action each, which succeeds or fails |
| Other scripts | `scripts/{deploy,monitoring,runner,security,test}`, `scripts/start.sh` | empty files, a note, one command with a placeholder | nothing to model |
| Inference server | `inference_server/vllm` | a vLLM fork, started as its `dockerfile` says: one GPU, prefix caching, blocks of 16 tokens, at most 65536 tokens a request, at most 300 requests at a time | in part, below |
| - block pool | `v1/core/block_pool.py` | reference counts, free list, prefix cache | `BlockPool` |
| - free list | `v1/core/kv_cache_utils.py` | doubly linked list of free blocks | `FreeBlockList`, `FreeBlockQueue` |
| - KV cache manager | `v1/core/kv_cache_manager.py`, `single_type_kv_cache_manager.py`, `kv_cache_coordinator.py` | gives blocks to requests, finds cached prefixes | `KVCacheManager` |
| - block hashes | `v1/core/kv_cache_utils.py` | keys of the prefix cache: tokens and images | `BlockHash`, `MMInputs` |
| - encoder cache | `v1/core/encoder_cache_manager.py` | room for image embeddings | `EncoderCache` |
| - scheduler | `v1/core/sched/` | chooses what each step computes | `Scheduler` |
| - worker | `v1/worker/gpu_model_runner.py`, `gpu_input_batch.py`, `block_table.py`, `v1/sample/logits_processor.py` | keeps requests, encoder outputs and the persistent batch between steps | `InputBatch`, `EngineCore` |
| - engine core | `v1/engine/core.py` | the loop that schedules, executes, updates | `EngineCore`, `CoreService` |
| - front end | `v1/engine/async_llm.py`, `output_processor.py`, `parallel_sampling.py`, `core_client.py` | `generate()`, aborts, outputs, the death of the core | `AsyncLLM` |
| - image caches | `v1/engine/mm_input_cache.py` | the same LRU cache in both processes | `MirroredCache` |
| Chat | `inference_server/frontend/chatbot` | Streamlit chat with history files | `Chat` |
| Metrics | `inference_server/frontend/metrics` | draws the server's counters | not modelled |
| Load test | `inference_server/test/test.py`, `frontend/test.py` | 500 parallel requests, latency statistics | not modelled |
| Middleware | `middleware/src` | FastAPI service with a DuckDB log | `Middleware` |

The parts interact over HTTP (chat, load test, metrics and middleware towards
the inference server) and share no memory. The models are therefore separate,
and each treats its counterpart as an environment that may answer, fail or
never answer. Inside the inference server the parts share state, and so do the
modules:

    FreeBlockList  implements  FreeBlockQueue     the list of BlockPool
    EngineCore     extends     Scheduler, InputBatch
    Scheduler      extends     KVCacheManager, EncoderCache
    KVCacheManager extends     BlockPool, BlockHash
    EngineCore     implements  KVCacheManager     every schedule() is a legal use of it
    EngineCore     implements  CoreService        what the front end relies on
    AsyncLLM       uses        CoreService, MirroredCache

`Lists` has the list operations that the modules of the server share: folds, sums
and filters as recursive functions, which a proof can unfold. The proofs are in
modules of their own (section 5), each extending the one before it:

    PoolProofs -> AllocateProofs -> KVCacheProofs -> IsolationProofs
    PoolProofs -> SchedulerProofs
    KVCacheProofs, SchedulerProofs -> EngineProofs
    InstallerProofs, WebProofs

## 2. Modules

### Installer

A run of `install.sh` is a process with a program counter `pc[p]`; its labels
are the points between two commands that touch a file, the unit or the machine.
`stateFile` and `flagFile` are the two files, one pair per directory, because
both paths are relative to the directory a run was started in. `done` is the
set of step scripts that have succeeded, `unit` the systemd unit.

- `OpenState`, `CheckFullInstallation`, `GetInstallState`: the beginning of a run.
- `DisableUnit`, `RemoveUnit`, `ResetFailed`: `disable_reboot_service`, command by
  command, since any of them failing ends the run under `set -e`.
- `SaveTruncate`, `SaveWrite`, `SaveFails`: `save_install_state`. The redirection
  truncates the file before the lock is requested, so these are two steps.
- `Iterate`, `ScriptSucceeds`, `ScriptFails`, `RemoveState`, `TouchFlag`: the loop.
- `WriteUnit`, `EnableUnit`, `Reboot`: `setup_reboot_service` and the restart.
- `Kill`, `PowerLoss`, `OperatorEdits`, `Launch`: the environment. `OperatorEdits`
  is the hand edit without which the script can neither begin nor end
  (`install.sh:9` and `install.sh:213` in section 4). No fairness is put on it.

systemd, bash and the file system are external; what `systemctl` does with a
missing or unloaded unit is modelled from how the script uses it.

### BlockPool and KVCacheManager

A pool is a record, and each method of `BlockPool` an operator from pool to
pool, because `allocate_slots` makes several of these calls in one step.
`KVCacheManager` has the manager's dictionaries as functions on requests. A
step of the engine is a series of `AllocateNew`, `AllocateNewFails`,
`AllocateMore` and `Preempt`, closed by `ExecuteStep`, which is the forward pass
with `update_from_output`. `AddRequest`, `Abort` and `ResetPrefixCache` come
between steps, as in the engine's loop.

- A block hash is the sequence of the tokens and image keys of all blocks up to
  this one: the hash function is taken to have no collisions. `BlockHash` has the
  two ways the code computes the image keys, `MMKeys` going forward through the
  images and `LastKeys` for a block whose hash was not made in advance: one that
  fills up while decoding, or any block of a request with `prompt_logprobs`, for
  which `get_computed_blocks` looks nothing up and makes no hashes (`LooksUp`).
  LoRA ids and cache salts are not deployed.
- `content` is not a variable of the code. It says what the GPU memory of each
  block holds, where the entry of a token is identified with the prefix it
  depends on. It lets the isolation of requests be stated. Where an entry goes is
  the worker's slot mapping (`compute_slot_mapping`: `BlockOf`, `SlotOf`, `WritesTo`).
- The caller is freer than the scheduler: any waiting request, any chunk, any
  victim that has no tokens in this step. What holds here holds for the
  scheduler's choices too: `ImplementsKVCache`, which is checked and proved.

### FreeBlockList and FreeBlockQueue

`FreeBlockList` has the links of the blocks and one action per method of
`FreeKVCacheBlockQueue`. `FreeBlockQueue` is what the pool relies on: a sequence
without repetitions. The refinement maps the queue to what
`get_all_free_blocks` returns.

### Scheduler and EncoderCache

`schedule()` is one action per iteration of its two loops: for a running request
`PassOver`, `ScheduleRunning` or `PreemptLast`; for a waiting one `SetAside` (its
grammar is not compiled), `Admit` or `RefuseCandidate`. `StartSchedule`,
`RunningDone`, `WaitingDone` and `EndSchedule` frame them, and `UpdateFromOutput`
follows the forward pass. `step` holds the local variables of `schedule()`: the
budgets, the queue of those set aside, what was scheduled and what was freed.
`EncoderCache` has the cache as a record and its methods as operators;
`TryScheduleEncoderInputs` is the scheduler's choice of images, which may shorten
a chunk. Modelled as deployed: FCFS, chunked prefill, no speculative decoding,
LoRA, connector or pooling. `Add` takes a request whose id has not been used
before: the worker's care for an id that is aborted and submitted again before
the next step (`gpu_model_runner.py:391-395`) is not exercised.

### EngineCore and InputBatch

`worker` is what the model runner keeps between steps. `Prepare` is
`_update_states` and the encoder pass: the worker learns only what is new, so it
can drift from the scheduler. `InputBatch` has the slots, rows, block table and
the lists by which a logits processor follows removals, additions and moves.
`Execute` is the rest of `execute_model`, with any sampled token, and
`update_from_output`.

### CoreService, AsyncLLM and MirroredCache

`CoreService` is the promise of the core: a request gets tokens one at a time
until it ends or is aborted, and does not stay for ever. `AsyncLLM` is the asyncio
process in front of it; an action runs from one `await` to the next.
`AddRequest` is one action because its sends complete without yielding; it
registers the samples of a call in order and stops at the first whose id is
still running. `HandleOutputs` processes one slice of outputs and aborts the
requests that met a stop string. `ReadInput` is the input thread of the core,
`HandleInput`, `InputDrained` and `EngineStep` its busy loop. `EngineFails` and
`EngineKilled` end it with and without a message; `ReadDead` and `Monitor` are how
the client notices. `MirroredCache` has the LRU caches P0 and P1 as sequences of
image hashes.

### Chat

A session is a browser tab. Streamlit (1.47, with `runner.fastReruns` as it is by
default) starts a run of the script for every interaction at once and stops the
one under way, which ends at its next Streamlit call or access to
`st.session_state`. Until then both are running: a stopped run may still append to
the list it has fetched, and a save that has begun goes to its end, because
`save_conversation` calls nothing of Streamlit. So a run is known by the number of
its prompt, `live` has those that were not stopped, and the run of a prompt is
cut at these places: the fetch of `messages` and the append for the question (364),
the stream, the same for the answer (407), the fetch of what is saved (408), `open`,
which truncates, `json.dump`, which reads the list as it is by then, and the close
(`FetchForQuestion` to `CloseFile`). `Stop` is for an interaction that leaves the
session its list, `StopAndSet` for one that gives it another: what a stopped run
appends to the old list then nobody sees, and a save under way keeps it (`own`).
`Login`, `Select` and `Clear` may themselves be stopped between two assignments.

Line 10 of the file reads `impore re`, with which it does not start; the model
takes it as `import re`. A message is its role with the number of its prompt, names
are mapped to directories as `safe_user_name` is computed (one of them is `.`, which
is `chat_histories/` itself, and one leaves no character), and a conversation id is
the pair of a time and a text. A history is written to the file when it is closed,
though a long one is flushed in pieces before. Two texts written over each other
are either the later one or unreadable (`Broken`); a mixture of the two that
happens to be JSON is left out. Uploads and the parsing of the stream are left out.

### Middleware

Start-up executes the six statements of `init_db`, each of which commits by
itself. A request goes from the handler to a queue of the thread pool, to a
thread, to the lock, and back (`Receive`, `Dispatch`, `Acquire`, `RunQuery` or
`VllmAnswers`, `Respond`). The database is the set of objects it has. DuckDB,
asyncio and httpx are external: a statement of `init_db` and a query may raise
whatever the database has, as may the connection to it. `insert_usage` has no
caller and is left out.

## 3. What TLC checks

| Run | Shows | States | Bounds |
|---|---|---|---|
| `installer_concurrent` | checkpoints, the flag and the order of scripts stay honest (`InstallInv`, `CheckpointHonest`, `FlagHonest`, `StepsInOrder`) | 3,066,842 | two terminals and the systemd run, one fault |
| `installer_single` | a save moves the file on by one place from what it holds (`SavesNext`), a restart is announced in the file (`RebootAnnounced`), and without a fault an installation gets from `START` through the restart to its last script (`Advances`) | 28,292 | one terminal and the systemd run, three faults |
| `kv_cache` | counts, free list, table and hashes agree; no request reads another prefix or another image; no slot has two writers; eviction takes the tail of a chain first | 209,649 | three requests, one with two images and one with `prompt_logprobs`, three usable blocks of two tokens, five tokens a request, three arrivals |
| `free_list` | the linked list is a queue (`LinksAgree`, `ImplementsQueue`) | 326 | five blocks |
| `engine_core` | queues, order, budgets and the code's assertions hold; the worker's requests, batch, biases and encoder outputs agree with the scheduler at every forward pass; `ImplementsKVCache`, `ImplementsService` | 221,427 | four requests, three at a time, four usable blocks of two tokens, six tokens a request, four tokens a step, three arrivals, an encoder cache of three |
| `async_llm` | tokens in order and whole answers; the two processes agree on the requests that live (`RequestsAgree`) and on the images (`MirrorKept`); every call ends, also when the core dies | 242,187 | a call with two samples and one with one, a cache of two images, slices of one output |
| `chat` | an answer stands behind its question (`AnswersFollowPrompts`), a truncated file is filled (`TruncatedIsFilled`), users are apart (`OwnMessagesOnly`), a run agrees with its session (`ChatInv`) | 1,199,668 | two tabs, three names, two prompts, one crash, two seconds |
| `middleware` | the lock is never leaked, every request is answered | 15,482 | four requests, two threads, three initial databases |

Four more runs, `installer_unit_file`, `last_image`, `robustness` and
`async_mirror`, each end in a counterexample; they are in section 4.

The bounds are the smallest in which the hard cases happen. Two terminals and
one fault give a run that saves an old state over a newer one and a kill in the
middle of any command. With three usable blocks a request of five tokens fills
the pool, so a second one causes eviction and preemption, and two equal prompts
give hits on blocks written in the same step; the third has the same token ids
and two other images, which meet in its first block while the second goes on
into the block that generated tokens fill. One of the equal prompts wants
`prompt_logprobs`, so its blocks are hashed in the other way. In the free list five blocks give lists with an inner block
whose neighbours are inner too. In the engine one request has an image across
two blocks, one has two images, one has its image behind a prefix that it
shares with the one that has a grammar. Three of them do not fit into the
blocks, so preemption, resumption, a full and an overdrawn encoder cache, a
running request passed over, a batch with holes and chunks cut short all happen. Two samples
and slices of one output let a client leave, or a stop string be found, between
two outputs of one step; the images of the calls push each other out. Two prompts
give two runs of one tab, one of them stopped, in one list or in two, and two
tabs of one user that save to one file, remove it or take up each other's history. Four
requests on two threads give a thread that waits for the lock and a request
that waits for a thread.

With two terminals neither `SavesNext` nor `RebootAnnounced` holds, even without
a fault, and nothing in the script says they should. `Advances` begins where
`START` has been written into the file and ends at `VALIDATION_DONE`, since the script
does neither the first step nor the last by itself.

`HashesRight` compares the image keys only for requests with `LastImageAlone`: no
block that is hashed late has an image but the last. The instance of `kv_cache`
has no other requests, so `ReadsOwnPrefix` and `CachedContentRight` hold in it;
`last_image` is the instance with one. In `async_llm` one call has two samples and
streams, the other wants its final output and has one sample: the cumulative kind,
and a final output of several samples, are in the model (`MakeOutput`, `Put`) and in no
instance. `EveryCallEnds` rests on `CoreService`, whose requests end; `engine_core`
shows that of its instance, and `robustness` that it does not hold of every one.

`FirstComeFirstServed` leaves out requests with a grammar, and `EncoderCounted`
allows the free count to fall below zero by less than one step's budget: section
4 says why.

Every property is also checked against a mutant of the code it is about (a
dropped guard, a missing reset, a wrong order), which violates it.

### Fairness

- `RunFairness`: a process that can go on does (the kernel schedules it), and a
  script that is tried over and over succeeds in the end. The second is an
  assumption about the step scripts; without it no installation moves on.
- `OperatorFairness`: someone starts `install.sh` again while it is not finished.
  Only `Advances` and the `installer_unit_file` run use it. Nothing assumes that
  anyone edits the state file.
- `EngineCore`: the busy loop takes a step while it has requests, and every
  grammar is compiled in the end (a thread pool does it). `Fairness` is the weak
  fairness of these with what enables them written out, because TLC is too slow
  on the `ENABLED` of `Step`; the `robustness` run is small enough for
  `SpecEngineWF`, which has the operator itself. Arrivals and aborts are not fair.
- `AsyncLLM`: the caller iterates over `generate()`, the event loop runs the output
  handler, the threads run, the busy loop turns while it has requests, and the
  monitor notices a dead core. Written out in the same way. Nobody has to send
  or to cancel a request, and the core need not die.
- `Middleware`: the event loop, the threads and the supervisor run. `client.post`
  is taken to end: its timeout of 60 seconds bounds each connect, read and write
  (`routes.py:52`), so it ends unless the server keeps sending without an end, which
  a completion of at most 100 tokens that is not streamed does not do. `Receive` is not fair: nobody has to
  send a request.

No liveness is claimed for the chat: `requests.post` has no timeout.

Deadlock is checked everywhere but in the middleware, the engine and the front
end, whose requests are finite in number: once all have ended nothing is left
to do.

## 4. Disagreements between the code and what it says

Each of the first four is a run that TLC finds violated.

1. `installer_unit_file`: a run killed around the unit's commands leaves a state
   in which every later run fails at `systemctl disable`.
2. `last_image`: a block that generated tokens fill is hashed with the last image of
   its request only (`block_pool.py:168`). If two images share that block, which takes
   a second one shorter than a block near the end of the prompt, two prompts that
   differ in the first get one hash. The hash stays with the request, so one that
   is preempted and resumed can be given the other's block (`ReadsOwnPrefix`). With
   `prompt_logprobs` the same line hashes the blocks of the prompt too, where
   any number of images may lie.
3. `robustness`: a preempted request keeps its encoder cache entries. The request
   it made room for can come to an image that does not fit beside them, is
   passed over in every step and keeps the blocks the other waits for. Neither
   ends, and the requests behind them are not admitted. The settings are the
   deployed ones in small: no threshold for long prefills, one size for both
   budgets and the encoder cache. The first request has four images, no two of
   which fit into one step; that leaves the second a part of each step, in one of
   which it has consumed half of its image when it is preempted.
4. `async_mirror`: a call refused because its id is still running has put its
   image into P0 and never sends it. The next call with the image only names it;
   P1 raises, and the input thread of the core ends.

The following follow from single lines or are outside the checked instances;
the models contain those that name a definition, and no run is spent on them.

- `install.sh:200`: the branch for `nvidia.sh` restarts the machine and does not run
  the script, and the installation is declared complete without it (`Claims`).
- `install.sh:205`: the unit has no working directory, so the resumed run looks for
  the state file in the home directory (`HomeDir`).
- `install.sh:213` executes the end marker `FINISH` as a script, which fails, so
  the flag is never created without a hand edit (`ScriptSucceeds` is not enabled).
- `install.sh:9` creates the state file before it is read, so the default `START` of
  line 38 is never used and a fresh machine aborts (`OpenState`).
- `install.sh:144` removes the state file before the flag is made. A crash in between
  leaves neither, and the next run begins with an empty state (`RemoveState`).
- `chatbot:311`: every login starts the conversation `new_chat_active` without
  messages, and the first save replaces what the login before stored there (`Login`).
- `chatbot:233` and `chatbot:236`: a selection is two assignments, and the run that
  makes them can be stopped in between. The session then has the id of one
  conversation with the messages of another, and its next save writes these over
  the first (`Select`).
- `chatbot:196`: a user whose name leaves no directory is shown the names of the
  conversations kept in `chat_histories/` itself, and cannot load them (`Listed`).
- `database.py:35` creates a view before its table, so no start succeeds on a new
  database file (`InitStatement`).
- `async_get_last_error_logs` (`database.py:109`) returns nothing, so `GET /errors`
  never gives an `ErrorsResponse` (`AnswerOf`).
- `GET /usage` reads `tokens_usage_view` (`database.py:73`), which no code creates
  (`View`).
- `can_allocate` of the encoder cache is asked for each image of a request before
  any is allocated, so the cache can hold more than its `cache_size`, which the
  docstring calls a limit (`CanEncode`).
- `kv_cache_utils.py:452`: a block that fills after the last image has ended may still
  get that image's key. A prefix hit is missed; no wrong one is made (`LastKeys`).
- `scheduler.py:360`: requests set aside for their grammar come back in the opposite
  order in every step, although the policy is first come, first served
  (`SetAside`). Only latency is affected.
- `async_llm.py:256`: the samples of a call are registered one by one. If a later id
  is still running the call fails, and the earlier samples run for nobody
  (`AddRequest`).
- An id used again right after an abort may get outputs of the aborted request
  that were on their way (`output_processor.py:379`).
- `processor.py:395` lets in a prompt of exactly `max_model_len` tokens, for which the
  scheduler has no last chunk. The OpenAI layer refuses such a prompt before
  (`serving_engine.py:619`), so the deployed server does not meet it.

## 5. What is proved

| Module | About | Theorems |
|---|---|---|
| `InstallerProofs` | the installer | `InstallInvariant`, `CheckpointTheorem`, `FlagTheorem`, `OrderTheorem`, `RebootTheorem`, `ForwardTheorem` |
| `WebProofs` | the chat and the middleware | `OrderKept`, `FilesFilled`, `UsersApart`, `RunsAgree`, `LockAlwaysExact` |
| `PoolProofs` | induction, counting, lists; the hashes; the methods of the block pool | lemmas only |
| `AllocateProofs` | prefix hits and `allocate_slots` | lemmas only |
| `KVCacheProofs` | the accounting of the KV cache | `RefCountTheorem`, `FreeListTheorem`, `CacheTableTheorem`, `EnoughTheorem`, `OneWriterTheorem`, `NoOrphansTheorem` |
| `IsolationProofs` | what a forward pass reads | `IsolationTheorem`, `TextIsolation` |
| `SchedulerProofs` | one `schedule()` | lemmas only |
| `EngineProofs` | the engine core | `CallerTheorem`, `EngineCacheTheorem`, `QueuesTheorem`, `ArrivalTheorem`, `AssertsTheorem`, `ServiceTheorem` |

The assumptions are the named `ASSUME`s of the modules, which TLC evaluates in
every run: constants are of their types, a prompt has between one and
`MaxModelLen` tokens, the images of a request are in order and do not overlap,
the requests are a finite set. Nothing bounds the number of blocks, requests,
arrivals, users, tabs, threads or faults, the block size, the budgets or the
lengths of prompts. `RebootTheorem` and `ForwardTheorem` also assume
`OneOperator` and `TextIsolation` assumes `TextOnly`; both are said where they
are stated.

**Installer.** `CheckpointHonest` is not inductive: a file is honest after a
save only if the value being saved was honest before it. `InstallInv` adds that
for each place such a value can be. What a run has read (`CurHonest`) and what
it is about to save (`SavingHonest`) stands for work done; a run that executes a
script has one to execute (`ExecHasStep`); a run that resumes holds
`REBOOTING_AFTER_NVIDIA` (`ResumingAt`); a run that finishes has everything
behind it (`FinishingAt`). Since `done` only grows, what one run relies on
cannot be taken away by another, which is why the invariant survives any overlap
of runs without a lock. The lemmas `IndexOf`, `OrderedIs`, `ClaimsAre` and
`NextClaims` evaluate the tables; `StepInv`, `ScriptInv` and `EnvironmentInv` go
through the actions. `RebootAnnounced` and `SavesNext` hold for one operator
only. `SingleInv` says that the operator's run and the one of systemd are in
different directories (`OwnDirectory`), and what a run has read or is about to save
is tied to what its file holds, label by label (`FileIsMine`); `NextFollows`
evaluates the order of the states.

**Chat.** What a save writes is what a list holds, and what a list holds may have
come from a file. `HistoryInv` says it of every session (`SessionOK`), run (`RunOK`)
and file (`FileOK`). A history is `Sound` if it is `Paired` and holds a message only if
the run of its prompt has got past the append; that no run appends twice, and an
answer only to a list with its question, then follows from where runs stand. The
difficult part is a stopped run: it is `Attached` while the list it works with is
still that of its session, and one that is not either ends or saves a list of its
own. `StopKeeps` and `SetKeeps` are the two ways in which an interaction meets the
runs of its tab, `Forward` says that a step takes back no append, and `RunFrame`,
`FileFrame` and `SessionFrame` deal with what a step leaves alone. `TruncatedIsFilled` is
inductive with `RunOK`. The directories are any function of the names.

**Middleware.** The inductive invariant is `LockInv`: `LockExact` and the types.

**KV cache.** `KVInv` (`AllocateProofs`) has four parts.

- `Counted`: the pool is in order (`PoolInv`: the free list holds the blocks
  without a reference, each once, and the hash table is the set of pairs of a
  block and its hash), and a block's count is the number of lists it is in.
- `Progress`: a request has exactly the blocks its computed and scheduled tokens
  need, and has published exactly the full ones.
- `HashesKept`: its hashes are a chain, and its published blocks carry them.
- `Shared`: two requests share a block only at the same place of their lists, only
  if it is published, and one of them has computed it before this step.

`Counted` alone is not inductive. `free` lowers a count that must not be zero,
so the lists must be without repetition, and a hit could repeat a block if
chains of different length could have one hash. The lemmas about `Touch`,
`GetNewBlocks`, `FreeBlocks` and `CacheFullBlocks` in `PoolProofs` say what each
does to a pool with `PoolInv`; `AllocateProofs` puts them together in the order
of `allocate_slots` (`Granted`); `KVStep` goes through the actions. `OneWriter`
follows from `Shared`, and `NeverOverdrawn` from the number of blocks that
`touch` takes from the free list. `NoOrphans` needs one more invariant,
`Parented`: an idle block with a parent has one that is in use or stands behind
it in the free list. The lists of the requests keep it (`Linked`) because `free`
goes through them from the tail.

**Isolation.** `Isolated(M)` says that after the forward pass of the step every
request finds its own entries at all positions it counts (`Own`), and that a
published block holds the entries its hash stands for (`Holds`), where `M` gives
the inputs behind a hash. The forward pass belongs into the invariant because
`allocate_slots` publishes a block before it is written: what is in memory in
between is neither. A step keeps it because the tokens it makes room for go to new blocks
or to the last, unpublished block of the request (`WritesToOwn`). `IsolationTheorem`
assumes `HashMeans(M)`, that equal hashes in use stand for equal prefixes.
`TextIsolation` proves that for requests of text, whose hashes spell their
tokens (`Telling`, `TextOf`). With images it rests on the image keys of a block,
which `MMKeys` and `LastKeys` compute in two ways, and for `LastKeys` it can fail
(`last_image`): there `HashMeans(M)` has no `M`. Where it holds it stays with TLC: the
`kv_cache` run checks `ReadsOwnPrefix` with images.

**Engine.** `EngineInv` (`SchedulerProofs`): the queues hold each live request
once, in the one its status names, with those set aside in `step.skipped`
(`Queues`); the order of the step lists what is scheduled, and the running
requests from `step.index` on have nothing (`Order`); what is scheduled is what
the budget has lost (`Budgets`); requests without a grammar are in order of
arrival, running ones first (`InOrder`). It rests on facts about the manager
(`CacheSane`), and the manager's on the scheduler's being a legal caller, so the
two are proved together: a step from a state with `EngineInv` and `KVInv` is a
step of `KVCacheManager` or leaves its variables alone, which is `CallerTheorem`
and gives `EngineCacheTheorem` from the six theorems about the cache. The
sum in `Budgets` needs the lemmas about `SumOf`, the order those about `Keep`.
`ServiceTheorem` is the safety part of the refinement `ImplementsService`.

**Induction.** The provers cannot instantiate the induction theorems of the
library. `Least` gets from `WFMin`, which has no operator parameter, that a set
of natural numbers has a least member, and `UpTo`, `UpFrom`, `DownTo` use it on
the set of numbers for which a statement holds. `Iterates` and its variants give
what a recursive definition over an interval rests on, and so unfold `Keep`,
`SumOf`, `FoldLeft` and the hash chain. `Counts` and the lemmas after it derive
what is needed about `Cardinality` from its definition: the theory of finite sets
of the library would be part of every obligation that follows.

**Only model-checked.**

- All liveness, and the liveness part of `ImplementsService`: the prover does not
  do fairness.
- `HashesRight`, `CachedContentRight`, and `ReadsOwnPrefix` with images: what the
  two ways to compute image keys give for every list of images.
- `WorkerForgets`, `BatchMatches`, `BiasesFollow`, `EncoderOutputsThere` and
  `EncoderCounted`: invariants of the worker's copies and of the encoder cache, which need
  an invariant of `InputBatch` and its `condense` of their own.
- `LinksAgree` and `ImplementsQueue`: reachability along the links.
- The invariants of `AsyncLLM`.

## 6. What is not modelled

- Most of the vLLM fork, and with it most lines of this repository: model code,
  kernels, attention backends, other platforms, the older engine, quantisation,
  distributed execution, the API server, tokenisation, benchmarks and tools. It
  is upstream code. Most of it computes tensors or adapts to hardware and keeps
  no protocol state, and much of it the deployment never runs. The models cover
  the files that hold the server's scheduling, batching, caching and request
  state; the mapped lines are between one and two in a hundred of the tree, and
  with upstream code of this kind the share cannot become large.
- In the files that are modelled: other attention types and the hybrid
  coordinator, the priority policy, speculative decoding, LoRA, KV connectors and
  events, pipeline and data parallelism, pooling, statistics, none of which the
  deployment uses or which keep no state; sampling parameters other than the
  logit bias; tensors and CUDA graphs.
- A grammar that fails to compile raises in the busy loop
  (`structured_output/request.py:33`); `Scheduler` takes compilations to succeed, and
  what follows the death of the core is in `AsyncLLM`.
- Images larger than the image cache together, and images of different sizes in
  it. `reset_mm_cache` is only called at start-up.
- The commands inside the step scripts, and the hardware they install for. Some
  are not safe to run twice (`docker.sh:41`).
- Uploads of the chat, which all sessions keep under one directory
  (`chatbot:63`), and the parsing of its stream.
- The metrics page, which keeps nothing between two polls, and the load test.

## 7. Plan

1. An invariant of `InputBatch`, and with it a proof of `BatchMatches`.
2. `HashMeans` for requests with `LastImageAlone`: `MMKeys` and `LastKeys` as functions of
   the images of a prefix.
3. `AsyncLLM` and `Scheduler` with ids that are used again while outputs, or a
   finish, are on their way.
4. Uploads in `Chat`.

The hazards that are still open, each with its line, are in `PROJECT.json`.
