# A TLA+ model of tileInfer

tileInfer serves a hybrid language model (gated DeltaNet layers with a recurrent
state, full-attention layers with a paged KV cache) with continuous batching,
chunked prefill, prefix reuse, recompute preemption and recovery from CUDA
out-of-memory errors. What makes it hard to get right is not any of these alone.
A request's context lives in four places at once (blocks of the KV cache, a
recurrent state, a conv1d state, the counters of its `Sequence`), and every
feature moves one of them while the others must follow.

The modules here model that core, and what stands around it: the HTTP server with its
tensor-parallel ranks, the automata of guided decoding, the choice of tokens by several
ranks, the buffers of captured CUDA graphs, and the attention kernels as two groups of
warps that share memory. TLC checks them on small instances. Proved for every size is every
safety property that a passing run checks, but for those of guided decoding: the block pool
and the engine's use of it, its queues, slots and budget, what its passes read from the KV cache, the
recurrent and conv states and the prefix cache, the server with its lock, its ranks and its
abstract service, the attention kernels, the replay of decode graphs, and the choice of tokens.
Some theorems of the engine have premises, which name the faults below.

## Inventory

| Component | State | Operations | Interacts with | Modelled |
|---|---|---|---|---|
| Block manager (`engine/block_manager.py`) | free stack, used set, reference counts, block tables | `allocate`, `share_blocks`, `allocate_extra`, `may_append`, `deallocate` | called by the scheduler; `on_block_freed` calls the prefix cache and the runner | `BlockManager`, proofs in `BlockManagerProofs` |
| Prefix cache (`engine/prefix_cache.py`) | trie of token blocks -> chains of block ids, reverse index | `find_longest_prefix`, `add`, `evict_block`, (`clear`, FIFO trim) | scheduler | `PrefixCache`, proofs in `CacheProofs` |
| Sequence (`engine/sequence.py`) | tokens, status, counters, block table | field updates | everyone | `Sequence` |
| Scheduler (`engine/scheduler.py`) | `waiting`, `running` | `add`, `schedule`, `advance_decode`, `postprocess`, `_preempt_seq`, `is_finished` | pool, cache; callbacks into the runner | `Scheduler`, proofs in `SchedulerProofs` |
| Model runner (`engine/model_runner.py`) | DeltaNet slots and states, snapshots, kept slot mappings, KV cache, sequences dropped on an error; CUDA graphs and their buffers | slot and snapshot calls, `prepare_*`, `run` with retry, graph capture and replay | layers, kernels | `ModelRunner`, proofs in `EngineProofs`, `CacheProofs`; `DecodeGraph` (buffers and replay), proofs in `DecodeGraphProofs` |
| Sampling (`engine/model_runner.py`, `kernels/lm_head_topk.py`) | logits of a pass | penalty, constraints, argmax, top-k candidates, broadcast of tokens | runner, constraints, ranks | `Sampling`, `VocabArgmax`, proofs in `DeviceProofs` |
| Engine loop (`engine/llm_engine.py`) | tracked sequences | `generate`, `generate_stream`, `step`, `_multi_step_decode`, `_handle_preempted`, `_cleanup_seqs`, warmup | scheduler, runner | `LLMEngine`, `EngineProperties`, proofs in `SchedulerProofs`, `EngineProofs`, `CacheProofs` |
| HTTP server (`api_server.py`) | one engine, the inference lock | request handlers, streaming, broadcast, `worker_loop`, exit | engine, worker ranks | `Server`, `RequestService`, `ServerProperties`, proofs in `ServerProofs` |
| Tensor parallelism (`engine/parallel.py`) | process group | sharding, collectives, distributed argmax | runner, server | in `Server` (collectives, timeout) and `VocabArgmax` (vocabulary) |
| Constrained decoding (`engine/constraints.py`) | automata, `seq.constraint_state` | compile, mask, advance, complete | scheduler, sampling | `RegexNfa`, `JsonGrammar`, `GuidedDecoding`, `GuidedProperties` |
| DeltaNet and attention layers (`model/qwen_36.py`, `kernels/kvcache_store.py`, `kernels/causal_conv1d.py`) | recurrent pool, conv pool, KV cache | prefill and decode of a batch | runner | in `ModelRunner`, by the tokens each value depends on |
| Attention kernels (`kernels/gqa_decode_paged.py`, `kernels/gqa_varlen.py`) | shared memory and barriers of a thread block | tile programs, with and without warp specialisation | layers | `WarpPipeline`, `AttentionKernel`, `AttentionProperties`, proofs in `DeviceProofs` |
| DeltaNet, matrix and elementwise kernels (`kernels/`) | none | numeric functions | layers | no |
| Configuration, entry points, stand-alone generator, benchmarks | plain data | | | no |

### Which behaviours are hard, and what correctness means

* **Pool.** Blocks are shared between tables. Correct: a block is free or held,
  never both; counts are exact; a block freed is held by nobody; sharing is by
  common prefix only.
* **Prefix reuse.** Three caches (trie, reverse index, snapshots) refer to blocks
  by number, and numbers are reused. Correct: what a hit hands out is the keys,
  values and states of that very prefix.
* **Scheduling.** Preemption happens inside the loop that is being computed and
  between decode sub-steps; preempted and dropped sequences are put in front of a
  partly prefilled one. Correct: no request is lost or queued twice, the budget is
  kept, finished requests are final, every request is answered.
* **Out-of-memory recovery.** `run()` retries after layers may have updated their
  states, drops a sequence whose blocks stay allocated until the run is over, and may
  give up. Correct: a retry reads each token once; slots and blocks come back.
* **Chunked prefill.** Chunks follow what budget is left. Correct: states and kept slot
  mappings do not depend on how the prompt was cut.
* **Calls.** A stream may be abandoned, a prompt rejected, a call may raise, and the
  next call finds what the scheduler still holds. Correct: slots, snapshots and
  the pool survive that.
* **Requests and ranks.** One thread per request, one lock, and ranks that meet in
  collectives in an order nobody states. Correct: one inference at a time; ranks that
  meet run the same batch at the same tokens; every request ends.
* **Guided decoding.** Automata advanced by characters under tokens that span several.
  Correct: what has been produced can be completed, an end is a whole member, nothing
  legal is masked, and there is always a way on.
* **Choosing tokens.** Every rank has a shard of the logits and some randomness of its
  own. Correct: all ranks return the same tokens, and those one device could return.
* **Graphs and kernels.** Host, device and groups of warps run at their own pace over
  shared buffers. Correct: what is read is what was written for this pass, this chunk.

In the engine concurrency is small: `generate()` runs on one thread, and the server's
lock admits one call at a time. Interleaving comes from the loops (what one iteration
does to the rest), from callbacks and from the reader of a stream. Around the engine it
is real: request threads, ranks, host and device, warps. There is no persistence, so there
is no crash recovery.

## Modules

    Lists                 an element taken out, kept alone, looked up
    BlockManager          the pool, and its specification PoolSpec
      PrefixCache         trie and reverse index
      Sequence            tokens and counters
        ModelRunner       slots, states, snapshots, forward pass, errors
      Scheduler           (PrefixCache + ModelRunner) queues, schedule, postprocess
        LLMEngine         calls, steps, batches; composes everything: EngineSpec
          EngineProperties   the properties
            MCEngine         prompts for the runs
    MCBlockManager        the pool alone
    ListProofs            lemmas about lists
    BlockManagerProofs    theorems about PoolSpec
    SchedulerProofs       (EngineProperties + both of these) EngineSpec: queues, blocks, slots
      EngineProofs        ... and what its passes read
        CacheProofs       ... and what a hit of the prefix cache and the conv state are

    RequestService        what the server offers: one request served at a time
    Server                threads, lock, broadcasts, ranks, faults: ServerSpec
      ServerProperties    properties, fairness, refinement of RequestService
        MCServer          requests for the runs
        ServerProofs      theorems about ServerSpec

    RegexNfa              compile_regex and RegexState; what a pattern means
    JsonGrammar           the character machine; what JSON is
      GuidedDecoding      (both) masks, shared state, a sampler
        GuidedProperties
          MCGuided        requests for the runs

    WarpPipeline          two groups of threads, two buffers, four barriers
      AttentionKernel     index arithmetic of both kernels over the pipeline
        AttentionProperties
    VocabArgmax           block-wise and distributed argmax
      Sampling            from logits to tokens on every rank
        SamplingProperties
    DeviceProofs          (AttentionProperties + SamplingProperties) theorems about PipeSpec,
                          AttentionSpec, SampleSpec and the operators under them
    DecodeGraph           pinned and static buffers of captured graphs
      DecodeGraphProofs   theorem about GraphSpec
    MCDevice              (AttentionProperties + SamplingProperties + DecodeGraph)

**BlockManager.** One operator per method; `share_blocks` and `allocate_extra` are one
action because the scheduler always pairs them without looking in between. The free
stack keeps the code's order (`pop()` from the end; `deallocate` pushes from the last
block of the table). `PoolNext` lets any caller make any call the asserts allow;
`Chains` is the contract of `share_blocks`, which the code does not check:
the chain is a prefix of a live table.

**PrefixCache.** A trie node is named by the tokens on its path; the model keeps the
nodes with a chain. `AddPrefix` registers every full block of the tokens with the
block table of the moment, as `add` does, and keeps a re-registered node in its old
place in the reverse index, as the code does. The trim is disabled in this program
(the scheduler builds the cache with `max_entries = 0`), and so it is absent.

**Sequence.** `num_tokens` and the completion count follow from `token_ids`. `MaxTokens`
is at least 1: with 0 the code still generates one token.

**ModelRunner.** A KV slot holds the token prefix its key depends on; a recurrent
state holds the tokens it has read; a conv state holds its last `ConvKernel` inputs. This
is exact for the question whether a value belongs to its position, and says nothing
of numerics. `PrepareStates` is the head of `_run_impl` (slots, zeroing, restores),
`ForwardPass` the layers, `Gathered` the slot mappings kept by
`_build_slot_mapping_prefill`. An out-of-memory error is early (no state updated),
late in one layer (the conv state is written before the recurrent one), or late (all
updated). What a failed pass stored in the KV cache is left out: nothing reads those
positions before a later pass stores them again.

**Scheduler.** `schedule()` is one iteration per step: `ScheduleDecode`,
`SchedulePreempt`, `EndDecode` for phase 1; `AdmitShared`, `AdmitFresh`,
`ScheduleChunk`, `ScheduleNoChunk` for phase 2. Splitting it costs nothing in
faithfulness (nothing runs in between) and makes every call into the pool one step,
which is what the refinement of `PoolSpec` needs. `ReleaseBlocks` is `deallocate` with
the `on_block_freed` callbacks of the engine's wiring.

**LLMEngine.** `pc` says where the engine is: idle, in `schedule()`, preparing,
running, handling dropped sequences, in `postprocess`, or between decode sub-steps.
`Generate` is a call with any set of prompts in any order; `Abandon` is a stream whose
reader goes away; `GenerateRejected` is a call whose later prompt is rejected after
earlier ones were added; `Recover` is a caller that survives an exception, as the HTTP
handlers do. The last three happen only with `ServeAfterError`.

The sampled token is any member of `Vocab`, and the end of a sequence by an
end-of-sequence token, a stop string or a constraint is the free choice `ends`.

**Server.** A thread of rank 0 goes `waiting`, `work` (its part of the broadcast),
`generate`, `reading` (a stream between two steps), and to an outcome. `Broadcast` is one
of the collectives of `broadcast_work` (the length, the body, and the two of the
parameters); each completes only when every
rank is in it, and so does a `Pass`. Of the engine the model keeps which sequences the
scheduler of a rank still has (`live`) and how many passes each has had (`ran`): a client
that goes away leaves its sequence in rank 0's scheduler, since `_cleanup_seqs` does not
take it out, while the workers run theirs to the end. A pass ends on all ranks or raises on one
(`StepRaises`): rank 0 turns the exception into an answer, a worker dies of it. It is a lack of memory
(`OutOfMemory`), or an error of the engine (`EngineRaises`): the `KeyError` of finding 1, a table that is too
short, a guide on a dead state, a batch of masked logits. Such an error needs a request that brings it along
(`Faulty`, any set) or two that are in the scheduler together, and it may take sequences out of rank 0's
scheduler. `Interrupt` is the main thread
leaving `serve_forever`; its broadcast of -1 takes no lock. A collective that not all ranks enter
never completes (`Wedged`); the process group's timeout ends it (`TimeOut`), and
`LauncherEnds` is `torchrun`, which ends all ranks when one has died: both are external.
`RequestService` is the abstract specification: a request is absent, queued, served or
ended, one is served at a time, and what ended stays so.

**RegexNfa.** `compile_regex` builds the Thompson automaton over numbered states from a
pattern's syntax tree; parsing text into that tree is left out, the construction with
its cloning is not. `Cloned` copies all that can be reached from the fragment, as
`_clone_fragment` does. The reference (`Meaning`, derivatives) says which strings a pattern
means, by Python's `re`.

**JsonGrammar.** `JsonStep` is one character through `JsonGrammar.step`: a stack of
frames with one mark each, the expectation, a string, number or literal in progress.
The characters are one or two of each class that the code tells apart. `After` is the
reference: what may follow, by the productions of JSON. `Lax` names the places where the
code admits more than JSON; outside of them it must be exact.

**GuidedDecoding.** `make_constraint` with its parts in order; masks with the shared
`constraint_state`; a sampler that takes any unmasked token, ends by the constraint or at
`max_tokens`, anywhere. When all tokens are masked argmax returns index 0 and
`multinomial` raises; a choice asked for a mask on its dead node raises (`TypeError`). The
mask cache is left out: its key is the whole state. Special tokens are not in the
vocabulary index and do not occur. A choice that is a prefix of another ends first, as in
the code.

**WarpPipeline.** The loops of `gqa_decode_paged_ws` and `flashattn_ws`: every thread of
the two groups on its own, arriving at and passing barriers by phase parity. Threads
copy slices; a compute thread reads all slices. A chunk is known by its number.

**AttentionKernel.** The grid, the range of chunks, which row of the cache a chunk's
slice is, what the mask leaves, which query a row stores. `Fold` abstracts the online
softmax to the keys that went in with the values that were multiplied. The
unspecialised kernels run chunk by chunk (`Chunk`). `flashattn` passes `num_stages`
to `flashattn_ws`, which has no such parameter (`gqa_varlen.py:376-378`): on sm_90 the
call raises as written. The model has the kernel as it is defined. `PagedCall` and `PackedCall` are
what the callers give the kernels: a table that covers the length, pages that divide the tile
or are as large, heads that divide into groups and blocks, and packed queries that are the last of their keys. The decode kernel's table for padded rows
holds page -1 throughout with length 1; what it reads there is never used.

**VocabArgmax, Sampling.** Logits are integers scaled so that a penalised one is an
integer; weights are powers of two. `path` is the branch structure of `_run_impl`,
`_sample_decode` and `_sample_prefill_fused`. Ranks step separately: `Forward` sends,
`Choose` takes when all have sent, drawing for itself, `SyncTokens` takes rank 0's
tokens. `topk` breaks ties in any way, so a greedy row that shares a pass with sampled
ones may get any largest token. With tensor parallelism and no `top_k` the code samples
from the 20 (50) best of each rank; `DefaultK` and `NucleusK` are their small stand-ins. The kernels carry
token numbers in float32, exact below 2^24. `_sample` (855-885) has no caller.

**DecodeGraph.** The host fills pinned rows, launches copies and a replay, and
goes on; the device runs them in order, later. `tolist()` of the sampled tokens is what keeps
the host from refilling too early (`Synchronised`).

Operators marked "Mutant" are not part of the model: they are plausible errors of
the code, kept to show that each property can fail.

## Runs

Bounds common to the engine runs: blocks of two tokens (the smallest size with an
inside and a boundary; four in `engine`), at most four requests of a few tokens. `MaxOOMs` bounds the
number of errors, `MaxLen` the length of a sequence. No state constraint is used.

| Run | Question | Result |
|---|---|---|
| `pool` | 5 blocks, 3 sequences, every order of calls | 7 properties hold |
| `engine` | 3 requests, 2 sharing a block, 3 blocks of 4 tokens, 2 slots, 1 snapshot, up to 3 errors | 10 properties hold |
| `multi_step` | 3 requests, 2 decode sub-steps, 4 blocks, 2 slots, a caller that goes on after abandoned, rejected and failed calls | 3 properties hold |
| `server` | 5 requests (plain, a stream, a stream that can make a step raise, inadmissible, malformed), 1 or 2 ranks, five kinds of fault | 8 properties hold |
| `guided` | JSON to depth 3, 7 patterns and 14 with a counted repetition, choices, masks; 1- to 4-character tokens | 5 properties hold |
| `device` | 12 launches, 15 batches of logits with ties, graphs of 1 to 4 rows | 7 properties hold |
| `workers_stay` | an inadmissible request on two ranks | violated, finding 4 |
| `guided_regex` | `x{3}1` | violated, finding 5 |
| `penalty_ranks` | a greedy prompt with a penalty on two ranks | violated, finding 6 |
| `preempt` | two requests outgrow the pool | violated, finding 1 |
| `stale_trie` | a prefix registered twice | violated, finding 2 |
| `late_oom` | a late error in a resumed pass | violated, finding 3 |

Properties, and what each would catch:

* `PoolTypeOK`, `ServerTypeOK`: types.
* `RefCountExact`, `FreeUsedPartition`, `FreeUncounted`, `SharedFromStart`,
  `FreshBlocksPrivate`, `FreedOnlyByLastHolder`: the pool, against any caller.
* `PoolContract`: the engine, with all its error paths, is a caller the pool's
  specification allows (refinement of `PoolSpec`, checked as a property).
  The six above then hold of the engine too.
* `QueuedOnce`: an unfinished request is in one place of one queue, in every state
  of every loop.
* `SlotDiscipline`: a slot is free once or held once, and never runs out.
* `ContextExact`: at every forward pass the recurrent state has read exactly the
  tokens before the pass and the table maps every earlier position to a slot with this
  sequence's own keys. This is the property the whole engine is for.
* `ConvExact`: the same of the conv state.
* `WritesOwnBlocks`: a pass stores only into blocks that no other table shares.
* `GatherExact`: a kept slot mapping is as long as the chunk it is used for.
* `SnapshotsExact`, `HitsExact`: snapshots and cached chains describe what
  their blocks hold.
* `StepBudget`: what a pass and the decode pass of the same step run stays within the configured
  numbers of sequences and of tokens, counted as a set of pairs of a sequence and a token of it.
* `NoLeak`: after the last call all blocks and slots are back.
* `FinishedIsFinal`: a finished request keeps its answer and holds no memory.
* `AnsweredOrFails`: every call returns its answers or raises.
* `OneInference`: exactly the holder of the lock is inside a call, and no thread ends with it.
* `AnsweredInFull`: an answer means that every rank is through with the request.
* `RanksInStep`: ranks that meet in a pass run the same batch at the same tokens, and a
  broadcast is heard whole, from one thread.
* `FailedForReason`: a request that raises nothing by itself fails for lack of memory, or because an earlier call
  has left something in the scheduler: a stream when that finishes, any request when the engine raises for the two.
* `EveryRequestEnds`, `AnsweredUnlessDisturbed`: liveness with and without faults.
* `ImplementsService`: refinement of `RequestService`.
* `OutputOnCourse`, `CompleteIsWhole`, `NothingForbidden`, `NeverStuck`: the guides against the languages
  they stand for, from both sides. Three of them have a guard that names the counts of a repetition for which the
  code does not keep them (`TakesMore`, `TakesFewer`, `Loses`, see below).
* `RaisesForContradiction`: masking all logits, and the exception that follows, come only to a request whose
  allow and deny lists exclude each token with which a legal output could go on.
* `ReadsItsChunk`: what is multiplied is the chunk it should be, in all its slices.
* `EachKeyOnce`: every row written has folded in each of its keys once, with its value, and
  every query is written by one block.
* `RanksAgree`, `GreedyIsArgmax`, `WithinSupport`: tokens, against the logits of the
  whole vocabulary on one device.
* `ReplayIsOfThisPass`: a replay reads the inputs of the pass that launched it, and its
  padded rows touch no sequence's state.
* `DeviceEnds`: none of the device's parties waits for ever.

**Why the bounds are enough for what happens.** In `engine` three blocks cannot hold
three requests, so admissions are deferred, decode preempts, chunks are cut by the
budget, the single snapshot is evicted and missed, `run()` retries, drops and gives up (`MaxOOMs` is 3).
`SnapshotsExact` and `GatherExact` are asked here.
The prompts of `engine` are made for preemption. A victim is usually met again by
the loop that preempted it (finding 1); it survives only if it needs a block itself and
the request that preempted it has taken all it gave back. With blocks of four tokens
`a` and `b` can share a block, decode together (so that an error drops one of them),
and then need a new block in the same step: `b` preempts `a`, `a` waits and is
prefilled again over what is left of the shared prefix. With blocks of two tokens no
preemption by `schedule()` survives in instances of this size.

Every action of `EngineNext` and every disjunct fires in some passing run, except two
outcomes inside actions: the `IndexError` of `AdvanceFails` (preemption that frees no
block needs a longer shared prefix than these runs have) and the rejections that
`SlotDiscipline` and `GatherExact` show not to happen. `multi_step` is the one with
leftovers of earlier calls, and with fewer slots than requests. There `NoLeak`, `ContextExact` and liveness are not asked, since
abandoned requests go on being decoded without a caller, nor are `SnapshotsExact` and `GatherExact`, which do not
hold for a caller that goes on: `MCLeftoverPrompt.cfg` and `MCKeptMapping.cfg` are instances that are
large enough to show it. `SlotDiscipline`, `FinishedIsFinal` and `PoolContract` are asked there because it is the
harsher of the two instances.

In `server` two passes per request are enough for a client to leave between them and for
a leftover to meet the next request; two ranks are enough for every disagreement, and the
behaviours with one rank are in the same run. The request that can make a step raise
is a stream, so that it may be left behind, meet the plain request, or raise on its own. In `guided` tokens span string ends,
containers, numbers and escapes, since that is where a mask computed by characters goes
wrong; the counted repetitions are `(x0?){m,n}1` for every m up to 3 and every n up to 3 or open; depth 3 nests
objects and arrays in each other. In `device` pages are smaller than a chunk, as large and larger, key ranges end inside a chunk, head groups are split over
blocks; two threads per group tell a barrier from a signal; ties are within and across shards.

**The device harness.** The three units of `MCDevice` share no state. One runs, the others
stay where they start, so that one run covers the three without multiplying them. They
end, so deadlock is not checked; `DeviceEnds` says that a unit stops only when it is through.

**What the passing runs steer around.** The passing runs choose prompts and constants so
that behaviour beyond the known faults can be checked: prompts that do not end at a block boundary,
`LateOOM = {"fresh"}` (finding 3), `ConvKernel = 2` (with a history of one token no
chunk is too short; the program's model uses 4), prompts that do not register a prefix
from two live tables while snapshots are evicted (finding 2), fewer than eight sequences, so
that a round of `schedule()` preempts once (`MCPreemptTwice.cfg`), no long shared prefix, patterns without
a negated class escape, one guide per request (`MCGuidedFaults.cfg` for both), no prompt that is greedy
and penalised on two ranks. Counted repetitions are not avoided: all small ones are in `guided`, and the properties say what
holds of each. The code is wrong for `{m,n}` with n of three or more, m not 0 (`TakesMore`: a copy too
many), for `{m,}` with m not 1 (`TakesFewer`: only multiples of m match), and for `{0,}` (`Loses`: no way on after one copy).
Over all counts to four TLC finds each guarded property violated for the counts that its guard names and for no others.
Where a fault leads to an exception (finding 1, and the first and
third of the retired instances) the passing runs
include it: `AnsweredOrFails` allows the call to raise. So `AnsweredOrFails` passing in
`engine` means those schedules neither spin nor wait for ever.

**Retired instances.** These configurations are kept beside the listed runs; each runs in seconds, `MCKeptMapping.cfg` and
`MCGuidedFaults.cfg` to its end in minutes.

| Configuration | Module | What TLC says |
|---|---|---|
| `MCBlockBoundary.cfg` | `MCEngine` | `DecodeHasBlock` violated: `may_append` tests the length that already counts the token to be decoded, so after a prompt of k full blocks the decode pass indexes past the table |
| `MCWholeHit.cfg` | `MCEngine` | `AnsweredOrFails` violated: nothing is left to prefill when the whole prompt is cached, and `generate()` loops |
| `MCAdvance.cfg` | `MCEngine` | `PreemptedLeaveBatch` violated: a sequence preempted between decode sub-steps stays in the batch |
| `MCPreemptTwice.cfg` | `MCEngine` | `LengthKept` violated: with two preemptions a round (from `max_num_seqs` = 8) the loop meets a victim while nothing runs, and preempts it again (`scheduler.py:212`); it waits twice and is prefilled again after it has finished, for one token more than `max_tokens` |
| `MCShortChunk.cfg` | `MCEngine` | `ConvExact` violated: a chunk of fewer than `K - 1` tokens overwrites the end of the conv state without shifting it |
| `MCStuck.cfg` | `MCEngine` | `AnsweredOrFails` violated: a dropped request at the head of `waiting` needs blocks that a partly prefilled one behind it holds, and neither runs |
| `MCKeptMapping.cfg` | `MCEngine` | `GatherExact` violated, for a caller that goes on: a pass that is given up leaves its mapping of one token with a prompt of an earlier, abandoned call, which `_cleanup_seqs` does not reach; a later call cuts a chunk of two tokens at the same place and takes that mapping (`model_runner.py:576`) |
| `MCLeftoverPrompt.cfg` | `MCEngine` | `SnapshotsExact` violated, for a caller that goes on: a call is abandoned after a chunk of one token, its slot is freed and zeroed, the next call reads the second token from the zero state and saves that at the end of the block (`scheduler.py:243-249`, `model_runner.py:725-742`) |
| `MCLiveness.cfg` | `MCEngine` | `Answered` and `EngineTypeOK` hold: with memory for all, every request is answered |
| `MCGuidedTypes.cfg` | `MCGuided` | `GuidedTypeOK` holds over the requests of `guided` |
| `MCGuidedFaults.cfg` | `MCGuided` | six requests (`Faulty` in `MCGuided`; TLC's `-continue` goes through all of them). `LegalAllowed` violated for `x{2,}1`, where the loop enters the first copy again, so that only even numbers match, and for `x{0,}1`, where nothing leads on from the end of the body. `OutputForced` violated for `\D` (the escape table gives it the digits themselves), for JSON (the machine admits what `Lax` lists) and for JSON with a regex (both step one state, twice per token). `RaisesForContradiction` violated for a choice with JSON, which raises without any list, since one guide finds the state of the other |

**Fairness.** `WF_vars(EngineStep)`: while a call runs, its next step comes, because
`generate()` is a `while` loop on one thread. Nothing is assumed of callers, and none of
choices: fairness is on the disjunction of the engine's steps, not on single ones.
Out-of-memory errors are finitely many (`MaxOOMs`). Deadlock is checked
in every run but `device`; `Stopped` is the engine at rest after its last call or an uncaught
exception, `Rest` the server when no request is left.

In `server` fairness is per party, since each is a thread or a process that runs on its
own: a request thread takes its next step when it can, a worker likewise, a client that
stays reads what it is sent, a dead rank is noticed by the launcher, and a wedged collective
times out. Of faults nothing is assumed. `threading.Lock` is not fair; weak fairness of
`Acquire` suffices because requests are finitely many in an instance and a lock that is asked for
by finitely many threads is at last free for good. `guided` states no liveness. In `device`
weak fairness of the whole unit is enough: its parties take finitely many steps.

## Findings

Each is a counterexample of the run named, against words of the repository quoted in
`PROJECT.json`.

1. `preempt` - `schedule()` walks a copy of `running` while preemption shortens the
   original; the victim's turn comes and `del running[...]` raises `KeyError`.
2. `stale_trie` - a re-registered prefix stays indexed under its old block; when the
   new one is freed and reused, a later request adopts another prompt's keys.
3. `late_oom` - a retry of a resumed prefill or a decode runs its tokens through
   states that have already read them.
4. `workers_stay` - `worker_loop` does not catch what `generate()` raises: one inadmissible
   request ends every worker, while rank 0 answers with an error and goes on.
5. `guided_regex` - `_clone_fragment` is applied to a fragment that has been linked on
   already, so a count of three lets a fourth copy through and has no way on after it. Open counts but `{1,}`
   are wrong as well (`MCGuidedFaults.cfg`).
6. `penalty_ranks` - the first token of a greedy request with a repetition penalty is
   chosen from gathered logits that only rank 0 has penalised, and is not synchronised.

## Proofs

### The pool

`BlockManagerProofs` proves, for every finite set of sequences, every number of
blocks, every block size and every bound on lengths (`PoolAssumption`, the only
assumption), that the six pool properties and the type invariant hold of `PoolSpec`.

The properties are not inductive one by one, so one invariant is proved:

    PoolInv == PoolTypeOK /\ FreeUsedPartition /\ RefCountExact
                 /\ FreeUncounted /\ SharedFromStart

Each conjunct needs the others. `Deallocate` keeps the counts exact only
if a table holds a block once, which is `SharedFromStart` with both tables the same
(`TableInjective`). It keeps the free stack injective only if the freed blocks were not
on it, which is `FreeUncounted`. `TakeBlocks` keeps `SharedFromStart` only if the
popped blocks are in no table, which is `RefCountExact` with `FreeUncounted`
(`FreeIffUnheld`, `TableNotFree`). Sharing keeps it because a chain is a prefix of
a live table.

Under that: `PopSplits` (n pops split the stack), `ListedByRank` and
`FreedOrderBijection` (the order in which `deallocate` pushes blocks lists each once),
`HoldersFinite`; then `TakeBlocksPreserves` and `DeallocatePreserves`, one step per
conjunct, for the two effects every operation is made of. The two action properties
are conjuncts of the same step (`FreshBlocksPrivate` and `FreedOnlyByLastHolder` follow
from the invariant before the step).

### The engine

`SchedulerProofs` and `EngineProofs` are about `EngineSpec` for any finite set of requests, any
prompts and limits, any pool, any number of slots, snapshots and decode sub-steps, any
out-of-memory errors, abandoned streams and rejected calls. The assumptions are those the
modules declare (`PoolAssumption`, `RunnerAssumption` and the like: numbers are
positive where the code divides by them or takes the first of a list).

Three faults of the code let a sequence that has been preempted be scheduled as if it still
ran: the victim met again by its own loop (finding 1), the victim that preempts
itself or another (`MCPreemptTwice.cfg`), and the victim that stays in a multi-step batch
(`MCAdvance.cfg`). After any of them a request is in two places and none of the properties
below can be expected. So the theorems have a premise on the behaviour, `[]Undisturbed`: a preemption
is for a sequence that still runs, no sequence of a multi-step batch waits, and no caller goes on after
a `KeyError`. It names exactly these three places and asks nothing else of queues, blocks, slots or
the caller: out-of-memory errors, retries, drops, abandoned and rejected calls, and other exceptions
are all inside it. TLC finds it true in every state of `engine`, which preempts. `PlainEngine` says of
the constants alone when the premise holds: one decode per step, fewer than eight
sequences, and a caller that stops at an error. `NeverDisturbed` proves that, and each theorem has a
corollary without the premise.

* `EachQueuedOnce` (`QueuedOnce`). The loops hold lists of their own (`decode_list`, a copy of
  `running`; the batches of a step; those dropped on an error; those still to be
  processed), and each line of code trusts something about them. `QueueInv` says what: `QueuesApart`
  is the property in a form the provers like, without concatenation; `LoopInv` says that until
  the first preemption of a round its list is inside `running`; `BatchInv` says that what an error drops is
  still in `running` and no longer in the batch, and what a postprocess has yet to see is
  queued once; `ChunkInv` ties the kind of a batch to the status of its sequences. After a fatal `KeyError`
  only the queues are claimed to be in order.
* `EngineImplementsPool` (`PoolContract`). Every engine step is a step of `PoolNext` or leaves the
  pool alone, so each theorem about the pool holds in the engine. What has to be shown is that
  the scheduler keeps the contract the code does not check: a chain that a hit shares is the
  prefix of a live table. `KeysLive` says that of every snapshot key, and it holds because `ReleaseBlocks`
  evicts the snapshots of the blocks that it frees (`on_block_freed`), `TrieDepth` because a chain is
  as long as its node is deep. `MemoryStep` first reduces all actions of the engine to a few effects on
  memory, so that each invariant is proved against those.
* `FinishedStays` (`FinishedIsFinal`) follows: only unfinished requests are changed, and `NoneHeld`
  says that a finished one has an empty table.
* `SlotsDisciplined` (`SlotDiscipline`). That slots do not run out is a count. A sequence keeps its
  slot in `waiting` while its prompt is read chunk by chunk, and preempted ones are put in front of
  it. `SlotHolders` says who may hold a slot, `SlotRoom` that whoever holds one in `waiting` stands so
  early in it that all before it and all that decode have room within `MaxNumSeqs`, `LoopRoom` that a
  preemption makes the room that it takes at the head of `waiting`.
* `NothingLeaks` (`NoLeak`). When no call runs, `is_finished` is true (`IdleInv`), so nothing is queued, so
  every request that was submitted is finished or rejected, and its memory is back.
* `PassesWriteOwnBlocks` (`WritesOwnBlocks`). Two invariants. `SettledRead` is about places: a block that a second table
  holds, or that a snapshot in the cache names, stands in a table only behind the tokens that its
  sequence has read, and a pass writes from the first unread token on. Admission keeps it because a hit
  counts as read exactly the tokens of the shared chain (`Admission`), and saving a snapshot because its key
  ends where the reading ends (`RecordSettled`). `CountInv` is about numbers: a sequence that decodes has a token left
  to read, and one that is prefilled has blocks for all of its tokens (`HasRoom`). The two are
  proved apart (`CountStep`, `SettledNext`); `CachedKept` is what the second needs of the first.
* `MappingsFit` (`GatherExact`), for a caller that stops at an exception. `PaceInv` follows each sequence through
  a step: how much of it is read and not yet counted (`Progress`), how much is still to be read before its next
  token is sampled (`Due`), and that a kept mapping begins at what is read already, unless its pass is
  about to be tried again with the same chunk (`Mapping`). What is dropped from a batch or preempted begins again at zero, so
  `PaceInv` has to say that its mappings are gone. `SamePace` is what a step leaves alone, so that
  each action is proved for the sequences it is about. A caller that goes on after an exception is left out:
  `_cleanup_seqs` forgets the mappings of its own call only, and a prompt of an earlier, abandoned call may keep the
  mapping of a pass that was given up (`MCKeptMapping.cfg`).
* `PassesReadTheirContext` (`ContextExact`) and `SnapshotsStayExact` (`SnapshotsExact`), for a caller that stops at
  an exception. Three invariants carry them. `KeysKept`: up to where a sequence has read, its blocks hold the keys of its own
  tokens. It survives the passes of others because they write where nothing is settled (`WrittenAlone`), and growth
  because a table grows at its end (`GrownStores`). `Stated`: its slot holds the state after the same tokens, or
  it is in one of the few places where it need not: dropped on an error, not begun, or admitted with a
  snapshot that run() has still to restore (`Restorable`). `SnapInv`: a snapshot is the state after the tokens whose
  keys its blocks hold. The three lean on each other: a pass needs the first two to go on from, a snapshot is saved out of
  them (`SavedRead`), a hit gives them back from the third (`HitRead`). Two premises name what breaks them in the code: the hits
  of the cache are exact (finding 2 makes them inexact) and an error of a resumed pass comes before its states
  are written (`"resumed" \notin LateOOM`, finding 3). `PassesReadTheirContextInPlainEngine`
  has no premise on the behaviour: it is about an engine without prefix caching.
* `HitsStayExact`, `ChainsStayLive` and `CacheIsExactWhileChainsAreKept` (`HitsExact`) take the premise on hits
  away. A hit is exact if the blocks of a node hold the node's own tokens, and blocks are reused. `NodeInv`
  says that while the last block of a node's chain is in use, every table that holds that block starts with the tokens of
  the node (`StartsWith`): blocks are shared from the start only, so the block carries its whole prefix along.
  `ReadInv` says that nobody has read more than there is, so that what is registered after a prefill is what was prefilled.
  So all turns on a node going when its last block goes, which is what the reverse index
  is for. `RegisterInv` says that a node is indexed under the last block of the chain it has. A node that is registered
  again with other blocks keeps its old place in the index: that is finding 2, and `ChainsKept`, an
  action property, excludes exactly this. Hits, contexts and snapshots are then
  exact together. Each is what the code takes for granted in the next, so the theorem is an induction over steps in which
  the three hold at once. `CacheIsExactInPlainEngine` has only `ChainsKept` left.
* `PassesContinueTheConv` (`ConvExact`). A conv state is exact if it holds the last inputs of what its own
  recurrent state has read (`Coupled`); `ContextExact` does the rest. `ConvInv` says so of every slot and every
  snapshot, but for the slots of a first prefill that is about to be tried again (`Stale`): a late error
  leaves the two apart, and the retry zeroes them before anything reads them. The premise `ChunksLong` is that a chunk that continues
  a prompt has at least `ConvKernel - 1` tokens; `MCShortChunk.cfg` is a shorter one. `PassesAreExactInPlainEngine` puts
  both together in the plain engine; its premises on the behaviour are `ChainsKept` and `ChunksLong`, for any `ConvKernel`.
* `StepsStayInBudget` (`StepBudget`). `schedule()` counts with two limits in a loop that preemption
  shortens, then hands what is left to one chunk, and an error drops some of what was scheduled. `BudgetInv` says that the list of
  those that decode stops at either limit, that what a step runs was scheduled by it, and that a chunk has what the
  decode batch left. The property counts a set of tokens rather than a sum, so that no
  induction is needed: each member that decodes has one token (`PaceInv`).

The premise `[]Undisturbed` leaves the engine as it is: the run `preempt`,
`MCPreemptTwice.cfg` and `MCAdvance.cfg` check the same `EngineSpec` and show what is on the other side.

### The server

`ServerProofs` proves, for any finite or infinite set of requests, any number of ranks and
passes and any faults (`ServerAssumption`), the type invariant, `OneInference`, `RanksInStep`,
`AnsweredInFull`, `FailedForReason`, and that `ServerSpec` implements `RequestService` under the
mapping `Phase`. The first inductive invariant is `ServerInv`: the types, `OneInference`, and
`WorkKnown`: a worker that has received a part of a work knows a request, without which the types
are not inductive (`generate()` would add what is no request to a worker's scheduler). `OneInference`
says both that the threads inside a call hold the lock and that the holder is inside: with the first
half alone a lock could be kept by a thread that has ended, so every way out has to be shown to
leave it. Refinement is by action: `Arrive` submits or refuses, `Acquire` serves, whatever sets an
outcome ends, `CutAll` shuts down, and all else stutters (`StepImplemented`).

The second, `RanksInv`, is about the ranks, which agree on no order: they only meet in collectives. Each
takes a request into its scheduler in its own time, but all of them take it with the last collective
of its broadcast: `SameTaken` counts what a rank is about to add as taken, and says that all have
taken the same, until an exception on rank 0 alone loses what the workers still have: then they are dead or wait for ever in a pass
(`Stalled`, which no step but the end of the processes undoes, `StalledStays`). A rank that meets another in a pass has nothing more to add (`HearsHolder`: a worker that
generates hears nothing, and one that hears, hears the holder of the lock), so there the batches are
equal, and `SameRan` makes the tokens equal. What a departed client leaves in rank 0's scheduler is covered
too. `Owed` says that what is in the scheduler has passes to go, and what is answered has had them
all (`AnsweredInFull`); `NoneLeftBehind`, that only departed clients, a lack of memory and requests that raised by themselves leave
something in a scheduler. So while none of these has happened the batch is the holder's request alone, `EngineRaises` can only be
its own doing, and a stream finds no other's finished sequence (`FailedForReason`).

### The pipeline

`DeviceProofs` proves `ReadsItsChunk` for any number of chunks and any finite or infinite
groups of threads (`ThreadsAssumption`). A barrier is waited for by parity only, so
the invariant has to bound how many phases one group is ahead of the other: between zero and
one for every buffer. `PipeInv` says that, how a thread's place follows from
the phases it has arrived in, and what each slice of each buffer holds at that place. The
step of a group is proved per action, with the last arrival, which ends the phase, apart.

### The attention kernels

`DeviceProofs` goes on from there to `EachKeyOnce`, for any launch that `KernelAssumption` admits
(any batch, lengths, tables, page size, heads, block sizes, packed sequences, with or without warp specialisation) and any number of
threads. There are two halves.

What the threads do is `AttentionInv`, proved over `AttentionSpec`. A compute thread that has been through k chunks has folded in
the visible keys of the first k chunks, in order (`RowsInv`); the scores it holds between the two products are of the
chunk it is at, in all slices (`ScoresInv`); what is written is the whole range (`WrittenInv`). With warp
specialisation it rests on `PipeInv`: a buffer may be refilled only when every thread has been through it.

What the indices mean is arithmetic. `Folded` picks the unmasked rows of a chunk. The mask of both kernels is a bound on the
position, so it leaves a beginning of the chunk (`FoldedPrefix`), and concatenated chunks are the
keys below the bound (`FoldedUpTo`, `FoldGrows`). `PageOfPosition` shows that chunk, page and row in the page, computed
from each other by division, name the position asked for whether a page is smaller or larger than a chunk; `OneSegment` and
`SomeSegment`, that a packed position is in one sequence; `DecodeCovers` and `VarlenCovers`, that each query is a
row of one block and no other. Products of two variables are beyond linear arithmetic, so division has
lemmas of its own (`DivisionOf`, `DivisionIs`, `CeilCovers`), and the terms are hidden behind names elsewhere.

### The decode graphs

`DecodeGraphProofs` proves `ReplayIsOfThisPass` for any sequences, block tables and graph
sizes (`GraphAssumption`: slots are below `max_num_seqs`, which is the padding slot). The
device may still be at the copies of a pass that failed while the host refills the pinned
rows, so no invariant about the static buffers alone holds. `QueueEnds` says what
does: the stream ends with the operations of the launched pass; those no longer in it have had
their effect (`Applied`), and nothing after them undid it. The last part is `DeviceApplies`: two
copies write different fields, the padding only rows left over, whose block table the
host has blanked already, and the replay comes last. `RowsPrepared` keeps the pinned rows from changing
until `EndPass`, which waits for an empty stream (`EndPassReads`).

### The choice of tokens

`DeviceProofs` first proves that the block-wise kernel with its reduction and the
reduction over ranks yield the first maximum of the whole array, for every size. Ties are
what needs the argument: each stage must prefer its lowest index, and the order of blocks
and ranks must be the order of tokens.

Then it proves `RanksAgree`, `GreedyIsArgmax` and `WithinSupport` of `SampleSpec`, for any vocabulary, ranks, batches, constraints and
penalties. `SampleInv` says what a rank may rely on in any order of the ranks' steps: a rank that
is through with its forward pass has sent what its path asks for, nobody chooses before all have (`SentAsAsked`), and a rank's
tokens are its own choice until rank 0's take their place (`ChosenOrSynced`).

The rest is about the operators. Penalty and constraints edit a shard, with offsets, and must come to what they do to the whole vocabulary
(`Wanted`). They are shown to act on each token alone (`PenaltyPointwise`, `ConstraintsPointwise`), so
that a shard of the edited logits is the edited shard (`ShardEdits`). The parts of a constraint are applied one after another by a
recursive function. Induction is out of the provers' reach, but a least counterexample is not (`Stepwise`,
from the well-foundedness of the naturals): that is how the value of a recursive function is reached here and in
the folds of the attention kernels.

* `GreedyTakesTheArgmax` and `RanksReturnTheSame` go through the five paths. Their premises: the LM head fills the blocks of the
  fused kernel (`BlocksFill`), and with several ranks no prompt is both greedy and penalised
  (`PromptsUnpenalised`; finding 6 is such a prompt).
* `SamplesStayWithinSupport` is about candidates. A rank sees the best few of each shard, and top-k and top-p are taken of these. What
  makes that right is `TopHeavy`: with each candidate, they hold every token that is larger. So as many tokens are larger among the
  candidates as in the vocabulary, with the same weight in all, while the weight of all candidates is no more than that of all
  tokens. Sums of weights are community-module folds; they are characterised as the only function that
  takes out one summand at a time. Its premise is that weights are natural numbers (`WeightsCount`); the run gives the weight 0 to what is masked.

### What is only model-checked

* Liveness, everywhere: `AnsweredOrFails`, `EveryRequestEnds`, `AnsweredUnlessDisturbed`, `DeviceEnds`. They
  rest on fairness, which is outside the prover's reach.
* `OutputOnCourse`, `CompleteIsWhole`, `NothingForbidden`, `NeverStuck` and `RaisesForContradiction`. The automata, what a pattern
  means and what JSON is are recursive operators over syntax trees and strings, and that two of them agree is an induction
  over data.
* What lies outside a premise: the engine after a double scheduling (`[]Undisturbed`), `GatherExact`, snapshots and contexts for a caller that
  goes on after an exception, hits after a node has been given a second chain, short chunks, the
  ranks with a penalised greedy prompt. These configurations show what happens there: `stale_trie`, `preempt`, `late_oom`,
  `penalty_ranks`, `MCShortChunk.cfg`, `MCKeptMapping.cfg`, `MCLeftoverPrompt.cfg`.

## Not modelled, and why

* Numerics of the layers and kernels: floating point. `deltanet_fused.py`,
  `gated_delta_rule_prefill.py`, `splitk_gemv.py`, `rms_norm.py` and the like are numeric
  functions without state of their own; the states they update are in `ModelRunner`.
* The warmup inside graph capture and its side stream: before the engine serves.
* `max_model_len`: a completion may outgrow it and the static block tables, a listed hazard.
* The number of blocks each rank computes from its own free memory: `Server` knows a rank by
  its sequences and passes, not by its pool. Nor does it drop or retry on one rank alone: only the last
  out-of-memory error of a pass, with which a rank leaves it, is an action.
* Prompts that do not fit the pool at all: `generate()` spins, a known hazard.
* Weight loading, patching and the sharding of layers: they run once and hold no request state.
* Parsing of request bodies and of patterns, formatting of answers; a malformed body is a
  request that is refused. `_params_from_bytes` gets JSON, in which the integer keys of
  `logit_bias` are strings; the constraint converts them.
* Sampling distributions: any token of positive weight may come.
* Sharding of a vocabulary that is not a multiple of the LM head kernel's block: the
  padding rows of `align_up` are left out of `VocabArgmax`.
* The order in which `_cleanup_seqs` frees slots is fixed arbitrarily; slots are alike.
* With captured graphs one slot is the padding slot; the engine model has the tighter count.
* `model/generate.py`, `run_engine.py`, benchmarks and tests: scripts beside the engine.

## What could follow

1. Guided decoding with automata as functions, so that its invariants that need no induction over data can be proved.
2. `Server` with a pool per rank, for ranks that schedule differently.
3. The single-sequence cache of `model/generate.py`.
