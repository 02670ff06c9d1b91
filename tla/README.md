# A TLA+ model of nano-dynamo

nano-dynamo is an OpenAI-style HTTP gateway in front of disaggregated vLLM
workers: every chat request runs its prompt on a *prefill* worker and its
generation on a *decode* worker, and the KV cache moves from one to the other.
The gateway picks the two workers, sends both requests, streams the answer, and
keeps the bookkeeping that makes the next pick a good one. Two benchmark scripts
deploy and tear down such systems. This directory models the gateway and the
scripts in TLA+, checks the models with TLC, and proves every safety property the
passing runs check with TLAPS.

    tlc -workers 2 -config Gateway_load.cfg MCGateway.tla
    tlapm GatewayProofs.tla

Paths below are relative to `src/src/` unless they start with `src/`.

## The system

One Python process runs one asyncio loop. Code between two `await`s runs
undisturbed, so the atomic steps of the model are the stretches between awaits.

| Component | State | Operations |
|---|---|---|
| Frontend (`frontend/frontend.py`) | the tasks in flight | `http_api_call`, `dispatch`, `_drain`, `_post_stream`, `_finish_push`, `_complete_request` |
| Inhibition table (same file) | `_inhibited`: host -> expiry | `inhibit`, `is_inhibited` |
| PrefillRouter, KvRouter (`router/prefill_router.py`) | `_rr`, and the two objects below | `route` in three modes, `eligible`, `select_*`, `_pick` |
| SlotManager (`router/slot_manager.py`) | three tables of counters | `add_request`, `mark_prefill_completed`, `free`, `snapshot` |
| KvIndexer (`router/kv_indexer.py`) | block -> set of (worker, role) | `record`, `forget`, `worker_blocks`, `overlap`, `find_matches_for_request` |
| SessionAffinity (`router/sessions.py`) | conversation -> route, blocks, last touch | `lookup`, `bind`, `invalidate`, `access`, `evict_lru` |
| Block hashing (`infra/kv_events.py`) | none | `token_ids_to_block_hashes` |
| Discovery and `main` (`infra/discovery.py`) | static tables | constructors, `build_router` |
| Worker handles (`workers/`) | none | `producer_body`; `inject_transfer_metadata` is in the router |
| HTTP endpoints | none | `/health`, `/status`, `/v1/models`, `/kvbm/status` |
| Benchmark harness (`src/bench_nano_dynamo.py`, `src/bench_nvidia_dynamo.py`) | the list of processes, the dict of results | `start_process`, the `wait_for_*` polls, `run_aiperf_profile`, `kill_procs`, the two scripts |
| Aggregated control, GPU proof, example, tests | - | clients and scripts, not modelled |

How they interact, for one request:

1. `http_api_call` tokenizes (no tokens: 400), asks the inhibition table for the
   quarantined URLs and calls `route`.
2. `route` looks for the conversation's binding. If there is one, it answers with
   it at once. Otherwise round-robin and random pick blindly, and `kv` filters
   (quarantine, busy thresholds), scores, picks, and charges the request with
   `add_request`. A pool without candidates is a `RoutingError`: 503 or 502.
3. `dispatch` starts the producer task and the decode leg together.
4. The decode leg is accepted, refused (`UpstreamError`: the producer is cancelled,
   the decode URL is quarantined, 502) or leaves `dispatch` with another exception.
5. Behind an accepted leg run two independent halves. `_finish_push` awaits the
   producer, releases the prompt's charge and records the prompt's blocks at the
   prefill worker. The client's stream ends - read to its end or not - in
   `_complete_request`, which frees the decode charge, and, if it was read to its
   end, records the blocks at the decode worker and binds the conversation.

What is hard in it: many requests share the counters, the index and the bindings,
and each is touched at up to four moments of a request, in an order the workers
and the clients decide; each of the two legs can fail alone; what the second half
acts on was decided long before; bindings outlive the health of their worker; the
counters hide an unmatched release by clamping at zero.

The benchmark scripts are one thread of control each, beside processes that come
up, crash, hang and ignore signals. What is hard there is the way out: every one
of their steps may fail, and whatever fails, no process may keep a GPU and no
scenario may vanish from the summary. `PROJECT.json` lists the hazards of both at
their lines, with the properties that watch each.

## The modules

| Module | Models | Lines of the code |
|---|---|---|
| `SlotManager` | the counters; positions absent from a table read 0 | `slot_manager.py` |
| `KvIndexer` | the index as a set of `<<hash, worker, role>>` | `kv_indexer.py` |
| `SessionAffinity` | bindings with their stamps, and the clock the stamps are readings of | `sessions.py` |
| `Quarantine` | what the inhibition table promises: a set of URLs | abstract |
| `Inhibition` | the table, its clock, both URL forms; implements `Quarantine` | `frontend.py:104-130` |
| `KvEvents` | partition and hashing of a prompt | `kv_events.py` |
| `Selection` | pure functions: the cost with its decaying credit, the pick, and the walk that makes it | `prefill_router.py:66-97, 302-331` |
| `PrefillRouter` | filter, the three modes, over `Selection`, `SlotManager` and `KvIndexer` | `prefill_router.py` |
| `Gateway` | the serving path over all of the above | `frontend.py:140-360` |
| `LoadLedger` | what the load counters promise; `Gateway` without conversations implements it | abstract, `slot_manager.py:9-12` |
| `GatewayAdmin` | `Gateway` with `evict_lru`, `invalidate`, `access` at any moment | `sessions.py:58-83` |
| `Handoff` | the rendezvous of the two legs at the workers | `prefill_worker.py`, `prefill_router.py:209-237`, `discovery.py`, `frontend.py:200-330, 430-500` |
| `Harness` | what the benchmark scripts share, and the processes they act on | `src/bench_*_dynamo.py` |
| `NanoBench`, `DynamoBench` | `run_bench`, one deployment for all scenarios; `run_benchmark`, one for each | the same |
| `Scripts` | the two over the processes of `Harness`; the specification with its fairness | the same |
| `Claims` | statements of the repository the code does not keep | see *Disagreements* |
| `MCGateway`, `MCAdmin`, `MCInhibition`, `MCAlgorithms`, `MCHandoff`, `MCHarness` | instances for TLC | |
| `GatewayProofs`, `LoadProofs`, `AdminProofs` | theorems about `Spec` and `AdminSpec`; each extends the one before | |
| `AlgorithmsProofs`, `HandoffProofs`, `HarnessProofs`, `InhibitionProofs` | theorems about the other specifications | |
| `NumberLemmas` | lemmas on products, quotients and induction the proofs share | |

`Gateway` EXTENDS `PrefillRouter`, which INSTANCEs `SlotManager` and `KvIndexer`
over its own variables and `Selection` as `Choice`; `Gateway` INSTANCEs
`Quarantine` and `SessionAffinity`, and `LoadLedger` with its refinement mapping.
So a step of the frontend is a conjunction of operations on the shared objects,
in the way the code calls them.

### State and actions of Gateway

`prefillTokens`, `prefillRequests`, `decodeBlocks` are SlotManager's tables,
`locations` the index, `rr` the round-robin counter, `bindings` and `clock` the
sessions, `quarantined` the inhibition table. Of each request, `phase` is what
its client has been told, `producer` its prefill task, `route` the `Route` both
completion halves hold on to. `charged` and `overlapped` are history: they are
written, and never read by a guard.

| Action | Code |
|---|---|
| `RejectInvalid` | `tokenize_and_validate`: 400 |
| `FollowBinding` | `route`: the affinity lookup answers; then `dispatch` to its first await |
| `RouteScored` | `route` in kv mode with `add_request`; then `dispatch` |
| `RouteBlind` | `route` in the other two modes; then `dispatch` |
| `RejectUnplaced` | `RoutingError`: 502 or 503 |
| `ProducerEnds` | `_drain` returns or raises |
| `DecodeAnswers` | the decode leg is accepted; finisher and stream exist |
| `DecodeRefused` | `UpstreamError`: cancel, inhibit, 502 |
| `DecodeErrorBodyLost` | `resp.aread()` of a non-200 raises |
| `FinishPush` | `_finish_push` after the producer drained |
| `StreamCompletes`, `StreamAborts` | `tracked` and `_complete_request` |
| `Expire` | quarantines run out |
| `Idle` | every request is answered; the server waits |

`LoadLedger` reads the same three counters as a ledger: a request is entered
when it is charged, its prompt is given back by `FinishPush` and its stream by
`StreamCompletes` or `StreamAborts`; every other step of `Gateway` is a stutter.

`GatewayAdmin` adds `EvictLru`, `InvalidateSession` and `AccessSession` between any
two steps, and one history variable: `idler` has `<<s, t>>` if `t` was active - a
turn dispatched, a turn streamed to its end, an access - since `s` last was. It is
written from what happens to the requests and never from a stamp, so that
`EvictsIdlest` compares the two.

### State and actions of Handoff and of the harness

`Handoff` has, of each request, the two POSTs as records (`producerLeg`,
`decodeLeg`), the decode leg's `outcome`, and at the workers what is `generated`,
`held`, `registered` and `delivered`. `Dispatch` is `dispatch()` with
`producer_body` and `inject_transfer_metadata`; `DecodeAnswers`, `DecodeRefused`,
`DecodeErrorBodyLost`, `StreamAborts` and `ProducerFails` are what may become of
the legs; `Generate`, `Register`, `Transfer` and `Drop` are the workers' own.

In `Harness`, `pc`, `k` and `at` are the script's place, `procs` and `results` its
two lists, `status` the state of each process and `aiperf` the load generators
that run. Each step of a script is an action named after the call it makes, with
the exception the call may end in as its second disjunct; `KillProcs` goes over
the list with SIGTERM, a wait of ten seconds and SIGKILL. `Serve`, `Crash`, `Obey`,
`Die` and `AbandonedEnds` are the processes' own.

### Abstractions

- A prompt is its token count and the set of its block hashes; the hash is
  injective on blocks (`MCGateway` hashes real token sequences with `KvEvents`).
- Costs are in tokens: the code's logit times `block_size`, which orders the
  workers in the same way. With a credit decay they are exact fractions. Weights
  are natural numbers, and no floating-point rounding is modelled.
- `_pick` is any cheapest worker on a tie, and any worker at all at a positive
  temperature.
- `time.monotonic()` counts its own readings: a later one is larger, and no two
  are equal. Stamps are used for nothing but comparing them with each other.
- A quarantine lasts an arbitrary time in `Gateway`; `Inhibition` has the clock,
  and implements the set `Gateway` uses.
- A failed producer and a refused leg are the outcomes of `_drain` and
  `_post_stream`; bytes, chunks and connections are not modelled.
- In `Handoff` the workers are external. They do what the code's comments rely
  on: a decode worker registers the request id at the side channel it was told, a
  prefill worker holds the KV under the id after its tokens, the two start the
  transfer in either order, and a request whose connection is gone is dropped
  some time later. All workers are on one host, as `main` builds them, and listen
  where `bench_nano_dynamo.py` launches them.
- In `Harness` the shell a command runs through and a worker's children are one
  process with it; a poll is one step, which hears from a process or times out.
  `sleep(30)` takes no time and looks at nothing, so a process that was sent SIGKILL
  may still be there when the next deployment starts. A cancellation of a script
  takes effect at its one `await`, of AIPerf, and leaves AIPerf itself running.

## Runs

Every passing run explores its whole state space; deadlock is checked everywhere
but in `algorithms`, where an input simply stops growing at its bound.

| Run | Instance | States | What it shows |
|---|---|---|---|
| `gateway_turns` | random mode, 1 prefill + 2 decode, three requests of one conversation | 200 245 | `SerialTurns`, `StickySession`, `BoundBlocksIndexed`, `BlindLoadIsZero`: turns that do not overlap stay on the bound route, only overlapping ones can move it, what justifies a binding is in the index, and the modes that charge nothing leave the counters at rest |
| `gateway_eviction` | kv mode, 1 + 1, two conversations, eviction, invalidation and access at any moment | 1 017 878 | `TypeOK`, `Lifecycle`, `LoadNeverOvercharged`, `BindingsCommitted`, `IndexJustified`, `EvictsIdlest` |
| `gateway_load` | kv mode with decay 1, 2 + 1, no conversations, thresholds 3 tokens and 1 block, request weight 1; `FairSpec` | 44 503 | `LoadExact`, `IndexExact`, `MatchesAgree`, `FilterHonoured`; the refinement `ImplementsLedger`; the liveness `LoadDrains`, `WorkerRestored` |
| `gateway_round_robin` | round-robin, 1 + 2, four requests, one of them empty | 87 410 | `RoundRobinEven` |
| `inhibition` | 3 workers, 2 URL forms, quarantine of 2, clock to 6 | 4 760 | `TypeOK`, `AnswersTrue`, `OnlyTimeRestores`, and `ImplementsQuarantine`, the refinement of `Quarantine` |
| `algorithms` | every prompt of up to 9 tokens over 2, blocks of 3; every list of up to 3 candidates out of 48 | 113 967 | `OneHashPerFullBlock`, `TurnsShareBlocks`, `UnbiasedTies`, `LoadNeverHelps` |
| `handoff` | 2 prefill workers on the default side ports, 2 requests whose clients set either or both limits; `FairSpec` | 39 761 | `TypeOK`, `OwnCache`, `TransferAfterOneToken`, and the liveness `LegsMeet`, `HeldIsLetGo` |
| `harness` | both scripts, 1 prefill + 2 decode workers, 2 scenarios | 455 756 | `TypeOK`, `NothingLeftRunning`, `NoLiveOverlap`, `EveryScenarioReported`, `ReadyBeforeLoad`, and the liveness `SlotsReleased` |
| `claim_*` | small instances | - | one statement each that does not hold, see *Disagreements* |

### The bounds

The only unbounded quantities of the serving path are the number of requests and
the length of prompts; `Req`, `Isl` and `Blocks` bound them. Three requests are
the least that lets one request finish, one be in flight and one arrive, and the
least for which two of one conversation overlap while a third reads the binding.
Prompts are of 3, 5 and 2 tokens at block size 2: one has a partial tail, one
extends another (its next turn), and one shares a block with another
conversation's. `r4` has no tokens. Two workers in one pool are enough for a pick,
a tie, a move and a filtered worker beside a free one; the pools have different
sizes so that the positions of one are not those of the other. The thresholds
lie below what two requests add up to, so filtering happens. `gateway_eviction` has one
worker of each kind, so that its two conversations are always rivals for one decode
worker, while another request may be in flight there: what it leaves out, routes
that differ, the other runs have, and the theorems about `AdminSpec` are for any
pools. `MaxClock` bounds `access()` alone, which is called while the clock reads
less; three turns of two conversations write fewer than the six readings it
leaves. In `inhibition` three quarantines fit into the clock one after the other, and two overlap. In
`algorithms` three full blocks and every partial tail occur; three candidates are
the least with a tie around a worse one and a tie of three, and their loads lie on
both sides of the point where the credit cuts the prefill term off at zero. In
`handoff` two requests may go to one prefill worker or to two, and there are as
many ids as requests, so a fresh one is always left. In `harness` three
workers are the least with a first, a middle and a last one in the loops that start
and poll them; two scenarios are enough for one deployment to follow another, with
what is left of it, and for a failed scenario before and after a good one.

### Fairness

Liveness is checked under `Gateway!Fairness`: weak fairness of the end of a
producer, of the decode leg's answer, of the finisher and of the stream's end, for
each request, and of the passing of each quarantine. The loop runs every ready
task; every await on a worker ends, at the latest with `HTTP_TIMEOUT`
(`frontend.py:43`); a client that stops reading goes away in the end, which closes
the stream's generator. No fairness makes a client send a request, and none
chooses between an answer, a refusal and an error: the three are disjuncts of one
action. `Handoff!Fairness` has the workers go on with what they were sent and notice a
closed connection; it does not make a decode worker answer or refuse, a producer
fail, or a client dispatch or leave. `Scripts!FairSpec` has the script go on, since
its polls and its waits have time limits and the function a limit of its own, and
SIGKILL act; it makes no process come up, crash, or obey SIGTERM.

### Mutants

A definition named in a comment as *Variant* is the next definition with one
plausible bug. It is not used in any specification: put in the place of the
definition it varies, it makes the property listed with it in `PROJECT.json`
fail, which shows that the property depends on that code.

## Disagreements

Statements of the repository that its code does not keep. Each is a definition of
`Claims` and a run that ends in a counterexample.

- `claim_load_leaks`, `LoadReturns`. When the decode leg is refused, `dispatch`
  cancels, inhibits and answers 502, and nothing releases what `add_request`
  charged (`frontend.py:235`); `slot_manager.py:9-12` and `frontend.py:266,290`
  say that load is released. A second way: a producer that fails behind an
  accepted stream leaves its prompt charged (`frontend.py:309`). With a busy
  threshold set, leaked load keeps a worker out after its quarantine, although
  `frontend.py:115-116` says "expiry restores the worker automatically";
  `WorkerRestored` and `LoadDrains` state precisely what remains true;
  `src/proof_nano_dynamo_gpu.py:238`, "usage drained back to 0 (no load leak)",
  is true where no leg fails.
- `claim_affinity_quarantine`, `QuarantineSkipped`. A bound conversation is sent to
  its worker whether or not the worker is quarantined (`prefill_router.py:152`),
  and nothing calls `invalidate`; `frontend.py:237-239` says the next request
  skips it.
- `claim_bound_uncounted`, `StreamIsCounted`. A request that follows a binding is
  never charged, and is freed all the same (`prefill_router.py:154`,
  `frontend.py:280`): it releases what other requests hold.
- `claim_snapshot_alias`, `PrefillCostIsItsOwn`. `snapshot` reads the decode table
  at a prefill position (`slot_manager.py:59`), so the cost of prefill worker *i*
  contains the load of decode worker *i*.

More were met while modelling and have no run of their own. The models have each of
them as the code does it, and where a property excepts one it says so:

- Round-robin and random ignore the quarantine altogether
  (`prefill_router.py:157-166`), without any binding: `RouteBlind` has no guard on it.
- An error while the body of a non-200 answer is read is not an `UpstreamError`
  (`frontend.py:344`; `frontend.py:333-335` says every transport failure is): the
  producer runs on and the worker is not inhibited, although "Non-200 here cancels
  the producer" and "holding prefill open is pure waste" (`frontend.py:229-230`).
  A client that leaves before the KV has moved leaves it held as well. `HeldIsLetGo`
  holds with exactly these two exceptions, and fails without them.
- `evict_lru` frees usage that `_complete_request` has already freed
  (`sessions.py:80`), so on a busy worker it takes the charge of a request that is
  streaming; `slot_manager.py:9-12` has one release, at the finish.
- `evict_lru` forgets blocks that another conversation bound to the same worker
  still rests on (`sessions.py:79`), although a binding is "placement + the blocks
  justifying it" (`sessions.py:29`): `BoundBlocksIndexed` holds of `Spec` and not of
  `AdminSpec`.
- `docs/blocks/006-final-wiring.md:61` sums eviction up as "idle-first, live
  survives". By the stamps a conversation whose turn streams for longer than
  another one has been idle is the idler one (`sessions.py:47,75`), and is evicted
  with its turn in flight. What is true is `EvictsIdlest`.
- One idle candidate turns the credit decay off for all of them
  (`prefill_router.py:86`): the excess over a least load of zero counts for nothing.
- The two scripts wait for different things before they measure: nano-dynamo's
  for every worker, Dynamo's until the frontend lists a model, which some worker's
  registration suffices for. `ReadyBeforeLoad` says so for each.

## Proofs

tlapm checks every step. The theorems hold for all values of the constants that
satisfy the assumptions the modules name:

- `PoolsAssumption`: pools are indexed from 0, and the two blind modes have
  non-empty pools, as the command line guarantees.
- `CostAssumption`, `WeightsAssumption`: a positive block size and weights that are
  natural numbers, for the gateway and for the algorithms.
- `RequestAssumption`, `BindingAssumption`: finitely many requests, finite prompts;
  the value for "not bound" is no binding.
- `InhibitionAssumption`: a positive quarantine period, and a clock that counts in
  natural numbers up to any bound.
- `PortsAssumption`: prefill workers have different ports, and there are as many side
  ports as `main` insists on. `AbsenceAssumption`, `LegAssumption`: the values
  for "no field", "no leg" and "no outcome" are none.
- `ClockAssumption`: the bound on `access()` is a natural number, any one.
- `HarnessAssumption`: there are workers and scenarios, without repetition.

What a theorem needs beyond these stands in its statement and in the table.

| Theorem | States |
|---|---|
| `GatewayProofs!TypeCorrect` | `Spec => []TypeOK` |
| `GatewayProofs!LifecycleKept` | `Spec => []Lifecycle` |
| `GatewayProofs!IndexIsExact` | `Spec => []IndexExact` |
| `GatewayProofs!BindingsAreCommitted` | `Spec => []BindingsCommitted` |
| `GatewayProofs!BoundBlocksAreIndexed` | `Spec => []BoundBlocksIndexed` |
| `GatewayProofs!TurnsAreSerial` | `Spec => []SerialTurns` |
| `GatewayProofs!SessionsStick` | `Spec => StickySession` |
| `GatewayProofs!FiltersAreHonoured` | `Spec => FilterHonoured` |
| `GatewayProofs!MatchesAlwaysAgree` | `Spec => []MatchesAgree` |
| `LoadProofs!LoadIsNeverOvercharged` | `Spec => []LoadNeverOvercharged` |
| `LoadProofs!LoadIsExact` | `Spec => []LoadExact`, if no request names a conversation |
| `LoadProofs!CountersAreALedger` | `Spec => ImplementsLedger`, if no request names a conversation |
| `LoadProofs!BlindLoadStaysZero` | `Spec => []BlindLoadIsZero` |
| `LoadProofs!RoundRobinIsEven` | `Spec => []RoundRobinEven`, in round-robin mode, if no request names a conversation |
| `AdminProofs!AdminTypeCorrect` | `AdminSpec => []TypeOK` |
| `AdminProofs!AdminLifecycleKept` | `AdminSpec => []Lifecycle` |
| `AdminProofs!AdminBindingsCommitted` | `AdminSpec => []BindingsCommitted` |
| `AdminProofs!IdlestGoesFirst` | `AdminSpec => EvictsIdlest` |
| `AdminProofs!AdminLoadNeverOvercharged` | `AdminSpec => []LoadNeverOvercharged` |
| `AdminProofs!IndexIsJustified` | `AdminSpec => []IndexJustified` |
| `AlgorithmsProofs!EveryFullBlockIsHashed` | `Spec => []OneHashPerFullBlock` |
| `AlgorithmsProofs!TurnsExtendTheirHashes` | `Spec => []TurnsShareBlocks` |
| `AlgorithmsProofs!LoadHelpsNobody` | `Spec => []LoadNeverHelps` |
| `AlgorithmsProofs!TiesAreUnbiased` | `Spec => []UnbiasedTies`, at temperature 0 |
| `HandoffProofs!TypeCorrect` | `Spec => []TypeOK`, if the workers listen where the gateway was told |
| `HandoffProofs!CacheIsItsOwn` | `Spec => []OwnCache` |
| `HandoffProofs!TransfersAfterOneToken` | `Spec => []TransferAfterOneToken` |
| `HarnessProofs!TypeCorrect` | `Spec => []TypeOK` |
| `HarnessProofs!NothingIsLeftRunning` | `Spec => []NothingLeftRunning` |
| `HarnessProofs!NoDeploymentsOverlap` | `Spec => []NoLiveOverlap` |
| `HarnessProofs!ScenariosAreReported` | `Spec => []EveryScenarioReported` |
| `HarnessProofs!LoadAwaitsReadiness` | `Spec => []ReadyBeforeLoad` |
| `InhibitionProofs!TypeCorrect` | `Spec => []TypeOK` |
| `InhibitionProofs!AnswersAreTrue` | `Spec => []AnswersTrue` |
| `InhibitionProofs!TimeAloneRestores` | `Spec => OnlyTimeRestores` |
| `InhibitionProofs!TableImplementsQuarantine` | `Spec => ImplementsQuarantine` |

**The invariant behind the gateway's theorems** is `WellFormed == TypeOK /\
Lifecycle`. Neither half is inductive alone: an action that reads `route[r].d`
types its result only if `r` has a route, and that a streaming request has one is
`Lifecycle`. Everything else is proved inductive relative to `WellFormed`.

**`IndexExact`** is inductive as it stands. A step either lets nobody earn new
blocks (`NobodyEarns`, `StartEarnsNothing`) or one request earn exactly the
blocks recorded (`OneEarns`).

**`BindingsCommitted` and `BoundBlocksIndexed`.** A completed request never leaves
that phase and never changes its route, so the witness of a binding stays one.
The blocks behind a binding follow with no induction of their own: a completed
request's blocks are in the index by `IndexExact`.

**`SerialTurns` and `StickySession`.** A conversation leaves `Session \ overlapped`
exactly when a second request of it starts while one is in flight. So while it
is there, the one request that completes has the bound route if there is one,
and binding it again does not move it.

**`LoadNeverOvercharged`.** Load is the size of a set of shares, each element
marked with its holder, so that a sum becomes a cardinality and no induction over
requests is needed. Three lemmas do the counting: what finitely many hold is
finite, a request that joins adds its share, and a counter bounded by what a set
holds stays bounded when one leaves and its share is taken off - even if it is
taken off more than once, which is what the unmatched release of a bound request
does. It is the reason the bound survives the clamp at zero and equality does not.

**`LoadExact` and `ImplementsLedger`** hold where no request names a conversation
(`NoConversations`): a request that follows a binding is released without having
been charged, so with conversations a counter may read less than is held. `LoadExact`
is inductive together with `AllOrNone`: kv mode charges every request it places, the
other modes none. So a release either belongs to a request that still holds its
share, and the counter is at least that large and the clamp does nothing, or
nothing is held at all and there is nothing to release. The refinement is read off
the same lemmas: `RouteScored` is `Enter`, `FinishPush` of a charged request is
`ReturnPrompt`, the end of its stream is `ReturnStream`, and every other step is
a stutter (`LoadSteps`, `Quiet`).

**`RoundRobinEven`** follows from `Turns`: each pool is dealt some number of full
rounds, and one more up to where the counter points. The counter advances between
the two halves of a route, so the decode pool is dealt from position 1 on, and
`Turns` counts one turn for decode worker 0 that nobody got. Requests that follow
a binding take no turn, hence the condition.

**`MatchesAgree`.** The walk over a prompt's hashes is a fold over a set. What it
computes is the one solution of the fold's equation (`OnlyTheTally`), and the
tally of holders is a solution (`TallyWalks`), in whatever order the hashes come.

**Session administration.** `AdminWellFormed` adds `BindingsCommitted` to
`WellFormed`: what `evict_lru` frees has a size because a binding's blocks are
those of a prompt. `EvictsIdlest` relates the stamps to the history: the invariant
`Stamped` says that of two bound conversations the one with the smaller stamp is
the `idler`, and that no stamp lies ahead of the clock. A step that makes one
conversation active gives it the latest stamp (`TouchKeepsStamped`), every other
leaves the stamps alone (`UntouchedKeepsStamped`), and at most one conversation is
active in a step (`ActiveAtOne`). The index loses blocks to evictions and
earns nothing from them, so `IndexJustified` survives where `IndexExact` does not.

**The algorithms.** Induction over a predicate is not available to the provers,
induction over a set is: `NumberLemmas!Induction` says that a set with 0 and with
every successor holds every number, and is proved by counting - were `m` missing,
adding one would map the members up to `m` one to one into those without 0. With it,
the loop of `token_ids_to_block_hashes` has one result (`OneSolution`), which is
one hash per full block. `LoadNeverHelps` compares two fractions by
`ScoreGrows`, one product at a time. `UnbiasedTies` rests on `Seen`, the invariant of
the walk of `_pick`: after the first `i` candidates, the best cost is known, so is
the number of those that tie with it, and each of those is kept with the same chance.

**The handoff.** `OwnCache` and `TransferAfterOneToken` hold by an invariant of five
further parts: both legs of a dispatch carry one id and one prefill worker, no two
requests share an id, what is held was held after one token, and whatever is
held or registered belongs to a request that was sent. `TypeOK` says that
registrations arrive where a worker listens, so it needs the side ports to be those the
workers were launched on; `DefaultSidePorts` proves that the default ones are.

**The scripts.** The invariant has a part common to both - every process that
lives and was not sent SIGKILL is on the list (`Listed`), and `kill_procs` has made everything
on the list quit up to the place it has reached (`Settled`) - and one part for each
script that says what is true at each of its places: in `NanoPlace` all processes
are of the one deployment, in `DynamoPlace` they are of the present one or were sent
SIGKILL in an earlier one, which is `NoLiveOverlap`. `NothingLeftRunning` needs `Listed`
at the moment of an exception, wherever in the script that is.

**`AnswersTrue`** needs `Dated`: an entry of the table carries the date its latest
failure gave it, or was dropped after that date. Without it a dropped entry might
have been dropped early.

### Only model-checked

The liveness properties `LoadDrains`, `WorkerRestored`, `LegsMeet`, `HeldIsLetGo`
and `SlotsReleased`: fairness is a statement about ENABLED, which the provers
cannot reason about. Every invariant and every action property of a passing run,
and both refinements, are proved.

## Not modelled

- The `overlap_credit` argument of `route`, which the HTTP path never passes.
- A restart: the process keeps nothing on disk, so it starts from `Init`. The
  caches and streams that survive at the workers are not modelled, nor is the
  eviction of blocks there.
- A client that leaves before its first chunk is taken as a stream that aborts. It
  is the ASGI server that starts the generator; were it never started, its
  `finally` would not run and `_complete_request` would not either.
- Empty pools in round-robin and random mode: the two divide by, or choose from,
  the pool's size. The command line builds no empty pool.
- The process-wide tokenizer: there is one `Frontend` in a process. The endpoints
  other than `/kvbm/status` answer constants or pass a worker's answer on.
- In `Handoff`, every time limit of the workers: a wait is unbounded, the two
  seconds a serialised dispatch would be held and the lease of sixty included.
- Of the scripts: commands, flags, ports in use by others, reports and tables; the
  time limit of the container, which ends script and processes together; and a
  scenario name that does not exist. `bench_aggregated_control.py` and
  `proof_nano_dynamo_gpu.py` handle their processes as `NanoBench` does, with one
  engine and no gateway, or one worker of each kind; the rest of them is requests,
  assertions and printing.

## Plan

Done: every module in the table above, their runs, and a theorem for each safety
property. What is left to prove are statements no run makes yet:

1. The safety half of `LoadDrains` as an invariant: where every request is answered,
   the counters hold exactly what refused legs and failed producers left behind.
2. `BoundBlocksIndexed` for `AdminSpec` as far as it is true: for conversations that
   share no block with an evicted one.
3. `Handoff`: that KV still held belongs to a request at one of the two ends
   `HeldIsLetGo` excepts, or to one whose legs have yet to meet.
