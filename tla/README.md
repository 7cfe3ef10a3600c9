# xDiT ComfyUI: verification project

TLA+ modules that model this ComfyUI node pack, TLC configurations that check
them on small instances, and TLAPS proofs of the results that hold for every
instance. Paths are relative to the repository.

## The system

A *Model* node describes a diffusion pipeline (model, GPUs, degrees of
parallelism, cache). Behind it runs one `torchrun` process group, the *worker*,
that loads the pipeline once and then serves runs over a Unix socket. A
*Sample* node sends one run to the worker of the Model node it is linked to.
What happens to the GPUs after the last Sample is the Model node's *residency*
policy: `keep_gpu`, `park_cpu` or `release`.

| Part | State it keeps | Operations | Hard part |
|---|---|---|---|
| `worker.py`, `registry.py`, `identity.py`: life of the workers | `REGISTRY.workers/pending/cache_keys/snapshots`; per token the socket, `.ready`, `.json` and `.key` files; the process table | register, ensure, adopt, sweep, start, abort, run, park, restore, evict, reap, shut down | the executor's thread, API threads (`asyncio.to_thread`) and the shutdown hook interleave between short critical sections; workers outlive a crashed ComfyUI |
| `residency_allocator.py`, `residency.py`, `prompt_hooks.py` (`_register_loader_consumers`) | `REGISTRY.consumers`, `REGISTRY.run_stats` | count at POST /prompt, count down after each Sample, record and drop run statistics | prompts are posted while others run; Samples fail |
| `worker_server.py`, `residency_park.py`: the worker | ranks, the `parked` flag, the listening socket, the pipeline's `_interrupt` | accept, broadcast, run, park, restore, shut down | every rank must take the same collectives; signals; a client that has gone away |
| `worker.py` `_run_distributed_worker*`, `_worker_control_response`: the client | `entry.residency_state`, `run_lock` | run, restore, park, time out, cancel | late answers, cancellation, an answer that never comes |
| `progress.py`, `log_context.py` | tracker phase, node progress | follow the worker's log, heartbeat | two threads advance one bar |
| `xdit_ext/step_cache.py`, cache widgets in `runner_contract.py` | the cache settings applied to the pipeline, the record of them | widgets to sparse configuration, refresh before each run | what is applied depends on the runs before |
| `runtime_config.py`, `runner_contract.py`, `model_info.py`, `presets.py`, `prompt_hooks.py` | none | resolve GPUs, degrees and arguments; sanitize prompts | the same question is answered by the hook, the validation and the execution, from inputs rewritten in between; boundaries |
| `runtime_env.py`, `images.py` | process environment, scratch directories | overlay, allocate a port, prune | none: one executor thread enters and leaves them |
| `web/*.js`: the browser's side of the three nodes | widgets, which of them were typed into, what the last sync was about, request tickets, a debounce timer, triggers saved with the graph | preview, apply preset, fill, gate, reload, sidebar | responses that overtake each other; edits while one is under way; two nodes hear of one pick over two requests |
| `api.py`, `nodes.py`, `sampling.py`, `v3.py`, `save_outputs.py` | none of their own | routes and node functions | call the parts above |

What makes each part correct:

* workers: at most one live worker per Model node; a job only reaches a worker
  with the Sample's configuration; Unload, reap and shutdown free what they
  say; whatever a thread takes out of a table it goes on to stop.
* residency: the policy acts on the last Sample, neither before nor never.
* worker process: the ranks stay in step; a job runs on a pipeline that is on
  the GPU; a worker that is not killed answers what it has accepted.
* client: every run ends, and what the registry says of a worker is so.
* step cache: a run denoises with what its own widgets show, whatever the warm
  worker ran before.
* prompts: what validation accepted runs; the node wins over the preset but where
  the preset was picked for its numbers; a size ends on the model's grid.
* progress: a bar rises, is full when the work is done and no sooner, and the phase
  that decides how a cancel stops a run is the phase of the run.
* browser: what the nodes show belongs to the model in the Model node's widget, and
  a preset picked last is applied.

## Modules

| Module | Role |
|---|---|
| `LoaderLifecycle` | who starts, finds, adopts, replaces and stops a worker |
| `WorkerPool` | abstract: what all that promises of the workers of all Model nodes; `LoaderLifecycle` implements it |
| `LoaderResidency` | when the residency policy acts on it |
| `WorkerServer` | the ranks of one worker |
| `SerialWorker` | abstract: what a worker promises to its clients; `WorkerServer` implements it |
| `WorkerClient` | ComfyUI's end of one worker; composes itself with `WorkerServer` (`Worker == INSTANCE WorkerServer`, the seven variables of the worker shared) |
| `CacheConfig` | what the cache widgets say: groups of widgets to a sparse configuration and back |
| `StepCache` | what a warm worker's denoisers run with, over a sequence of runs; extends `CacheConfig` |
| `PromptPath` | a posted prompt through hook, validation and execution |
| `ProgressTracker` | the bar of a load or a run, the thread that follows the log, and the node |
| `PresetSync` | the browser: a Preset, a Model and a Sample node with their previews under way |
| `MC...` | model values, instances and symmetry sets for TLC |
| `LoaderLifecycleProofs`, `LoaderResidencyProofs`, `WorkerServerProofs`, `WorkerClientProofs`, `StepCacheProofs`, `PromptPathProofs`, `ProgressTrackerProofs`, `PresetSyncProofs` | theorems and proofs; `WorkerClientProofs` takes the worker's lemmas from an instance of `WorkerServerProofs` |

The parts meet at the worker, and each takes from the others only what it needs.
In `LoaderLifecycle` a run or a park is one step. In `LoaderResidency` a worker is
"none", "warm" or "parked", and starting it is one step. In `WorkerClient` there is
one worker, which is not started a second time. `StepCache` knows a worker by the
cache method it was started with, `ProgressTracker` by the lines it writes.
`PresetSync` ends where a prompt is posted, and `PromptPath` begins there.

Definitions whose comment begins with "Bug:" are not part of any specification:
each is a mutated form of the definition next to it, used to see that a property
fails when the code is wrong in that way.

### LoaderLifecycle

State and code:

| Variable | In the code |
|---|---|
| `proc`, `nextPid` | torchrun process groups: the state of the parent, the token on its command line, the cache key it was configured with, the ComfyUI process that started it |
| `sock`, `ready`, `ident` | `<token>.sock`, `.ready`, `.key` in the runtime directory |
| `workers`, `pending`, `cacheKey` | `REGISTRY.workers`, `.pending`, `.cache_keys` |
| `pc`, `uid`, `mode`, `held` | where a thread is in `worker.py`, for which Model node, on whose behalf it evicts, and the entry it took out of the registry |
| `op`, `key`, `new`, `rt`, `job` | the executor's node, the key it asks for, the process it started, what Model nodes returned in this prompt, the worker that got the job |
| `kind`, `todo`, `seen`, `grabbed` | an API request: what it is, the nodes still to do, the workers it is to free (history: for an Unload those alive when it came, for a reap those of deleted nodes with a cache key, for a shutdown those registered or pending), entries taken by the shutdown hook |
| `session`, `up` | the ComfyUI process |
| `foreign` | a worker of another ComfyUI with the same node id |

`REGISTRY.lock` is held for a dictionary operation or a few, so one step of the
module is one critical section, one file operation that others can see, or one
process operation; everything between two of them is a place where another
thread runs. The steps follow the call graph: `EvictPending`, `AbortKill`,
`AbortUnlink`, `EvictPop`, `ShutdownSend`, `ShutdownWait`, `ShutdownUnlink`,
`CleanupKill`, `CleanupUnlink` and `EvictReturns` are `_evict_loader_worker` and
what it calls, for whichever thread is in it; `EnsureHit`/`EnsureOrphan`/
`EnsureMiss` are `_ensure_loader_worker`; `Lookup*`, `Adopt*`, `SweepOrphans`,
`Spawn`, `WriteIdentity`, `RegisterPending`, `WorkerIsReady`, `ClearPending`,
`RegisterEntry` and `Startup*` are `_get_or_create_distributed_worker`; `Run*` is
the locked run with `_abort_distributed_worker`; `Clear*`, `Reap*` and `Stop*`
are the API. `Restart` kills the ComfyUI process at any step and starts it
again; its workers, their files and nothing else survive.

Fine points that matter:

* the kill pattern of `_terminate_workers_for_token` matches every process with
  the token, also one it was not meant for, and also a neighbour's;
* the socket path names the process that bound it last; a request goes to that
  process, whoever the caller thinks it is;
* the identity file is written after `Popen`, so a crash in between leaves a
  worker nobody can identify, which is never adopted.

`OrphansAreReclaimed` is about the workers of an earlier ComfyUI. The sweep
before a start finds them on the process table (`SweepTokens`), because one that was
still loading when its ComfyUI died has no file to be found by; it spares those in the
registry, which it reads before the process table, and only the executor adds to the
registry meanwhile. From then on each of them is in somebody's hands (`InHand`), or
dead, as long as this ComfyUI has a worker of its own. Between a restart and the first
start nothing reclaims them: an unused orphan keeps its GPUs until somebody needs them,
which is what the code says ("before we need them"). That an orphan's parent is
process 1 (worker.py:1032) is taken as the code takes it; under a supervisor that
adopts orphans itself the sweep would find none.

`WorkerPool` is what the rest of the pack may assume of all this: a set of live
workers, each with the Model node and the key it was made for, the worker of the
Sample under way, and what each Unload has still to free. A worker is started where
its Model node has none and no Sample runs; it is never made over, and never comes
back; a job goes to a worker with the node and key it asks for; a Sample that is
aborted takes at most its own worker with it; an Unload is answered when what it
found is gone; the end of ComfyUI ends no worker. In the refinement mapping (`Pool`)
`Alive` is read off the process table, `Given` off the executor, `Owed` is `seen` of
an Unload or a reap. The shutdown hook promises less, because ComfyUI ends with
threads on their way to stop a worker: `ShutdownFreesTheGpus` says how much.

### LoaderResidency

`queue` is ComfyUI's queue of prompts, the running one first, each with the
Samples still to run per Model node, those the prompt holds but ComfyUI will not
run because no output needs them, and the policy. `consumers` is
`REGISTRY.consumers`. `PostPrompt` is the `/prompt` hook, which counts and
replaces the table when a prompt is posted and before it is validated
(`PostRejected`: it is then refused). `Demote*` are the branches of
`demote_loader_after_run`, run in the `finally` of a Sample, `Remaining` is
`_last_consumer_finished` with its default of 1. `RecordStats`, `DropStats`,
`UnloadStops` and `UnloadDrops` are the life of the run statistics. Everything that
can disturb a prompt is in `Next`: a node fails, a prompt is removed from the queue
or refused, a Sample is not reached, the user unloads while a Sample of that node
runs. `quiet` remembers whether any of it has happened: `ReleasedWhenDone` and
`StatsHaveAWorker` are about behaviours in which it has not, `SolePromptKeepsItsWorker`
about all.

### WorkerServer and SerialWorker

Each rank has its own `parked` flag, pipeline, interrupt flag, step counter and
place in `worker_server.main`. The output rank (`Out`, the last one) accepts a
connection and broadcasts the request (`Accept`); the others get it in `Receive`.
`Move`/`MoveFails`/`Refuse`/`AnswerControl` are `_handle_control` with
`park_runner` and `restore_runner`; `Unpark`, `Prepare`, `Check`, `Denoise`,
`Decode`, `AnswerRun` are a run. `Gather` is `_gather_memory_stats`, which is one
and the same collective wherever a rank calls it, so a rank in the gather of a
park can meet another in the gather of a run: the module lets it. `Signal` is
SIGUSR1, `TorchrunStops` is torchrun taking the group down after one rank failed.
`Faults` says what may go wrong: a client goes away ("giveup"), a run raises
("run"), a component does not move ("move"), a signal comes ("signal").

The pipeline itself, the collectives, torchrun and the socket belong to libraries
that are not in the repository; they are modelled from how `worker_server.py` and
`xdit_adapter.py` use them and marked external. A pipeline that finds its
interrupt flag set skips the step, as diffusers' pipelines do.

`SerialWorker` is what a client may assume: one process that takes the
connections in order, one at a time, and answers a request only when the weights
are where it wants them. It may refuse to move them; from then on it still serves in
order, and no longer promises where they are. `WorkerServer!Serial` gives the
refinement mapping: `served` is what the output rank has accepted, `weights` is "gpu"
or "cpu" only when every rank agrees.

`NoCrossedCollectives` and `EveryRequestEnds` are about every behaviour, with the
condition in the formula and not in a constant: ranks never wait in different
collectives as long as no cancel has reached one and no component has failed to move
(`Undisturbed`); a request is answered as long as no component fails to move and no
cancel has torn the ranks apart.

`CanGoOn` puts the guards of the worker's own actions together: some rank can take
its next step. `NeverStuck` says that there always is one while a request is to be
served, and names the two ways the ranks can be torn apart: `LeftAlone` (one of them
could not move its weights and has left the others in the gather) and
`CancelledApart` (signals reached them on different sides of a step).

### WorkerClient

`at` is the executor's place in a node: restoring (`_restore_loader_worker`),
sending and waiting for a run (`_run_distributed_worker_locked`), signalling
ranks one by one (`_interrupt_distributed_worker`), aborting
(`_abort_distributed_worker`), demoting and parking (`demote_loader_after_run`).
`state` is `entry["residency_state"]`. `cancel` is ComfyUI's interrupt flag,
raised and cleared at the next `_raise_if_interrupted`. A Sample restores under
`REGISTRY.lock` (`LockHeld`), so an Unload waits for it. `RunTimesOut` may come
at any moment of a wait: time is not modelled, and a deadline may be short. The
worker in the initial state is one that this ComfyUI started, or one it adopted,
which may be parked although its new entry says warm.

The waits for a park and a restore have no deadline. `WaitsCanEnd` says of them that
the ranks can still go on to the answer, or that one of them could not move; a cancel
that tears the ranks apart ends with the run it was for, because the client kills the
worker before it goes on. That the ranks stay one `SerialWorker` at the other end of
this client's connections, with its signals and kills, is a theorem
(`ClientFindsOneWorker`) and has no run of its own: `worker_ranks` checks the same
formula with clients that may do anything.

### CacheConfig and StepCache

The widgets of a Model node hold one group of cache settings for each denoiser the
model caches. `FromWidgets` is `runner_contract.py`'s way from the groups to the
sparse `cache_config`: what the first group changes reaches every denoiser, what a
later group wants differs from that and goes into `per_transformer`. `Merge` and
`OverridesFor` are the way back in the worker, `Built` what the transformer makes of
the merged fields. Four fields stand for the kinds there are: a number of every method,
a number of dbcache alone, an optional switch, and an optional switch that the worker
applies but does not compare (`enable_separate_cfg`; `share_pipefusion_decisions` is
another). `steps_computation_policy` is no fifth one: it is kept for "pipefusion" alone
(runner_contract.py:318, 662), which is never refreshed.

`StepCache` is one worker. `worker` is what it was started with, `record` is
`_applied_cache_state`, `applied` is what the transformers really have. `Queue` is a
prompt with any widgets, `Load` the Model node that keeps a worker of the same method
(the cache key leaves the configuration and the step count out), `RefreshDbcache` and
`RefreshTree` are `_refresh_dbcache` and `_refresh_tree_cache` with their early
returns, `RefreshRaises` the run that finds no transformer to write to. A pipeline may
have fewer denoisers than the model's table lists (`Pipelines`). What a refresh applies
is the whole `Plan`; what it compares and records is its `Signature`, which leaves
fields out as `_dbcache_refresh_signature` does. `DbcacheRunsItsWidgets` is about the
fields that are compared (`Compared`), which is as much as the code keeps;
`DbcacheRunsEveryWidget` is about all of them, and does not hold. cache_dit's refresh is
taken to install exactly what it is given.

### PromptPath

One behaviour is one prompt: nothing but the graph passes from one prompt to the next.
`inputs` is the posted Model node as `apply_preset_prompt_overrides` rewrites it
(`Hook`, or `HookRaises` where ComfyUI goes on with a prompt half rewritten),
`Validate` is `validate_inputs` of the Preset and the Model node, `Execute` the Model
node with its second merge of the preset, `_repair_loader_model_choice`, the task and
the layout, `Sample` the size. `at` is where the prompt is or how it ended: "refused"
on screen, "task" and "layout" as errors of the run. Two degrees of the world size
stand for five, one bounded by the world for the others, one dimension for height and
width.

### ProgressTracker

`worker` and `printed` are how far the worker is, `log` the lines its follower has not
read. The lines are those that `on_fragment` and `on_tqdm` tell apart, xFuser's order
of them is external and left open. `tracker` is `_XDiTProgressTracker`: its bar, its
phase, the last tick and the text. A load counts to 100, a run to its steps and two
slots more. `FollowerOpens` starts reading at the end of the file at that moment, so
that first lines may be `missed`; `Heartbeat` moves the bar while there is no line;
`NodeStops` and `Joined` are the node's end of the follower, and the second it waits
for it is taken to be enough. Bars of other things (a compile warm-up, with any total
in `Totals` or the run's own) come between.

### PresetSync

| Variable | In the code |
|---|---|
| `choice` | the Preset node's trigger (tag, GPU count and preset in one) |
| `fetches` | previews of the Preset node under way; `current` is what `requestSequence` answers for them |
| `loader`, `edited` | the Model node's model, cache method and one cache widget; `_xditUserEdited` |
| `seen` | `_xditLastModelIdentity`, `_xditLastCacheMethod`, `_xditLastPresetTrigger`, `_xditLastPresetApplied`, `_xditStepCacheHydrated` |
| `saved` | `_xdit_model_preset_trigger` and `_xdit_sample_preset_trigger` in the node properties |
| `timer` | `_xditSyncTimer`: off, or set without or with `presetPicked` |
| `requests` | loader previews under way, with what `syncLoader` had read before its await |
| `preview` | `_xditPreviewPayload`: the model and the cache method its gates are about |
| `sample` | one of the Sample node's widgets, with `_xditUserEdited`, `_xditPresetApplied`, `_xditLastPresetTrigger` and `_xditLastPresetApplied` |

JavaScript runs one callback at a time, so a step is a callback or the piece of one
between two awaits: `Pick`, `Reconnect`, the edits, `SyncStarts` (the timer fires),
`Answered`/`Fails` (syncLoader after its await), `PresetAnswered`/`PresetFails`,
`Reload`. The server's answer is computed from the request
(`PresetWins`, `About`, `Resolved`), and applied to the widgets of the moment it
comes, which is where things go wrong.

Left out: the hardware tag that a fresh Preset node detects, and its first refresh,
which pushes nothing; several consumers of one node; the Sample node's own fetch when
it is linked anew; seeds and the video widgets; `inFlight`, which only makes two equal
requests come back together. A number is named by where it comes from, so two models
with the same default count as different.

## Runs

All runs but those of the step cache set `CHECK_DEADLOCK FALSE`: once the bounds are
used up, ComfyUI has shut down, the last worker or the prompt has ended, or the user
stops, nothing is left to do.

| Run | Instance | Question and answer |
|---|---|---|
| `lifecycle_crash` | 2 Model nodes, 2 keys, 3 workers, 3 ComfyUI processes, no API thread | Across crashes at any step: never two live workers with one token, never a job to a worker of another configuration, and once ComfyUI starts a worker of its own none that an earlier one left behind, in whatever stage, is out of its hands. Holds. |
| `lifecycle_unload` | 1 Model node, 2 keys (symmetric), 3 workers, 1 API thread, 1 process, a neighbour | Unload, reap and shutdown at any step of the executor: they free what was there for them to see, nothing stays marked as starting, every live worker can be found by somebody who will stop it, and together they are one `WorkerPool`. Holds. |
| `residency_queue` | 1 Model node, up to 2 Samples per prompt, queue of 2, everything may go wrong | A prompt with ComfyUI for itself keeps its worker until its last Sample; while nothing has gone wrong, a worker to be released is gone when the queue is dry, and statistics belong to a worker. Holds. |
| `residency_overlap` | the same | Does every prompt keep its worker until its last Sample? No (finding). |
| `worker_ranks` | 3 ranks, 2 steps, 2 requests, everything may go wrong | What the output rank answers is so on every rank; undisturbed ranks never wait in different collectives and accepted requests are answered; together the ranks are one `SerialWorker`, and they never wait for one another in a circle but in the two ways named. Holds. |
| `worker_client` | 2 ranks, 2 steps, 6 connections, 2 cancels, signals, failing runs and moves | No cancel hits another run, no run is left queued, the registry's word on a parked worker is true, a wait without a deadline is for ranks that can go on, the executor comes back. Holds. |
| `step_cache` | 2 denoisers with presets of their own, 6 settings of a group, 2 step counts, 3 pipelines, any number of runs | The record of what is applied is true, and a dbcache run, for the fields that are compared, or a teacache run that names its threshold, denoises with what its widgets show. Holds. |
| `step_cache_lag` | the same | Also a dbcache run that changes only a field that is not compared? No (finding). |
| `step_cache_reset` | the same | Also a teacache run whose threshold is back at the model's own value? No (finding). |
| `prompt_path` | 80 000 prompts: 4 presets, 3 models and a version of one, 2 GPUs, device lists set, unset and wired, 13 sizes | An accepted layout runs, a stale task is dropped, the node wins over the preset, a preset on a fresh node runs as measured, sizes end on the grid. Holds. |
| `progress` | up to 3 steps, other bars of 2, a follower up to 2 lines behind | Bars rise and are full when the work is done, the phase follows the run, a finished node shows so. Holds. |
| `preset_sync` | 3 models (one without a step cache), 2 presets (one without the Sample's number), 4 acts, 2 previews of each node under way, 1 failure | Whatever overtakes what, a quiet Model node's gates and defaults are of its own model; when everything has settled so are the cache and Sample numbers, and a preset picked last is applied; and everything does settle. Holds. |

Why the bounds are enough: three workers and three ComfyUI processes let a worker
be started, orphaned by one crash, met by the next process while it starts
another, and orphaned again; two keys make every "another configuration" branch
possible, and two Model nodes a start of one that meets the other's orphan, adopted,
known or still loading. A
second API thread meets the first only in `pop`s under the lock, and one can
already overtake the executor everywhere. In the residency model the counts are
per Model node and no step reads those of two, so one node is enough; two prompts
are enough for one to overwrite the other's counts, and two Samples for one not to
be the last. Three ranks let two of them be apart while the third waits; two
denoising steps let ranks be interrupted before, between and behind them. Two requests
are a park and a run on what it left, in either order, or either of them after a
request that failed; what a rank keeps from one request to the next is its `parked`
flag, its pipeline and its interrupt flag, and a second request meets all of them.
Longer sequences are in `worker_client`, whose six connections hold a restore, a run and a park for two Samples, with one of them
cancelled, and in the theorems, which hold for any number. `MaxConns` never stops a client in the middle of a node (`Room`).

The step cache has no bound on the number of runs; two denoisers are what it takes
for a later group to differ from the first, and the settings of a group leave the
model's own values by one and by two widgets, of the fields that are compared and of the
one that is not. The presets of `prompt_path` are one of
each kind: a version of a registered model, a task of two, a GPU count of its own, a
machine-neutral one; the sizes lie below, at, between and above the bounds and grids.
Three steps let a run be at its first, in the middle and at its last step. Four acts
of a user are a pick, two edits and a second pick, or an edit on each side of a
page load; two previews under way are enough for one to overtake the other, and
a third would be stale like the first. `MaxPid`, `MaxSession`, `MaxSamples`,
`MaxQueue`, `MaxConns`, `MaxCancels`, `MaxSteps`, `MaxLag`, `MaxActs`, `MaxFlights` and
`MaxFaults` are all the bounds.

Fairness is assumed only where liveness is checked (`worker_ranks`, `worker_client`,
`preset_sync`). A rank is a process of its own and the operating system runs it, so
every rank step that stays possible is taken (weak fairness for each rank, each
collective and torchrun's supervision). The executor is a thread in a loop that wakes
up by itself, and a run's wait has a deadline (`WF(ExecutorStep)`). In the browser a
timer that is set fires, and a fetch ends in an answer or an error (`Fairness` of
`PresetSync`). Nobody has to cancel, unload, give up, send, pick or edit. The other
models are about safety and assume none.

## What the runs found

Disagreements between the code and what its comments say, each the shortest trace of
a violation run:

1. `residency_overlap`: posting a prompt replaces the counts the running one is
   counting down (residency_allocator.py:66, worker.py:302).
2. `step_cache_reset`: a run whose teacache threshold is back at the model's own value
   names none, and `_refresh_tree_cache` returns before it compares: the warm worker
   keeps the threshold of an earlier run (step_cache.py:294).
3. `step_cache_lag`: a refresh rebuilds "when steps or cache_config change"
   (step_cache.py:3), but the signature that decides leaves `enable_separate_cfg` out
   (step_cache.py:231-248): a warm run that changes only that returns early
   (step_cache.py:263) and denoises with the value of an earlier run.

Behaviour that the modules contain and that a property leaves out or none forbids,
worth knowing:

* Reap walks the cache keys, and only Model nodes register them. After an Unload
  between a Model node and its Sample, the Sample starts the worker again without one,
  and the worker of a deleted node stays (worker.py:479).
* The shutdown hook reads `pending` once and `workers` once; a worker between `Popen`
  and its registration as pending, or between pending and registered, survives
  (worker.py:502).
* The token is a hash of the node id and the kill pattern has no runtime directory, so
  the clean-up of one ComfyUI ends the worker of another with the same node id
  (worker.py:1071; `foreign`).
* A Model node that meets an orphan of its own token reports a warm worker without
  registering it (`EnsureOrphan`); a start for another Model node in the same prompt
  then sweeps that worker away, and its Sample loads the model again (worker.py:567,
  1050).
* Adoption does not look whether the worker is about to stop (`AdoptProbe`).
* Samples that never run never count down (residency_allocator.py:86): when a Sample
  with `residency=release` fails, those behind it are dropped, none is the last one,
  and the worker stays on its GPUs with nothing queued. `ReleasedWhenDone` is about
  `quiet` behaviours for that reason.
* An aborted run kills its worker and keeps the statistics of the run before;
  `StatsHaveAWorker` is about `quiet` behaviours, too.
* A component that does not move leaves those moved before it where they went, and
  `parked` stays false, so the next run does not restore them (residency_park.py:50).
  `RunsOnTheGpu` and what follows from it are therefore about workers that have refused
  nothing; every other fault is allowed.
* Parks and restores have no deadline: `_socket_read_exact` replaces the timeout
  with its poll interval (worker.py:347-360, 618-645). If one rank alone fails to
  move, the others wait in the gather; the executor waits for the answer until the
  user cancels, in the case of a Sample under `REGISTRY.lock` (worker.py:1263-1274).
  `NodesEnd` therefore excludes ranks that refuse to move.
* A cancel during a park or restore ends the worker: its answer raises, the
  `except` branch writes a second answer to the same closed connection, and that
  leaves the loop (worker_server.py:192-200, `Refuse`, `AnswerControl`).
* A restore that the output rank refuses leaves another rank, which could move, in
  the gather of that restore until the gather of the next request lets it go: from
  then on it is one request behind, and a run's signal may stop the run after it.
  `NoStaleInterrupt` therefore holds while nothing was refused. It takes ten
  connections to see, more than the run has: the proof asked for the condition, and
  TLC finds the behaviour there.
* Signals that reach the ranks on different sides of a step leave them in different
  collectives; only the client's kill after one silent second ends that. This is
  why `NoCrossedCollectives` and `EveryRequestEnds` have conditions, and why
  `AnswersAreTrue` and `NodesEnd` need none about cancels.
* A preset of a model version (Qwen-Image-2512) fills `custom_model_id`, which the
  Model node does not declare and which `_resolve_model_choice` prefers: a node set to
  another model runs the preset's version all the same (runtime_config.py:403), against
  "the node normally wins" (runtime_config.py:432). `NodeWins` leaves it out.
* Progress: a bar of the compile warm-up with the run's number of steps counts as
  denoising, so the phase may be "inference" early (progress.py:444); a follower that
  opens the log late misses the first lines, and the phase lags until the next marker.

In the browser (`PresetSync`), the orders in which the nodes end up apart are those
that turn `orderly` false. Each of them is needed: without its clause TLC finds
`CacheIsOfTheModel`, `SampleIsOfTheModel` or `PickIsApplied` violated.

* An answer comes between an edit of the model and its timer. The `finally` of
  syncLoader records the new model as dealt with, so its own sync finds nothing
  changed, and its defaults are never filled in (xdit_load_model.js:685).
* A pick is undone, or the model is edited, before the nodes have settled: the older
  preset's answers are still to come to one node and not to the other.
* The timer or the request of a picked preset is replaced by a plain one while the same
  preset is on record as applied: the pick is forgotten (xdit_load_model.js:703). For
  the timer four acts are enough; for the request it takes five, one more than the run
  has: the proof of `PickIsApplied` asked for that half of the clause, and with five
  acts TLC finds the behaviour.
* "none" is picked while a model or method waits for its numbers: the answer counts
  as a preset's, fills nothing in and clears the marks of edits.
* A preset names no value for a widget that an earlier preset has filled (some have no
  `guidance_scale`): the earlier one's number stays (xdit_sample.js:246-251).
* After a page load the Sample node takes its saved trigger for applied, also when
  another preset is selected by then, and then ignores a pick of the saved one
  (xdit_sample.js:472).
* A preview fails, or the page is loaded again before all has settled.

Not excluded, but as the properties say it: a Sample widget typed into before a pick
counts as typed for ever, so it keeps the preset's number after a change of model;
linking any node to the Preset node, or unlinking one, applies the preset again over
edits of the Model node (xdit_benchmark_preset.js:359; "the only case allowed to
overwrite widgets the user has edited" is said of picking a preset,
xdit_load_model.js:619); a page load marks every number that differs from the node
definition as typed; and an edit of a cache widget that the gates of the last preview
close is undone at once, though the model whose gates would open it is already chosen.

## Proofs

Everything TLAPS proves holds for every number of Model nodes, keys, threads,
workers, ComfyUI processes, prompts, ranks, steps, connections, denoisers, presets,
models and previews. The only assumptions are the named ones of each module, which
fix types and distinct "none" values and say of the tables what their code
guarantees (`PresetTasksAssumption`: a benchmark names a task its model has), and the
restrictions in the theorems below.

| Theorem | Says | Argument |
|---|---|---|
| `TypeCorrect` | LoaderLifecycle: `TypeOK` | inductive together with the parts below |
| `OneWorker` | `OneWorkerPerLoader` | `World` (files and entries tell the truth about the live process they name) and `ExecKnows`, whose `TokenCleared` says that from its clean-up to its `Spawn` the executor starts with no live process of the token |
| `RightModel` | `JobMeetsItsModel` | `WorkerHasKey`, `AdoptedIsOurs` and `JobIsOurs` of `ExecKnows`: from an adoption or a start to the job, every live process of the token has the key the node asks for; it rests on `IdentityTells` and `EntryTells` |
| `PendingIsStarting` | `PendingOnlyWhileStarting` | inductive by itself |
| `UnloadFrees` | `UnloadFreesTheGpu` | `UnloadKnows`: a worker seen at the request is dead, of a loader still on the list, or of the one being evicted up to the kill by token; `NobodyRevives` and the frame lemmas (`ThreadStepIsOwn`, `ExecStepIsOwn`, `ApiStepIsOwn`) settle the steps of the others |
| `AllWorkersAccounted` | `WorkersAreAccountedFor` | `Accounted`, with `ModeInv` (on whose behalf a thread runs, one shutdown at a time) and `ExecHolds` (the worker being started, adopted or used is the only one of its loader, and dead once its start or run was aborted): an entry that leaves the registry passes to a thread that goes on to stop its worker (`RegisteredStep`), and such a thread does nothing else first (`OnItsWayStep`) |
| `OrphansReclaimed` | `OrphansAreReclaimed` | only `SweepOrphans` leads to a `Spawn` (`SpawnFollowsSweep`); what survives it is registered (`SweepLeavesRegistered`), because the token about to be started has been cleared (`TokenCleared`), nothing is pending, and an entry, live or dead, names the only orphan its token can have (`EntryNamesTheOrphan`); from there `HasStep` carries it on as it does the workers of this ComfyUI |
| `ShutdownFrees` | `ShutdownFreesTheGpus` | `StopKnows` on top of it: up to the moment it takes the registry a worker it has seen is registered, pending or in another thread's hands; from then on it is on its list |
| `WorkersAreOnePool` | `OnePool`: `Spec => Pool!Spec` | all of the above but the shutdown: `World` and `ExecKnows` for a start (`PoolSpawn`) and a job, `HeldIsRun` of `ExecHolds` for an abort (`PoolRun`), `UnloadInv` for an answer (`PoolApi`); every other step can only take live workers away (`NoBirth`, `PoolStays`) |
| `ResidencyTypeCorrect` | LoaderResidency: `TypeOK`, with the bound on counts | counts start as those of one prompt and only fall |
| `Released` | `ReleasedWhenDone` | while `quiet`, `CountsOwed`: a count is covered by the Samples of the prompt posted last, or left over from `keep_gpu`; and `ReleaseOwed`: a worker whose last Sample had `release` and that is still there has a Sample to come |
| `StatsKept` | `StatsHaveAWorker` | the same invariant: a Sample that is in its last steps has its worker |
| `SoleKeeps` | `SolePromptKeepsItsWorker` | `SoleInv`: a prompt that is alone is the only one queued, and its counts cover the Samples it still has, but for the one that an eviction has counted down and not yet taken out (`CountedEarly`) |
| `ServerTypeCorrect` | WorkerServer: `TypeOK` | a rank that denoises has a step left (`Typing`) |
| `DenoisingOnTheGpu` | `RunsOnTheGpu`, with every fault | `InTouch`, below: a rank that denoises serves the request of the output rank, whose weights it has |
| `RanksInStep` | `NoCrossedCollectives`, with every fault | `InStep`: any two ranks serve the same request side by side, or one waits for the request whose first collective the other has not left; it is kept by every step that leaves the ranks `Undisturbed` |
| `RanksAreOneWorker` | `Spec => OneSerialWorker`, with every fault | `ServerInv`, that is `OutServes` and `InTouch`: a rank that moves serves the request the output rank is at (`MoverServes`), and where the output rank is idle or answers every rank has moved (`AllAtIdle`); each step is a step of `SerialWorker` or a stutter (`StepRefines`) |
| `RanksNeverStuck` | `NeverStuck`, with every fault | by the place of the output rank, `InTouch` says where the others are: short of its collective, so one of them can go on, or all in it (`NeverStuckHere`) |
| `RanksGoOn` | `AlwaysGoOn`: as long as the ranks are `Undisturbed`, the same without exceptions | `InStep` rules out `LeftAlone` and `CancelledApart`, and nothing is refused (`NothingRefusedKept`) |
| `RanksGoForward` | `OnlyForward`: each step of the worker brings some rank nearer the end of its request and sets none back | the stages of a request, and within a run its steps (`Stage`, `Beat`) |
| `NoRequestSkipped` | `AnsweredInTurn`: each request before the one at hand has its answer or a client that has gone | the output rank comes back to its loop only by answering or finding the client gone (`OutReturns`) |
| `AnswersTrue` | `AnswersAreTrue`, with every fault | `OutServes` (what the output rank is at has no answer yet) and `InTouch`: a rank takes the branch of the output rank, has still to receive the request and will take it, or could not move its weights and waits |
| `ClientTypeCorrect` | WorkerClient: `TypeOK` | with the types of the worker; every step of the client is one of `AnyStep` there, so `OutServes` and `InTouch` hold here as well |
| `InterruptsStopTheirRun` | `NoStaleInterrupt` | `StopsItsOwn`: a set flag where a run looks at it is for that run. The run a rank is at has no answer (`InTouch`), so it is the one the executor waits on and signals for (`OnlyMineRuns`) |
| `NoRunWaitsBehindAnother` | `NoRunLeftBehind` | `RunsAnswered`: a run without an answer is the executor's, which waits for it or is about to kill the worker |
| `ParkedWorkersAreFreed` | `ParkedMeansFreed` | `ParkedKnown` (the last request of a worker called parked was a park) and `AllAnswered`; then `InTouch` says where every rank is |
| `RunsFindTheirWeights` | `DenoisedOnTheGpu` | `InTouch` |
| `WaitsAreServed` | `WaitsCanEnd` | `NeverStuck` of the worker; a request that is waited for is open (`MineOpen`) and among those still to serve, and with no run at hand nobody is `CancelledApart` |
| `ClientFindsOneWorker` | the worker's `OneSerialWorker` with the client's connections, signals and kills | each step of the client is a step of the worker's `AnyStep`, whose refinement `StepRefines` has shown |
| `TypeOKThm`, `AppliedStateIsTrueThm` (StepCache) | `TypeOK`, `AppliedStateIsTrue` | the record, or what a first run would seed it with, equals the signature of what is applied to every transformer that is there |
| `DbcacheRunsItsWidgetsThm`, `TreeCacheRunsWhatIsNamedThm` | the properties of these names, the first for the fields that are compared | `PlanIsShown`: writing the widgets down sparsely and merging them back gives, for every denoiser, what its group shows (`FirstGroup`, `LaterGroup`); then the record tells whether a write is needed |
| `TypeOKThm`, `AcceptedLayoutRunsThm`, `NodeWinsThm` (PromptPath) | `TypeOK`, `AcceptedLayoutRuns`, `NodeWins` | `PathInv`: the inputs are what the hook made of the posted ones; `SettledLayout`: the second merge and the sanitizing of the execution change nothing in a layout that has been through the hook; `DevicesSynced`: nor in its device list |
| `StaleTaskIsDroppedThm` | `StaleTaskIsDropped` | what the second merge fills in is sanitized for another model or the preset's own task, and then `Repair` takes the preset's model with it (`TaskSettled`) |
| `PresetRunsAsMeasuredThm` | `PresetRunsAsMeasured` | the hook writes exactly the preset into a fresh node (`FreshHooked`), which validation accepts (`FreshAccepted`) and the second merge finds nothing to change in (`FreshSettled`) |
| `SizeIsOnTheGridThm` | `SizeIsOnTheGrid`, if every model's grid divides the least size (`GridsFit`; xFuser's are 32 and 64) | `AlignedInv`: from the hook on the size is within bounds and half a grid from the one asked for; rounding to a grid that divides the bounds does not leave them (`RoundedTrue`) |
| `TypeOKThm`, `BarsOnlyRiseThm`, `FullOnlyWhenDoneThm`, `EndsOnAFinishedLineThm` (ProgressTracker) | the properties of these names | `BarInv` (the slots of what is still to come are kept) with `LogInv` (a load's log names its end only once it is there) and `NodeInv`; one lemma per handler says what it may do to the bar |
| `PhaseFollowsTheRunThm` | `PhaseFollowsTheRun` | `SeenInv`: the last unread line says how far the worker is, and when there is none the tracker knows |
| `TypeOKThm`, `PreviewIsOfTheModelThm` (PresetSync) | `TypeOK`, `PreviewIsOfTheModel` | `RequestIsOfNow`: at most one request counts, and while no timer runs it is about the model in the widget |
| `CacheIsOfTheModelThm` | `CacheIsOfTheModel` | `MemoryInv`: a current request still says what the node shows (`RequestsOfNow`), a quiet node remembers what it shows (`QuietKnows`), and numbers that came in for a method are of the remembered model (`CacheKnown`) |
| `SampleIsOfTheModelThm` | `SampleIsOfTheModel` | `SampleInv` on top of it: a preset's number in the Sample node is of the remembered model, of the preset the next answer will bring (`PresetPending`), or about to be replaced by a fetch under way |
| `PickIsAppliedThm` | `PickIsApplied` | `PickInv`: a pick that is not pending is what the Model node shows and remembers, and its number is in the Sample node or on its way |
| `SyncRunsDown` | `RunsDown`, `WorkIsUnderWay`: every step that is no act of the user lowers `Unrest`, a number that is 0 only when the nodes have settled | `FlightsBounded`: finitely many previews; superseding tickets makes none (`SupersededSize`), and a timer weighs more than the request it sends |

None of the invariants is inductive alone. `OneWorkerPerLoader` needs to know
what the thread that is about to start a worker has done before it: that it
killed the token, and that nobody but the executor ever starts one. The proof
uses that all other steps only shrink the set of live workers (`Shrinks`), so one
lemma settles them and five steps are left to argue (`WorkerReady`, `Spawn`,
`WriteIdentity`, `RegisterEntry`, `AdoptRegister`). `NoCrossedCollectives` says
nothing of ranks that are not in a collective; the branch a rank takes depends on
its own `parked`, so the invariant has to carry that ranks serving the same
request agree on it, or differ just as the steps of that request make them.
`PhaseFollowsTheRun` speaks of a log that has been read, so the invariant has to say
what the unread part would tell. `PreviewIsOfTheModel` speaks of an answer, so the
invariant has to say of the requests what their answers will be about. The three
properties of settled nodes say nothing of nodes that are not; their invariants follow a
pick through timer, request, answer and fetch, and every clause of `orderly` is a step
at which the induction fails without it.

The condition of `RanksInStep` and `RanksGoOn` is needed: without it TLC finds two
ranks in different collectives, and ranks that cannot go on. All theorems about the
worker take every fault. A grid of 96 would take a size of 4096 to 4128, over the bound.

The type invariants are proved and not run again by TLC.

No safety property of a passing run is only model-checked. Liveness
(`EveryRequestEnds`, `NodesEnd`, `SyncSettles`) stays with TLC: the prover has no rules
for fairness or ENABLED. What is proved of it is the part that is safety: a request that
is to be served leaves the worker a step to take (`RanksGoOn`, `RanksNeverStuck`,
`WaitsAreServed`), every such step leads forward (`RanksGoForward`), a request has
finitely many of them, and none is passed over (`NoRequestSkipped`). `CanGoOn` stands for
ENABLED of the worker's actions there. In the browser, nodes left alone take at most
2 + 2 * `MaxFlights` steps, and there is one to take until they have settled
(`SyncRunsDown`): what is left to TLC is that the timer fires and the fetches end. Induction over data and RECURSIVE operators are out of its
reach as well; none of the modules needs them.

## Not modelled

* Contents: images, tensors, prompts, statistics, translations, captions.
* The wire format: lengths, JSON and partial reads. A message arrives or does not.
* Time: a deadline may pass at any moment that has one.
* Another user of the same runtime directory, and files removed by hand.
* Loading of the model in the worker: it succeeds or the process ends.
* How a log line is recognized character by character.
* Prompts with several Model, Sample or Preset nodes, which the hook takes one by one;
  in the browser several consumers of one node.
* The VAE's degree of parallelism, which takes part in the product of degrees
  (runtime_config.py:863-876) and has no widget to set it by: `DegreesFit` leaves it out.
* `_effective_cache_key` where a Sample begins (worker.py:90-105): it changes the key
  of a runtime only if its task is another than the one the Model node took, which it is
  not within a prompt, so `BeginSample` takes the key as it is.
* `runtime_env.py` and `images.py`: the overlays of the environment are entered and
  left by the one executor thread, the inner one first; a scratch directory is made
  and read within one Sample, and the newest eight are kept.
* xFuser, diffusers, cache_dit, torch.distributed and ComfyUI themselves, except for
  what `src/` relies on.
* The other parts marked `not_modelled` in PROJECT.json: wrappers, static graphs,
  presentation, shell.

## Plan

The residency sidebar (`web/xdit_residency_sidebar.js`), which polls what
`LoaderResidency` keeps, and several consumers of one Preset node.
