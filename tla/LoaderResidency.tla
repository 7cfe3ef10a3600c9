--------------------------- MODULE LoaderResidency ---------------------------
(***************************************************************************)
(* What a Model node's worker does after the last Sample of a prompt.      *)
(*                                                                         *)
(* The browser posts prompts; the hook on /prompt counts the Samples of    *)
(* each Model node (_register_loader_consumers) into the one               *)
(* REGISTRY.consumers table, when the prompt is posted and before ComfyUI  *)
(* has validated it.  The executor runs the queued prompts one by one, and *)
(* each Sample, in a `finally`, counts down and lets the residency policy  *)
(* act on the last one (demote_loader_after_run).  A run's memory peaks    *)
(* are recorded after the run and dropped by an eviction.  How a worker is *)
(* started, restored and stopped is LoaderLifecycle.                       *)
(***************************************************************************)
EXTENDS Naturals, Sequences

CONSTANTS Loaders,      \* Model node ids
          NoLoader,
          MaxSamples,   \* bound: Samples of one Model node in one prompt
          MaxQueue      \* bound: prompts in ComfyUI's queue

ASSUME ResidencyAssumption ==
  /\ NoLoader \notin Loaders
  /\ MaxSamples \in Nat /\ MaxQueue \in Nat

Policies == {"keep_gpu", "park_cpu", "release"}

VARIABLES
  queue,      \* the running prompt and the ones behind it
  started,    \* the head of the queue is running
  models,     \* the Model nodes that have run in it
  consumers,  \* REGISTRY.consumers; 0 where there is no count
  worker,     \* loader -> "none", "warm" or "parked"
  stats,      \* loader -> REGISTRY.run_stats has rows of a run on its worker
  at, cur,    \* the executor's place in a Sample, and that Sample's loader
  failed,     \* that Sample has raised
  unloading,  \* the loader an Unload is about to drop the statistics of
  lastPolicy, \* history: the policy of the last Sample of a loader that ran
  quiet       \* history: nothing has failed, been refused, taken out of the queue
              \* or left out by ComfyUI, and no Unload has met a Sample of its loader

execVars == <<started, models, at, cur, failed>>
vars == <<queue, execVars, consumers, worker, stats, unloading, lastPolicy, quiet>>

(* A prompt: its Samples still to run for each Model node, those that no output
   needs and that ComfyUI will not run, and the policies of its Model nodes.
   `alone` is history: no other prompt was posted while it was queued, nor
   queued when it was posted. *)
Prompt == [samples : [Loaders -> 0..MaxSamples], unreached : [Loaders -> 0..MaxSamples],
           policy : [Loaders -> Policies], alone : BOOLEAN]

NothingUnreached == [l \in Loaders |-> 0]

Head1 == queue[1]

-----------------------------------------------------------------------------
(* Bug: whether a Model node has Samples, not how many. *)
CountsOnce(p) == [l \in Loaders |-> IF p.samples[l] + p.unreached[l] > 0 THEN 1 ELSE 0]

(* _register_loader_consumers: every Sample linked to a Model node counts. *)
Counts(p) == [l \in Loaders |-> p.samples[l] + p.unreached[l]]

NotAlone == [i \in DOMAIN queue |-> [queue[i] EXCEPT !.alone = FALSE]]

(* POST /prompt: the hook runs first, then ComfyUI validates and queues. *)
PostPrompt(p) ==
  /\ Len(queue) < MaxQueue
  /\ p.alone <=> queue = <<>>
  /\ consumers' = Counts(p)
  /\ queue' = Append(NotAlone, p)
  /\ quiet' = (quiet /\ p.unreached = NothingUnreached)
  /\ UNCHANGED <<execVars, worker, stats, unloading, lastPolicy>>

(* The same with a prompt ComfyUI refuses. *)
PostRejected(p) ==
  /\ consumers' = Counts(p)
  /\ queue' = NotAlone
  /\ quiet' = FALSE
  /\ UNCHANGED <<execVars, worker, stats, unloading, lastPolicy>>

(* The user takes a prompt that is not running out of the queue. *)
DropPrompt(i) ==
  /\ i > 1 \/ ~started
  /\ queue' = [j \in 1..Len(queue) - 1 |-> queue[IF j < i THEN j ELSE j + 1]]
  /\ quiet' = FALSE
  /\ UNCHANGED <<execVars, consumers, worker, stats, unloading, lastPolicy>>

-----------------------------------------------------------------------------
(* The executor. *)
LeaveQueue == /\ queue' = Tail(queue)
              /\ started' = FALSE /\ models' = {}

BeginPrompt ==
  /\ queue # <<>> /\ ~started
  /\ started' = TRUE
  /\ UNCHANGED <<queue, models, at, cur, failed, consumers, worker, stats, unloading, lastPolicy, quiet>>

(* A Model node runs when a Sample that runs needs it, before that Sample.  It
   warms its worker, restores it, or leaves that to the Sample. *)
RunModel(l) ==
  /\ started /\ at = "idle" /\ l \notin models /\ Head1.samples[l] > 0
  /\ models' = models \cup {l}
  /\ \/ worker' = [worker EXCEPT ![l] = "warm"]
     \/ UNCHANGED worker
  /\ UNCHANGED <<queue, started, at, cur, failed, consumers, stats, unloading, lastPolicy, quiet>>

(* A Model node raises: the prompt is over. *)
FailModel(l) ==
  /\ started /\ at = "idle" /\ l \notin models /\ Head1.samples[l] > 0
  /\ LeaveQueue
  /\ quiet' = FALSE
  /\ UNCHANGED <<at, cur, failed, consumers, worker, stats, unloading, lastPolicy>>

(* The Sample gets a worker, warm whatever it was before. *)
StartSample(l) ==
  /\ started /\ at = "idle" /\ l \in models /\ Head1.samples[l] > 0
  /\ worker' = [worker EXCEPT ![l] = "warm"]
  /\ lastPolicy' = [lastPolicy EXCEPT ![l] = Head1.policy[l]]
  /\ cur' = l /\ at' = "run"
  /\ UNCHANGED <<queue, started, models, failed, consumers, stats, unloading, quiet>>

SampleSucceeds ==
  /\ at = "run" /\ worker[cur] # "none"
  /\ at' = "record"
  /\ UNCHANGED <<queue, started, models, cur, failed, consumers, worker, stats, unloading,
                 lastPolicy, quiet>>

(* It is cancelled, times out, or its worker is gone; a run that fails in the
   worker may leave it warm. *)
SampleFails ==
  /\ at = "run"
  /\ at' = "demote" /\ failed' = TRUE /\ quiet' = FALSE
  /\ \/ UNCHANGED worker
     \/ worker' = [worker EXCEPT ![cur] = "none"]
  /\ UNCHANGED <<queue, started, models, cur, consumers, stats, unloading, lastPolicy>>

(* record_sample_run_memory *)
RecordStats ==
  /\ at = "record"
  /\ stats' = [stats EXCEPT ![cur] = TRUE]
  /\ at' = "demote"
  /\ UNCHANGED <<queue, started, models, cur, failed, consumers, worker, unloading, lastPolicy, quiet>>

(* The Sample node has finished: it leaves the prompt, or the prompt is over. *)
SampleDone ==
  /\ cur' = NoLoader /\ failed' = FALSE
  /\ \/ failed /\ LeaveQueue
     \/ /\ ~failed
        /\ queue' = [queue EXCEPT ![1].samples[cur] = @ - 1]
        /\ UNCHANGED <<started, models>>

(* Bug: a Model node without a count has a Sample to wait for. *)
RemainingDefault2 == (IF consumers[cur] = 0 THEN 2 ELSE consumers[cur]) - 1

(* _last_consumer_finished: REGISTRY.consumers.get(loader_uid, 1) - 1 *)
Remaining == (IF consumers[cur] = 0 THEN 1 ELSE consumers[cur]) - 1

(* demote_loader_after_run under keep_gpu: nothing is counted. *)
DemoteKeep ==
  /\ at = "demote" /\ Head1.policy[cur] = "keep_gpu"
  /\ at' = "idle" /\ SampleDone
  /\ UNCHANGED <<consumers, worker, stats, unloading, lastPolicy, quiet>>

(* _last_consumer_finished counts down and says no. *)
DemoteLater ==
  /\ at = "demote" /\ Head1.policy[cur] # "keep_gpu" /\ Remaining > 0
  /\ consumers' = [consumers EXCEPT ![cur] = Remaining]
  /\ at' = "idle" /\ SampleDone
  /\ UNCHANGED <<worker, stats, unloading, lastPolicy, quiet>>

(* It says yes: park, or stay warm when the worker refuses or cannot park. *)
DemotePark ==
  /\ at = "demote" /\ Head1.policy[cur] = "park_cpu" /\ Remaining = 0
  /\ consumers' = [consumers EXCEPT ![cur] = 0]
  /\ \/ worker[cur] = "warm" /\ worker' = [worker EXCEPT ![cur] = "parked"]
     \/ UNCHANGED worker
  /\ at' = "idle" /\ SampleDone
  /\ UNCHANGED <<stats, unloading, lastPolicy, quiet>>

(* It says yes: _evict_loader_worker stops the worker, ... *)
DemoteRelease ==
  /\ at = "demote" /\ Head1.policy[cur] = "release" /\ Remaining = 0
  /\ consumers' = [consumers EXCEPT ![cur] = 0]
  /\ worker' = [worker EXCEPT ![cur] = "none"]
  /\ at' = "drop"
  /\ UNCHANGED <<queue, started, models, cur, failed, stats, unloading, lastPolicy, quiet>>

(* Bug: an eviction leaves the statistics. *)
KeepStats(l) == stats

WithoutStats(l) == [stats EXCEPT ![l] = FALSE]

(* ... and _drop_sample_run_memory_for_loader ends it. *)
DropStats ==
  /\ at = "drop"
  /\ stats' = WithoutStats(cur)
  /\ at' = "idle" /\ SampleDone
  /\ UNCHANGED <<consumers, worker, unloading, lastPolicy, quiet>>

EndPrompt ==
  /\ started /\ at = "idle" /\ \A l \in Loaders : Head1.samples[l] = 0
  /\ LeaveQueue
  /\ UNCHANGED <<at, cur, failed, consumers, worker, stats, unloading, lastPolicy, quiet>>

-----------------------------------------------------------------------------
(* /xdit/loader/clear in a thread of its own: _evict_loader_worker again. *)
UnloadStops(l) ==
  /\ unloading = NoLoader
  /\ unloading' = l
  /\ quiet' = (quiet /\ cur # l)
  /\ worker' = [worker EXCEPT ![l] = "none"]
  /\ UNCHANGED <<queue, execVars, consumers, stats, lastPolicy>>

UnloadDrops ==
  /\ unloading # NoLoader
  /\ stats' = WithoutStats(unloading)
  /\ unloading' = NoLoader
  /\ UNCHANGED <<queue, execVars, consumers, worker, lastPolicy, quiet>>

-----------------------------------------------------------------------------
Init ==
  /\ queue = <<>> /\ started = FALSE /\ models = {}
  /\ consumers = [l \in Loaders |-> 0]
  /\ worker = [l \in Loaders |-> "none"]
  /\ stats = [l \in Loaders |-> FALSE]
  /\ at = "idle" /\ cur = NoLoader /\ failed = FALSE
  /\ unloading = NoLoader
  /\ lastPolicy = [l \in Loaders |-> "none"]
  /\ quiet = TRUE

SampleStep ==
  \/ SampleSucceeds \/ SampleFails \/ RecordStats
  \/ DemoteKeep \/ DemoteLater \/ DemotePark \/ DemoteRelease \/ DropStats

Next ==
  \/ \E p \in Prompt : PostPrompt(p) \/ PostRejected(p)
  \/ \E i \in DOMAIN queue : DropPrompt(i)
  \/ BeginPrompt \/ EndPrompt
  \/ \E l \in Loaders : RunModel(l) \/ FailModel(l) \/ StartSample(l) \/ UnloadStops(l)
  \/ SampleStep
  \/ UnloadDrops

Spec == Init /\ [][Next]_vars

-----------------------------------------------------------------------------
(* Every variable holds what the code could hold there; a count is never more
   than the Samples of one prompt. *)
TypeOK ==
  /\ queue \in Seq(Prompt) /\ Len(queue) <= MaxQueue
  /\ started \in BOOLEAN
  /\ models \in SUBSET Loaders
  /\ consumers \in [Loaders -> 0..MaxSamples + MaxSamples]
  /\ worker \in [Loaders -> {"none", "warm", "parked"}]
  /\ stats \in [Loaders -> BOOLEAN]
  /\ at \in {"idle", "run", "record", "demote", "drop"}
  /\ cur \in Loaders \cup {NoLoader}
  /\ failed \in BOOLEAN
  /\ unloading \in Loaders \cup {NoLoader}
  /\ lastPolicy \in [Loaders -> Policies \cup {"none"}]
  /\ quiet \in BOOLEAN

(* When the queue has run dry and every prompt went well, no worker whose last
   Sample had residency=release is left, whatever prompts were queued behind and
   overwrote the counts (_last_consumer_finished, whose default makes a Sample
   without a count the last one), and whatever was unloaded between two Samples. *)
ReleasedWhenDone ==
  quiet /\ queue = <<>> =>
    \A l \in Loaders : lastPolicy[l] = "release" => worker[l] = "none"

(* A prompt that has ComfyUI for itself keeps its worker until its last Sample:
   the policy never parks or stops it while a Sample that will run still needs
   it (_last_consumer_finished). *)
SolePromptKeepsItsWorker ==
  [][DemotePark \/ DemoteRelease =>
       (Head1.alone /\ worker'[cur] # worker[cur] => Head1.samples[cur] = 1 \/ failed)]_vars

(* The run statistics shown for a Sample are those of a worker that is there
   (_drop_sample_run_memory_for_loader), once the executor and the Unload are
   done with it.  Only an eviction drops them: a run that is aborted kills its
   worker and leaves those of the run before, and a run that ends while its
   worker is unloaded may record its own after the Unload has dropped them. *)
StatsHaveAWorker ==
  quiet =>
    \A l \in Loaders : stats[l] /\ worker[l] = "none" => cur = l \/ unloading = l

-----------------------------------------------------------------------------
(* What the code says of itself and does not keep.                         *)

(* The policy acts on the last Sample of the prompt, not before
   (_last_consumer_finished: "False while other Sample nodes in this prompt
   still need the worker").  A prompt posted meanwhile has replaced the counts. *)
SurvivesUntilLastSample ==
  [][DemotePark \/ DemoteRelease =>
       (worker'[cur] # worker[cur] => Head1.samples[cur] = 1 \/ failed)]_vars
=============================================================================
