------------------------------ MODULE StepCache ------------------------------
(***************************************************************************)
(* The step cache of one warm worker over a sequence of runs.  The cache   *)
(* key of a worker leaves `cache_config` and the step count out, so the    *)
(* same worker serves runs with different tuning, and before each run      *)
(* xdit_ext/step_cache.py brings the patched transformers up to date if    *)
(* its record of what it applied says they are not.                        *)
(***************************************************************************)
EXTENDS CacheConfig

CONSTANTS Pipelines,  \* the sets of denoisers a loaded pipeline may really have
          Groups,     \* what one group of widgets may show
          Steps,      \* step counts a Sample node may ask for
          InitSteps,  \* step count the worker is initialized with
          NoJob

ASSUME StepCacheAssumption ==
  /\ Pipelines \subseteq SUBSET Denoisers
  /\ \A g \in Groups : DOMAIN g = Fields /\ \A f \in Fields : g[f] \in WidgetValues(f)
  /\ Steps \subseteq Nat \ {0} /\ InitSteps \in Nat \ {0}

VARIABLES
  worker,  \* method and cache_config it was initialized with, denoisers it has
  record,  \* what _applied_cache_state says is applied
  applied, \* denoiser -> the steps and fields its transformer really has
  pc,      \* "idle", "queued", "loaded", "denoise"
  job      \* the prompt under way

vars == <<worker, record, applied, pc, job>>

QuickSteps == 4

NoWorker == [method |-> "absent"]
NoRecord == [steps |-> 0]

(* Widgets of a graph: all the groups, or the first alone. *)
Graphs == [Denoisers -> Groups] \cup [{1} -> Groups]

NothingApplied == [d \in Denoisers |-> [steps |-> 0, fields |-> Empty]]

Init ==
  /\ worker = NoWorker
  /\ record = NoRecord
  /\ applied = NothingApplied
  /\ pc = "idle"
  /\ job = NoJob

-----------------------------------------------------------------------------
(* What a refresh applies, one entry per denoiser. *)
Plan(steps, config) ==
  [d \in Denoisers |->
     [steps |-> steps, fields |-> Built(Merge("dbcache", d, OverridesFor(config, d)))]]

(* What of it the record keeps and the next run compares.  A field it leaves out is
   applied with the others, and does not make a refresh by itself. *)
Compared == Fields \ {"enable_separate_cfg"}

Signature(plan) ==
  [d \in Denoisers |->
     [steps |-> plan[d].steps, fields |-> [f \in Compared |-> plan[d].fields[f]]]]

(* The threshold teacache is given, "none" where the run names none. *)
NamedThreshold(config) ==
  IF "residual_diff_threshold" \in DOMAIN config.all
  THEN config.all["residual_diff_threshold"] ELSE "none"

(* What xFuser applies at initialization. *)
Initialized(method, config) ==
  [d \in Denoisers |->
     IF method = "dbcache" THEN Plan(InitSteps, Broadcast(config))[d]
     ELSE [steps |-> InitSteps,
           fields |-> IF method = "none" THEN Empty
                      ELSE Merge(method, 1, Broadcast(config).all)]]

(* Bug: the first run is compared with the run's own configuration. *)
SeedFromTheRun(method) ==
  IF record # NoRecord THEN record
  ELSE [steps |-> job.refresh,
        signature |-> Signature(Plan(job.refresh, job.config)),
        threshold |-> NamedThreshold(job.config)]

(* The record a first run starts from: what the worker was started with. *)
Seed(method) ==
  IF record # NoRecord THEN record
  ELSE [steps |-> InitSteps,
        signature |-> Signature(Plan(InitSteps, Broadcast(worker.config))),
        threshold |-> NamedThreshold(worker.config)]

-----------------------------------------------------------------------------
(* A prompt is posted; the widgets may be anything by then. *)
Queue(method, graph, steps, quick) ==
  /\ pc = "idle"
  /\ LET shown == Fill(method, graph)
     IN  job' = [method |-> method, shown |-> shown,
                 config |-> CacheConfigOf(method, shown),
                 steps |-> steps, quick |-> quick,
                 refresh |-> IF quick /\ steps < QuickSteps THEN QuickSteps ELSE steps]
  /\ pc' = "queued"
  /\ UNCHANGED <<worker, record, applied>>

(* The Model node: a warm worker of the same key is used as it is. *)
Load ==
  /\ pc = "queued"
  /\ pc' = "loaded"
  /\ IF worker # NoWorker /\ worker.method = job.method
     THEN UNCHANGED <<worker, record, applied>>
     ELSE /\ \E p \in Pipelines :
               worker' = [method |-> job.method, config |-> Broadcast(job.config),
                          present |-> p]
          /\ record' = NoRecord
          /\ applied' = Initialized(job.method, job.config)
  /\ UNCHANGED job

(* A worker is unloaded, or dies: the prompt under way ends with it. *)
WorkerEnds ==
  /\ worker # NoWorker
  /\ worker' = NoWorker
  /\ record' = NoRecord
  /\ applied' = NothingApplied
  /\ pc' = "idle"
  /\ job' = NoJob

(* What runs once the caches are refreshed; a quick run denoises nothing. *)
Proceed ==
  IF job.quick THEN pc' = "idle" /\ job' = NoJob
               ELSE pc' = "denoise" /\ job' = job

(* Bug: only the first transformer of the plan is refreshed. *)
WriteTheFirst(plan) ==
  applied' = [d \in Denoisers |-> IF d \in worker.present \cap {1} THEN plan[d] ELSE applied[d]]

Write(plan) ==
  applied' = [d \in Denoisers |-> IF d \in worker.present THEN plan[d] ELSE applied[d]]

Uncached ==
  /\ pc = "loaded" /\ worker.method = "none"
  /\ Proceed
  /\ UNCHANGED <<worker, record, applied>>

RefreshDbcache ==
  /\ pc = "loaded" /\ worker.method = "dbcache"
  /\ LET plan == Plan(job.refresh, job.config)
         seed == Seed("dbcache")
     IN  IF seed.signature = Signature(plan)
         THEN record' = seed /\ UNCHANGED applied
         ELSE /\ worker.present # {}
              /\ Write(plan)
              /\ record' = [steps |-> job.refresh, signature |-> Signature(plan),
                            threshold |-> "none"]
  /\ Proceed
  /\ UNCHANGED worker

(* A plan to apply and no transformer to apply it to: the run fails. *)
RefreshRaises ==
  /\ pc = "loaded" /\ worker.method = "dbcache"
  /\ worker.present = {}
  /\ Seed("dbcache").signature # Signature(Plan(job.refresh, job.config))
  /\ WorkerEnds

(* Bug: the blocks keep their step count when the threshold is the same. *)
TreeUnchangedForTheSameThreshold(seed, threshold) == seed.threshold = threshold

TreeUnchanged(seed, threshold) ==
  seed.threshold = threshold /\ seed.steps = job.refresh

RefreshTree ==
  /\ pc = "loaded" /\ worker.method = "teacache"
  /\ LET threshold == NamedThreshold(job.config)
         seed == Seed("teacache")
         new == [steps |-> job.refresh,
                 fields |-> [f \in {"residual_diff_threshold"} |-> threshold]]
     IN  IF threshold = "none"
         THEN UNCHANGED <<record, applied>>
         ELSE IF TreeUnchanged(seed, threshold) \/ worker.present = {}
         THEN record' = seed /\ UNCHANGED applied
         ELSE /\ Write([d \in Denoisers |-> new])
              /\ record' = [steps |-> job.refresh, signature |-> seed.signature,
                            threshold |-> threshold]
  /\ Proceed
  /\ UNCHANGED worker

RunEnds ==
  /\ pc = "denoise"
  /\ pc' = "idle"
  /\ job' = NoJob
  /\ UNCHANGED <<worker, record, applied>>

Next ==
  \/ \E m \in Methods, g \in Graphs, s \in Steps, q \in BOOLEAN : Queue(m, g, s, q)
  \/ Load
  \/ Uncached
  \/ RefreshDbcache
  \/ RefreshRaises
  \/ RefreshTree
  \/ RunEnds
  \/ WorkerEnds

Spec == Init /\ [][Next]_vars

-----------------------------------------------------------------------------
(* Every variable holds what the code could hold there; a prompt past the Model
   node has a worker of its method. *)
TypeOK ==
  /\ worker = NoWorker \/ ( /\ worker.method \in Methods
                            /\ worker.present \subseteq Denoisers
                            /\ worker.config.per = Empty )
  /\ record = NoRecord \/ record.steps \in Nat \ {0}
  /\ DOMAIN applied = Denoisers
  /\ pc \in {"idle", "queued", "loaded", "denoise"}
  /\ pc # "idle" => job.method \in Methods /\ job.steps \in Steps
  /\ pc \in {"loaded", "denoise"} => worker # NoWorker /\ worker.method = job.method

(* What the worker's record says is applied is what its transformers have, over
   any sequence of runs, before the first one too; a record that is wrong makes
   a later run skip its refresh (_applied_cache_state, _seed_applied_state).  Of the
   fields the record does not keep it says nothing. *)
AppliedStateIsTrue ==
  worker # NoWorker =>
    LET seed == Seed(worker.method)
    IN  \A d \in worker.present :
          /\ worker.method = "dbcache" => Signature(applied)[d] = seed.signature[d]
          /\ worker.method = "teacache" =>
               /\ applied[d].steps = seed.steps
               /\ seed.threshold # "none" =>
                    applied[d].fields["residual_diff_threshold"] = seed.threshold

(* Denoiser d has what its group of widgets shows for f; "default" in the first group
   is the denoiser's preset.  (A later group that says "default" leaves it to the
   first: effective_cache_config_per_transformer.) *)
RunsWidget(d, f) ==
  LET value == ToConfig(f, job.shown[d][f])
  IN  /\ value # "none" => applied[d].fields[f] = value
      /\ value = "none" /\ d = 1 =>
           applied[d].fields[f] = Built(Merge("dbcache", d, Empty))[f]

(* Whatever the runs before it did to the warm worker, every denoiser of a dbcache
   run denoises at the run's step count with what its own group of widgets shows, of
   the fields that _dbcache_refresh_signature compares; the others may lag behind
   (DbcacheRunsEveryWidget). *)
DbcacheRunsItsWidgets ==
  pc = "denoise" /\ worker.method = "dbcache" =>
    \A d \in worker.present :
      /\ applied[d].steps = job.steps
      /\ \A f \in Compared : RunsWidget(d, f)

(* A context is rebuilt "when steps or cache_config change" (step_cache.py): every
   widget of a dbcache run is what its denoisers run with, also one that says whether
   the passes of CFG are cached apart. *)
DbcacheRunsEveryWidget ==
  pc = "denoise" /\ worker.method = "dbcache" =>
    \A d \in worker.present, f \in Fields : RunsWidget(d, f)

(* A teacache run that names a threshold denoises with it and with its own step
   count, whatever the warm worker ran before (_refresh_tree_cache). *)
TreeCacheRunsWhatIsNamed ==
  pc = "denoise" /\ worker.method = "teacache" /\ NamedThreshold(job.config) # "none" =>
    \A d \in worker.present :
      /\ applied[d].steps = job.steps
      /\ applied[d].fields["residual_diff_threshold"] = job.shown[1]["residual_diff_threshold"]

(* "What each cached denoiser will actually run with" is the model preset where a
   run overrides nothing (effective_cache_config_per_transformer): a teacache run
   denoises with the threshold its widget shows, one that is back at the model's
   own value too. *)
TreeCacheRunsItsWidget ==
  pc = "denoise" /\ worker.method = "teacache" =>
    \A d \in worker.present :
      applied[d].fields["residual_diff_threshold"] = job.shown[1]["residual_diff_threshold"]
=============================================================================
