--------------------------- MODULE StepCacheProofs ---------------------------
(***************************************************************************)
(* For any number of denoisers, any presets, widgets and step counts: the  *)
(* record of what is applied is true, and so a run of a warm worker        *)
(* denoises with what its own widgets show.                                *)
(***************************************************************************)
EXTENDS StepCache, TLAPS

Threshold == "residual_diff_threshold"

(* What one set of widgets may show. *)
WellShown(shown) ==
  \A d \in Denoisers, f \in Fields : shown[d][f] \in WidgetValues(f)

(* The prompt under way: its configuration is what its widgets say. *)
JobInv ==
  pc # "idle" =>
    /\ WellShown(job.shown)
    /\ job.config = Filter(job.method, FromWidgets(job.method, job.shown))
    /\ job.refresh \in Nat \ {0}
    /\ ~job.quick => job.refresh = job.steps
    /\ pc = "denoise" => ~job.quick

(* What is really applied while a run denoises. *)
RunInv ==
  pc = "denoise" =>
    \A d \in worker.present :
      /\ worker.method = "dbcache" =>
           Signature(applied)[d] = Signature(Plan(job.refresh, job.config))[d]
      /\ worker.method = "teacache" /\ NamedThreshold(job.config) # "none" =>
           /\ applied[d].steps = job.refresh
           /\ applied[d].fields[Threshold] = NamedThreshold(job.config)

IInv == TypeOK /\ JobInv /\ AppliedStateIsTrue /\ RunInv

USE CacheAssumption, StepCacheAssumption

-----------------------------------------------------------------------------
(* The configuration says of the first denoiser what its group shows. *)
LEMMA FirstGroup ==
  ASSUME NEW method \in {"dbcache", "teacache"}, NEW shown, WellShown(shown)
  PROVE  LET config == Filter(method, FromWidgets(method, shown))
         IN  /\ DOMAIN config.all \subseteq FieldsOf(method)
             /\ \A f \in FieldsOf(method) :
                  LET value == ToConfig(f, shown[1][f])
                  IN  /\ (f \in DOMAIN config.all) <=>
                           (value # "none" /\ value # Merge(method, 1, Empty)[f])
                      /\ f \in DOMAIN config.all => config.all[f] = value
BY DEF Filter, FromWidgets, Overrides, Baseline

(* What a later group adds, where it adds anything. *)
LEMMA LaterGroup ==
  ASSUME NEW shown, WellShown(shown), NEW d \in Denoisers \ {1}
  PROVE  LET config == Filter("dbcache", FromWidgets("dbcache", shown))
             said == {f \in Fields : /\ ToConfig(f, shown[d][f]) # "none"
                                     /\ ToConfig(f, shown[d][f])
                                          # Merge("dbcache", d, config.all)[f]}
         IN  /\ (d \in DOMAIN config.per) <=> (said # {})
             /\ d \in DOMAIN config.per =>
                  config.per[d] = [f \in said |-> ToConfig(f, shown[d][f])]
  <1> DEFINE first == Overrides("dbcache", shown[1], Baseline("dbcache", 1, Empty))
             config == Filter("dbcache", FromWidgets("dbcache", shown))
             widgets == FromWidgets("dbcache", shown)
             extra == Overrides("dbcache", shown[d], Baseline("dbcache", d, first))
             said == {f \in Fields : /\ ToConfig(f, shown[d][f]) # "none"
                                     /\ ToConfig(f, shown[d][f])
                                          # Merge("dbcache", d, config.all)[f]}
  <1>1. FieldsOf("dbcache") = Fields /\ Cached("dbcache") = Denoisers
    BY DEF FieldsOf, Cached
  <1>2. config.all = first
    BY <1>1 DEF Filter, FromWidgets, Overrides
  <1>3. extra = [f \in said |-> ToConfig(f, shown[d][f])]
    BY <1>1, <1>2 DEF Overrides, Baseline
  <1>4. /\ (d \in DOMAIN widgets.per) <=> (said # {})
        /\ d \in DOMAIN widgets.per => widgets.per[d] = extra
    BY <1>1, <1>3 DEF FromWidgets
  <1>5. /\ (d \in DOMAIN config.per) <=> (d \in DOMAIN widgets.per)
        /\ d \in DOMAIN config.per => config.per[d] = extra
    <2> DEFINE kept(o) == [f \in DOMAIN o \cap Fields |-> o[f]]
               left == {e \in DOMAIN widgets.per : DOMAIN kept(widgets.per[e]) # {}}
    <2>1. config.per = [e \in left |-> kept(widgets.per[e])]
      BY <1>1 DEF Filter
    <2>2. said \subseteq Fields
      OBVIOUS
    <2> DEFINE shows == [f \in said |-> ToConfig(f, shown[d][f])]
    <2> HIDE DEF config, widgets, extra, said
    <2>3. kept(shows) = shows /\ DOMAIN shows = said
      BY <2>2
    <2>4. kept(extra) = extra /\ DOMAIN kept(extra) = said
      BY <1>3, <2>3
    <2>5. (d \in left) <=> (d \in DOMAIN widgets.per)
      BY <1>4, <2>4
    <2>6. d \in left => kept(widgets.per[d]) = extra
      <3> HAVE d \in left
      <3>1. widgets.per[d] = extra
        BY <1>4, <2>5
      <3>2. kept(widgets.per[d]) = kept(extra)
        BY <3>1
      <3> HIDE DEF kept, left
      <3> QED  BY <3>2, <2>4
    <2> HIDE DEF left, kept
    <2> QED  BY <2>1, <2>5, <2>6
  <1> QED  BY <1>3, <1>4, <1>5

(* The plan of a dbcache run is what its widgets show, for every denoiser. *)
LEMMA PlanIsShown ==
  ASSUME NEW shown, WellShown(shown), NEW d \in Denoisers, NEW f \in Fields
  PROVE  LET config == Filter("dbcache", FromWidgets("dbcache", shown))
             value == ToConfig(f, shown[d][f])
             runs == Merge("dbcache", d, OverridesFor(config, d))[f]
         IN  /\ value # "none" => runs = value
             /\ value = "none" /\ d = 1 => runs = Merge("dbcache", d, Empty)[f]
  <1> DEFINE config == Filter("dbcache", FromWidgets("dbcache", shown))
             value == ToConfig(f, shown[d][f])
  <1>1. FieldsOf("dbcache") = Fields
    BY DEF FieldsOf
  <1>2. CASE d = 1
    <2>1. 1 \notin DOMAIN config.per
      BY DEF Filter, FromWidgets
    <2>2. OverridesFor(config, d) = config.all
      BY <1>2, <2>1 DEF OverridesFor
    <2>3. /\ (f \in DOMAIN config.all) <=>
               (value # "none" /\ value # Merge("dbcache", 1, Empty)[f])
          /\ f \in DOMAIN config.all => config.all[f] = value
      BY <1>1, <1>2, FirstGroup
    <2> HIDE DEF config, value
    <2>4. Merge("dbcache", d, config.all)[f]
            = IF f \in DOMAIN config.all THEN config.all[f]
              ELSE Merge("dbcache", 1, Empty)[f]
      BY <1>1, <1>2 DEF Merge, Empty
    <2> QED  BY <1>2, <2>2, <2>3, <2>4 DEF config, value
  <1>3. CASE d # 1
    <2> DEFINE said == {g \in Fields : /\ ToConfig(g, shown[d][g]) # "none"
                                       /\ ToConfig(g, shown[d][g])
                                            # Merge("dbcache", d, config.all)[g]}
               over == OverridesFor(config, d)
    <2>1. /\ (d \in DOMAIN config.per) <=> (said # {})
          /\ d \in DOMAIN config.per =>
               config.per[d] = [g \in said |-> ToConfig(g, shown[d][g])]
      BY <1>3, LaterGroup
    <2> HIDE DEF config
    <2>2. f \in said => f \in DOMAIN over /\ over[f] = value
      BY <2>1 DEF OverridesFor, Over
    <2>3. f \notin said => /\ (f \in DOMAIN over) <=> (f \in DOMAIN config.all)
                           /\ f \in DOMAIN config.all => over[f] = config.all[f]
      BY <2>1 DEF OverridesFor, Over
    <2>4. f \notin said =>
            Merge("dbcache", d, over)[f] = Merge("dbcache", d, config.all)[f]
      BY <1>1, <2>3 DEF Merge
    <2>5. f \in said => Merge("dbcache", d, over)[f] = value
      BY <1>1, <2>2 DEF Merge
    <2> QED  BY <1>3, <2>4, <2>5 DEF config
  <1> QED  BY <1>2, <1>3

(* The threshold a run names is the one its first group shows. *)
LEMMA NamedIsShown ==
  ASSUME NEW shown, WellShown(shown),
         NamedThreshold(Filter("teacache", FromWidgets("teacache", shown))) # "none"
  PROVE  NamedThreshold(Filter("teacache", FromWidgets("teacache", shown)))
           = shown[1][Threshold]
  <1>1. Threshold \in FieldsOf("teacache") /\ Threshold \in Fields \ Optional
    BY DEF FieldsOf, Threshold, Fields, Optional
  <1> QED  BY <1>1, FirstGroup DEF NamedThreshold, ToConfig, Threshold
-----------------------------------------------------------------------------
LEMMA InitIInv == Init => IInv
  BY DEF Init, IInv, TypeOK, JobInv, AppliedStateIsTrue, RunInv, NoWorker, NoRecord,
         NothingApplied

(* A record is one of what is applied, never the mark for "none yet". *)
LEMMA RecordIsOne ==
  ASSUME NEW r, r.steps \in Nat \ {0}
  PROVE  r # NoRecord
  BY DEF NoRecord

(* What xFuser applies at initialization is what the first record says. *)
LEMMA SeedIsInitial ==
  ASSUME NEW method \in Methods, NEW config, config.per = Empty,
         NEW d \in Denoisers
  PROVE  LET has == Initialized(method, config)
         IN  /\ method = "dbcache" =>
                  Signature(has)[d] = Signature(Plan(InitSteps, Broadcast(config)))[d]
             /\ method = "teacache" =>
                  /\ has[d].steps = InitSteps
                  /\ NamedThreshold(config) # "none" =>
                       has[d].fields[Threshold] = NamedThreshold(config)
  <1>1. CASE method = "dbcache"
    <2>1. Initialized(method, config)[d] = Plan(InitSteps, Broadcast(config))[d]
      BY <1>1 DEF Initialized
    <2> QED  BY <1>1, <2>1 DEF Signature
  <1>2. CASE method = "teacache"
    <2> DEFINE all == Broadcast(config).all
    <2>1. Threshold \in FieldsOf("teacache") /\ all = config.all
      BY DEF FieldsOf, Threshold, Broadcast
    <2>2. Threshold \in DOMAIN all => Merge("teacache", 1, all)[Threshold] = all[Threshold]
      BY <2>1 DEF Merge
    <2>3. Initialized("teacache", config)[d]
            = [steps |-> InitSteps, fields |-> Merge("teacache", 1, all)]
      BY DEF Initialized
    <2> QED  BY <1>2, <2>1, <2>2, <2>3 DEF NamedThreshold, Threshold
  <1>3. CASE method = "none"
    BY <1>3
  <1> QED  BY <1>1, <1>2, <1>3 DEF Methods

-----------------------------------------------------------------------------
(* One lemma per action that changes what the invariant speaks of. *)

LEMMA QueueStep ==
  ASSUME IInv, NEW m \in Methods, NEW g \in Graphs, NEW s \in Steps, NEW q \in BOOLEAN,
         Queue(m, g, s, q), WellShown(Fill(m, g))
  PROVE  IInv'
  <1> USE DEF IInv, Queue
  <1>1. TypeOK'
    BY DEF TypeOK
  <1>2. JobInv'
    <2>1. /\ job'.shown = Fill(m, g) /\ job'.method = m
          /\ job'.config = Filter(m, FromWidgets(m, Fill(m, g)))
          /\ job'.steps = s /\ job'.quick = q
          /\ job'.refresh = IF q /\ s < QuickSteps THEN QuickSteps ELSE s
          /\ pc' = "queued"
      BY DEF CacheConfigOf
    <2>2. job'.refresh \in Nat \ {0} /\ (~job'.quick => job'.refresh = job'.steps)
      BY <2>1 DEF QuickSteps
    <2>3. WellShown(job'.shown)
      BY <2>1
    <2> QED  BY <2>1, <2>2, <2>3 DEF JobInv, WellShown
  <1>3. AppliedStateIsTrue'
    BY DEF AppliedStateIsTrue, Seed
  <1>4. RunInv'
    BY DEF RunInv
  <1> QED  BY <1>1, <1>2, <1>3, <1>4

LEMMA LoadStep ==
  ASSUME IInv, Load
  PROVE  IInv'
  <1> USE DEF IInv
  <1>1. job.method \in Methods
    BY DEF Load, TypeOK
  <1>2. TypeOK'
    <2>1. CASE worker # NoWorker /\ worker.method = job.method
      BY <1>1, <2>1 DEF Load, TypeOK
    <2>2. CASE ~(worker # NoWorker /\ worker.method = job.method)
      <3>1. PICK p \in Pipelines :
              worker' = [method |-> job.method, config |-> Broadcast(job.config),
                         present |-> p]
        BY <2>2 DEF Load
      <3>2. /\ worker'.method = job.method /\ worker'.present \subseteq Denoisers
            /\ worker'.config.per = Empty
        BY <3>1 DEF Broadcast
      <3>3. worker' # NoWorker
        BY <1>1, <3>2 DEF NoWorker, Methods
      <3>4. record' = NoRecord /\ DOMAIN applied' = Denoisers
        BY <2>2 DEF Load, Initialized
      <3> QED  BY <1>1, <3>2, <3>3, <3>4 DEF Load, TypeOK
    <2> QED  BY <2>1, <2>2
  <1>3. JobInv'
    BY DEF Load, JobInv
  <1>4. AppliedStateIsTrue'
    <2>1. CASE worker # NoWorker /\ worker.method = job.method
      BY <2>1 DEF Load, AppliedStateIsTrue, Seed
    <2>2. CASE ~(worker # NoWorker /\ worker.method = job.method)
      <3> DEFINE config == Broadcast(job.config)
      <3>1. /\ worker'.method = job.method /\ worker'.config = config
            /\ worker'.present \subseteq Denoisers
            /\ record' = NoRecord
            /\ applied' = Initialized(job.method, job.config)
        BY <2>2 DEF Load
      <3>2. config.per = Empty /\ Broadcast(config) = config
        BY DEF Broadcast
      <3>3. Initialized(job.method, job.config) = Initialized(job.method, config)
        BY <3>2 DEF Initialized
      <3>4. Seed(worker.method)' = [steps |-> InitSteps,
                                    signature |-> Signature(Plan(InitSteps, Broadcast(config))),
                                    threshold |-> NamedThreshold(config)]
        BY <3>1 DEF Seed
      <3> HIDE DEF config
      <3>5. ASSUME NEW d \in worker'.present
            PROVE  /\ worker'.method = "dbcache" =>
                        Signature(applied)'[d] = Seed(worker.method)'.signature[d]
                   /\ worker'.method = "teacache" =>
                        /\ applied'[d].steps = Seed(worker.method)'.steps
                        /\ Seed(worker.method)'.threshold # "none" =>
                             applied'[d].fields[Threshold] = Seed(worker.method)'.threshold
        <4>1. d \in Denoisers
          BY <3>1
        <4>2. LET has == Initialized(job.method, config)
              IN  /\ job.method = "dbcache" =>
                       Signature(has)[d] = Signature(Plan(InitSteps, Broadcast(config)))[d]
                  /\ job.method = "teacache" =>
                       /\ has[d].steps = InitSteps
                       /\ NamedThreshold(config) # "none" =>
                            has[d].fields[Threshold] = NamedThreshold(config)
          BY <1>1, <3>2, <4>1, SeedIsInitial
        <4> QED  BY <3>1, <3>3, <3>4, <4>2
      <3> QED  BY <3>5 DEF AppliedStateIsTrue, Threshold
    <2> QED  BY <2>1, <2>2
  <1>5. RunInv'
    BY DEF Load, RunInv
  <1> QED  BY <1>2, <1>3, <1>4, <1>5

LEMMA UncachedStep ==
  ASSUME IInv, Uncached
  PROVE  IInv'
  <1> USE DEF IInv, Uncached, Proceed
  <1>1. TypeOK'
    BY DEF TypeOK
  <1>2. JobInv'
    BY DEF JobInv
  <1>3. AppliedStateIsTrue'
    BY DEF AppliedStateIsTrue, Seed
  <1>4. RunInv'
    BY DEF RunInv
  <1> QED  BY <1>1, <1>2, <1>3, <1>4

LEMMA EndSteps ==
  ASSUME IInv, RunEnds \/ WorkerEnds
  PROVE  IInv'
  <1> USE DEF IInv, RunEnds, WorkerEnds
  <1>1. TypeOK'
    BY DEF TypeOK, NothingApplied
  <1>2. JobInv'
    BY DEF JobInv
  <1>3. AppliedStateIsTrue'
    BY DEF AppliedStateIsTrue, Seed
  <1>4. RunInv'
    BY DEF RunInv
  <1> QED  BY <1>1, <1>2, <1>3, <1>4

LEMMA DbcacheStep ==
  ASSUME IInv, RefreshDbcache
  PROVE  IInv'
  <1> DEFINE plan == Plan(job.refresh, job.config)
             seed == Seed("dbcache")
  <1>1. /\ pc = "loaded" /\ worker.method = "dbcache" /\ UNCHANGED worker
        /\ worker # NoWorker /\ job.method \in Methods /\ job.steps \in Steps
        /\ job.method = "dbcache"
        /\ worker.method \in Methods /\ worker.present \subseteq Denoisers
        /\ worker.config.per = Empty
    BY DEF RefreshDbcache, IInv, TypeOK, NoWorker
  <1>2. seed.steps \in Nat \ {0}
    BY DEF IInv, TypeOK, Seed, NoRecord
  <1>3. /\ record'.steps \in Nat \ {0}
        /\ DOMAIN applied' = Denoisers
        /\ record'.signature = Signature(plan)
        /\ \A d \in worker.present : Signature(applied)'[d] = Signature(plan)[d]
    <2>0. job.refresh \in Nat \ {0}
      BY <1>1 DEF IInv, JobInv
    <2>1. CASE seed.signature = Signature(plan)
      <3>1. record' = seed /\ applied' = applied
        BY <2>1 DEF RefreshDbcache
      <3>2. \A d \in worker.present : Signature(applied)[d] = seed.signature[d]
        BY <1>1 DEF IInv, AppliedStateIsTrue
      <3>3. Signature(applied)' = Signature(applied)
        BY <3>1 DEF Signature
      <3> HIDE DEF plan, seed
      <3> QED  BY <1>2, <2>1, <3>1, <3>2, <3>3 DEF IInv, TypeOK
    <2>2. CASE seed.signature # Signature(plan)
      <3>1. /\ record' = [steps |-> job.refresh, signature |-> Signature(plan),
                          threshold |-> "none"]
            /\ applied' = [d \in Denoisers |-> IF d \in worker.present THEN plan[d]
                                               ELSE applied[d]]
        BY <2>2 DEF RefreshDbcache, Write
      <3> HIDE DEF plan
      <3>2. \A d \in worker.present : Signature(applied)'[d] = Signature(plan)[d]
        BY <1>1, <3>1 DEF Signature
      <3> QED  BY <2>0, <3>1, <3>2
    <2> QED  BY <2>1, <2>2
  <1>4. record' # NoRecord /\ Seed("dbcache")' = record'
    BY <1>3, RecordIsOne DEF Seed
  <1> HIDE DEF plan, seed
  <1>5. \/ pc' = "idle"
        \/ pc' = "denoise" /\ UNCHANGED job /\ ~job.quick
    BY DEF RefreshDbcache, Proceed
  <1>6. TypeOK'
    BY <1>1, <1>3, <1>5 DEF IInv, TypeOK
  <1>7. JobInv'
    BY <1>1, <1>5 DEF IInv, JobInv, WellShown
  <1>8. AppliedStateIsTrue'
    BY <1>1, <1>3, <1>4 DEF AppliedStateIsTrue
  <1>9. RunInv'
    BY <1>1, <1>3, <1>5 DEF RunInv, plan
  <1> QED  BY <1>6, <1>7, <1>8, <1>9 DEF IInv

LEMMA TreeStep ==
  ASSUME IInv, RefreshTree
  PROVE  IInv'
  <1> DEFINE threshold == NamedThreshold(job.config)
             seed == Seed("teacache")
             new == [steps |-> job.refresh, fields |-> [f \in {Threshold} |-> threshold]]
  <1>1. /\ pc = "loaded" /\ worker.method = "teacache" /\ UNCHANGED worker
        /\ worker # NoWorker /\ job.method \in Methods /\ job.steps \in Steps
        /\ job.method = "teacache"
        /\ worker.method \in Methods /\ worker.present \subseteq Denoisers
        /\ worker.config.per = Empty
    BY DEF RefreshTree, IInv, TypeOK, NoWorker
  <1>2. seed.steps \in Nat \ {0} /\ job.refresh \in Nat \ {0}
    BY <1>1 DEF IInv, TypeOK, JobInv, Seed, NoRecord
  <1>3. \A d \in worker.present :
          /\ applied[d].steps = seed.steps
          /\ seed.threshold # "none" => applied[d].fields[Threshold] = seed.threshold
    BY <1>1 DEF IInv, AppliedStateIsTrue, Threshold
  <1>4. \/ pc' = "idle"
        \/ pc' = "denoise" /\ UNCHANGED job /\ ~job.quick
    BY DEF RefreshTree, Proceed
  <1>5. JobInv'
    BY <1>1, <1>4 DEF IInv, JobInv, WellShown
  <1>6. CASE threshold = "none"
    <2>1. UNCHANGED <<record, applied>>
      BY <1>6 DEF RefreshTree
    <2>2. TypeOK'
      BY <1>1, <1>4, <2>1 DEF IInv, TypeOK
    <2>3. AppliedStateIsTrue'
      BY <1>1, <2>1 DEF IInv, AppliedStateIsTrue, Seed
    <2>4. RunInv'
      BY <1>1, <1>4, <1>6 DEF RunInv
    <2> QED  BY <1>5, <2>2, <2>3, <2>4 DEF IInv
  <1>7. CASE threshold # "none"
    <2>1. /\ record'.steps \in Nat \ {0}
          /\ DOMAIN applied' = Denoisers
          /\ \A d \in worker.present :
               /\ applied'[d].steps = record'.steps
               /\ record'.threshold # "none" =>
                    applied'[d].fields[Threshold] = record'.threshold
               /\ applied'[d].steps = job.refresh
               /\ applied'[d].fields[Threshold] = threshold
      <3>1. CASE TreeUnchanged(seed, threshold) \/ worker.present = {}
        <4>1. record' = seed /\ applied' = applied
          BY <1>7, <3>1 DEF RefreshTree
        <4> HIDE DEF threshold, seed
        <4> QED  BY <1>2, <1>3, <1>7, <3>1, <4>1 DEF IInv, TypeOK, TreeUnchanged
      <3>2. CASE ~(TreeUnchanged(seed, threshold) \/ worker.present = {})
        <4>1. /\ record' = [steps |-> job.refresh, signature |-> seed.signature,
                            threshold |-> threshold]
              /\ applied' = [d \in Denoisers |-> IF d \in worker.present THEN new
                                                 ELSE applied[d]]
          BY <1>7, <3>2 DEF RefreshTree, Write, Threshold
        <4> HIDE DEF threshold, seed
        <4> QED  BY <1>1, <1>2, <4>1
      <3> QED  BY <3>1, <3>2
    <2>2. record' # NoRecord /\ Seed("teacache")' = record'
      BY <2>1, RecordIsOne DEF Seed
    <2> HIDE DEF seed, new
    <2>3. TypeOK'
      BY <1>1, <1>4, <2>1 DEF IInv, TypeOK
    <2>4. AppliedStateIsTrue'
      BY <1>1, <2>1, <2>2 DEF AppliedStateIsTrue, Threshold
    <2>5. RunInv'
      BY <1>1, <1>4, <2>1 DEF RunInv, NamedThreshold
    <2> QED  BY <1>5, <2>3, <2>4, <2>5 DEF IInv
  <1> QED  BY <1>6, <1>7

-----------------------------------------------------------------------------
(* What a graph shows is what its widgets may hold. *)
LEMMA GraphsAreWellShown ==
  ASSUME NEW m \in Methods, NEW g \in Graphs
  PROVE  WellShown(Fill(m, g))
  <1> SUFFICES ASSUME NEW d \in Denoisers, NEW f \in Fields
               PROVE  Fill(m, g)[d][f] \in WidgetValues(f)
    BY DEF WellShown
  <1>1. CASE d \in DOMAIN g
    <2>1. g[d] \in Groups
      BY <1>1 DEF Graphs
    <2> QED  BY <1>1, <2>1 DEF Fill
  <1>2. CASE d \notin DOMAIN g
    <2>1. \A v \in ConfigValues(f) : ToWidget(f, v) \in WidgetValues(f)
      BY DEF ConfigValues, ToWidget, WidgetValues
    <2>2. Default[f] \in ConfigValues(f)
      OBVIOUS
    <2>3. f \in FieldsOf(m) => Merge(m, d, Empty)[f] \in ConfigValues(f)
      BY DEF Merge, Empty
    <2>4. Fill(m, g)[d][f] = ModelWidgets(m)[d][f]
      BY <1>2 DEF Fill
    <2> QED  BY <2>1, <2>2, <2>3, <2>4 DEF ModelWidgets
  <1> QED  BY <1>1, <1>2

LEMMA StepIInv == IInv /\ [Next]_vars => IInv'
  <1> SUFFICES ASSUME IInv, [Next]_vars PROVE IInv'
    OBVIOUS
  <1>1. ASSUME NEW m \in Methods, NEW g \in Graphs, NEW s \in Steps, NEW q \in BOOLEAN,
               Queue(m, g, s, q)
        PROVE  IInv'
    BY <1>1, QueueStep, GraphsAreWellShown
  <1>2. CASE Load
    BY <1>2, LoadStep
  <1>3. CASE Uncached
    BY <1>3, UncachedStep
  <1>4. CASE RefreshDbcache
    BY <1>4, DbcacheStep
  <1>5. CASE RefreshTree
    BY <1>5, TreeStep
  <1>6. CASE RunEnds \/ WorkerEnds \/ RefreshRaises
    BY <1>6, EndSteps DEF RefreshRaises
  <1>7. CASE UNCHANGED vars
    BY <1>7 DEF vars, IInv, TypeOK, JobInv, AppliedStateIsTrue, RunInv, Seed
  <1> QED  BY <1>1, <1>2, <1>3, <1>4, <1>5, <1>6, <1>7 DEF Next

LEMMA SpecIInv == Spec => []IInv
  BY InitIInv, StepIInv, PTL DEF Spec

(* The variables have their types; a run past the Model node has its worker. *)
THEOREM TypeOKThm == Spec => []TypeOK
  <1>1. IInv => TypeOK
    BY DEF IInv
  <1> QED  BY <1>1, SpecIInv, PTL

(* Of the fields it keeps, the record of what is applied is true, for every number of
   denoisers and every sequence of runs. *)
THEOREM AppliedStateIsTrueThm == Spec => []AppliedStateIsTrue
  <1>1. IInv => AppliedStateIsTrue
    BY DEF IInv
  <1> QED  BY <1>1, SpecIInv, PTL

(* Every denoiser of a dbcache run has what its own group of widgets shows, of the
   fields that decide whether a warm worker is refreshed. *)
THEOREM DbcacheRunsItsWidgetsThm == Spec => []DbcacheRunsItsWidgets
  <1>1. IInv => DbcacheRunsItsWidgets
    <2> SUFFICES ASSUME IInv, pc = "denoise", worker.method = "dbcache",
                        NEW d \in worker.present
                 PROVE  /\ applied[d].steps = job.steps
                        /\ \A f \in Compared : RunsWidget(d, f)
      BY DEF DbcacheRunsItsWidgets
    <2>1. /\ worker # NoWorker /\ job.method = "dbcache" /\ d \in Denoisers
          /\ WellShown(job.shown) /\ job.refresh = job.steps
          /\ job.config = Filter("dbcache", FromWidgets("dbcache", job.shown))
      BY DEF IInv, TypeOK, JobInv, NoWorker
    <2> DEFINE runs == Merge("dbcache", d, OverridesFor(job.config, d))
    <2>2. Signature(applied)[d] = Signature(Plan(job.refresh, job.config))[d]
      BY DEF IInv, RunInv
    <2>3. /\ applied[d].steps = job.steps
          /\ \A f \in Compared : applied[d].fields[f] = Built(runs)[f]
      BY <2>1, <2>2 DEF Signature, Plan
    <2>4. ASSUME NEW f \in Compared
          PROVE  RunsWidget(d, f)
      <3> DEFINE value == ToConfig(f, job.shown[d][f])
      <3>1. /\ value # "none" => runs[f] = value
            /\ value = "none" /\ d = 1 => runs[f] = Merge("dbcache", d, Empty)[f]
        BY <2>1, PlanIsShown DEF Compared
      <3>2. /\ f \in DOMAIN runs /\ f \in DOMAIN Merge("dbcache", d, Empty)
        BY DEF Merge, FieldsOf, Compared
      <3> HIDE DEF runs
      <3>3. /\ value # "none" => Built(runs)[f] = value
            /\ runs[f] = Merge("dbcache", d, Empty)[f] =>
                 Built(runs)[f] = Built(Merge("dbcache", d, Empty))[f]
        BY <3>1, <3>2 DEF Built
      <3> QED  BY <2>3, <3>1, <3>3 DEF RunsWidget
    <2> QED  BY <2>3, <2>4
  <1> QED  BY <1>1, SpecIInv, PTL

(* A teacache run that names a threshold runs with it and with its own steps. *)
THEOREM TreeCacheRunsWhatIsNamedThm == Spec => []TreeCacheRunsWhatIsNamed
  <1>1. IInv => TreeCacheRunsWhatIsNamed
    <2> SUFFICES ASSUME IInv, pc = "denoise", worker.method = "teacache",
                        NamedThreshold(job.config) # "none", NEW d \in worker.present
                 PROVE  /\ applied[d].steps = job.steps
                        /\ applied[d].fields[Threshold] = job.shown[1][Threshold]
      BY DEF TreeCacheRunsWhatIsNamed, Threshold
    <2>1. /\ job.method = "teacache" /\ WellShown(job.shown) /\ job.refresh = job.steps
          /\ job.config = Filter("teacache", FromWidgets("teacache", job.shown))
      BY DEF IInv, TypeOK, JobInv
    <2> QED  BY <2>1, NamedIsShown DEF IInv, RunInv
  <1> QED  BY <1>1, SpecIInv, PTL
=============================================================================
