----------------------------- MODULE CacheConfig -----------------------------
(***************************************************************************)
(* What the step-cache widgets of a Model node say: runner_contract.py and *)
(* model_info.py turn one group of widgets per cached denoiser into the    *)
(* sparse `cache_config` that travels with a run.  Only what differs from  *)
(* what a denoiser would run anyway is written down: what the first group  *)
(* changes reaches every denoiser, and a `per_transformer` section says    *)
(* what a later one wants instead.                                         *)
(*                                                                         *)
(* Four fields stand for the kinds there are: a number every method knows, *)
(* a number of dbcache alone, and two optional choices whose widgets also  *)
(* offer "default".  The last one is a choice that a warm worker does not  *)
(* look at when it decides whether it is up to date (StepCache), as        *)
(* share_pipefusion_decisions is.  A Python None is "none".                *)
(***************************************************************************)
EXTENDS Naturals

CONSTANTS Denoisers,  \* 1..n: the transformers the model caches
          Preset,     \* denoiser -> the fields its DBCachePreset sets
          Default,    \* field -> the default of DBCachePreset itself
          Numbers     \* field -> the numbers a widget may hold

Fields ==
  {"residual_diff_threshold", "max_warmup_steps", "enable_taylorseer", "enable_separate_cfg"}
Optional == {"enable_taylorseer", "enable_separate_cfg"}
Methods  == {"none", "dbcache", "teacache"}

WidgetValues(f) == IF f \in Optional THEN {"default", "true", "false"} ELSE Numbers[f]

ConfigValues(f) == IF f \in Optional THEN {"on", "off", "none"} ELSE Numbers[f]

ASSUME CacheAssumption ==
  /\ Denoisers \subseteq Nat \ {0} /\ 1 \in Denoisers
  /\ \A f \in Fields \ Optional : "none" \notin Numbers[f] /\ "default" \notin Numbers[f]
  /\ \A f \in Fields : Default[f] \in ConfigValues(f)
  /\ \A d \in Denoisers : /\ DOMAIN Preset[d] \subseteq Fields  \* none is without
                          /\ DOMAIN Preset[d] # {}
                          /\ \A f \in DOMAIN Preset[d] :
                                Preset[d][f] \in ConfigValues(f) \ {"none"}

-----------------------------------------------------------------------------
(* A dictionary f with the entries of g put over it: dict.update. *)
Over(f, g) == [k \in DOMAIN f \cup DOMAIN g |-> IF k \in DOMAIN g THEN g[k] ELSE f[k]]

Empty == [k \in {} |-> "none"]

FieldsOf(method) ==
  CASE method = "dbcache"  -> Fields
    [] method = "teacache" -> {"residual_diff_threshold"}
    [] OTHER               -> {}

(* The denoisers a method caches one by one; only dbcache lists several. *)
Cached(method) ==
  CASE method = "dbcache"  -> Denoisers
    [] method = "teacache" -> {1}
    [] OTHER               -> {}

(* Defaults of xFuser, then of the model for this denoiser, then overrides. *)
Merge(method, d, overrides) ==
  [f \in FieldsOf(method) |->
     IF f \in DOMAIN overrides THEN overrides[f]
     ELSE IF f \in DOMAIN Preset[d] THEN Preset[d][f]
     ELSE Default[f]]

-----------------------------------------------------------------------------
(* A widget's value as the runner takes it, and back. *)
ToConfig(f, w) ==
  IF f \notin Optional THEN w
  ELSE CASE w = "true" -> "on" [] w = "false" -> "off" [] OTHER -> "none"

ToWidget(f, v) ==
  IF f \notin Optional THEN v
  ELSE CASE v = "on" -> "true" [] v = "off" -> "false" [] OTHER -> "default"

(* Bug: a later group is compared with the denoiser's preset alone. *)
BaselineForgetsTheFirstGroup(method, d, overrides) == Merge(method, d, Empty)

(* What denoiser d would run if its own group said nothing. *)
Baseline(method, d, overrides) == Merge(method, d, overrides)

(* The fields of one group of widgets that have to be written down. *)
Overrides(method, group, baseline) ==
  LET said == {f \in FieldsOf(method) : /\ ToConfig(f, group[f]) # "none"
                                        /\ ToConfig(f, group[f]) # baseline[f]}
  IN  [f \in said |-> ToConfig(f, group[f])]

(* The cache_config of a set of widgets; both parts empty: there is none. *)
FromWidgets(method, shown) ==
  LET first == Overrides(method, shown[1], Baseline(method, 1, Empty))
      extra(d) == Overrides(method, shown[d], Baseline(method, d, first))
      later == {d \in Cached(method) \ {1} : DOMAIN extra(d) # {}}
  IN  [all |-> first, per |-> [d \in later |-> extra(d)]]

(* What every group shows when the model is picked. *)
ModelWidgets(method) ==
  [d \in Denoisers |->
     [f \in Fields |-> IF f \in FieldsOf(method) /\ d \in Cached(method)
                       THEN ToWidget(f, Merge(method, d, Empty)[f])
                       ELSE ToWidget(f, Default[f])]]

(* The widgets a run is configured from: a graph saved before a group was  *)
(* there lacks it, and the model's own values stand in.                    *)
Fill(method, graph) ==
  [d \in Denoisers |-> IF d \in DOMAIN graph THEN graph[d] ELSE ModelWidgets(method)[d]]

(* What is left of a cache_config under a method: the fields it knows. *)
Filter(method, config) ==
  LET kept(o) == [f \in DOMAIN o \cap FieldsOf(method) |-> o[f]]
      left == {d \in DOMAIN config.per : DOMAIN kept(config.per[d]) # {}}
  IN  [all |-> kept(config.all), per |-> [d \in left |-> kept(config.per[d])]]

(* The cache_config a run is queued with. *)
CacheConfigOf(method, shown) == Filter(method, FromWidgets(method, shown))

-----------------------------------------------------------------------------
(* What the worker makes of a cache_config. *)

(* There is a TaylorSeer calibrator or there is none; of the other fields a value
   left open stays the transformer's own. *)
Built(fields) ==
  [f \in DOMAIN fields |->
     IF f = "enable_taylorseer" /\ fields[f] = "none" THEN "off" ELSE fields[f]]

(* xFuser's own initialization takes a flat object. *)
Broadcast(config) == [all |-> config.all, per |-> Empty]

OverridesFor(config, d) ==
  IF d \in DOMAIN config.per THEN Over(config.all, config.per[d]) ELSE config.all
=============================================================================
