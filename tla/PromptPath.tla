----------------------------- MODULE PromptPath -----------------------------
(***************************************************************************)
(* The way of one prompt from the graph to the GPUs.  ComfyUI hands every  *)
(* posted prompt to apply_preset_prompt_overrides (prompt_hooks.py), which *)
(* fills a Model node from its connected preset and drops what the model   *)
(* cannot take; then validate_inputs of the nodes accepts or refuses it    *)
(* while the graph is still on screen; then the Model node is executed,    *)
(* merges the preset once more, settles model, task and GPU layout, and    *)
(* refuses what does not fit; then the Sample node aligns the size.        *)
(*                                                                         *)
(* Absent stands for a value the code takes for "not set": missing, empty, *)
(* "auto" device ids, an invalid model.  Two world degrees stand for the   *)
(* five there are, and one dimension for height and width.  One Model node *)
(* and one Sample node share one Preset node.                              *)
(***************************************************************************)
EXTENDS Integers, Sequences, FiniteSets

CONSTANTS
  Absent,      \* see above
  Wired,       \* an input linked to another node
  Registry,    \* models of xFuser's registry, the choices of a Model node
  Alias,       \* model that is a version of a registered one -> that one
  Tasks,       \* registered model -> the tasks it is valid for
  Supports,    \* registered model -> the layout fields it can take
  Divisor,     \* registered model -> what its sizes must divide by, or 0
  Presets,     \* name -> benchmark preset
  DefaultTag,  \* hardware tag of this machine
  Visible,     \* GPUs torch sees; 0: it cannot tell
  Prompts,     \* prompts that may be posted
  DeviceLists, \* device lists a linked node may hand over
  NoPreset     \* the Preset input is not connected

Degrees == {"ulysses_degree", "tensor_parallel_degree", "fully_shard_degree"}
Bounded == {"tensor_parallel_degree", "fully_shard_degree"}
Layout  == Degrees \cup {"use_cfg_parallel"}
Loader  == Layout \cup {"model", "custom_model_id", "task", "gpu_device_ids"}

WidgetDefault == [f \in Layout |-> IF f \in Degrees THEN 1 ELSE FALSE]

(* The constants are what they are declared to be. *)
ASSUME PresetsAssumption ==
  /\ \A n \in DOMAIN Presets :
       /\ Presets[n].model # Absent
       /\ DOMAIN Presets[n].args \subseteq Layout
       /\ \A f \in DOMAIN Presets[n].args :
            Presets[n].args[f] \in (IF f \in Degrees THEN Nat \ {0} ELSE BOOLEAN)
       /\ Presets[n].gpu_count \in (Nat \ {0}) \cup {Absent}
       /\ Presets[n].size \in Nat \cup {Absent}
  /\ "none" \notin DOMAIN Presets
  /\ Visible \in Nat

ASSUME ModelsAssumption ==
  /\ Absent \notin Registry /\ Absent # Wired
  /\ \A m \in DOMAIN Alias : Alias[m] \in Registry
  /\ \A m \in Registry :
       IsFiniteSet(Tasks[m]) /\ Absent \notin Tasks[m] /\ Divisor[m] \in Nat
  /\ Absent \notin Nat \cup BOOLEAN /\ Absent \notin Seq(Nat) /\ Wired \notin Seq(Nat)

(* A benchmark names a task its own model has (preset_configs). *)
ASSUME PresetTasksAssumption ==
  \A n \in DOMAIN Presets : LET p == Presets[n] IN
    p.task # Absent /\ p.model \in Registry => p.task \in Tasks[p.model]

(* A posted Model node carries no custom model of its own: it has no widget *)
(* for one.                                                                 *)
ASSUME PromptsAssumption ==
  \A p \in Prompts :
    /\ DOMAIN p.inputs = Loader
    /\ p.inputs["custom_model_id"] = Absent
    /\ p.inputs["model"] \in Registry \cup {Absent}
    /\ \A f \in Layout :
         p.inputs[f] \in (IF f \in Degrees THEN Nat \ {0} ELSE BOOLEAN) \cup {Absent}
    /\ p.size \in Nat \cup {Absent}

VARIABLES
  at,     \* "posted", "queued", "started", "ready" or how it ended
  prompt, \* the prompt as it was posted
  inputs, \* the inputs of its Model node, as they are rewritten
  size,   \* the size its Sample node asks for, as it is rewritten
  run     \* what the Model node has settled when it was executed

vars == <<at, prompt, inputs, size, run>>

(* One prompt: nothing but the graph itself passes from one to the next. *)
Init ==
  /\ at = "posted"
  /\ prompt \in Prompts
  /\ inputs = prompt.inputs /\ size = prompt.size
  /\ run = Absent

-----------------------------------------------------------------------------
(* GPU layouts. *)

DefaultDevices(n) == [i \in 1 .. n |-> i - 1]

Nproc(config) ==
  config["ulysses_degree"] * config["tensor_parallel_degree"]
    * (IF config["use_cfg_parallel"] THEN 2 ELSE 1)

(* A degree within the denoising processes; no process is a VAE's alone here. *)
DegreesFit(config, n) == \A f \in Bounded : config[f] <= n

WorldFits(config) ==
  LET n == Nproc(config)
  IN  DegreesFit(config, n) /\ (n > 1 /\ Visible > 0 => n <= Visible)

DevicesFit(ids, n) ==
  /\ Len(ids) = n
  /\ Cardinality({ids[i] : i \in DOMAIN ids}) = n
  /\ Visible > 0 => \A i \in DOMAIN ids : ids[i] \in 0 .. Visible - 1

DevicesOf(v, n) == IF v = Absent THEN DefaultDevices(n) ELSE v

-----------------------------------------------------------------------------
(* Benchmark presets. *)

PresetLayout(p) ==
  [f \in Layout |-> IF f \in DOMAIN p.args THEN p.args[f] ELSE WidgetDefault[f]]

GpuCount(p) == IF p.gpu_count = Absent THEN Nproc(PresetLayout(p)) ELSE p.gpu_count

ModelChoice(model) ==
  IF model \in Registry \/ model \notin DOMAIN Alias THEN model ELSE Alias[model]

Unmatched == [matched |-> FALSE]

NormalTag(tag) ==
  IF \E p \in DOMAIN Presets : tag \in Presets[p].tags THEN tag ELSE DefaultTag

BuildSpec(name, tag) ==
  IF name \notin DOMAIN Presets THEN Unmatched
  ELSE IF NormalTag(tag) \notin Presets[name].tags THEN Unmatched
  ELSE LET p == Presets[name]
       IN  [matched |-> TRUE, gpu_count |-> GpuCount(p), model |-> p.model,
            choice |-> ModelChoice(p.model), task |-> p.task,
            widgets |-> PresetLayout(p), size |-> p.size]

(* The preset the hook follows a link to; none, if its GPU count is another. *)
LinkedSpec(node) ==
  IF node = NoPreset THEN Unmatched
  ELSE LET spec == BuildSpec(node.preset, node.tag)
       IN  IF spec.matched /\ node.gpu_count # Absent /\ spec.gpu_count # node.gpu_count
           THEN Unmatched ELSE spec

(* What a matched preset wants of a Model node. *)
PresetBase(spec) ==
  [f \in Loader |->
     CASE f = "model" -> spec.choice
       [] f = "task"  -> spec.task
       [] f = "custom_model_id" -> IF spec.model # spec.choice THEN spec.model ELSE Absent
       [] f = "gpu_device_ids"  -> DefaultDevices(spec.gpu_count)
       [] OTHER -> spec.widgets[f]]

NeedsSync(ids, n) == ids = Absent \/ Len(ids) # n

(* Bug: the device list of the node is kept whatever its length. *)
FillKeepingDevices(spec, k) ==
  IF ~spec.matched THEN k
  ELSE [f \in Loader |-> IF k[f] = Absent THEN PresetBase(spec)[f] ELSE k[f]]

(* What the node leaves unset, and a device list of the wrong length. *)
FillFromPreset(spec, k) ==
  IF ~spec.matched THEN k
  ELSE LET base == PresetBase(spec)
       IN  [f \in Loader |->
              IF f = "gpu_device_ids"
              THEN IF k[f] # Wired /\ NeedsSync(k[f], spec.gpu_count) THEN base[f] ELSE k[f]
              ELSE IF k[f] = Absent THEN base[f] ELSE k[f]]

-----------------------------------------------------------------------------
(* Models and what they can take. *)

Chosen(k) == IF k["custom_model_id"] # Absent THEN k["custom_model_id"] ELSE k["model"]

(* Bug: a task left over from another model stays. *)
KeptTask(model, task) == task

(* A task left over from another model is dropped. *)
SanitizedTask(model, task) ==
  IF task = Absent \/ task \in Tasks[model] THEN task
  ELSE IF Cardinality(Tasks[model]) = 1 THEN CHOOSE t \in Tasks[model] : TRUE
  ELSE Absent

(* Bug: a degree the model does not support stays as it is. *)
SanitizeTheTaskAlone(model, k) ==
  IF model \notin Registry THEN k
  ELSE [k EXCEPT !["task"] = SanitizedTask(model, @)]

SanitizeInputs(model, k) ==
  IF model \notin Registry THEN k
  ELSE [f \in Loader |->
          CASE f = "task" -> SanitizedTask(model, k[f])
            [] f \in Layout /\ f \notin Supports[model] -> WidgetDefault[f]
            [] OTHER -> k[f]]

(* resolve_model_task: the tasks a run may end up with, none if it raises. *)
ResolvedTask(model, task) ==
  IF model \notin Registry THEN {task}
  ELSE IF Tasks[model] = {} THEN {task} \cap {Absent}
  ELSE IF task # Absent THEN {task} \cap Tasks[model]
  ELSE IF Cardinality(Tasks[model]) = 1 THEN Tasks[model] ELSE {}

(* What the executed layout is: gated fields the model cannot take are off. *)
SanitizeRuntime(model, k) ==
  [f \in Layout |-> IF model \in Registry /\ f \notin Supports[model]
                    THEN WidgetDefault[f] ELSE k[f]]

(* Bug: the preset's task is enough to take its model. *)
RepairForAnyTask(spec, k) ==
  IF spec.matched /\ k["task"] = spec.task
  THEN [k EXCEPT !["model"] = spec.choice,
                 !["custom_model_id"] = PresetBase(spec)["custom_model_id"]]
  ELSE k

(* A run whose task its model cannot take follows the preset of that task. *)
Repair(spec, k) ==
  LET task == k["task"]
  IN  IF ~spec.matched \/ task = Absent \/ ResolvedTask(Chosen(k), task) # {} THEN k
      ELSE IF task = spec.task
      THEN [k EXCEPT !["model"] = spec.choice,
                     !["custom_model_id"] = PresetBase(spec)["custom_model_id"]]
      ELSE IF spec.task = Absent /\ Chosen(k) = Chosen(PresetBase(spec))
      THEN [k EXCEPT !["task"] = Absent]
      ELSE k

-----------------------------------------------------------------------------
(* Sizes. *)
MinSize == 64
MaxSize == 4096
Grid == 16

(* Python's round: to the nearest, a half to the even one. *)
RoundedTo(v, step) ==
  LET q == v \div step
      r == v % step
  IN  step * (IF 2 * r < step \/ (2 * r = step /\ q % 2 = 0) THEN q ELSE q + 1)

Clamp(v) == IF v < MinSize THEN MinSize ELSE IF v > MaxSize THEN MaxSize ELSE v

(* Bug: sizes are cut down to the grid. *)
CutToGrid(v) == Clamp(Grid * (v \div Grid))

AlignSize(v) == Clamp(RoundedTo(v, Grid))

(* A size out of bounds, or none, is the default; that one out of bounds,   *)
(* the least there is.                                                      *)
CoerceSize(v, default) ==
  AlignSize(CASE v \in MinSize .. MaxSize -> v
              [] v \notin MinSize .. MaxSize /\ default \in MinSize .. MaxSize -> default
              [] OTHER -> MinSize)

SampleSize(spec, v) ==
  CoerceSize(IF v = Absent THEN 0 ELSE v,
             IF spec.matched /\ spec.size # Absent THEN spec.size ELSE 1024)

ModelSize(model, v) ==
  IF model \notin Registry \/ Divisor[model] = 0 THEN v
  ELSE LET d == Divisor[model]
           aligned == RoundedTo(v, d)
       IN  IF aligned < d THEN d ELSE aligned

-----------------------------------------------------------------------------
(* The inputs with nothing left unset that has a default. *)
Filled(k) ==
  LET preset == FillFromPreset(LinkedSpec(prompt.preset), k)
  IN  [f \in Loader |-> IF f \in Layout /\ preset[f] = Absent THEN WidgetDefault[f]
                        ELSE preset[f]]

Hook ==
  /\ at = "posted"
  /\ LET filled == Filled(inputs)
     IN  /\ Chosen(filled) # Absent
         /\ inputs' = SanitizeInputs(Chosen(filled), filled)
  /\ size' = SampleSize(LinkedSpec(prompt.preset), size)
  /\ at' = "queued"
  /\ UNCHANGED <<prompt, run>>

(* No model to sanitize for: ComfyUI goes on with what is rewritten so far, *)
(* and the Sample node is rewritten only if it came first.                  *)
HookRaises ==
  /\ at = "posted"
  /\ Chosen(Filled(inputs)) = Absent
  /\ inputs' = Filled(inputs)
  /\ size' \in {size, SampleSize(LinkedSpec(prompt.preset), size)}
  /\ at' = "queued"
  /\ UNCHANGED <<prompt, run>>

(* What the Preset node accepts: a preset of its hardware and GPU count. *)
PresetAccepts(node) ==
  node = NoPreset \/ node.preset = "none" \/
    ( /\ node.preset \in DOMAIN Presets
      /\ NormalTag(node.tag) \in Presets[node.preset].tags
      /\ node.gpu_count = GpuCount(Presets[node.preset]) )

(* Bug: the graph is refused for the degrees, not for the devices. *)
LayoutAcceptsAnyDevices(k) == k["gpu_device_ids"] = Wired \/ WorldFits(k)

(* The Model node refuses a layout that cannot run; a wired one has to wait. *)
LayoutAccepts(k) ==
  k["gpu_device_ids"] = Wired \/
    ( /\ WorldFits(k)
      /\ DevicesFit(DevicesOf(k["gpu_device_ids"], Nproc(k)), Nproc(k)) )

Accepts ==
  PresetAccepts(prompt.preset) /\ inputs["model"] \in Registry /\ LayoutAccepts(inputs)

Validate ==
  /\ at = "queued"
  /\ at' = IF Accepts THEN "started" ELSE "refused"
  /\ UNCHANGED <<prompt, inputs, size, run>>

(* The Preset node hands over its preset, wherever it accepts it. *)
ExecutedSpec ==
  IF prompt.preset = NoPreset THEN Unmatched
  ELSE BuildSpec(prompt.preset.preset, prompt.preset.tag)

(* What arrives at the Model node: it declares no custom_model_id, so     *)
(* ComfyUI hands over none.                                               *)
Arrived(devices) ==
  [inputs EXCEPT !["gpu_device_ids"] = devices, !["custom_model_id"] = Absent]

LayoutRuns(spec, layout, ids) ==
  LET nproc == Nproc(layout)
      count == IF spec.matched THEN spec.gpu_count ELSE nproc
  IN  /\ Visible > 0 => count <= Visible
      /\ WorldFits(layout)
      /\ count = nproc
      /\ DevicesFit(ids, nproc)

Execute(devices) ==
  /\ at = "started"
  /\ IF inputs["gpu_device_ids"] = Wired THEN devices \in DeviceLists
                                         ELSE devices = inputs["gpu_device_ids"]
  /\ LET spec   == ExecutedSpec
         k      == Repair(spec, FillFromPreset(spec, Arrived(devices)))
         layout == SanitizeRuntime(Chosen(k), k)
         ids    == DevicesOf(k["gpu_device_ids"], Nproc(layout))
         tasks  == ResolvedTask(Chosen(k), k["task"])
     IN  /\ at' = IF tasks = {} THEN "task"
                  ELSE IF ~LayoutRuns(spec, layout, ids) THEN "layout" ELSE "ready"
         /\ run' = [model |-> Chosen(k), task |-> k["task"], layout |-> layout,
                   devices |-> ids]
  /\ UNCHANGED <<prompt, inputs, size>>

Sample ==
  /\ at = "ready"
  /\ size' = ModelSize(run.model, size)
  /\ at' = "sampled"
  /\ UNCHANGED <<prompt, inputs, run>>

Next ==
  \/ Hook
  \/ HookRaises
  \/ Validate
  \/ \E d \in DeviceLists \cup {inputs["gpu_device_ids"]} : Execute(d)
  \/ Sample

Spec == Init /\ [][Next]_vars
-----------------------------------------------------------------------------
LayoutValue(f) == IF f \in Degrees THEN Nat \ {0} ELSE BOOLEAN

(* The hook leaves no layout field and no size unset, whatever came in.     *)
TypeOK ==
  /\ at \in {"posted", "queued", "started", "refused", "task", "layout", "ready", "sampled"}
  /\ size \in Nat \cup {Absent}
  /\ DOMAIN inputs = Loader
  /\ at # "posted" => \A f \in Layout : inputs[f] \in LayoutValue(f)
  /\ at \in {"posted", "queued", "started", "refused"} => run = Absent
  /\ at \in {"task", "layout", "ready", "sampled"} =>
       \A f \in Layout : run.layout[f] \in LayoutValue(f)

(* A GPU layout that cannot run is refused while the graph is still on      *)
(* screen: once accepted, it fails only if its device list comes from       *)
(* another node, or if the run took another model, for which the layout was *)
(* not checked.                                                             *)
AcceptedLayoutRuns ==
  at = "layout" => inputs["gpu_device_ids"] = Wired \/ run.model # Chosen(inputs)

(* A task left over from another model never fails a run: only a task that  *)
(* nobody named does, of a model that has several.                          *)
StaleTaskIsDropped ==
  at = "task" =>
    run.task = Absent /\ run.model \in Registry /\ Cardinality(Tasks[run.model]) > 1

(* The preset wants a version of a registered model. *)
Versioned(spec) == spec.matched /\ spec.model # spec.choice

(* Over a preset the node's own settings win: its layout as far as the      *)
(* model can take it; and its model, unless the preset wants a version of a *)
(* registered model, or a task that the node's model does not have.         *)
NodeWins ==
  run # Absent =>
    LET spec == LinkedSpec(prompt.preset)
        own  == prompt.inputs["model"]
    IN  /\ own # Absent /\ run.model # own =>
             /\ spec.matched /\ run.model = spec.model
             /\ Versioned(spec) \/ spec.task \notin Tasks[own] \cup {Absent}
        /\ \A f \in Layout :
             /\ prompt.inputs[f] # Absent
             /\ run.model = Chosen(inputs)
             /\ run.model \in Registry => f \in Supports[run.model]
             => run.layout[f] = prompt.inputs[f]

(* What the benchmark of a preset was measured with is a run of its own, of a *)
(* model this xFuser knows.                                                  *)
Measured(spec) ==
  LET model == spec.model
  IN  /\ spec.choice \in Registry
      /\ Nproc(spec.widgets) = spec.gpu_count
      /\ DegreesFit(spec.widgets, spec.gpu_count)
      /\ SanitizeRuntime(model, spec.widgets) = spec.widgets
      /\ ResolvedTask(model, spec.task) # {}
      /\ Visible > 0 => spec.gpu_count <= Visible

(* A node that sets nothing, or still has the device list of a preset of    *)
(* another GPU count.                                                       *)
Fresh(node, n) ==
  /\ \A f \in Loader \ {"gpu_device_ids"} : node[f] = Absent
  /\ node["gpu_device_ids"] # Wired
  /\ node["gpu_device_ids"] # Absent => Len(node["gpu_device_ids"]) # n

(* A preset accepted on a fresh node runs, and runs as it was measured: its *)
(* model, its task, its layout, on as many GPUs.                            *)
PresetRunsAsMeasured ==
  LET spec == LinkedSpec(prompt.preset)
  IN  spec.matched /\ PresetAccepts(prompt.preset)
        /\ Measured(spec) /\ Fresh(prompt.inputs, spec.gpu_count) =>
        /\ at \notin {"refused", "task", "layout"}
        /\ run # Absent =>
             /\ run.model = spec.model /\ run.task = spec.task
             /\ run.layout = spec.widgets
             /\ run.devices = DefaultDevices(spec.gpu_count)

Apart(a, b) == IF a < b THEN b - a ELSE a - b

(* The size that is run lies within the bounds and on the grid of the model *)
(* and, asked for within the bounds, is as near to that as the two grids    *)
(* allow.                                                                   *)
SizeIsOnTheGrid ==
  at = "sampled" =>
    LET d == IF run.model \in Registry THEN Divisor[run.model] ELSE 0
    IN  /\ IF d > 0 THEN size % d = 0 ELSE size % Grid = 0
        /\ size \in MinSize .. MaxSize
        /\ prompt.size \in MinSize .. MaxSize =>
             2 * Apart(size, prompt.size) <= d + Grid
=============================================================================
