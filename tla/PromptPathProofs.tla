--------------------------- MODULE PromptPathProofs ---------------------------
(***************************************************************************)
(* Theorems about the way of a prompt, for all presets, models and prompts. *)
(* The layout argument: the hook leaves the inputs filled and sanitized for *)
(* one model; what the graph is accepted for, executing it computes again   *)
(* from those inputs, and gets the same layout unless it takes another      *)
(* model; and the device list that was accepted is as long as the preset's  *)
(* GPU count, so that count is the number of processes.                     *)
(* Then: a task left over from another model fails no run; a measured       *)
(* preset accepted on a fresh node runs as it was measured; and a size      *)
(* that is run is on its model's grid and within the bounds.                *)
(***************************************************************************)
EXTENDS PromptPath, FiniteSetTheorems, TLAPS

(* A well-typed layout launches at least one process. *)
LEMMA NprocType ==
  ASSUME NEW c, \A f \in Layout : c[f] \in LayoutValue(f)
  PROVE  Nproc(c) \in Nat \ {0}
<1>1. /\ c["ulysses_degree"] \in Nat \ {0}
      /\ c["tensor_parallel_degree"] \in Nat \ {0}
      /\ c["use_cfg_parallel"] \in BOOLEAN
  BY DEF Layout, LayoutValue, Degrees
<1>2. \A a, b \in Nat \ {0} : a * b \in Nat \ {0}
  OBVIOUS
<1>3. c["ulysses_degree"] * c["tensor_parallel_degree"] \in Nat \ {0}
  BY <1>1, <1>2
<1>4. Nproc(c) = c["ulysses_degree"] * c["tensor_parallel_degree"]
                   * (IF c["use_cfg_parallel"] THEN 2 ELSE 1)
  BY DEF Nproc
<1>5. (IF c["use_cfg_parallel"] THEN 2 ELSE 1) \in Nat \ {0}
  OBVIOUS
<1> QED
  BY <1>2, <1>3, <1>4, <1>5

(* The number of processes depends on the layout fields alone. *)
LEMMA NprocOfLayout ==
  ASSUME NEW c, NEW d, \A f \in Layout : c[f] = d[f]
  PROVE  /\ Nproc(c) = Nproc(d)
         /\ WorldFits(c) <=> WorldFits(d)
<1>1. /\ c["ulysses_degree"] = d["ulysses_degree"]
      /\ c["tensor_parallel_degree"] = d["tensor_parallel_degree"]
      /\ c["fully_shard_degree"] = d["fully_shard_degree"]
      /\ c["use_cfg_parallel"] = d["use_cfg_parallel"]
  BY DEF Layout, Degrees
<1>2. Nproc(c) = Nproc(d)
  BY <1>1 DEF Nproc
<1>3. DegreesFit(c, Nproc(c)) <=> DegreesFit(d, Nproc(d))
  BY <1>1, <1>2 DEF DegreesFit, Bounded
<1>4. WorldFits(c) <=> WorldFits(d)
  BY <1>2, <1>3, Zenon DEF WorldFits
<1> QED
  BY <1>2, <1>4

(* The widgets' own defaults are well typed. *)
LEMMA DefaultType == \A f \in Layout : WidgetDefault[f] \in LayoutValue(f)
<1> SUFFICES ASSUME NEW f \in Layout
             PROVE  WidgetDefault[f] \in LayoutValue(f)
  OBVIOUS
<1>1. WidgetDefault[f] = IF f \in Degrees THEN 1 ELSE FALSE
  BY DEF WidgetDefault
<1>2. CASE f \in Degrees
  BY <1>1, <1>2 DEF LayoutValue
<1>3. CASE f \notin Degrees
  BY <1>1, <1>3 DEF LayoutValue
<1> QED
  BY <1>2, <1>3

(* A matched preset has a GPU count, a model and a well-typed layout. *)
LEMMA SpecType ==
  ASSUME NEW name, NEW tag, BuildSpec(name, tag).matched
  PROVE  /\ BuildSpec(name, tag).gpu_count \in Nat \ {0}
         /\ BuildSpec(name, tag).model # Absent
         /\ \A f \in Layout : BuildSpec(name, tag).widgets[f] \in LayoutValue(f)
<1>1. /\ name \in DOMAIN Presets
      /\ BuildSpec(name, tag) =
           [matched |-> TRUE, gpu_count |-> GpuCount(Presets[name]),
            model |-> Presets[name].model, choice |-> ModelChoice(Presets[name].model),
            task |-> Presets[name].task, widgets |-> PresetLayout(Presets[name]),
            size |-> Presets[name].size]
  BY DEF BuildSpec, Unmatched
<1> DEFINE p == Presets[name]
<1>2. /\ p.model # Absent
      /\ DOMAIN p.args \subseteq Layout
      /\ \A f \in DOMAIN p.args : p.args[f] \in LayoutValue(f)
      /\ p.gpu_count \in (Nat \ {0}) \cup {Absent}
  BY <1>1, PresetsAssumption DEF LayoutValue
<1>3. \A f \in Layout : PresetLayout(p)[f] \in LayoutValue(f)
  BY <1>2, DefaultType DEF PresetLayout
<1>4. GpuCount(p) \in Nat \ {0}
  BY <1>2, <1>3, NprocType DEF GpuCount
<1> QED
  BY <1>1, <1>2, <1>3, <1>4

(* The hook's preset is none, or the one the graph names. *)
LEMMA LinkedIsBuilt ==
  ASSUME NEW node
  PROVE  \/ LinkedSpec(node) = Unmatched
         \/ node # NoPreset /\ LinkedSpec(node) = BuildSpec(node.preset, node.tag)
  BY DEF LinkedSpec

(* Where the Preset node accepts, the hook and the Model node see the same  *)
(* preset.                                                                  *)
LEMMA SameSpec ==
  ASSUME PresetAccepts(prompt.preset)
  PROVE  ExecutedSpec = LinkedSpec(prompt.preset)
<1> DEFINE node == prompt.preset
<1>1. CASE node = NoPreset
  BY <1>1 DEF ExecutedSpec, LinkedSpec
<1>2. CASE node # NoPreset /\ node.preset = "none"
  <2>1. BuildSpec(node.preset, node.tag) = Unmatched
    BY <1>2, PresetsAssumption DEF BuildSpec
  <2> QED
    BY <1>2, <2>1 DEF ExecutedSpec, LinkedSpec, Unmatched
<1>3. CASE node # NoPreset /\ node.preset # "none"
  <2>1. node.preset \in DOMAIN Presets /\ node.gpu_count = GpuCount(Presets[node.preset])
    BY <1>3 DEF PresetAccepts
  <2>2. BuildSpec(node.preset, node.tag).matched =>
          BuildSpec(node.preset, node.tag).gpu_count = node.gpu_count
    BY <2>1 DEF BuildSpec, Unmatched
  <2> QED
    BY <1>3, <2>2 DEF ExecutedSpec, LinkedSpec
<1> QED
  BY <1>1, <1>2, <1>3

-----------------------------------------------------------------------------
(* What the hook makes of the posted inputs. *)
Hooked ==
  LET filled == Filled(prompt.inputs)
  IN  inputs = IF Chosen(filled) # Absent THEN SanitizeInputs(Chosen(filled), filled)
               ELSE filled

(* Sizes and devices of what is filled in. *)
LEMMA FilledType ==
  ASSUME prompt \in Prompts
  PROVE  /\ DOMAIN Filled(prompt.inputs) = Loader
         /\ \A f \in Layout : Filled(prompt.inputs)[f] \in LayoutValue(f)
<1> DEFINE k == prompt.inputs
           spec == LinkedSpec(prompt.preset)
           preset == FillFromPreset(spec, k)
<1>1. \A f \in Layout : k[f] \in LayoutValue(f) \cup {Absent}
  BY PromptsAssumption DEF LayoutValue
<1>2. spec.matched => \A f \in Layout : spec.widgets[f] \in LayoutValue(f)
  BY LinkedIsBuilt, SpecType DEF Unmatched
<1>3. \A f \in Layout : f \in Loader /\ f \notin {"model", "custom_model_id", "task", "gpu_device_ids"}
  BY DEF Layout, Degrees, Loader
<1>4. spec.matched => \A f \in Layout : PresetBase(spec)[f] = spec.widgets[f]
  BY <1>3 DEF PresetBase
<1>5. \A f \in Layout : preset[f] \in LayoutValue(f) \cup {Absent}
  <2>1. CASE spec.matched
    <3>1. \A f \in Layout :
            preset[f] = IF k[f] = Absent THEN PresetBase(spec)[f] ELSE k[f]
      BY <2>1, <1>3 DEF FillFromPreset
    <3> QED
      BY <3>1, <2>1, <1>1, <1>2, <1>4
  <2>2. CASE ~spec.matched
    BY <2>2, <1>1 DEF FillFromPreset
  <2> QED
    BY <2>1, <2>2
<1>6. \A f \in Layout : Filled(k)[f] = IF preset[f] = Absent THEN WidgetDefault[f] ELSE preset[f]
  BY <1>3 DEF Filled
<1>7. DOMAIN Filled(k) = Loader
  BY DEF Filled
<1> QED
  BY <1>5, <1>6, <1>7, DefaultType

(* Sanitizing keeps the types, the model and the devices. *)
LEMMA SanitizedType ==
  ASSUME NEW model, NEW k, DOMAIN k = Loader, \A f \in Layout : k[f] \in LayoutValue(f)
  PROVE  /\ DOMAIN SanitizeInputs(model, k) = Loader
         /\ \A f \in Layout : SanitizeInputs(model, k)[f] \in LayoutValue(f)
         /\ \A f \in {"model", "custom_model_id", "gpu_device_ids"} :
              SanitizeInputs(model, k)[f] = k[f]
         /\ \A f \in Layout : model \in Registry /\ f \notin Supports[model] =>
              SanitizeInputs(model, k)[f] = WidgetDefault[f]
<1>1. CASE model \notin Registry
  BY <1>1 DEF SanitizeInputs
<1>2. CASE model \in Registry
  <2>1. \A f \in Layout : f \in Loader /\ f \notin {"model", "custom_model_id", "task", "gpu_device_ids"}
    BY DEF Layout, Degrees, Loader
  <2>2. \A f \in Layout :
          SanitizeInputs(model, k)[f] = IF f \notin Supports[model] THEN WidgetDefault[f] ELSE k[f]
    BY <1>2, <2>1 DEF SanitizeInputs
  <2>3. \A f \in {"model", "custom_model_id", "gpu_device_ids"} : SanitizeInputs(model, k)[f] = k[f]
    BY <1>2 DEF SanitizeInputs, Loader, Layout, Degrees
  <2>4. DOMAIN SanitizeInputs(model, k) = Loader
    BY <1>2 DEF SanitizeInputs
  <2> QED
    BY <1>2, <2>2, <2>3, <2>4, DefaultType
<1> QED
  BY <1>1, <1>2

(* What holds of hooked inputs: well typed, for a model of their own, which *)
(* takes their layout.                                                      *)
LEMMA HookedType ==
  ASSUME prompt \in Prompts, Hooked
  PROVE  /\ DOMAIN inputs = Loader
         /\ \A f \in Layout : inputs[f] \in LayoutValue(f)
         /\ \A f \in {"model", "custom_model_id", "gpu_device_ids"} :
              inputs[f] = Filled(prompt.inputs)[f]
         /\ Chosen(inputs) = Chosen(Filled(prompt.inputs))
         /\ \A f \in Layout : /\ Chosen(inputs) # Absent
                              /\ Chosen(inputs) \in Registry
                              /\ f \notin Supports[Chosen(inputs)]
                              => inputs[f] = WidgetDefault[f]
<1> DEFINE k == Filled(prompt.inputs)
<1>1. DOMAIN k = Loader /\ \A f \in Layout : k[f] \in LayoutValue(f)
  BY FilledType
<1>2. CASE Chosen(k) # Absent
  <2>1. inputs = SanitizeInputs(Chosen(k), k)
    BY <1>2 DEF Hooked
  <2>2. /\ DOMAIN inputs = Loader
        /\ \A f \in Layout : inputs[f] \in LayoutValue(f)
        /\ \A f \in {"model", "custom_model_id", "gpu_device_ids"} : inputs[f] = k[f]
        /\ \A f \in Layout : Chosen(k) \in Registry /\ f \notin Supports[Chosen(k)] =>
             inputs[f] = WidgetDefault[f]
    BY <1>1, <2>1, SanitizedType
  <2>3. Chosen(inputs) = Chosen(k)
    BY <2>2 DEF Chosen
  <2> QED
    BY <2>2, <2>3
<1>3. CASE Chosen(k) = Absent
  BY <1>1, <1>3 DEF Hooked
<1> QED
  BY <1>2, <1>3
-----------------------------------------------------------------------------
(* What is filled from a matched preset has a device list of its length,    *)
(* unless that list comes from another node.                                *)
LEMMA DevicesSynced ==
  ASSUME prompt \in Prompts, LinkedSpec(prompt.preset).matched,
         Filled(prompt.inputs)["gpu_device_ids"] # Wired
  PROVE  ~NeedsSync(Filled(prompt.inputs)["gpu_device_ids"],
                    LinkedSpec(prompt.preset).gpu_count)
<1> DEFINE k == prompt.inputs
           spec == LinkedSpec(prompt.preset)
           n == spec.gpu_count
<1>1. n \in Nat \ {0}
  BY LinkedIsBuilt, SpecType DEF Unmatched
<1>2. /\ "gpu_device_ids" \in Loader
      /\ "gpu_device_ids" \notin Layout
  BY DEF Loader, Layout, Degrees
<1>3. PresetBase(spec)["gpu_device_ids"] = DefaultDevices(n)
  BY <1>2 DEF PresetBase
<1>4. Filled(k)["gpu_device_ids"] =
        IF k["gpu_device_ids"] # Wired /\ NeedsSync(k["gpu_device_ids"], n)
        THEN DefaultDevices(n) ELSE k["gpu_device_ids"]
  BY <1>2, <1>3 DEF Filled, FillFromPreset
<1>5. Len(DefaultDevices(n)) = n /\ DefaultDevices(n) # Absent
  <2>1. DefaultDevices(n) \in Seq(Nat)
    BY <1>1 DEF DefaultDevices
  <2>2. Len(DefaultDevices(n)) = n
    BY <1>1 DEF DefaultDevices
  <2> QED
    BY <2>1, <2>2, ModelsAssumption
<1> QED
  BY <1>4, <1>5 DEF NeedsSync

(* What Repair and the preset leave alone of filled inputs. *)
LEMMA RepairKeeps ==
  ASSUME NEW spec, NEW k, DOMAIN k = Loader, NEW f \in Loader,
         f \notin {"model", "custom_model_id", "task"}
  PROVE  Repair(spec, k)[f] = k[f]
  BY DEF Repair

LEMMA FillKeeps ==
  ASSUME NEW spec, NEW k, DOMAIN k = Loader, NEW f \in Layout, k[f] # Absent
  PROVE  FillFromPreset(spec, k)[f] = k[f]
<1>1. f \in Loader /\ f # "gpu_device_ids"
  BY DEF Layout, Degrees, Loader
<1> QED
  BY <1>1 DEF FillFromPreset

LEMMA FillDomain ==
  ASSUME NEW spec, NEW k, DOMAIN k = Loader
  PROVE  DOMAIN FillFromPreset(spec, k) = Loader
  BY DEF FillFromPreset

(* The run that takes the model it was accepted for has the layout it was   *)
(* accepted with.                                                           *)
LEMMA SettledLayout ==
  ASSUME prompt \in Prompts, Hooked, Accepts, NEW devices,
         NEW k, k = Repair(ExecutedSpec, FillFromPreset(ExecutedSpec, Arrived(devices))),
         Chosen(k) = Chosen(inputs)
  PROVE  /\ \A f \in Layout : SanitizeRuntime(Chosen(k), k)[f] = inputs[f]
         /\ Nproc(SanitizeRuntime(Chosen(k), k)) = Nproc(inputs)
         /\ WorldFits(SanitizeRuntime(Chosen(k), k)) <=> WorldFits(inputs)
<1> DEFINE a == Arrived(devices)
           b == FillFromPreset(ExecutedSpec, a)
<1>1. /\ DOMAIN inputs = Loader
      /\ \A f \in Layout : inputs[f] \in LayoutValue(f)
      /\ \A f \in Layout : /\ Chosen(inputs) # Absent
                           /\ Chosen(inputs) \in Registry
                           /\ f \notin Supports[Chosen(inputs)]
                           => inputs[f] = WidgetDefault[f]
  BY HookedType
<1>2. \A f \in Layout : /\ f \in Loader
                       /\ f \notin {"model", "custom_model_id", "task", "gpu_device_ids"}
  BY DEF Layout, Degrees, Loader
<1>3. DOMAIN a = Loader /\ \A f \in Layout : a[f] = inputs[f]
  BY <1>1, <1>2 DEF Arrived
<1>4. \A f \in Layout : a[f] # Absent
  BY <1>1, <1>3, ModelsAssumption DEF LayoutValue
<1>5. DOMAIN b = Loader /\ \A f \in Layout : b[f] = inputs[f]
  BY <1>3, <1>4, FillKeeps, FillDomain
<1>6. \A f \in Layout : k[f] = inputs[f]
  BY <1>2, <1>5, RepairKeeps
<1>7. Chosen(inputs) # Absent
  BY ModelsAssumption DEF Accepts, Chosen
<1>8. \A f \in Layout : SanitizeRuntime(Chosen(k), k)[f] = inputs[f]
  BY <1>1, <1>6, <1>7 DEF SanitizeRuntime
<1> QED
  BY <1>8, NprocOfLayout

LEMMA AcceptedRuns ==
  ASSUME prompt \in Prompts, Hooked, Accepts, inputs["gpu_device_ids"] # Wired,
         NEW k, k = Repair(ExecutedSpec,
                           FillFromPreset(ExecutedSpec, Arrived(inputs["gpu_device_ids"]))),
         Chosen(k) = Chosen(inputs),
         NEW layout, layout = SanitizeRuntime(Chosen(k), k)
  PROVE  LayoutRuns(ExecutedSpec, layout, DevicesOf(k["gpu_device_ids"], Nproc(layout)))
<1> DEFINE ids == inputs["gpu_device_ids"]
           spec == LinkedSpec(prompt.preset)
           a == Arrived(ids)
           n == Nproc(inputs)
<1>1. Nproc(layout) = n /\ (WorldFits(layout) <=> WorldFits(inputs))
  BY SettledLayout
<1>2. ExecutedSpec = spec
  BY SameSpec DEF Accepts
<1>3. /\ DOMAIN inputs = Loader
      /\ \A f \in Layout : inputs[f] \in LayoutValue(f)
      /\ ids = Filled(prompt.inputs)["gpu_device_ids"]
  BY HookedType
<1>4. spec.matched => ~NeedsSync(ids, spec.gpu_count)
  BY <1>3, DevicesSynced
<1>5. k["gpu_device_ids"] = ids
  <2>1. "gpu_device_ids" \in Loader
    BY DEF Loader
  <2>2. DOMAIN a = Loader /\ a["gpu_device_ids"] = ids
    BY <1>3, <2>1 DEF Arrived
  <2>3. FillFromPreset(spec, a)["gpu_device_ids"] = ids
    BY <1>4, <2>1, <2>2 DEF FillFromPreset
  <2> QED
    BY <1>2, <2>1, <2>2, <2>3, FillDomain, RepairKeeps
<1>6. WorldFits(inputs) /\ DevicesFit(DevicesOf(ids, n), n)
  BY DEF Accepts, LayoutAccepts
<1>7. n \in Nat \ {0}
  BY <1>3, NprocType
<1>8. spec.matched => spec.gpu_count = n
  BY <1>4, <1>6 DEF NeedsSync, DevicesFit, DevicesOf
<1>9. Visible > 0 => n <= Visible
  BY <1>6, <1>7, PresetsAssumption DEF WorldFits
<1> QED
  BY <1>1, <1>2, <1>5, <1>6, <1>8, <1>9 DEF LayoutRuns

-----------------------------------------------------------------------------
(* The inductive invariant: the inputs are what the hook made of the posted *)
(* ones, and the graph that runs was accepted with them.                    *)
PathInv ==
  /\ prompt \in Prompts
  /\ at = "posted" => inputs = prompt.inputs
  /\ at # "posted" => Hooked
  /\ at \in {"started", "task", "layout", "ready", "sampled"} => Accepts
  /\ at \in {"posted", "queued"} => run = Absent

LEMMA PathInvInit == Init => PathInv
  BY DEF Init, PathInv

LEMMA PathInvStep == PathInv /\ [Next]_vars => PathInv'
<1> SUFFICES ASSUME PathInv, [Next]_vars
             PROVE  PathInv'
  OBVIOUS
<1>1. CASE Hook
  <2>1. Hooked'
    BY <1>1 DEF Hook, Hooked, Filled, PathInv
  <2> QED
    BY <1>1, <2>1 DEF Hook, PathInv
<1>2. CASE HookRaises
  <2>1. Hooked'
    BY <1>2 DEF HookRaises, Hooked, Filled, PathInv
  <2> QED
    BY <1>2, <2>1 DEF HookRaises, PathInv
<1> DEFINE Stays == UNCHANGED <<prompt, inputs>>
<1>3. Stays => Hooked' = Hooked /\ Accepts' = Accepts
  BY DEF Hooked, Filled, Accepts
<1>4. CASE Validate
  BY <1>3, <1>4 DEF Validate, PathInv
<1>5. ASSUME NEW d \in DeviceLists \cup {inputs["gpu_device_ids"]}, Execute(d)
      PROVE  PathInv'
  <2>1. at' \in {"task", "layout", "ready"} /\ at = "started" /\ Stays
    BY <1>5 DEF Execute
  <2> QED
    BY <1>3, <2>1 DEF PathInv
<1>6. CASE Sample
  BY <1>3, <1>6 DEF Sample, PathInv
<1>7. CASE UNCHANGED vars
  BY <1>3, <1>7 DEF vars, PathInv
<1> QED
  BY <1>1, <1>2, <1>4, <1>5, <1>6, <1>7 DEF Next

THEOREM PathInvThm == Spec => []PathInv
  BY PathInvInit, PathInvStep, PTL DEF Spec

(* A layout accepted on screen does not fail the run: not for any presets,  *)
(* models and prompts, unless the device list is another node's or the run  *)
(* takes another model (validate_inputs of the Model node, nodes.py).       *)
THEOREM AcceptedLayoutRunsThm == Spec => []AcceptedLayoutRuns
<1>1. Init => AcceptedLayoutRuns
  BY DEF Init, AcceptedLayoutRuns
<1>2. PathInv /\ AcceptedLayoutRuns /\ [Next]_vars => AcceptedLayoutRuns'
  <2> SUFFICES ASSUME PathInv, AcceptedLayoutRuns, [Next]_vars
               PROVE  AcceptedLayoutRuns'
    OBVIOUS
  <2>1. ASSUME NEW d \in DeviceLists \cup {inputs["gpu_device_ids"]}, Execute(d)
        PROVE  AcceptedLayoutRuns'
    <3> DEFINE k == Repair(ExecutedSpec, FillFromPreset(ExecutedSpec, Arrived(d)))
               layout == SanitizeRuntime(Chosen(k), k)
    <3>1. /\ at = "started" /\ inputs' = inputs
          /\ inputs["gpu_device_ids"] # Wired => d = inputs["gpu_device_ids"]
          /\ run'.model = Chosen(k)
          /\ at' = "layout" => ~LayoutRuns(ExecutedSpec, layout,
                                          DevicesOf(k["gpu_device_ids"], Nproc(layout)))
      BY <2>1 DEF Execute
    <3>2. prompt \in Prompts /\ Hooked /\ Accepts
      BY <3>1 DEF PathInv
    <3>3. /\ inputs["gpu_device_ids"] # Wired /\ Chosen(k) = Chosen(inputs)
          => LayoutRuns(ExecutedSpec, layout, DevicesOf(k["gpu_device_ids"], Nproc(layout)))
      BY <3>1, <3>2, AcceptedRuns
    <3>4. Chosen(inputs)' = Chosen(inputs)
      BY <3>1 DEF Chosen
    <3> QED
      BY <3>1, <3>3, <3>4 DEF AcceptedLayoutRuns
  <2>2. CASE UNCHANGED vars
    BY <2>2 DEF vars, AcceptedLayoutRuns, Chosen
  <2>3. CASE Hook \/ HookRaises \/ Validate \/ Sample
    BY <2>3 DEF Hook, HookRaises, Validate, Sample, AcceptedLayoutRuns
  <2> QED
    BY <2>1, <2>2, <2>3 DEF Next
<1> QED
  BY <1>1, <1>2, PathInvThm, PTL DEF Spec

-----------------------------------------------------------------------------
(* What the Model node runs with, from what arrives there. *)
Settled(d) == Repair(ExecutedSpec, FillFromPreset(ExecutedSpec, Arrived(d)))

(* The posted model is still there when the node runs. *)
LEMMA OwnModelArrives ==
  ASSUME prompt \in Prompts, Hooked, NEW d, prompt.inputs["model"] # Absent
  PROVE  /\ DOMAIN Arrived(d) = Loader
         /\ Arrived(d)["model"] = prompt.inputs["model"]
         /\ Arrived(d)["custom_model_id"] = Absent
<1>1. "model" \in Loader /\ "custom_model_id" \in Loader
      /\ "model" \notin Layout
  BY DEF Loader, Layout, Degrees
<1>2. DOMAIN inputs = Loader /\ inputs["model"] = Filled(prompt.inputs)["model"]
  BY HookedType
<1>3. Filled(prompt.inputs)["model"] = prompt.inputs["model"]
  BY <1>1 DEF Filled, FillFromPreset
<1> QED
  BY <1>1, <1>2, <1>3 DEF Arrived

(* The model that runs is the node's, or the preset's for a reason. *)
LEMMA ModelSettled ==
  ASSUME prompt \in Prompts, Hooked, Accepts, NEW d,
         NEW own, own = prompt.inputs["model"], own # Absent,
         Chosen(Settled(d)) # own
  PROVE  LET spec == LinkedSpec(prompt.preset)
         IN  /\ spec.matched /\ Chosen(Settled(d)) = spec.model
             /\ Versioned(spec) \/ spec.task \notin Tasks[own] \cup {Absent}
<1> DEFINE spec == LinkedSpec(prompt.preset)
           a == Arrived(d)
           b == FillFromPreset(spec, a)
           base == PresetBase(spec)
<1>1. Settled(d) = Repair(spec, b)
  BY SameSpec DEF Settled, Accepts
<1>2. /\ DOMAIN a = Loader /\ a["model"] = own /\ a["custom_model_id"] = Absent
  BY OwnModelArrives
<1>3. own \in Registry
  BY PromptsAssumption
<1>4. /\ {"model", "custom_model_id", "task"} \subseteq Loader
      /\ \A f \in {"model", "custom_model_id", "task"} : f \notin Layout /\ f # "gpu_device_ids"
  BY DEF Loader, Layout, Degrees
<1>5. CASE ~spec.matched
  <2>1. b = a
    BY <1>5 DEF FillFromPreset
  <2>2. Settled(d) = a
    BY <1>1, <1>5, <2>1 DEF Repair
  <2> QED
    BY <1>2, <2>2 DEF Chosen
<1>6. CASE spec.matched
  <2>1. spec.model # Absent
    BY <1>6, LinkedIsBuilt, SpecType DEF Unmatched
  <2>2. /\ base["model"] = spec.choice /\ base["task"] = spec.task
        /\ base["custom_model_id"] = IF Versioned(spec) THEN spec.model ELSE Absent
    BY <1>4, <1>6 DEF PresetBase, Versioned
  <2>3. /\ DOMAIN b = Loader /\ b["model"] = own
        /\ b["custom_model_id"] = base["custom_model_id"]
    BY <1>2, <1>4, <1>6 DEF FillFromPreset
  <2>4. \/ Chosen(Settled(d)) = Chosen(b)
        \/ /\ b["task"] = spec.task /\ b["task"] # Absent
           /\ ResolvedTask(Chosen(b), b["task"]) = {}
           /\ Chosen(Settled(d)) = IF Versioned(spec) THEN spec.model ELSE spec.choice
    BY <1>1, <1>4, <2>1, <2>2, <2>3 DEF Repair, Chosen
  <2>5. CASE Versioned(spec)
    <3>1. Chosen(b) = spec.model
      BY <2>1, <2>2, <2>3, <2>5 DEF Chosen
    <3> QED
      BY <1>6, <2>4, <2>5, <3>1
  <2>6. CASE ~Versioned(spec)
    <3>1. Chosen(b) = own
      BY <2>2, <2>3, <2>6 DEF Chosen
    <3>2. spec.choice = spec.model
      BY <1>6, <2>6 DEF Versioned
    <3>3. spec.task \notin Tasks[own] \cup {Absent}
      BY <1>3, <2>4, <3>1 DEF ResolvedTask
    <3> QED
      BY <1>6, <2>4, <2>6, <3>1, <3>2, <3>3
  <2> QED
    BY <2>5, <2>6
<1> QED
  BY <1>5, <1>6

(* Sanitizing for a model that takes a field leaves that field as posted. *)
LEMMA PostedLayout ==
  ASSUME prompt \in Prompts, Hooked, Accepts, NEW f \in Layout, prompt.inputs[f] # Absent,
         Chosen(inputs) \in Registry => f \in Supports[Chosen(inputs)]
  PROVE  inputs[f] = prompt.inputs[f]
<1> DEFINE k == Filled(prompt.inputs)
<1>1. f \in Loader /\ f \notin {"model", "custom_model_id", "task", "gpu_device_ids"}
  BY DEF Layout, Degrees, Loader
<1>2. k[f] = prompt.inputs[f]
  BY <1>1 DEF Filled, FillFromPreset
<1>3. Chosen(inputs) = Chosen(k)
  BY HookedType
<1>4. inputs[f] = k[f]
  <2>1. CASE Chosen(k) = Absent
    BY <2>1 DEF Hooked
  <2>2. CASE Chosen(k) # Absent
    <3>1. inputs = SanitizeInputs(Chosen(k), k)
      BY <2>2 DEF Hooked
    <3> QED
      BY <3>1, <1>1, <1>3 DEF SanitizeInputs
  <2> QED
    BY <2>1, <2>2
<1> QED
  BY <1>2, <1>4

(* The node's own settings win over its preset's, for all presets, models   *)
(* and prompts (_merge_loader_kwargs, runtime_config.py).                   *)
THEOREM NodeWinsThm == Spec => []NodeWins
<1>1. Init => NodeWins
  BY DEF Init, NodeWins
<1>2. PathInv /\ NodeWins /\ [Next]_vars => NodeWins'
  <2> SUFFICES ASSUME PathInv, NodeWins, [Next]_vars
               PROVE  NodeWins'
    OBVIOUS
  <2>1. ASSUME NEW d \in DeviceLists \cup {inputs["gpu_device_ids"]}, Execute(d)
        PROVE  NodeWins'
    <3>1. /\ at = "started" /\ inputs' = inputs /\ prompt' = prompt
          /\ run'.model = Chosen(Settled(d))
          /\ run'.layout = SanitizeRuntime(Chosen(Settled(d)), Settled(d))
      BY <2>1 DEF Execute, Settled
    <3>2. prompt \in Prompts /\ Hooked /\ Accepts
      BY <3>1 DEF PathInv
    <3>3. ASSUME prompt.inputs["model"] # Absent, run'.model # prompt.inputs["model"]
          PROVE  LET spec == LinkedSpec(prompt.preset)
                 IN  /\ spec.matched /\ run'.model = spec.model
                     /\ \/ Versioned(spec)
                        \/ spec.task \notin Tasks[prompt.inputs["model"]] \cup {Absent}
      BY <3>1, <3>2, <3>3, ModelSettled
    <3>4. ASSUME NEW f \in Layout, prompt.inputs[f] # Absent,
                 run'.model = Chosen(inputs),
                 run'.model \in Registry => f \in Supports[run'.model]
          PROVE  run'.layout[f] = prompt.inputs[f]
      <4>1. run'.layout[f] = inputs[f]
        BY <3>1, <3>2, <3>4, SettledLayout DEF Settled
      <4>2. inputs[f] = prompt.inputs[f]
        BY <3>2, <3>4, PostedLayout
      <4> QED
        BY <4>1, <4>2
    <3>5. LinkedSpec(prompt.preset)' = LinkedSpec(prompt.preset) /\ Chosen(inputs)' = Chosen(inputs)
      BY <3>1
    <3> QED
      BY <3>1, <3>3, <3>4, <3>5 DEF NodeWins
  <2>2. CASE UNCHANGED vars
    BY <2>2 DEF vars, NodeWins
  <2>3. CASE Hook \/ HookRaises \/ Validate
    <3>1. run' = run /\ (at = "posted" \/ inputs' = inputs) /\ prompt' = prompt
      BY <2>3 DEF Hook, HookRaises, Validate
    <3>2. at \in {"posted", "queued"}
      BY <2>3 DEF Hook, HookRaises, Validate
    <3> QED
      BY <3>1, <3>2 DEF NodeWins, PathInv
  <2>4. CASE Sample
    BY <2>4 DEF Sample, NodeWins
  <2> QED
    BY <2>1, <2>2, <2>3, <2>4 DEF Next
<1> QED
  BY <1>1, <1>2, PathInvThm, PTL DEF Spec

(* The same of the next state. *)
LEMMA HookedTypeNext ==
  (prompt \in Prompts /\ Hooked)' =>
    (DOMAIN inputs = Loader /\ \A f \in Layout : inputs[f] \in LayoutValue(f))'
<1>1. prompt \in Prompts /\ Hooked =>
        DOMAIN inputs = Loader /\ \A f \in Layout : inputs[f] \in LayoutValue(f)
  BY HookedType
<1> QED
  BY <1>1, PTL

-----------------------------------------------------------------------------
(* Sizes stay natural numbers. *)
LEMMA RoundedType ==
  ASSUME NEW v \in Nat, NEW step \in Nat \ {0}
  PROVE  RoundedTo(v, step) \in Nat
<1>1. v \div step \in Nat
  OBVIOUS
<1>2. \A a, b \in Nat : a * b \in Nat
  OBVIOUS
<1>3. step * (v \div step) \in Nat /\ step * (v \div step + 1) \in Nat
  BY <1>1, <1>2
<1> QED
  BY <1>3, Zenon DEF RoundedTo

LEMMA SampleSizeType ==
  ASSUME NEW node, NEW v \in Nat \cup {Absent}
  PROVE  SampleSize(LinkedSpec(node), v) \in Nat
<1> DEFINE spec == LinkedSpec(node)
           default == IF spec.matched /\ spec.size # Absent THEN spec.size ELSE 1024
           w == IF v = Absent THEN 0 ELSE v
<1>1. default \in Nat
  <2>1. CASE spec.matched
    <3>1. node # NoPreset /\ spec = BuildSpec(node.preset, node.tag)
      BY <2>1, LinkedIsBuilt DEF Unmatched
    <3>2. node.preset \in DOMAIN Presets /\ spec.size = Presets[node.preset].size
      BY <2>1, <3>1 DEF BuildSpec, Unmatched
    <3> QED
      BY <3>2, PresetsAssumption
  <2> QED
    BY <2>1
<1>2. w \in Nat
  OBVIOUS
<1>3. \A x \in Nat : AlignSize(x) \in Nat
  <2> SUFFICES ASSUME NEW x \in Nat
               PROVE  AlignSize(x) \in Nat
    OBVIOUS
  <2>1. RoundedTo(x, Grid) \in Nat
    BY RoundedType DEF Grid
  <2> QED
    BY <2>1 DEF AlignSize, Clamp, MinSize, MaxSize
<1>4. \E x \in Nat : CoerceSize(w, default) = AlignSize(x)
  BY <1>1, <1>2 DEF CoerceSize, MinSize
<1> QED
  BY <1>3, <1>4 DEF SampleSize

LEMMA ModelSizeType ==
  ASSUME NEW model, NEW v \in Nat
  PROVE  ModelSize(model, v) \in Nat
<1>1. CASE model \in Registry /\ Divisor[model] # 0
  <2>1. Divisor[model] \in Nat \ {0}
    BY <1>1, ModelsAssumption
  <2>2. RoundedTo(v, Divisor[model]) \in Nat
    BY <2>1, RoundedType
  <2> QED
    BY <1>1, <2>1, <2>2 DEF ModelSize
<1>2. CASE ~(model \in Registry /\ Divisor[model] # 0)
  BY <1>2 DEF ModelSize
<1> QED
  BY <1>1, <1>2

(* A graph without a model keeps the size as it was posted. *)
SizeInv ==
  /\ size \in Nat \cup {Absent}
  /\ at # "posted" => size \in Nat \/ Chosen(inputs) = Absent

LEMMA SizeInvStep == PathInv /\ SizeInv /\ [Next]_vars => SizeInv'
<1> SUFFICES ASSUME PathInv, SizeInv, [Next]_vars
             PROVE  SizeInv'
  OBVIOUS
<1>1. CASE Hook
  BY <1>1, SampleSizeType DEF Hook, SizeInv
<1>2. CASE HookRaises
  <2>1. inputs' = Filled(inputs) /\ Chosen(Filled(inputs)) = Absent
    BY <1>2 DEF HookRaises
  <2>2. Chosen(inputs)' = Absent
    BY <2>1 DEF Chosen
  <2> QED
    BY <1>2, <2>2, SampleSizeType DEF HookRaises, SizeInv
<1>3. CASE Validate
  BY <1>3 DEF Validate, SizeInv, Chosen
<1>4. ASSUME NEW d \in DeviceLists \cup {inputs["gpu_device_ids"]}, Execute(d)
      PROVE  SizeInv'
  BY <1>4 DEF Execute, SizeInv, Chosen
<1>5. CASE Sample
  <2>1. Accepts
    BY <1>5 DEF Sample, PathInv
  <2>2. Chosen(inputs) # Absent
    BY <2>1, ModelsAssumption DEF Accepts, Chosen
  <2>3. size \in Nat
    BY <1>5, <2>2 DEF Sample, SizeInv
  <2> QED
    BY <1>5, <2>3, ModelSizeType DEF Sample, SizeInv
<1>6. CASE UNCHANGED vars
  BY <1>6 DEF vars, SizeInv, Chosen
<1> QED
  BY <1>1, <1>2, <1>3, <1>4, <1>5, <1>6 DEF Next

(* The layout that runs is well typed. *)
LEMMA SettledType ==
  ASSUME prompt \in Prompts, Hooked, NEW d, NEW f \in Layout
  PROVE  SanitizeRuntime(Chosen(Settled(d)), Settled(d))[f] \in LayoutValue(f)
<1> DEFINE a == Arrived(d)
           b == FillFromPreset(ExecutedSpec, a)
<1>1. /\ DOMAIN inputs = Loader
      /\ \A g \in Layout : inputs[g] \in LayoutValue(g)
  BY HookedType
<1>2. \A g \in Layout : /\ g \in Loader
                       /\ g \notin {"model", "custom_model_id", "task", "gpu_device_ids"}
  BY DEF Layout, Degrees, Loader
<1>3. DOMAIN a = Loader /\ \A g \in Layout : a[g] = inputs[g]
  BY <1>1, <1>2 DEF Arrived
<1>4. \A g \in Layout : a[g] # Absent
  BY <1>1, <1>3, ModelsAssumption DEF LayoutValue
<1>5. DOMAIN b = Loader /\ b[f] = inputs[f]
  BY <1>3, <1>4, FillKeeps, FillDomain
<1>6. Settled(d)[f] = inputs[f]
  BY <1>2, <1>5, RepairKeeps DEF Settled
<1> QED
  BY <1>1, <1>6, DefaultType DEF SanitizeRuntime

(* The types, for every registry, preset collection and prompt. *)
THEOREM TypeOKThm == Spec => []TypeOK
<1>1. Init => SizeInv /\ TypeOK
  <2> SUFFICES ASSUME Init PROVE SizeInv /\ TypeOK
    OBVIOUS
  <2>1. size \in Nat \cup {Absent} /\ DOMAIN inputs = Loader
    BY PromptsAssumption DEF Init
  <2> QED
    BY <2>1 DEF Init, SizeInv, TypeOK
<1>2. PathInv /\ PathInv' /\ SizeInv' /\ TypeOK /\ [Next]_vars => TypeOK'
  <2> SUFFICES ASSUME PathInv, PathInv', SizeInv', TypeOK, [Next]_vars
               PROVE  TypeOK'
    OBVIOUS
  <2>1. size' \in Nat \cup {Absent}
    BY DEF SizeInv
  <2>2. CASE Hook \/ HookRaises
    <3>1. at' = "queued" /\ at = "posted" /\ run' = run /\ prompt' = prompt
      BY <2>2 DEF Hook, HookRaises
    <3>2. (prompt \in Prompts)' /\ Hooked'
      BY <3>1 DEF PathInv
    <3>3. (DOMAIN inputs = Loader)' /\ (\A f \in Layout : inputs[f] \in LayoutValue(f))'
      BY <3>2, HookedTypeNext
    <3> QED
      BY <2>1, <3>1, <3>3 DEF TypeOK
  <2>3. CASE Validate
    BY <2>1, <2>3 DEF Validate, TypeOK
  <2>4. ASSUME NEW d \in DeviceLists \cup {inputs["gpu_device_ids"]}, Execute(d)
        PROVE  TypeOK'
    <3>1. /\ at = "started" /\ inputs' = inputs /\ at' \in {"task", "layout", "ready"}
          /\ run'.layout = SanitizeRuntime(Chosen(Settled(d)), Settled(d))
      BY <2>4 DEF Execute, Settled
    <3>2. \A f \in Layout : run'.layout[f] \in LayoutValue(f)
      BY <3>1, SettledType DEF PathInv
    <3> QED
      BY <2>1, <3>1, <3>2 DEF TypeOK
  <2>5. CASE Sample
    BY <2>1, <2>5 DEF Sample, TypeOK
  <2>6. CASE UNCHANGED vars
    BY <2>6 DEF vars, TypeOK
  <2> QED
    BY <2>2, <2>3, <2>4, <2>5, <2>6 DEF Next
<1> QED
  BY <1>1, <1>2, SizeInvStep, PathInvThm, PTL DEF Spec
-----------------------------------------------------------------------------
(* A hook that runs drops what another model left over. *)
LEMMA TaskSanitized ==
  ASSUME NEW model \in Registry, NEW task
  PROVE  SanitizedTask(model, task) \in Tasks[model] \cup {Absent}
<1>1. IsFiniteSet(Tasks[model])
  BY ModelsAssumption
<1>2. Cardinality(Tasks[model]) = 1 => (CHOOSE t \in Tasks[model] : TRUE) \in Tasks[model]
  <2>1. Cardinality(Tasks[model]) = 1 => Tasks[model] # {}
    BY <1>1, FS_EmptySet
  <2> QED
    BY <2>1
<1> QED
  BY <1>2 DEF SanitizedTask

LEMMA HookedTask ==
  ASSUME prompt \in Prompts, Hooked, Chosen(inputs) \in Registry
  PROVE  inputs["task"] \in Tasks[Chosen(inputs)] \cup {Absent}
<1> DEFINE k == Filled(prompt.inputs)
<1>1. Chosen(inputs) = Chosen(k) /\ Chosen(k) # Absent
  BY HookedType, ModelsAssumption
<1>2. inputs = SanitizeInputs(Chosen(inputs), k)
  BY <1>1 DEF Hooked
<1>3. "task" \in Loader /\ "task" \notin Layout
  BY DEF Loader, Layout, Degrees
<1>4. ASSUME NEW m \in Registry
      PROVE  SanitizeInputs(m, k)["task"] = SanitizedTask(m, k["task"])
  BY <1>3 DEF SanitizeInputs
<1>5. inputs["task"] = SanitizedTask(Chosen(inputs), k["task"])
  BY <1>2, <1>4
<1> QED
  BY <1>5, TaskSanitized

(* A task in hand is one the model can take, or there is none to take it. *)
LEMMA NoTaskLeft ==
  ASSUME NEW model, NEW task, ResolvedTask(model, task) = {}
  PROVE  /\ model \in Registry
         /\ task = Absent => Cardinality(Tasks[model]) > 1
         /\ task # Absent => task \notin Tasks[model]
<1>1. model \in Registry
  BY DEF ResolvedTask
<1>2. IsFiniteSet(Tasks[model]) /\ Absent \notin Tasks[model]
  BY <1>1, ModelsAssumption
<1>3. task = Absent => Tasks[model] # {} /\ Cardinality(Tasks[model]) # 1
  BY <1>1 DEF ResolvedTask
<1>4. Cardinality(Tasks[model]) \in Nat /\ (Cardinality(Tasks[model]) = 0 <=> Tasks[model] = {})
  BY <1>2, FS_CardinalityType, FS_EmptySet
<1>5. task # Absent => task \notin Tasks[model]
  BY <1>1 DEF ResolvedTask
<1> QED
  BY <1>1, <1>3, <1>4, <1>5

(* What arrives at an accepted node and is filled from its preset once more has *)
(* the model the hook has sanitized for.                                        *)
LEMMA SameModelFilled ==
  ASSUME prompt \in Prompts, Hooked, Accepts, NEW d
  PROVE  LET spec == LinkedSpec(prompt.preset)
             b == FillFromPreset(spec, Arrived(d))
         IN  /\ DOMAIN b = Loader /\ Chosen(b) = Chosen(inputs)
             /\ b["task"] = IF spec.matched /\ inputs["task"] = Absent THEN spec.task ELSE inputs["task"]
             /\ spec.matched => b["custom_model_id"] = PresetBase(spec)["custom_model_id"]
<1> DEFINE spec == LinkedSpec(prompt.preset)
           a == Arrived(d)
           b == FillFromPreset(spec, a)
           k == Filled(prompt.inputs)
<1>1. /\ {"model", "custom_model_id", "task"} \subseteq Loader
      /\ \A f \in {"model", "custom_model_id", "task"} : f \notin Layout /\ f # "gpu_device_ids"
  BY DEF Loader, Layout, Degrees
<1>2. /\ DOMAIN inputs = Loader /\ inputs["model"] = k["model"]
      /\ inputs["custom_model_id"] = k["custom_model_id"]
  BY HookedType
<1>3. inputs["model"] # Absent
  BY ModelsAssumption DEF Accepts
<1>4. /\ DOMAIN a = Loader /\ a["model"] = inputs["model"] /\ a["task"] = inputs["task"]
      /\ a["custom_model_id"] = Absent
  BY <1>1, <1>2 DEF Arrived
<1>5. prompt.inputs["custom_model_id"] = Absent
  BY PromptsAssumption
<1>6. CASE ~spec.matched
  <2>1. k["custom_model_id"] = Absent
    BY <1>1, <1>5, <1>6 DEF Filled, FillFromPreset
  <2>2. b = a
    BY <1>6 DEF FillFromPreset
  <2> QED
    BY <1>2, <1>4, <1>6, <2>1, <2>2 DEF Chosen
<1>7. CASE spec.matched
  <2>1. k["custom_model_id"] = PresetBase(spec)["custom_model_id"]
    BY <1>1, <1>5, <1>7 DEF Filled, FillFromPreset
  <2>2. /\ b["custom_model_id"] = PresetBase(spec)["custom_model_id"] /\ b["model"] = a["model"]
        /\ b["task"] = IF a["task"] = Absent THEN PresetBase(spec)["task"] ELSE a["task"]
        /\ DOMAIN b = Loader
    BY <1>1, <1>3, <1>4, <1>7 DEF FillFromPreset
  <2>3. PresetBase(spec)["task"] = spec.task
    BY <1>1 DEF PresetBase
  <2> QED
    BY <1>2, <1>4, <1>7, <2>1, <2>2, <2>3 DEF Chosen
<1> QED
  BY <1>6, <1>7

LEMMA TaskSettled ==
  ASSUME prompt \in Prompts, Hooked, Accepts, NEW d,
         ResolvedTask(Chosen(Settled(d)), Settled(d)["task"]) = {}
  PROVE  /\ Settled(d)["task"] = Absent /\ Chosen(Settled(d)) \in Registry
         /\ Cardinality(Tasks[Chosen(Settled(d))]) > 1
<1> DEFINE spec == LinkedSpec(prompt.preset)
           b == FillFromPreset(spec, Arrived(d))
           k == Settled(d)
<1>1. k = Repair(spec, b)
  BY SameSpec DEF Settled, Accepts
<1>2. /\ DOMAIN b = Loader /\ Chosen(b) = Chosen(inputs)
      /\ b["task"] = IF spec.matched /\ inputs["task"] = Absent THEN spec.task ELSE inputs["task"]
      /\ spec.matched => b["custom_model_id"] = PresetBase(spec)["custom_model_id"]
  BY SameModelFilled
<1>3. {"model", "custom_model_id", "task"} \subseteq Loader
  BY DEF Loader
<1>4. /\ Chosen(k) \in Registry
      /\ k["task"] = Absent => Cardinality(Tasks[Chosen(k)]) > 1
      /\ k["task"] # Absent => k["task"] \notin Tasks[Chosen(k)]
  BY NoTaskLeft
<1>5. Chosen(inputs) \in Registry => inputs["task"] \in Tasks[Chosen(inputs)] \cup {Absent}
  BY HookedTask
<1>6. SUFFICES ASSUME k["task"] # Absent PROVE FALSE
  BY <1>4
(* Repair leaves it alone: then the task is the node's own, or the preset's. *)
<1>7. ASSUME k = b PROVE b["task"] = spec.task /\ spec.matched /\ ResolvedTask(Chosen(b), b["task"]) = {}
  BY <1>2, <1>4, <1>5, <1>6, <1>7
<1>8. CASE spec.matched /\ b["task"] = spec.task
  <2>1. ResolvedTask(Chosen(b), b["task"]) = {} /\ b["task"] # Absent
    BY <1>1, <1>6, <1>7, <1>8 DEF Repair
  <2>2. k = [b EXCEPT !["model"] = spec.choice, !["custom_model_id"] = PresetBase(spec)["custom_model_id"]]
    BY <1>1, <1>8, <2>1 DEF Repair
  <2>3. /\ PresetBase(spec)["custom_model_id"] = IF spec.model # spec.choice THEN spec.model ELSE Absent
        /\ k["custom_model_id"] = PresetBase(spec)["custom_model_id"]
        /\ k["model"] = spec.choice /\ k["task"] = spec.task
    BY <1>2, <1>3, <1>8, <2>2 DEF PresetBase, Layout, Degrees
  <2>4. spec.model # Absent
    BY <1>8, LinkedIsBuilt, SpecType DEF Unmatched
  <2>5. Chosen(k) = spec.model
    BY <2>3, <2>4 DEF Chosen
  <2>6. PICK n \in DOMAIN Presets : spec.model = Presets[n].model /\ spec.task = Presets[n].task
    BY <1>8, LinkedIsBuilt DEF BuildSpec, Unmatched
  <2>7. spec.model \in Registry => spec.task \in Tasks[spec.model]
    BY <1>6, <2>3, <2>6, PresetTasksAssumption
  <2> QED
    BY <1>4, <1>6, <2>3, <2>5, <2>7
<1>9. CASE ~(spec.matched /\ b["task"] = spec.task)
  <2>1. k # b
    BY <1>7, <1>9
  <2>2. k = [b EXCEPT !["task"] = Absent]
    BY <1>1, <1>9, <2>1 DEF Repair
  <2> QED
    BY <1>2, <1>3, <1>6, <2>2
<1> QED
  BY <1>8, <1>9

(* A task left over from another model fails no run, whatever the presets, the *)
(* models and their tasks are (_sanitize_loader_task, prompt_hooks.py, and      *)
(* _repair_loader_model_choice, runtime_config.py).                             *)
THEOREM StaleTaskIsDroppedThm == Spec => []StaleTaskIsDropped
<1>1. Init => StaleTaskIsDropped
  BY DEF Init, StaleTaskIsDropped
<1>2. PathInv /\ StaleTaskIsDropped /\ [Next]_vars => StaleTaskIsDropped'
  <2> SUFFICES ASSUME PathInv, StaleTaskIsDropped, [Next]_vars
               PROVE  StaleTaskIsDropped'
    OBVIOUS
  <2>1. ASSUME NEW d \in DeviceLists \cup {inputs["gpu_device_ids"]}, Execute(d)
        PROVE  StaleTaskIsDropped'
    <3>1. /\ at = "started"
          /\ run'.model = Chosen(Settled(d)) /\ run'.task = Settled(d)["task"]
          /\ at' = "task" => ResolvedTask(Chosen(Settled(d)), Settled(d)["task"]) = {}
      BY <2>1 DEF Execute, Settled
    <3>2. prompt \in Prompts /\ Hooked /\ Accepts
      BY <3>1 DEF PathInv
    <3> QED
      BY <3>1, <3>2, TaskSettled DEF StaleTaskIsDropped
  <2>2. CASE UNCHANGED vars
    BY <2>2 DEF vars, StaleTaskIsDropped
  <2>3. CASE Hook \/ HookRaises \/ Validate \/ Sample
    BY <2>3 DEF Hook, HookRaises, Validate, Sample, StaleTaskIsDropped
  <2> QED
    BY <2>1, <2>2, <2>3 DEF Next
<1> QED
  BY <1>1, <1>2, PathInvThm, PTL DEF Spec

-----------------------------------------------------------------------------
(* The first n devices are n devices. *)
LEMMA DefaultDevicesFit ==
  ASSUME NEW n \in Nat \ {0}, Visible > 0 => n <= Visible
  PROVE  /\ DevicesFit(DefaultDevices(n), n) /\ Len(DefaultDevices(n)) = n
         /\ DefaultDevices(n) \notin {Absent, Wired}
<1> DEFINE ids == DefaultDevices(n)
<1>1. ids = [i \in 1..n |-> i - 1] /\ ids \in Seq(Nat)
  BY DEF DefaultDevices
<1>2. Len(ids) = n /\ DOMAIN ids = 1..n /\ \A i \in 1..n : ids[i] = i - 1
  BY <1>1
<1>3. {ids[i] : i \in DOMAIN ids} = 0..n-1
  <2>1. \A v \in 0..n-1 : v + 1 \in 1..n /\ ids[v + 1] = v
    BY <1>2
  <2> QED
    BY <1>2, <2>1
<1>4. Cardinality(0..n-1) = n
  BY FS_Interval
<1>5. Visible > 0 => \A i \in DOMAIN ids : ids[i] \in 0..Visible - 1
  BY <1>2, PresetsAssumption
<1> HIDE DEF ids
<1>6. DevicesFit(ids, n)
  BY <1>2, <1>3, <1>4, <1>5 DEF DevicesFit
<1> QED
  BY <1>1, <1>2, <1>6, ModelsAssumption DEF ids

(* A preset on a fresh node, accepted: the premise of PresetRunsAsMeasured. *)
OnFreshNode ==
  LET spec == LinkedSpec(prompt.preset)
  IN  /\ spec.matched /\ PresetAccepts(prompt.preset)
      /\ Measured(spec) /\ Fresh(prompt.inputs, spec.gpu_count)

(* What is known of such a preset. *)
LEMMA FreshSpec ==
  ASSUME OnFreshNode
  PROVE  LET spec == LinkedSpec(prompt.preset)
         IN  /\ spec.gpu_count \in Nat \ {0} /\ spec.model # Absent /\ spec.choice \in Registry
             /\ \A f \in Layout : spec.widgets[f] \in LayoutValue(f)
             /\ spec.task # Absent /\ spec.model \in Registry => spec.task \in Tasks[spec.model]
             /\ spec.widgets = SanitizeRuntime(spec.model, spec.widgets)
             /\ ResolvedTask(spec.model, spec.task) # {}
             /\ Nproc(spec.widgets) = spec.gpu_count /\ WorldFits(spec.widgets)
             /\ Visible > 0 => spec.gpu_count <= Visible
<1> DEFINE spec == LinkedSpec(prompt.preset)
<1>1. /\ spec.gpu_count \in Nat \ {0} /\ spec.model # Absent
      /\ \A f \in Layout : spec.widgets[f] \in LayoutValue(f)
  BY LinkedIsBuilt, SpecType DEF OnFreshNode, Unmatched
<1>2. PICK n \in DOMAIN Presets : spec.model = Presets[n].model /\ spec.task = Presets[n].task
  BY LinkedIsBuilt DEF OnFreshNode, BuildSpec, Unmatched
<1>3. spec.task # Absent /\ spec.model \in Registry => spec.task \in Tasks[spec.model]
  BY <1>2, PresetTasksAssumption
<1>4. Measured(spec)
  BY DEF OnFreshNode
<1>5. WorldFits(spec.widgets)
  BY <1>4 DEF Measured, WorldFits
<1> QED
  BY <1>1, <1>3, <1>4, <1>5 DEF Measured

(* The hook writes the preset into the fresh node, and all of it stays. *)
LEMMA FreshHooked ==
  ASSUME prompt \in Prompts, Hooked, OnFreshNode
  PROVE  LET spec == LinkedSpec(prompt.preset)
         IN  /\ DOMAIN inputs = Loader
             /\ \A f \in Loader : inputs[f] = PresetBase(spec)[f]
             /\ Chosen(inputs) = spec.model
<1> DEFINE spec == LinkedSpec(prompt.preset)
           k == prompt.inputs
           base == PresetBase(spec)
           filled == Filled(k)
<1>1. /\ spec.gpu_count \in Nat \ {0} /\ spec.model # Absent /\ spec.choice \in Registry
      /\ \A f \in Layout : spec.widgets[f] \in LayoutValue(f)
      /\ spec.task # Absent /\ spec.model \in Registry => spec.task \in Tasks[spec.model]
      /\ spec.widgets = SanitizeRuntime(spec.model, spec.widgets)
  BY FreshSpec
<1>2. /\ Layout \subseteq Loader /\ Loader = Layout \cup {"model", "custom_model_id", "task", "gpu_device_ids"}
      /\ \A f \in {"model", "custom_model_id", "task", "gpu_device_ids"} : f \notin Layout
  BY DEF Loader, Layout, Degrees
<1>3. /\ \A f \in Layout : base[f] = spec.widgets[f]
      /\ base["model"] = spec.choice /\ base["task"] = spec.task
      /\ base["custom_model_id"] = IF spec.model # spec.choice THEN spec.model ELSE Absent
      /\ base["gpu_device_ids"] = DefaultDevices(spec.gpu_count)
  BY <1>2 DEF PresetBase
<1>4. \A f \in Loader : FillFromPreset(spec, k)[f] = base[f]
  <2>1. /\ \A f \in Loader \ {"gpu_device_ids"} : k[f] = Absent
        /\ k["gpu_device_ids"] # Wired /\ NeedsSync(k["gpu_device_ids"], spec.gpu_count)
        /\ spec.matched
    BY DEF OnFreshNode, Fresh, NeedsSync
  <2> QED
    BY <2>1 DEF FillFromPreset
<1>5. \A f \in Layout : base[f] # Absent
  BY <1>1, <1>3, ModelsAssumption DEF LayoutValue
<1>6. DOMAIN filled = Loader /\ \A f \in Loader : filled[f] = base[f]
  BY <1>2, <1>4, <1>5 DEF Filled
<1>7. Chosen(filled) = spec.model
  BY <1>1, <1>2, <1>3, <1>6 DEF Chosen
<1>8. inputs = SanitizeInputs(spec.model, filled)
  BY <1>1, <1>7 DEF Hooked
<1>9. DOMAIN inputs = Loader /\ \A f \in Loader : inputs[f] = base[f]
  <2>1. CASE spec.model \notin Registry
    BY <1>6, <1>8, <2>1 DEF SanitizeInputs
  <2>2. CASE spec.model \in Registry
    <3>1. \A f \in Layout : inputs[f] = IF f \notin Supports[spec.model] THEN WidgetDefault[f] ELSE filled[f]
      BY <1>2, <1>8, <2>2 DEF SanitizeInputs
    <3>2. \A f \in Layout : f \notin Supports[spec.model] => spec.widgets[f] = WidgetDefault[f]
      BY <1>1, <2>2 DEF SanitizeRuntime
    <3>3. \A f \in {"model", "custom_model_id", "gpu_device_ids"} : inputs[f] = filled[f]
      BY <1>2, <1>8, <2>2 DEF SanitizeInputs
    <3>4. inputs["task"] = SanitizedTask(spec.model, filled["task"])
      BY <1>2, <1>8, <2>2 DEF SanitizeInputs
    <3>5. inputs["task"] = spec.task
      BY <1>1, <1>2, <1>3, <1>6, <2>2, <3>4 DEF SanitizedTask
    <3>6. DOMAIN inputs = Loader
      BY <1>8, <2>2 DEF SanitizeInputs
    <3>7. \A f \in Layout : inputs[f] = base[f]
      BY <1>2, <1>3, <1>6, <3>1, <3>2
    <3>8. \A f \in {"model", "custom_model_id", "gpu_device_ids"} : inputs[f] = base[f]
      BY <1>2, <1>6, <3>3
    <3> QED
      BY <1>2, <1>3, <3>5, <3>6, <3>7, <3>8
  <2> QED
    BY <2>1, <2>2
<1> QED
  BY <1>1, <1>2, <1>3, <1>9 DEF Chosen

(* Such a node is accepted, ... *)
LEMMA FreshAccepted ==
  ASSUME prompt \in Prompts, Hooked, OnFreshNode
  PROVE  Accepts /\ inputs["gpu_device_ids"] # Wired
<1> DEFINE spec == LinkedSpec(prompt.preset)
           n == spec.gpu_count
<1>1. /\ n \in Nat \ {0} /\ spec.choice \in Registry
      /\ Nproc(spec.widgets) = n /\ WorldFits(spec.widgets)
      /\ Visible > 0 => n <= Visible
  BY FreshSpec
<1>2. /\ inputs["model"] = spec.choice /\ inputs["gpu_device_ids"] = DefaultDevices(n)
      /\ \A f \in Layout : inputs[f] = spec.widgets[f]
  BY FreshHooked DEF PresetBase, Loader, Layout, Degrees
<1>3. Nproc(inputs) = n /\ WorldFits(inputs)
  BY <1>1, <1>2, NprocOfLayout
<1>4. DevicesFit(DefaultDevices(n), n) /\ DefaultDevices(n) \notin {Absent, Wired}
  BY <1>1, DefaultDevicesFit
<1>5. LayoutAccepts(inputs)
  BY <1>2, <1>3, <1>4 DEF LayoutAccepts, DevicesOf
<1> QED
  BY <1>1, <1>2, <1>4, <1>5 DEF Accepts, OnFreshNode

(* ... and executing it settles the preset once more. *)
LEMMA FreshSettled ==
  ASSUME prompt \in Prompts, Hooked, OnFreshNode,
         NEW d, d = inputs["gpu_device_ids"],
         NEW k, k = Settled(d),
         NEW layout, layout = SanitizeRuntime(Chosen(k), k)
  PROVE  LET spec == LinkedSpec(prompt.preset)
             ids == DevicesOf(k["gpu_device_ids"], Nproc(layout))
         IN  /\ ResolvedTask(Chosen(k), k["task"]) # {}
             /\ LayoutRuns(ExecutedSpec, layout, ids)
             /\ Chosen(k) = spec.model /\ k["task"] = spec.task
             /\ layout = spec.widgets /\ ids = DefaultDevices(spec.gpu_count)
<1> DEFINE spec == LinkedSpec(prompt.preset)
           n == spec.gpu_count
           base == PresetBase(spec)
           a == Arrived(d)
           b == FillFromPreset(spec, a)
<1>1. /\ n \in Nat \ {0} /\ spec.model # Absent
      /\ \A f \in Layout : spec.widgets[f] \in LayoutValue(f)
      /\ spec.widgets = SanitizeRuntime(spec.model, spec.widgets)
      /\ ResolvedTask(spec.model, spec.task) # {}
      /\ Nproc(spec.widgets) = n /\ WorldFits(spec.widgets)
      /\ Visible > 0 => n <= Visible
  BY FreshSpec
<1>2. ExecutedSpec = spec /\ spec.matched
  BY SameSpec DEF OnFreshNode
<1>3. DOMAIN inputs = Loader /\ (\A f \in Loader : inputs[f] = base[f]) /\ Chosen(inputs) = spec.model
  BY FreshHooked
<1>4. Accepts
  BY FreshAccepted
<1>5. /\ Layout \subseteq Loader /\ {"task", "gpu_device_ids"} \subseteq Loader
      /\ \A f \in {"model", "custom_model_id", "task", "gpu_device_ids"} : f \notin Layout
  BY DEF Loader, Layout, Degrees
<1>6. /\ base["task"] = spec.task /\ base["gpu_device_ids"] = DefaultDevices(n)
      /\ \A f \in Layout : base[f] = spec.widgets[f]
  BY <1>5 DEF PresetBase
<1>7. /\ DefaultDevices(n) \notin {Absent, Wired} /\ Len(DefaultDevices(n)) = n
      /\ DevicesFit(DefaultDevices(n), n)
  BY <1>1, DefaultDevicesFit
<1>8. DOMAIN b = Loader /\ Chosen(b) = spec.model /\ b["task"] = spec.task
  BY <1>2, <1>3, <1>4, <1>5, <1>6, SameModelFilled
<1>9. b["gpu_device_ids"] = DefaultDevices(n) /\ \A f \in Layout : b[f] = spec.widgets[f]
  <2>1. /\ DOMAIN a = Loader /\ a["gpu_device_ids"] = DefaultDevices(n)
        /\ \A f \in Layout : a[f] = spec.widgets[f]
    BY <1>3, <1>5, <1>6 DEF Arrived
  <2>2. ~NeedsSync(a["gpu_device_ids"], n)
    BY <1>7, <2>1 DEF NeedsSync
  <2>3. \A f \in Layout : a[f] # Absent
    BY <1>1, <2>1, ModelsAssumption DEF LayoutValue
  <2>4. b["gpu_device_ids"] = DefaultDevices(n)
    BY <1>5, <2>1, <2>2 DEF FillFromPreset
  <2>5. \A f \in Layout : b[f] = a[f]
    BY <2>1, <2>3, FillKeeps
  <2> QED
    BY <2>1, <2>4, <2>5
<1>10. k = b
  BY <1>1, <1>2, <1>8 DEF Settled, Repair
<1>11. layout = spec.widgets
  <2>1. layout = SanitizeRuntime(spec.model, spec.widgets)
    BY <1>8, <1>9, <1>10 DEF SanitizeRuntime
  <2> QED
    BY <1>1, <2>1
<1>12. DevicesOf(k["gpu_device_ids"], Nproc(layout)) = DefaultDevices(n)
  BY <1>7, <1>9, <1>10 DEF DevicesOf
<1>13. LayoutRuns(ExecutedSpec, layout, DefaultDevices(n))
  BY <1>1, <1>2, <1>7, <1>11 DEF LayoutRuns
<1> QED
  BY <1>1, <1>8, <1>10, <1>11, <1>12, <1>13

(* A preset that is accepted on a fresh node runs, and as it was measured, for *)
(* every collection of presets and every registry (_merge_loader_kwargs,       *)
(* runtime_config.py).                                                         *)
THEOREM PresetRunsAsMeasuredThm == Spec => []PresetRunsAsMeasured
<1>1. Init => PresetRunsAsMeasured
  BY DEF Init, PresetRunsAsMeasured
<1>2. PathInv /\ PresetRunsAsMeasured /\ [Next]_vars => PresetRunsAsMeasured'
  <2> SUFFICES ASSUME PathInv, PresetRunsAsMeasured, [Next]_vars
               PROVE  PresetRunsAsMeasured'
    OBVIOUS
  <2> DEFINE spec == LinkedSpec(prompt.preset)
             Right == /\ run'.model = spec.model /\ run'.task = spec.task
                      /\ run'.layout = spec.widgets
                      /\ run'.devices = DefaultDevices(spec.gpu_count)
  <2>1. prompt' = prompt
    BY DEF Next, Hook, HookRaises, Validate, Execute, Sample, vars
  <2>2. SUFFICES ASSUME OnFreshNode
                 PROVE  /\ at' \notin {"refused", "task", "layout"}
                        /\ run' # Absent => Right
    BY <2>1 DEF PresetRunsAsMeasured, OnFreshNode
  <2>3. /\ at \notin {"refused", "task", "layout"}
        /\ run # Absent => /\ run.model = spec.model /\ run.task = spec.task
                           /\ run.layout = spec.widgets
                           /\ run.devices = DefaultDevices(spec.gpu_count)
    BY <2>2 DEF PresetRunsAsMeasured, OnFreshNode
  <2>4. CASE Hook \/ HookRaises \/ Sample \/ UNCHANGED vars
    BY <2>3, <2>4 DEF Hook, HookRaises, Sample, vars
  <2>5. CASE Validate
    <3>1. prompt \in Prompts /\ Hooked
      BY <2>5 DEF Validate, PathInv
    <3> QED
      BY <2>2, <2>3, <2>5, <3>1, FreshAccepted DEF Validate
  <2>6. ASSUME NEW d \in DeviceLists \cup {inputs["gpu_device_ids"]}, Execute(d)
        PROVE  /\ at' \notin {"refused", "task", "layout"}
               /\ run' # Absent => Right
    <3>1. prompt \in Prompts /\ Hooked
      BY <2>6 DEF Execute, PathInv
    <3>2. d = inputs["gpu_device_ids"]
      BY <2>2, <2>6, <3>1, FreshAccepted DEF Execute
    <3> DEFINE k == Settled(d)
               layout == SanitizeRuntime(Chosen(k), k)
               ids == DevicesOf(k["gpu_device_ids"], Nproc(layout))
    <3>3. /\ at' = IF ResolvedTask(Chosen(k), k["task"]) = {} THEN "task"
                   ELSE IF ~LayoutRuns(ExecutedSpec, layout, ids) THEN "layout" ELSE "ready"
          /\ run' = [model |-> Chosen(k), task |-> k["task"], layout |-> layout, devices |-> ids]
      BY <2>6 DEF Execute, Settled
    <3>4. /\ ResolvedTask(Chosen(k), k["task"]) # {} /\ LayoutRuns(ExecutedSpec, layout, ids)
          /\ Chosen(k) = spec.model /\ k["task"] = spec.task
          /\ layout = spec.widgets /\ ids = DefaultDevices(spec.gpu_count)
      BY <2>2, <3>1, <3>2, FreshSettled
    <3> QED
      BY <3>3, <3>4
  <2> QED
    BY <2>4, <2>5, <2>6 DEF Next
<1> QED
  BY <1>1, <1>2, PathInvThm, PTL DEF Spec

-----------------------------------------------------------------------------
(* Sizes on their grids. *)

(* The models' grids that fit the bounds of a size; xFuser's are 32 and 64. *)
GridsFit == \A m \in Registry : Divisor[m] \in {0} \cup {d \in 1..MinSize : MinSize % d = 0}

LEMMA GridValues ==
  ASSUME GridsFit, NEW m \in Registry
  PROVE  Divisor[m] \in {0, 1, 2, 4, 8, 16, 32, 64}
<1>1. \A d \in 1..64 : 64 % d = 0 => d \in {1, 2, 4, 8, 16, 32, 64}
  OBVIOUS
<1> QED
  BY <1>1 DEF GridsFit, MinSize

(* Rounding ends on the grid, next to where it began, and does not leave bounds *)
(* that are on the grid.                                                        *)
LEMMA RoundedTrue ==
  ASSUME NEW v \in Nat, NEW g \in {1, 2, 4, 8, 16, 32, 64}
  PROVE  /\ RoundedTo(v, g) \in Nat /\ RoundedTo(v, g) % g = 0
         /\ 2 * Apart(RoundedTo(v, g), v) <= g
         /\ v >= MinSize => RoundedTo(v, g) >= MinSize
         /\ v <= MaxSize => RoundedTo(v, g) <= MaxSize
<1> USE DEF RoundedTo, Apart, MinSize, MaxSize
<1>1. CASE g = 1
  BY <1>1
<1>2. CASE g = 2
  BY <1>2
<1>3. CASE g = 4
  BY <1>3
<1>4. CASE g = 8
  BY <1>4
<1>5. CASE g = 16
  BY <1>5
<1>6. CASE g = 32
  BY <1>6
<1>7. CASE g = 64
  BY <1>7
<1> QED
  BY <1>1, <1>2, <1>3, <1>4, <1>5, <1>6, <1>7

(* What the hook makes of a size that was asked for. *)
Aligned(v, asked) ==
  /\ v \in MinSize..MaxSize /\ v % Grid = 0
  /\ asked \in MinSize..MaxSize => 2 * Apart(v, asked) <= Grid

LEMMA SampleAligned ==
  ASSUME NEW node, NEW asked \in Nat \cup {Absent}
  PROVE  Aligned(SampleSize(LinkedSpec(node), asked), asked)
<1> DEFINE spec == LinkedSpec(node)
           default == IF spec.matched /\ spec.size # Absent THEN spec.size ELSE 1024
           w == IF asked = Absent THEN 0 ELSE asked
<1>1. ASSUME NEW x \in Nat
      PROVE  /\ AlignSize(x) \in MinSize..MaxSize /\ AlignSize(x) % Grid = 0
             /\ x \in MinSize..MaxSize => 2 * Apart(AlignSize(x), x) <= Grid
  <2>1. /\ RoundedTo(x, 16) \in Nat /\ RoundedTo(x, 16) % 16 = 0
        /\ 2 * Apart(RoundedTo(x, 16), x) <= 16
        /\ x >= MinSize => RoundedTo(x, 16) >= MinSize
        /\ x <= MaxSize => RoundedTo(x, 16) <= MaxSize
    BY RoundedTrue
  <2> DEFINE r == RoundedTo(x, 16)
  <2>2. AlignSize(x) = IF r < 64 THEN 64 ELSE IF r > 4096 THEN 4096 ELSE r
    BY DEF AlignSize, Clamp, MinSize, MaxSize, Grid
  <2> HIDE DEF r
  <2>3. r \in Nat /\ r % 16 = 0 /\ (x \in 64..4096 => r \in 64..4096 /\ 2 * Apart(r, x) <= 16)
    BY <2>1 DEF r, MinSize, MaxSize
  <2>4. AlignSize(x) \in 64..4096 /\ AlignSize(x) % 16 = 0
    BY <2>2, <2>3
  <2>5. x \in 64..4096 => AlignSize(x) = r
    BY <2>2, <2>3
  <2> QED
    BY <2>3, <2>4, <2>5 DEF MinSize, MaxSize, Grid
<1>2. default \in Nat
  <2>1. CASE spec.matched
    <3>1. node # NoPreset /\ spec = BuildSpec(node.preset, node.tag)
      BY <2>1, LinkedIsBuilt DEF Unmatched
    <3>2. node.preset \in DOMAIN Presets /\ spec.size = Presets[node.preset].size
      BY <2>1, <3>1 DEF BuildSpec, Unmatched
    <3> QED
      BY <3>2, PresetsAssumption
  <2> QED
    BY <2>1
<1>3. w \in Nat
  OBVIOUS
<1>4. SampleSize(spec, asked) = CoerceSize(w, default)
  BY DEF SampleSize
<1>5. asked \in MinSize..MaxSize => w = asked
  <2>1. Absent \notin Nat
    BY ModelsAssumption
  <2>2. MinSize..MaxSize \subseteq Nat
    BY DEF MinSize, MaxSize
  <2>3. asked \in MinSize..MaxSize => asked # Absent
    BY <2>1, <2>2
  <2> QED
    BY <2>3
<1> HIDE DEF w, default
<1>6. \E x \in Nat : /\ CoerceSize(w, default) = AlignSize(x)
                     /\ w \in MinSize..MaxSize => x = w
  BY <1>2, <1>3 DEF CoerceSize, MinSize, MaxSize
<1> QED
  BY <1>1, <1>4, <1>5, <1>6 DEF Aligned

(* What the Sample node makes of that for its model. *)
LEMMA ModelAligned ==
  ASSUME GridsFit, NEW model, NEW asked, NEW v, Aligned(v, asked)
  PROVE  LET d == IF model \in Registry THEN Divisor[model] ELSE 0
             u == ModelSize(model, v)
         IN  /\ IF d > 0 THEN u % d = 0 ELSE u % Grid = 0
             /\ u \in MinSize..MaxSize
             /\ asked \in MinSize..MaxSize => 2 * Apart(u, asked) <= d + Grid
<1>1. v \in Nat /\ v >= MinSize /\ v <= MaxSize
  BY DEF Aligned, MinSize, MaxSize
<1>2. CASE model \notin Registry \/ Divisor[model] = 0
  <2>1. (IF model \in Registry THEN Divisor[model] ELSE 0) = 0
    BY <1>2
  <2>2. ModelSize(model, v) = v
    BY <1>2 DEF ModelSize
  <2> QED
    BY <2>1, <2>2 DEF Aligned, Grid
<1>3. CASE model \in Registry /\ Divisor[model] # 0
  <2> DEFINE d == Divisor[model]
             u == RoundedTo(v, d)
  <2>1. d \in {1, 2, 4, 8, 16, 32, 64}
    BY <1>3, GridValues
  <2>2. /\ u \in Nat /\ u % d = 0 /\ 2 * Apart(u, v) <= d
        /\ u >= MinSize /\ u <= MaxSize
    BY <1>1, <2>1, RoundedTrue
  <2>3. d <= MinSize /\ d > 0
    BY <2>1 DEF MinSize
  <2> HIDE DEF d, u
  <2>4. ModelSize(model, v) = u
    <3>1. ModelSize(model, v) = IF u < d THEN d ELSE u
      BY <1>3 DEF ModelSize, d, u
    <3> QED
      BY <2>1, <2>2, <2>3, <3>1 DEF MinSize
  <2>5. asked \in MinSize..MaxSize => 2 * Apart(u, asked) <= d + Grid
    BY <1>1, <2>1, <2>2 DEF Aligned, Apart, MinSize, MaxSize, Grid
  <2>6. u \in MinSize..MaxSize
    BY <2>2 DEF MinSize, MaxSize
  <2> QED
    BY <1>3, <2>2, <2>3, <2>4, <2>5, <2>6 DEF d
<1> QED
  BY <1>2, <1>3

(* From the hook to the Sample node the size is aligned, for a graph with a model. *)
AlignedInv ==
  /\ at = "posted" => size = prompt.size
  /\ at \in {"queued", "started", "ready"} => Aligned(size, prompt.size) \/ Chosen(inputs) = Absent

(* If the models' grids fit the bounds, a size ends within them, on the grid of its *)
(* model and next to the one asked for (normalize_sample_dimensions and             *)
(* align_resolution_for_model).                                                     *)
THEOREM SizeIsOnTheGridThm == ASSUME GridsFit PROVE Spec => []SizeIsOnTheGrid
<1>1. Init => AlignedInv /\ SizeIsOnTheGrid
  BY DEF Init, AlignedInv, SizeIsOnTheGrid
<1>2. PathInv /\ AlignedInv /\ SizeIsOnTheGrid /\ [Next]_vars => AlignedInv' /\ SizeIsOnTheGrid'
  <2> SUFFICES ASSUME PathInv, AlignedInv, SizeIsOnTheGrid, [Next]_vars
               PROVE  AlignedInv' /\ SizeIsOnTheGrid'
    OBVIOUS
  <2>1. prompt' = prompt /\ prompt.size \in Nat \cup {Absent}
    BY PromptsAssumption DEF PathInv, Next, Hook, HookRaises, Validate, Execute, Sample, vars
  <2>2. CASE Hook
    <3>1. at' = "queued" /\ Aligned(size', prompt.size)
      BY <2>1, <2>2, SampleAligned DEF Hook, AlignedInv
    <3> QED
      BY <2>1, <3>1 DEF AlignedInv, SizeIsOnTheGrid
  <2>3. CASE HookRaises
    <3>1. at' = "queued" /\ Chosen(inputs)' = Absent
      BY <2>3 DEF HookRaises, Chosen
    <3> QED
      BY <3>1 DEF AlignedInv, SizeIsOnTheGrid
  <2>4. ASSUME at \in {"queued", "started"}, at' \notin {"posted", "sampled"}, size' = size, inputs' = inputs
        PROVE  AlignedInv' /\ SizeIsOnTheGrid'
    BY <2>1, <2>4 DEF AlignedInv, SizeIsOnTheGrid, Chosen
  <2>5. CASE Validate
    BY <2>4, <2>5 DEF Validate
  <2>6. ASSUME NEW d \in DeviceLists \cup {inputs["gpu_device_ids"]}, Execute(d)
        PROVE  AlignedInv' /\ SizeIsOnTheGrid'
    BY <2>4, <2>6 DEF Execute
  <2>7. CASE Sample
    <3>1. Chosen(inputs) # Absent
      BY <2>7, ModelsAssumption DEF Sample, PathInv, Accepts, Chosen
    <3>2. Aligned(size, prompt.size) /\ size' = ModelSize(run.model, size) /\ run' = run /\ at' = "sampled"
      BY <2>7, <3>1 DEF Sample, AlignedInv
    <3> QED
      BY <2>1, <3>2, ModelAligned DEF AlignedInv, SizeIsOnTheGrid
  <2>8. CASE UNCHANGED vars
    BY <2>8 DEF vars, AlignedInv, SizeIsOnTheGrid, Chosen
  <2> QED
    BY <2>2, <2>3, <2>5, <2>6, <2>7, <2>8 DEF Next
<1> QED
  BY <1>1, <1>2, PathInvThm, PTL DEF Spec

=============================================================================
