---------------------------- MODULE MCPromptPath ----------------------------
EXTENDS PromptPath, TLC

CONSTANTS image, video, edit, version,  \* models
          t1, t2                        \* tasks

MCRegistry == {image, video, edit}
MCAlias    == version :> image
MCTasks    == image :> {} @@ video :> {t1, t2} @@ edit :> {t1}
MCSupports == image :> Layout
                @@ video :> Layout \ {"ulysses_degree"}
                @@ edit :> {"ulysses_degree"}
MCDivisor  == image :> 0 @@ video :> 64 @@ edit :> 32

Preset(model, task, gpu_count, args, tags, px) ==
  [model |-> model, task |-> task, gpu_count |-> gpu_count, args |-> args,
   tags |-> tags, size |-> px]

NoArgs == [f \in {} |-> 1]

MCPresets ==
  "version" :> Preset(version, Absent, Absent, "ulysses_degree" :> 2, {"here"}, 928)
    @@ "video" :> Preset(video, t1, Absent, "tensor_parallel_degree" :> 2, {"here", "there"}, Absent)
    @@ "edit"  :> Preset(edit, t1, 1, NoArgs, {"there"}, 1000)
    @@ "image" :> Preset(image, Absent, 2, "use_cfg_parallel" :> TRUE, {"here"}, 8000)

PresetNodes ==
  {[preset |-> n, tag |-> t, gpu_count |-> c] :
     n \in DOMAIN MCPresets \cup {"none"}, t \in {"here", "there", "odd"}, c \in {1, 2}}

Node(model, task, ud, tp, fs, cfg, ids) ==
  [model |-> model, custom_model_id |-> Absent, task |-> task, ulysses_degree |-> ud,
   tensor_parallel_degree |-> tp, fully_shard_degree |-> fs, use_cfg_parallel |-> cfg,
   gpu_device_ids |-> ids]

MCDeviceLists == {<<0>>, <<1>>, <<0, 1>>, <<1, 1>>}

Nodes ==
  {Node(m, t, ud, tp, fs, cfg, ids) :
     m \in MCRegistry \cup {Absent}, t \in {Absent, t1, t2}, ud \in {Absent, 1, 2},
     tp \in {Absent, 1, 2}, fs \in {Absent, 2}, cfg \in {Absent, TRUE},
     ids \in MCDeviceLists \cup {Absent, Wired}}

Sizes == {Absent, 0, 63, 64, 72, 88, 1000, 1048, 4064, 4072, 4095, 4096, 5000}

Unset(model) == Node(model, Absent, Absent, Absent, Absent, Absent, Absent)

MCPrompts ==
  {[preset |-> p, inputs |-> n, size |-> 1024] : p \in PresetNodes \cup {NoPreset}, n \in Nodes}
    \cup {[preset |-> p, inputs |-> Unset(m), size |-> s] :
             p \in PresetNodes \cup {NoPreset}, m \in MCRegistry \cup {Absent}, s \in Sizes}
=============================================================================
