----------------------------- MODULE PresetSync -----------------------------
(***************************************************************************)
(* The browser's side of a graph: one Preset node that feeds one Model     *)
(* node and one Sample node (web/xdit_benchmark_preset.js,                 *)
(* xdit_load_model.js, xdit_sample.js).  A pick of a preset or an edit of  *)
(* the Model node starts previews on the server; their answers fill the    *)
(* widgets the user has not typed into.  The user goes on while timers     *)
(* run and answers are under way.                                          *)
(*                                                                         *)
(* A number in a widget is named by where it comes from: a model (its own  *)
(* default), a preset, or the user (Typed).  `cache` stands for the        *)
(* widgets of the step cache, `steps` for those of PRESET_WIDGETS.         *)
(***************************************************************************)
EXTENDS Naturals, FiniteSets

CONSTANTS
  Models, Presets,
  None,         \* the Preset node's choice of no preset
  Unset,        \* a property JavaScript has not assigned
  Typed,        \* a number of the user's own
  First,        \* the model whose numbers the node definitions declare
  Cached,       \* the models with a step cache
  ModelOf,      \* the model each preset was measured on
  Caching,      \* the presets that turn the step cache on
  Gives,        \* the presets with a number for the Sample widget
  MaxActs,      \* what the user does in one behaviour
  MaxFlights,   \* previews on their way at once, for each node
  MaxFaults     \* previews that fail

ASSUME SyncAssumption ==
  /\ First \in Models /\ Cached \subseteq Models
  /\ ModelOf \in [Presets -> Models] /\ Gives \subseteq Presets
  /\ Caching \subseteq {p \in Presets : ModelOf[p] \in Cached}
  /\ Models \cap Presets = {} /\ {None, Unset, Typed} \cap (Models \cup Presets) = {}
  /\ Unset \notin {None, "none", "dbcache"}
  /\ MaxActs \in Nat /\ MaxFlights \in Nat \ {0} /\ MaxFaults \in Nat

Choices == Presets \cup {None}
Numbers == Models \cup Presets \cup {Typed}
Methods == {"none", "dbcache"}

VARIABLES
  choice,    \* the Preset node's selection
  fetches,   \* its previews under way
  loader,    \* the Model node's widgets
  edited,    \* those of them the user typed into (_xditUserEdited)
  seen,      \* what the node remembers of its last sync (_xditLast*)
  saved,     \* the trigger kept in the properties of the Model and the Sample node
  timer,     \* the debounce timer: off, for a plain sync, or for a picked preset
  requests,  \* loader previews under way
  preview,   \* what _xditPreviewPayload is about, as its gates and the Sample node know it
  sample,    \* the Sample node
  budget,    \* acts and faults so far
  ok,        \* history: the last loader preview that counted was answered
  orderly,   \* history: the order of events is not one of those listed below
  last       \* history: the preset picked, if that is the user's last act

vars == <<choice, fetches, loader, edited, seen, saved, timer, requests, preview, sample,
          budget, ok, orderly, last>>

(* A graph with fresh nodes; setupLoaderNode has scheduled the first sync. *)
Init ==
  /\ choice = None /\ fetches = {}
  /\ loader = [model |-> First, method |-> "none", cache |-> First]
  /\ edited = {}
  /\ seen = [model |-> First, method |-> Unset, trigger |-> Unset, applied |-> FALSE,
             hydrated |-> FALSE]
  /\ saved = [loader |-> Unset, sample |-> Unset]
  /\ timer = "sync" /\ requests = {} /\ preview = Unset
  /\ sample = [steps |-> First, edited |-> FALSE, fromPreset |-> FALSE,
               trigger |-> Unset, applied |-> FALSE]
  /\ budget = [acts |-> 0, faults |-> 0]
  /\ ok = TRUE /\ orderly = TRUE /\ last = Unset

-----------------------------------------------------------------------------
(* `orderly' turns false where the code is known to leave the nodes apart: *)
(*   - an answer that counts comes between an edit and its timer;          *)
(*   - a pick is undone, or the model edited, before the nodes settled;    *)
(*   - a picked preset's timer or request is replaced by a plain one, and  *)
(*     its trigger is on record from before;                               *)
(*   - no preset is picked while a model or cache method waits for its     *)
(*     numbers, or over numbers a page load marked as the user's;          *)
(*   - a preset says nothing of a number an earlier one filled in;         *)
(*   - a preview fails, or the page is loaded again before it settled.     *)

Outstanding(flights) == \E r \in flights : r.current

(* Nothing is scheduled, and no answer that would count is under way.      *)
Settled == timer = "off" /\ ~Outstanding(requests) /\ ~Outstanding(fetches)

(* requestSequence: taking a ticket makes every earlier answer a stale one. *)
(* Bug: the ticket is not compared, and a slow earlier answer counts.      *)
SupersededNever(flights) == flights
Superseded(flights) == {[r EXCEPT !.current = FALSE] : r \in flights}

Acts == /\ budget.acts < MaxActs
        /\ budget' = [budget EXCEPT !.acts = @ + 1]

-----------------------------------------------------------------------------
(* The Preset node *)

(* refreshPreset: the Model node's sync is scheduled as a picked preset,   *)
(* and the preset's own preview is fetched for the Sample node.            *)
Refresh(p) ==
  /\ Cardinality(fetches) < MaxFlights
  /\ timer' = "picked"
  /\ fetches' = Superseded(fetches) \cup {[choice |-> p, current |-> TRUE]}

Pick(p) ==
  /\ Acts /\ p # choice
  /\ choice' = p
  /\ Refresh(p)
  /\ last' = p
  /\ orderly' = (/\ orderly
                 /\ p = None => Settled
                 /\ ~(sample.applied /\ sample.trigger = p))
  /\ UNCHANGED <<loader, edited, seen, saved, requests, preview, sample, ok>>

(* hookConnectionChanges: a link of the Preset node comes or goes.         *)
Reconnect ==
  /\ Acts
  /\ Refresh(choice)
  /\ UNCHANGED <<choice, loader, edited, seen, saved, requests, preview, sample, ok, orderly, last>>

(* applyGenerationDefaults of the Sample node.                             *)
(* Bug: the numbers are written but not marked as a preset's.              *)
UnmarkedDefaults(p) ==
  IF p \in Gives THEN [sample EXCEPT !.steps = p] ELSE sample
GenerationDefaults(p) ==
  IF p \in Gives THEN [sample EXCEPT !.steps = p, !.fromPreset = TRUE] ELSE sample

(* applyPreset of the Sample node.                                         *)
WithPreset(p) ==
  IF sample.trigger = p /\ sample.applied THEN sample
  ELSE IF p = None THEN [sample EXCEPT !.trigger = p, !.applied = FALSE]
  ELSE [GenerationDefaults(p) EXCEPT !.trigger = p, !.applied = TRUE]

(* persistPresetTrigger, for a preset the Sample node has just applied.    *)
Persisted == IF WithPreset(choice) # sample /\ choice # None THEN choice ELSE saved.sample

(* The rest of refreshPreset, once the preview is there.                   *)
PresetAnswered(r) ==
  /\ fetches' = fetches \ {r}
  /\ IF r.current
       THEN /\ sample' = WithPreset(choice)
            /\ saved' = [saved EXCEPT !.sample = Persisted]
            /\ orderly' = (orderly /\ (sample.fromPreset => choice \in Gives \cup {None}))
       ELSE UNCHANGED <<sample, saved, orderly>>
  /\ UNCHANGED <<choice, loader, edited, seen, timer, requests, preview, budget, ok, last>>

Faults == /\ budget.faults < MaxFaults
          /\ budget' = [budget EXCEPT !.faults = @ + 1]

PresetFails(r) ==
  /\ Faults
  /\ fetches' = fetches \ {r}
  /\ orderly' = (orderly /\ ~r.current)
  /\ UNCHANGED <<choice, loader, edited, seen, saved, timer, requests, preview, sample, ok, last>>

-----------------------------------------------------------------------------
(* The Model node: edits *)

(* scheduleSync without options: it replaces a timer that had them, and    *)
(* its request the one of such a timer.                                    *)
PickForgotten ==
  /\ seen.applied /\ seen.trigger = choice
  /\ timer = "picked" \/ \E r \in requests : r.current /\ r.presetChanged
SchedulePlain ==
  /\ timer' = "sync"
  /\ orderly' = (orderly /\ ~PickForgotten)

EditModel(m) ==
  /\ Acts /\ m # loader.model
  /\ loader' = [loader EXCEPT !.model = m]
  /\ edited' = edited \cup {"model"}
  /\ timer' = "sync"
  /\ orderly' = (orderly /\ ~PickForgotten /\ ~Outstanding(fetches))
  /\ last' = Unset
  /\ UNCHANGED <<choice, fetches, seen, saved, requests, preview, sample, ok>>

(* The other trigger widgets: task and gpu_device_ids. *)
EditTrigger ==
  /\ Acts
  /\ SchedulePlain
  /\ UNCHANGED <<choice, fetches, loader, edited, seen, saved, requests, preview, sample, ok, last>>

(* rejectUnsupportedEdit: the gates of the last preview, which go before   *)
(* the edit that is still waiting for its own.                             *)
MethodOpen == preview # Unset => preview.model \in Cached
CacheOpen == preview # Unset => preview.method # "none"

EditMethod(m) ==
  /\ Acts /\ m # loader.method /\ MethodOpen
  /\ loader' = [loader EXCEPT !.method = m]
  /\ edited' = edited \cup {"method"}
  /\ SchedulePlain
  /\ last' = Unset
  /\ UNCHANGED <<choice, fetches, seen, saved, requests, preview, sample, ok>>

TypeCache ==
  /\ Acts /\ loader.cache # Typed /\ CacheOpen
  /\ loader' = [loader EXCEPT !.cache = Typed]
  /\ edited' = edited \cup {"cache"}
  /\ last' = Unset
  /\ UNCHANGED <<choice, fetches, seen, saved, timer, requests, preview, sample, ok, orderly>>

TypeSteps ==
  /\ Acts /\ sample.steps # Typed
  /\ sample' = [sample EXCEPT !.steps = Typed, !.edited = TRUE]
  /\ last' = Unset
  /\ UNCHANGED <<choice, fetches, loader, edited, seen, saved, timer, requests, preview, ok, orderly>>

-----------------------------------------------------------------------------
(* The Model node: a sync *)

(* syncLoader up to its await.                                             *)
(* Bug: a preset counts as changed only while its pick is on the timer.    *)
RequestOfAPick ==
  [model |-> loader.model, method |-> loader.method, cache |-> loader.cache, choice |-> choice,
   modelChanged |-> loader.model # seen.model,
   methodChanged |-> seen.method # Unset /\ loader.method # seen.method,
   presetChanged |-> timer = "picked",
   current |-> TRUE]
Request ==
  [model |-> loader.model, method |-> loader.method, cache |-> loader.cache, choice |-> choice,
   modelChanged |-> loader.model # seen.model,
   methodChanged |-> seen.method # Unset /\ loader.method # seen.method,
   presetChanged |-> timer = "picked" \/ choice # seen.trigger \/ ~seen.applied,
   current |-> TRUE]

SyncStarts ==
  /\ timer # "off" /\ Cardinality(requests) < MaxFlights
  /\ timer' = "off"
  /\ requests' = Superseded(requests) \cup {Request}
  /\ UNCHANGED <<choice, fetches, loader, edited, seen, saved, preview, sample, budget, ok,
                 orderly, last>>

Requests == [model : Models, method : Methods, cache : Numbers, choice : Choices,
             modelChanged : BOOLEAN, methodChanged : BOOLEAN, presetChanged : BOOLEAN,
             current : BOOLEAN]

(* _preview_payload: the model the answer is about, and the cache method   *)
(* the server resolves for it.                                             *)
PresetWins(r) == r.presetChanged /\ r.choice # None
About(r) == IF PresetWins(r) THEN ModelOf[r.choice] ELSE r.model
PresetMethod(p) == IF p \in Caching THEN "dbcache" ELSE "none"
PresetCache(p) == IF p \in Caching THEN p ELSE First
Resolved(r) == IF PresetWins(r) THEN PresetMethod(r.choice)
               ELSE IF r.model \in Cached THEN r.method ELSE "none"

(* applyDisplayWidgets for a changed model: the widgets of the request     *)
(* come back, but for what the model cannot have.                          *)
Displayed(r) ==
  IF ~r.modelChanged THEN loader
  ELSE [model  |-> loader.model,
        method |-> IF "method" \in edited THEN loader.method ELSE Resolved(r),
        cache  |-> IF "cache" \in edited THEN loader.cache
                   ELSE IF Resolved(r) = "none" THEN First ELSE r.cache]

(* shouldHydrateStepCacheWidgets, after the reset of a changed model.      *)
(* Bug: only a changed cache method fills the cache widgets again.         *)
HydratesForTheMethod(r) ==
  /\ Displayed(r).method # "none"
  /\ r.methodChanged \/ ~seen.hydrated
Hydrates(r) ==
  /\ Displayed(r).method # "none"
  /\ r.modelChanged \/ r.methodChanged \/ ~seen.hydrated

(* applyStepCacheDisplayWidgets: cache_defaults is empty without a method. *)
Hydrated(r) ==
  IF Hydrates(r) /\ Resolved(r) # "none" /\ "cache" \notin edited
    THEN [Displayed(r) EXCEPT !.cache = r.model]
    ELSE Displayed(r)

(* The widgets after the answer: the preset's, or what the model implies.  *)
Filled(r) ==
  CASE PresetWins(r) -> [model |-> ModelOf[r.choice], method |-> PresetMethod(r.choice),
                         cache |-> PresetCache(r.choice)]
    [] r.presetChanged /\ ~PresetWins(r) -> loader
    [] ~r.presetChanged -> Hydrated(r)

(* applyCapabilityGates: what the answer's model and method have no use    *)
(* for goes back to the node definition, typed or not.                     *)
Gated(w, r) ==
  [w EXCEPT !.method = IF About(r) \in Cached THEN @ ELSE "none",
            !.cache = IF Resolved(r) = "none" THEN First ELSE @]

(* applyModelConstraints of the Sample node.                               *)
(* Bug: a preset's number outlives the model it was measured on.           *)
WithModelKeepingPreset(m, modelChanged) ==
  IF sample.edited \/ sample.fromPreset THEN sample
  ELSE [sample EXCEPT !.steps = m]
WithModel(m, modelChanged) ==
  IF sample.edited \/ (sample.fromPreset /\ ~modelChanged) THEN sample
  ELSE [sample EXCEPT !.steps = m, !.fromPreset = FALSE]

(* pushGenerationConstraints: a model that came with a preset is not one   *)
(* the user picked.                                                        *)
Pushed(r) == WithModel(About(r), r.modelChanged /\ ~r.presetChanged)

(* setNodeWidgetValue writes without the widget's callback.                *)
(* Bug: a write announces itself like an edit, and schedules a sync.       *)
Notified == "sync"
Unnotified == timer

(* The finally of syncLoader: it records the nodes of now, not those the   *)
(* request was about.                                                      *)
Remembered(r) ==
  [model |-> loader'.model, method |-> loader'.method, trigger |-> choice,
   applied |-> seen.applied \/ r.presetChanged,
   hydrated |-> CASE r.presetChanged -> TRUE
                  [] ~r.presetChanged /\ Hydrates(r) -> TRUE
                  [] OTHER -> seen.hydrated /\ ~r.modelChanged]

(* No preset: the answer fills nothing in, yet clears the marks of edits.  *)
DefaultsAreIn(r) ==
  ~r.modelChanged /\ ~Hydrates(r) /\ ("cache" \in edited => loader.cache = Typed)

(* syncLoader after its await, for an answer that counts.                  *)
Apply(r) ==
  /\ loader' = Gated(Filled(r), r)
  /\ edited' = IF r.presetChanged THEN {} ELSE edited
  /\ saved' = [saved EXCEPT !.loader = IF r.presetChanged THEN r.choice ELSE @]
  /\ preview' = [model |-> About(r), method |-> Resolved(r)]
  /\ sample' = Pushed(r)
  /\ seen' = Remembered(r)
  /\ ok' = TRUE
  /\ orderly' = (/\ orderly /\ timer = "off"
                 /\ r.presetChanged /\ r.choice = None => DefaultsAreIn(r))
  /\ timer' = Unnotified

Answered(r) ==
  /\ requests' = requests \ {r}
  /\ IF r.current THEN Apply(r)
     ELSE UNCHANGED <<loader, edited, saved, preview, sample, seen, ok, orderly, timer>>
  /\ UNCHANGED <<choice, fetches, budget, last>>

Fails(r) ==
  /\ Faults
  /\ requests' = requests \ {r}
  /\ ok' = (ok /\ ~r.current)
  /\ orderly' = (orderly /\ ~r.current)
  /\ UNCHANGED <<choice, fetches, loader, edited, seen, saved, timer, preview, sample, last>>

-----------------------------------------------------------------------------
(* restoreWidgetsByName: what differs from the node definition counts as   *)
(* typed from now on.                                                      *)
RestoredEdits == {w \in {"model", "method", "cache"} :
                    loader[w] # (IF w = "method" THEN "none" ELSE First)}

(* setupLoaderNode: the saved trigger counts as applied.                   *)
RestoredMemory ==
  [model |-> loader.model, method |-> Unset, trigger |-> saved.loader,
   applied |-> saved.loader # Unset, hydrated |-> FALSE]

(* adoptRestoredPresetTrigger of the Sample node.                          *)
RestoredSample ==
  [steps |-> sample.steps, edited |-> sample.steps # First, fromPreset |-> FALSE,
   trigger |-> IF saved.sample = Unset THEN choice ELSE saved.sample, applied |-> TRUE]

(* The page is loaded again: the widgets come back, and what was scheduled *)
(* or under way is gone.                                                   *)
Reload ==
  /\ Acts
  /\ edited' = RestoredEdits /\ seen' = RestoredMemory /\ sample' = RestoredSample
  /\ timer' = "sync" /\ requests' = {} /\ fetches' = {} /\ preview' = Unset
  /\ orderly' = (orderly /\ Settled)
  /\ UNCHANGED <<choice, loader, saved, ok, last>>

Next ==
  \/ \E p \in Choices : Pick(p)
  \/ Reconnect
  \/ \E r \in fetches : PresetAnswered(r) \/ PresetFails(r)
  \/ \E m \in Models : EditModel(m)
  \/ EditTrigger
  \/ \E m \in Methods : EditMethod(m)
  \/ TypeCache \/ TypeSteps
  \/ SyncStarts
  \/ \E r \in requests : Answered(r) \/ Fails(r)
  \/ Reload

(* The timer fires, and every fetch of the browser ends in an answer or an *)
(* error.  A user who stops ends the behaviour.                            *)
Fairness ==
  /\ WF_vars(SyncStarts)
  /\ WF_vars(\E r \in fetches : PresetAnswered(r) \/ PresetFails(r))
  /\ WF_vars(\E r \in requests : Answered(r) \/ Fails(r))

Spec == Init /\ [][Next]_vars /\ Fairness

-----------------------------------------------------------------------------
TypeOK ==
  /\ choice \in Choices /\ fetches \subseteq [choice : Choices, current : BOOLEAN]
  /\ loader \in [model : Models, method : Methods, cache : Numbers]
  /\ edited \subseteq {"model", "method", "cache"}
  /\ seen \in [model : Models, method : Methods \cup {Unset}, trigger : Choices \cup {Unset},
               applied : BOOLEAN, hydrated : BOOLEAN]
  /\ saved \in [loader : Choices \cup {Unset}, sample : Presets \cup {Unset}]
  /\ timer \in {"off", "sync", "picked"} /\ requests \subseteq Requests
  /\ preview \in [model : Models, method : Methods] \cup {Unset}
  /\ sample \in [steps : Numbers, edited : BOOLEAN, fromPreset : BOOLEAN,
                 trigger : Choices \cup {Unset}, applied : BOOLEAN]
  /\ budget \in [acts : 0 .. MaxActs, faults : 0 .. MaxFaults]
  /\ ok \in BOOLEAN /\ orderly \in BOOLEAN /\ last \in Choices \cup {Unset}

(* Once the node is quiet again, what the last answer was about (the       *)
(* choices and gates it shows, the grid and defaults the Sample node got)  *)
(* is the model in its widget, whatever overtook what on the way.          *)
PreviewIsOfTheModel ==
  timer = "off" /\ ~Outstanding(requests) /\ ok
    => preview \in [model : {loader.model}, method : Methods]

(* Cache widgets nobody typed into hold numbers of the selected model: its *)
(* own, or those of a preset measured on it.                               *)
CacheIsOfTheModel ==
  Settled /\ orderly /\ "cache" \notin edited /\ loader.method # "none"
    => loader.cache \in {Typed, loader.model} \cup {p \in Presets : ModelOf[p] = loader.model}

(* The Sample node's number, too, belongs to the model the Model node has, *)
(* though the two nodes hear of a pick over requests of their own.         *)
SampleIsOfTheModel ==
  Settled /\ orderly /\ ~sample.edited
    => sample.steps \in {Typed, loader.model} \cup {p \in Presets : ModelOf[p] = loader.model}

(* A preset picked last is what both nodes show in the end, also over what *)
(* was typed before it, and it survives a page load.                       *)
PickIsApplied ==
  Settled /\ orderly /\ last \in Presets
    => /\ loader = [model |-> ModelOf[last], method |-> PresetMethod(last),
                    cache |-> PresetCache(last)]
       /\ last \in Gives => sample.steps = last

(* Answers are written without the widgets' callbacks, so they schedule no *)
(* sync of their own: when the user stops, the nodes settle.               *)
SyncSettles == <>[]Settled
=============================================================================
