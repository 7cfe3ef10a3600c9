--------------------------- MODULE PresetSyncProofs ---------------------------
(***************************************************************************)
(* The types of PresetSync, that a quiet Model node shows what its own     *)
(* model allows, and what the nodes show once they have settled, for any   *)
(* number of models, presets, acts and failures.                           *)
(***************************************************************************)
EXTENDS PresetSync, FiniteSetTheorems, TLAPS

USE DEF Choices, Numbers, Methods

(* Values of the parts of TypeOK that an answer touches. *)
Flights == [choice : Choices, current : BOOLEAN]
Widgets == [model : Models, method : Methods, cache : Numbers]
Memory == [model : Models, method : Methods \cup {Unset}, trigger : Choices \cup {Unset},
           applied : BOOLEAN, hydrated : BOOLEAN]
Samples == [steps : Numbers, edited : BOOLEAN, fromPreset : BOOLEAN,
            trigger : Choices \cup {Unset}, applied : BOOLEAN]

LEMMA NewRequest ==
  ASSUME TypeOK
  PROVE  /\ Request \in Requests
         /\ Request.current = TRUE /\ Request.model = loader.model
  BY DEF Request, Requests, TypeOK

LEMMA SupersededFlights ==
  ASSUME NEW F, F \subseteq Flights
  PROVE  Superseded(F) \subseteq Flights
  BY DEF Superseded, Flights

LEMMA SupersededRequests ==
  ASSUME NEW R, R \subseteq Requests
  PROVE  Superseded(R) \subseteq Requests
  BY DEF Superseded, Requests

(* What an answer makes of the widgets. *)
LEMMA AnsweredWidgets ==
  ASSUME SyncAssumption, TypeOK, NEW r \in Requests
  PROVE  /\ About(r) \in Models /\ Resolved(r) \in Methods
         /\ Gated(Filled(r), r) \in Widgets
         /\ Gated(Filled(r), r).model = IF PresetWins(r) THEN About(r) ELSE loader.model
         /\ ~PresetWins(r) => About(r) = r.model
  <1>1. /\ r.model \in Models /\ r.method \in Methods /\ r.cache \in Numbers
        /\ r.choice \in Choices /\ r.modelChanged \in BOOLEAN /\ r.presetChanged \in BOOLEAN
    BY DEF Requests
  <1>2. loader \in Widgets
    BY DEF TypeOK, Widgets
  <1>3. About(r) \in Models /\ Resolved(r) \in Methods
    BY <1>1 DEF About, PresetWins, Resolved, PresetMethod, SyncAssumption
  <1>4. Displayed(r) \in Widgets /\ Displayed(r).model = loader.model
    BY <1>1, <1>2, <1>3 DEF Displayed, Widgets, SyncAssumption
  <1>5. Hydrated(r) \in Widgets /\ Hydrated(r).model = loader.model
    BY <1>1, <1>4 DEF Hydrated, Widgets
  <1>6. Filled(r) \in Widgets /\ Filled(r).model = IF PresetWins(r) THEN About(r) ELSE loader.model
    <2>1. CASE PresetWins(r)
      BY <1>1, <2>1 DEF Filled, PresetWins, About, PresetMethod, PresetCache, Widgets, SyncAssumption
    <2>2. CASE r.presetChanged /\ ~PresetWins(r)
      BY <1>1, <1>2, <2>2 DEF Filled
    <2>3. CASE ~r.presetChanged
      BY <1>1, <1>5, <2>3 DEF Filled, PresetWins
    <2>4. QED
      BY <1>1, <2>1, <2>2, <2>3
  <1>7. /\ Gated(Filled(r), r) \in Widgets
        /\ Gated(Filled(r), r).model = Filled(r).model
    BY <1>3, <1>6 DEF Gated, Widgets, SyncAssumption
  <1>8. QED
    BY <1>3, <1>6, <1>7 DEF About

LEMMA RefreshTypes ==
  ASSUME TypeOK, NEW p \in Choices, Refresh(p)
  PROVE  fetches' \subseteq Flights /\ timer' = "picked"
  <1>1. fetches \subseteq Flights
    BY DEF TypeOK, Flights
  <1>2. /\ fetches' = Superseded(fetches) \cup {[choice |-> p, current |-> TRUE]}
        /\ timer' = "picked"
    BY DEF Refresh
  <1>3. [choice |-> p, current |-> TRUE] \in Flights
    BY DEF Flights
  <1>4. QED
    BY <1>1, <1>2, <1>3, SupersededFlights

(* The budgets stay within their bounds. *)
LEMMA ActsTypes ==
  ASSUME SyncAssumption, TypeOK
  PROVE  /\ Acts => budget' \in [acts : 0 .. MaxActs, faults : 0 .. MaxFaults]
         /\ Faults => budget' \in [acts : 0 .. MaxActs, faults : 0 .. MaxFaults]
  BY DEF Acts, Faults, TypeOK, SyncAssumption

LEMMA SampleTypes ==
  ASSUME SyncAssumption, TypeOK, NEW m \in Models, NEW c \in BOOLEAN
  PROVE  /\ WithModel(m, c) \in Samples
         /\ WithPreset(choice) \in Samples
         /\ Persisted \in Presets \cup {Unset}
  <1>1. sample \in Samples /\ choice \in Choices /\ saved.sample \in Presets \cup {Unset}
    BY DEF TypeOK, Samples
  <1>2. WithModel(m, c) \in Samples
    BY <1>1 DEF WithModel, Samples
  <1>3. WithPreset(choice) \in Samples
    <2>1. GenerationDefaults(choice) \in Samples
      BY <1>1 DEF GenerationDefaults, Samples, SyncAssumption
    <2>2. QED
      BY <1>1, <2>1 DEF WithPreset, Samples
  <1>4. Persisted \in Presets \cup {Unset}
    BY <1>1 DEF Persisted
  <1>5. QED
    BY <1>2, <1>3, <1>4

-----------------------------------------------------------------------------
(* The variables keep their types. *)
THEOREM TypeOKThm == Spec => []TypeOK
  <1>1. Init => TypeOK
    BY SyncAssumption DEF SyncAssumption, Init, TypeOK, Requests
  <1>2. TypeOK /\ [Next]_vars => TypeOK'
    <2> SUFFICES ASSUME TypeOK, [Next]_vars PROVE TypeOK'
      OBVIOUS
    <2> USE SyncAssumption
    <2>1. ASSUME NEW p \in Choices, Pick(p) PROVE TypeOK'
      <3>1. choice' \in Choices /\ last' \in Choices \cup {Unset} /\ Refresh(p) /\ Acts
        BY <2>1 DEF Pick
      <3>2. fetches' \subseteq Flights /\ timer' = "picked"
        BY <3>1, RefreshTypes
      <3>3. orderly' \in BOOLEAN
        BY <2>1 DEF Pick, TypeOK
      <3>4. UNCHANGED <<loader, edited, seen, saved, requests, preview, sample, ok>>
        BY <2>1 DEF Pick
      <3>5. QED
        BY <3>1, <3>2, <3>3, <3>4, ActsTypes DEF TypeOK, Flights
    <2>2. CASE Reconnect
      <3>1. choice \in Choices /\ Refresh(choice) /\ Acts
        BY <2>2 DEF Reconnect, TypeOK
      <3>2. fetches' \subseteq Flights /\ timer' = "picked"
        BY <3>1, RefreshTypes
      <3>3. QED
        BY <2>2, <3>1, <3>2, ActsTypes DEF Reconnect, TypeOK, Flights
    <2>3. ASSUME NEW r \in fetches, PresetAnswered(r) PROVE TypeOK'
      <3>1. /\ sample' \in Samples
            /\ saved' \in [loader : Choices \cup {Unset}, sample : Presets \cup {Unset}]
        BY <2>3, SampleTypes DEF PresetAnswered, TypeOK, Samples, SyncAssumption
      <3>2. orderly' \in BOOLEAN
        BY <2>3 DEF PresetAnswered, TypeOK
      <3>3. QED
        BY <2>3, <3>1, <3>2 DEF PresetAnswered, TypeOK, Samples
    <2>4. ASSUME NEW r \in fetches, PresetFails(r) PROVE TypeOK'
      BY <2>4, ActsTypes DEF PresetFails, TypeOK
    <2>5. ASSUME NEW m \in Models, EditModel(m) PROVE TypeOK'
      BY <2>5, ActsTypes DEF EditModel, TypeOK
    <2>6. CASE EditTrigger
      BY <2>6, ActsTypes DEF EditTrigger, SchedulePlain, TypeOK
    <2>7. ASSUME NEW m \in Methods, EditMethod(m) PROVE TypeOK'
      BY <2>7, ActsTypes DEF EditMethod, SchedulePlain, TypeOK
    <2>8. CASE TypeCache
      BY <2>8, ActsTypes DEF TypeCache, TypeOK
    <2>9. CASE TypeSteps
      <3>1. sample' \in Samples
        BY <2>9 DEF TypeSteps, TypeOK, Samples
      <3>2. QED
        BY <2>9, <3>1, ActsTypes DEF TypeSteps, TypeOK, Samples
    <2>10. CASE SyncStarts
      <3>1. requests \subseteq Requests /\ Request \in Requests
        BY NewRequest DEF TypeOK
      <3>2. Superseded(requests) \subseteq Requests
        BY <3>1, SupersededRequests
      <3>3. requests' \subseteq Requests /\ timer' = "off"
        BY <2>10, <3>1, <3>2 DEF SyncStarts
      <3>4. QED
        BY <2>10, <3>3 DEF SyncStarts, TypeOK
    <2>11. ASSUME NEW r \in requests, Answered(r) PROVE TypeOK'
      <3>1. requests' \subseteq Requests /\ r \in Requests
        BY <2>11 DEF Answered, TypeOK
      <3>2. CASE ~r.current
        BY <2>11, <3>1, <3>2 DEF Answered, TypeOK
      <3>3. CASE r.current
        <4>1. Apply(r)
          BY <2>11, <3>3 DEF Answered
        <4>2. loader' \in Widgets /\ preview' \in [model : Models, method : Methods]
          BY <3>1, <4>1, AnsweredWidgets DEF Apply
        <4>3. sample' \in Samples
          <5>1. About(r) \in Models
            BY <3>1, AnsweredWidgets
          <5>2. \A c \in BOOLEAN : WithModel(About(r), c) \in Samples
            BY <5>1, SampleTypes
          <5>3. (r.modelChanged /\ ~r.presetChanged) \in BOOLEAN
            OBVIOUS
          <5>4. QED
            BY <4>1, <5>2, <5>3, Zenon DEF Apply, Pushed
        <4>4. /\ r.presetChanged \in BOOLEAN /\ r.modelChanged \in BOOLEAN
              /\ r.choice \in Choices
          BY <3>1 DEF Requests
        <4>5. seen' \in Memory
          <5>1. loader'.model \in Models /\ loader'.method \in Methods
            BY <4>2 DEF Widgets
          <5>2. seen' = Remembered(r)
            BY <4>1 DEF Apply
          <5>3. Remembered(r) \in Memory
            BY <4>4, <5>1 DEF Remembered, Memory, TypeOK
          <5>4. QED
            BY <5>2, <5>3
        <4>6. /\ edited' \subseteq {"model", "method", "cache"}
              /\ saved' \in [loader : Choices \cup {Unset}, sample : Presets \cup {Unset}]
              /\ timer' \in {"off", "sync", "picked"} /\ ok' \in BOOLEAN
          BY <4>1, <4>4 DEF Apply, Unnotified, TypeOK
        <4>7. orderly' \in BOOLEAN
          BY <4>1 DEF Apply, TypeOK
        <4>8. QED
          BY <2>11, <3>1, <4>2, <4>3, <4>5, <4>6, <4>7 DEF Answered, TypeOK, Widgets, Samples, Memory
      <3>4. QED
        BY <3>2, <3>3
    <2>12. ASSUME NEW r \in requests, Fails(r) PROVE TypeOK'
      BY <2>12, ActsTypes DEF Fails, TypeOK
    <2>13. CASE Reload
      <3>1. sample' \in Samples
        BY <2>13 DEF Reload, RestoredSample, TypeOK, Samples
      <3>2. seen' \in Memory
        BY <2>13 DEF Reload, RestoredMemory, TypeOK, Memory
      <3>3. edited' \subseteq {"model", "method", "cache"}
        BY <2>13 DEF Reload, RestoredEdits
      <3>4. orderly' \in BOOLEAN
        BY <2>13 DEF Reload, TypeOK
      <3>5. QED
        BY <2>13, <3>1, <3>2, <3>3, <3>4 DEF Reload, Acts, TypeOK, Samples, Memory, SyncAssumption
    <2>14. CASE UNCHANGED vars
      BY <2>14 DEF vars, TypeOK
    <2>15. QED
      BY <2>1, <2>2, <2>3, <2>4, <2>5, <2>6, <2>7, <2>8, <2>9, <2>10, <2>11, <2>12, <2>13, <2>14
      DEF Next
  <1>3. QED
    BY <1>1, <1>2, PTL DEF Spec

-----------------------------------------------------------------------------
(* While no timer runs, the one request that counts is about the model of  *)
(* now; so its answer is, and what it leaves behind.                       *)
RequestIsOfNow ==
  /\ \A r \in requests : r.current /\ timer = "off" => r.model = loader.model
  /\ \A r, s \in requests : r.current /\ s.current => r = s

PreviewInv == RequestIsOfNow /\ PreviewIsOfTheModel

LEMMA PreviewInvLemma == Spec => []PreviewInv
  <1>1. Init => PreviewInv
    BY DEF Init, PreviewInv, RequestIsOfNow, PreviewIsOfTheModel
  <1>2. TypeOK /\ TypeOK' /\ PreviewInv /\ [Next]_vars => PreviewInv'
    <2> SUFFICES ASSUME TypeOK, TypeOK', PreviewInv, [Next]_vars PROVE PreviewInv'
      OBVIOUS
    <2> USE SyncAssumption DEF PreviewInv, RequestIsOfNow, PreviewIsOfTheModel
    <2>1. ASSUME NEW p \in Choices, Pick(p) PROVE PreviewInv'
      BY <2>1 DEF Pick, Refresh
    <2>2. CASE Reconnect
      BY <2>2 DEF Reconnect, Refresh
    <2>3. ASSUME NEW r \in fetches, PresetAnswered(r) \/ PresetFails(r) PROVE PreviewInv'
      BY <2>3 DEF PresetAnswered, PresetFails, Outstanding
    <2>5. ASSUME NEW m \in Models, EditModel(m) PROVE PreviewInv'
      BY <2>5 DEF EditModel
    <2>6. CASE EditTrigger
      BY <2>6 DEF EditTrigger, SchedulePlain
    <2>7. ASSUME NEW m \in Methods, EditMethod(m) PROVE PreviewInv'
      BY <2>7 DEF EditMethod, SchedulePlain
    <2>8. CASE TypeCache \/ TypeSteps
      BY <2>8 DEF TypeCache, TypeSteps, Outstanding, TypeOK
    <2>10. CASE SyncStarts
      <3>1. \A r \in Superseded(requests) : r.current = FALSE
        BY DEF Superseded, TypeOK, Requests
      <3>2. /\ requests' = Superseded(requests) \cup {Request}
            /\ loader' = loader
        BY <2>10 DEF SyncStarts
      <3>3. RequestIsOfNow' /\ Request \in requests'
        BY <3>1, <3>2, NewRequest
      <3>4. QED
        BY <3>3, NewRequest DEF Outstanding
    <2>11. ASSUME NEW r \in requests, Answered(r) PROVE PreviewInv'
      <3>1. r \in Requests /\ requests' = requests \ {r}
        BY <2>11 DEF Answered, TypeOK
      <3>2. CASE ~r.current
        BY <2>11, <3>1, <3>2 DEF Answered, Outstanding
      <3>3. CASE r.current
        <4>1. /\ loader' = Gated(Filled(r), r) /\ timer' = timer
              /\ preview' = [model |-> About(r), method |-> Resolved(r)]
          BY <2>11, <3>3 DEF Answered, Apply, Unnotified
        <4>2. \A s \in requests' : ~s.current
          BY <3>1, <3>3
        <4>3. timer = "off" => loader'.model = About(r)
          BY <3>1, <3>3, <4>1, AnsweredWidgets
        <4>4. preview' \in [model : {About(r)}, method : Methods]
          BY <3>1, <4>1, AnsweredWidgets
        <4>5. QED
          BY <4>1, <4>2, <4>3, <4>4
      <3>4. QED
        BY <3>2, <3>3
    <2>12. ASSUME NEW r \in requests, Fails(r) PROVE PreviewInv'
      BY <2>12 DEF Fails, Outstanding, TypeOK
    <2>13. CASE Reload
      BY <2>13 DEF Reload
    <2>14. CASE UNCHANGED vars
      BY <2>14 DEF vars, Outstanding
    <2>15. QED
      BY <2>1, <2>2, <2>3, <2>5, <2>6, <2>7, <2>8, <2>10, <2>11, <2>12, <2>13, <2>14 DEF Next
  <1>3. QED
    BY <1>1, <1>2, TypeOKThm, PTL DEF Spec

(* What the last answer was about is the model of a quiet Model node. *)
THEOREM PreviewIsOfTheModelThm == Spec => []PreviewIsOfTheModel
  <1>1. PreviewInv => PreviewIsOfTheModel
    BY DEF PreviewInv
  <1>2. QED
    BY <1>1, PreviewInvLemma, PTL

-----------------------------------------------------------------------------
(* What the nodes show once they have settled.  Every part of the          *)
(* invariants below is about an orderly behaviour: outside of it the nodes *)
(* do come apart.                                                          *)

(* What the current request was about is still so: its edits start a timer. *)
RequestsOfNow ==
  \A r \in requests : r.current /\ timer = "off" =>
    /\ r.model = loader.model /\ r.method = loader.method /\ r.choice = choice
    /\ r.modelChanged <=> loader.model # seen.model
    /\ r.methodChanged <=> seen.method # Unset /\ loader.method # seen.method
    /\ choice # seen.trigger \/ ~seen.applied => r.presetChanged

(* Numbers that came in for a cache method belong to the model of then.    *)
CacheKnown ==
  seen.hydrated =>
    /\ seen.method # Unset
    /\ orderly /\ "cache" \notin edited /\ seen.method # "none" =>
         loader.cache \in {Typed, seen.model} \cup {p \in Presets : ModelOf[p] = seen.model}

Quiet == timer = "off" /\ ~Outstanding(requests)

(* A quiet Model node remembers what it shows.                             *)
QuietKnows ==
  orderly /\ Quiet =>
    /\ seen.model = loader.model /\ seen.method = loader.method
    /\ seen.trigger = choice /\ seen.applied
    /\ loader.method # "none" => seen.hydrated

MemoryInv == RequestsOfNow /\ CacheKnown /\ QuietKnows

Wanted(p) == [model |-> ModelOf[p], method |-> PresetMethod(p), cache |-> PresetCache(p)]

(* The next answer that counts will be treated as that of a preset.        *)
PresetPending ==
  IF timer = "off" THEN \E r \in requests : r.current /\ r.presetChanged
  ELSE timer = "picked" \/ choice # seen.trigger \/ ~seen.applied

-----------------------------------------------------------------------------
(* Answers *)

(* The gates leave alone what they would write.                            *)
LEMMA GatedWidgets ==
  ASSUME NEW m, NEW r
  PROVE  LET w == [model |-> m, method |-> "none", cache |-> First] IN Gated(w, r) = w
  <1> DEFINE w == [model |-> m, method |-> "none", cache |-> First]
  <1>1. /\ (IF About(r) \in Cached THEN w.method ELSE "none") = "none"
        /\ (IF Resolved(r) = "none" THEN First ELSE w.cache) = First
    OBVIOUS
  <1>2. [w EXCEPT !.method = "none"] = w /\ [w EXCEPT !.cache = First] = w
    OBVIOUS
  <1>3. QED
    BY <1>1, <1>2 DEF Gated

(* A preset's answer writes the preset's widgets, gates or not.            *)
LEMMA PresetAnswerFills ==
  ASSUME SyncAssumption, NEW r \in Requests, PresetWins(r)
  PROVE  Gated(Filled(r), r) = Wanted(r.choice) /\ About(r) = ModelOf[r.choice]
  <1>1. r.choice \in Presets /\ r.presetChanged = TRUE
    BY DEF PresetWins, Requests
  <1>2. Filled(r) = Wanted(r.choice) /\ About(r) = ModelOf[r.choice]
    BY <1>1 DEF Filled, PresetWins, Wanted, About
  <1>3. Resolved(r) = PresetMethod(r.choice)
    BY DEF Resolved
  <1>4. CASE r.choice \in Caching
    BY <1>1, <1>2, <1>3, <1>4 DEF Gated, Wanted, PresetMethod, PresetCache, SyncAssumption
  <1>5. CASE r.choice \notin Caching
    <2>1. /\ Filled(r) = [model |-> ModelOf[r.choice], method |-> "none", cache |-> First]
          /\ Resolved(r) = "none"
      BY <1>2, <1>3, <1>5 DEF Wanted, PresetMethod, PresetCache
    <2>2. Gated(Filled(r), r) = Filled(r)
      BY <2>1, GatedWidgets
    <2>3. QED
      BY <1>2, <2>2
  <1>6. QED
    BY <1>4, <1>5

(* An answer that keeps the behaviour orderly finds the node as it was     *)
(* when the request left, and leaves it quiet.                             *)
LEMMA OrderlyAnswer ==
  ASSUME SyncAssumption, TypeOK, RequestIsOfNow, RequestsOfNow,
         NEW r \in requests, r.current, Answered(r), orderly'
  PROVE  /\ orderly /\ timer = "off" /\ timer' = "off" /\ ~Outstanding(requests)'
         /\ loader' = Gated(Filled(r), r) /\ sample' = Pushed(r) /\ seen' = Remembered(r)
         /\ edited' = IF r.presetChanged THEN {} ELSE edited
         /\ r.presetChanged /\ r.choice = None => DefaultsAreIn(r)
         /\ r \in Requests /\ r.choice = choice
         /\ r.model = loader.model /\ r.method = loader.method
         /\ r.modelChanged <=> loader.model # seen.model
         /\ r.methodChanged <=> seen.method # Unset /\ loader.method # seen.method
         /\ choice # seen.trigger \/ ~seen.applied => r.presetChanged
         /\ UNCHANGED <<choice, fetches, budget, last>>
  <1>1. Apply(r) /\ r \in Requests /\ requests' = requests \ {r}
    BY DEF Answered, TypeOK
  <1>2. orderly /\ timer = "off" /\ timer' = "off"
    BY <1>1 DEF Apply, Unnotified
  <1>3. ~Outstanding(requests)'
    BY <1>1 DEF Outstanding, RequestIsOfNow
  <1>4. /\ loader' = Gated(Filled(r), r) /\ sample' = Pushed(r) /\ seen' = Remembered(r)
        /\ edited' = IF r.presetChanged THEN {} ELSE edited
        /\ r.presetChanged /\ r.choice = None => DefaultsAreIn(r)
    BY <1>1 DEF Apply
  <1>5. /\ r.choice = choice /\ r.model = loader.model /\ r.method = loader.method
        /\ r.modelChanged <=> loader.model # seen.model
        /\ r.methodChanged <=> seen.method # Unset /\ loader.method # seen.method
        /\ choice # seen.trigger \/ ~seen.applied => r.presetChanged
    BY <1>2 DEF RequestsOfNow
  <1>6. UNCHANGED <<choice, fetches, budget, last>>
    BY DEF Answered
  <1>7. QED
    BY <1>1, <1>2, <1>3, <1>4, <1>5, <1>6

LEMMA DisplayedWidgets ==
  ASSUME SyncAssumption, TypeOK, NEW r \in Requests
  PROVE  Displayed(r) \in Widgets
  <1>1. loader \in Widgets /\ Resolved(r) \in Methods
    BY AnsweredWidgets DEF TypeOK, Widgets
  <1>2. QED
    BY <1>1 DEF Displayed, Widgets, Requests, SyncAssumption

(* A widget that keeps its method was answered for that method.            *)
LEMMA MethodAnswered ==
  ASSUME SyncAssumption, TypeOK, NEW r \in Requests, ~PresetWins(r),
         r.model = loader.model, r.method = loader.method,
         Gated(Filled(r), r).method # "none"
  PROVE  /\ r.model \in Cached
         /\ Resolved(r) = r.method /\ r.method # "none"
         /\ Gated(Filled(r), r) = Filled(r)
         /\ Displayed(r).method = loader.method
         /\ r.presetChanged => Filled(r) = loader
         /\ ~r.presetChanged => Filled(r) = Hydrated(r)
  <1>1. r.presetChanged \in BOOLEAN /\ About(r) = r.model
    BY DEF Requests, About
  <1>2. loader \in Widgets
    BY DEF TypeOK, Widgets
  <1>3. /\ r.presetChanged => Filled(r) = loader
        /\ ~r.presetChanged => Filled(r) = Hydrated(r)
    BY <1>1 DEF Filled, PresetWins
  <1>5. Displayed(r) \in Widgets
    BY DisplayedWidgets
  <1>6. Hydrated(r) \in Widgets /\ Hydrated(r).method = Displayed(r).method
    BY <1>5 DEF Hydrated, Widgets, Requests
  <1>7. Filled(r) \in Widgets
    BY <1>1, <1>2, <1>3, <1>6
  <1>8. /\ Gated(Filled(r), r).method =
             IF About(r) \in Cached THEN Filled(r).method ELSE "none"
        /\ Gated(Filled(r), r).cache =
             IF Resolved(r) = "none" THEN First ELSE Filled(r).cache
    BY <1>7 DEF Gated, Widgets
  <1>9. r.model \in Cached /\ Resolved(r) = r.method /\ Filled(r).method # "none"
    BY <1>1, <1>8 DEF Resolved
  <1>10. Displayed(r).method = loader.method
    BY <1>2, <1>9 DEF Displayed, Widgets
  <1>11. r.method # "none"
    BY <1>1, <1>3, <1>6, <1>9, <1>10
  <1>12. Gated(Filled(r), r) = Filled(r)
    BY <1>1, <1>7, <1>9, <1>11 DEF Gated, Widgets
  <1>13. QED
    BY <1>3, <1>9, <1>10, <1>11, <1>12

-----------------------------------------------------------------------------
(* What is remembered of a sync *)

LEMMA AnswerRemembered ==
  ASSUME SyncAssumption, TypeOK, RequestIsOfNow, MemoryInv,
         NEW r \in requests, r.current, Answered(r), orderly'
  PROVE  /\ seen'.model = loader'.model /\ seen'.method = loader'.method
         /\ seen'.trigger = choice /\ seen'.applied
         /\ loader'.method # "none" => seen'.hydrated
         /\ seen'.method # Unset
         /\ "cache" \notin edited' /\ seen'.method # "none" =>
              loader'.cache \in {Typed, seen'.model}
                                \cup {p \in Presets : ModelOf[p] = seen'.model}
  <1>1. RequestsOfNow /\ CacheKnown /\ QuietKnows
    BY DEF MemoryInv
  <1>2. /\ orderly /\ loader' = Gated(Filled(r), r) /\ seen' = Remembered(r)
        /\ edited' = IF r.presetChanged THEN {} ELSE edited
        /\ r.presetChanged /\ r.choice = None => DefaultsAreIn(r)
        /\ r \in Requests /\ r.choice = choice
        /\ r.model = loader.model /\ r.method = loader.method
        /\ r.modelChanged <=> loader.model # seen.model
        /\ r.methodChanged <=> seen.method # Unset /\ loader.method # seen.method
        /\ choice # seen.trigger \/ ~seen.applied => r.presetChanged
    BY <1>1, OrderlyAnswer
  <1>3. /\ r.presetChanged \in BOOLEAN /\ r.modelChanged \in BOOLEAN
        /\ r.methodChanged \in BOOLEAN /\ r.choice \in Choices
    BY <1>2 DEF Requests
  <1>4. /\ seen'.model = loader'.model /\ seen'.method = loader'.method
        /\ seen'.trigger = choice /\ seen'.applied = (seen.applied \/ r.presetChanged)
        /\ r.presetChanged => seen'.hydrated
        /\ Hydrates(r) => seen'.hydrated
        /\ ~r.modelChanged /\ seen.hydrated => seen'.hydrated
    BY <1>2, <1>3 DEF Remembered
  <1>5. seen'.applied
    BY <1>2, <1>3, <1>4
  <1>6. loader' \in Widgets /\ (~PresetWins(r) => loader'.model = loader.model)
    BY <1>2, AnsweredWidgets
  <1>7. seen'.method # Unset
    BY <1>4, <1>6 DEF Widgets, SyncAssumption
  <1> DEFINE Fits == loader'.cache \in {Typed, loader'.model}
                                       \cup {p \in Presets : ModelOf[p] = loader'.model}
  <1>8. ASSUME loader'.method # "none"
        PROVE  seen'.hydrated /\ ("cache" \notin edited' => Fits)
    <2>1. CASE PresetWins(r)
      <3>1. loader' = Wanted(r.choice) /\ r.presetChanged /\ r.choice \in Presets
        BY <1>2, <1>3, <2>1, PresetAnswerFills DEF PresetWins
      <3>2. r.choice \in Caching
        BY <1>8, <3>1 DEF Wanted, PresetMethod
      <3>3. loader'.cache = r.choice /\ loader'.model = ModelOf[r.choice]
        BY <3>1, <3>2 DEF Wanted, PresetCache
      <3>4. QED
        BY <1>4, <3>1, <3>3
    <2>2. CASE ~PresetWins(r)
      <3>1. /\ loader' = Filled(r) /\ Resolved(r) # "none"
            /\ Displayed(r).method = loader.method /\ loader.method # "none"
            /\ r.presetChanged => loader' = loader
            /\ ~r.presetChanged => loader' = Hydrated(r)
        BY <1>2, <1>8, <2>2, MethodAnswered
      <3>2. ASSUME ~Hydrates(r)
            PROVE  /\ ~r.modelChanged /\ seen.hydrated /\ Displayed(r) = loader
                   /\ "cache" \notin edited => loader.cache \in {Typed, loader.model}
                                        \cup {p \in Presets : ModelOf[p] = loader.model}
        <4>1. ~r.modelChanged /\ ~r.methodChanged /\ seen.hydrated
          BY <1>3, <3>1, <3>2 DEF Hydrates
        <4>2. seen.model = loader.model /\ seen.method = loader.method
          BY <1>1, <1>2, <4>1 DEF CacheKnown
        <4>3. QED
          BY <1>1, <1>2, <3>1, <4>1, <4>2 DEF CacheKnown, Displayed
      <3>3. CASE r.presetChanged
        <4>1. ~Hydrates(r) /\ ("cache" \in edited => loader.cache = Typed)
          BY <1>2, <2>2, <3>3 DEF PresetWins, DefaultsAreIn
        <4>2. QED
          BY <1>4, <3>1, <3>2, <3>3, <4>1
      <3>4. CASE ~r.presetChanged /\ ~Hydrates(r)
        <4>1. loader' = loader /\ edited' = edited
          BY <1>2, <3>1, <3>2, <3>4 DEF Hydrated
        <4>2. QED
          BY <1>4, <3>2, <3>4, <4>1
      <3>5. CASE ~r.presetChanged /\ Hydrates(r)
        <4>1. edited' = edited
          BY <1>2, <3>5
        <4>2. "cache" \notin edited => loader' = [Displayed(r) EXCEPT !.cache = r.model]
          BY <3>1, <3>5 DEF Hydrated
        <4>3. "cache" \notin edited => loader'.cache = r.model
          <5>1. Displayed(r) = [model |-> Displayed(r).model, method |-> Displayed(r).method,
                                cache |-> Displayed(r).cache]
            BY <1>2, DisplayedWidgets DEF Widgets
          <5>2. QED
            BY <4>2, <5>1
        <4>4. QED
          BY <1>2, <1>4, <1>6, <2>2, <3>5, <4>1, <4>3
      <3>6. QED
        BY <1>3, <3>3, <3>4, <3>5
    <2>3. QED
      BY <2>1, <2>2
  <1>9. QED
    BY <1>4, <1>5, <1>7, <1>8

(* Steps that leave the Model node and its previews alone keep what it     *)
(* remembers.                                                              *)
LEMMA MemoryKept ==
  ASSUME MemoryInv, UNCHANGED <<choice, loader, edited, seen, requests, timer>>,
         orderly' => orderly
  PROVE  MemoryInv'
  BY DEF MemoryInv, RequestsOfNow, CacheKnown, QuietKnows, Quiet, Outstanding

(* So do those that start a timer: there is nothing quiet to know yet.     *)
LEMMA MemoryAwaits ==
  ASSUME MemoryInv, timer' # "off", UNCHANGED <<seen, loader>> \/ ~seen'.hydrated
                                    \/ (UNCHANGED seen /\ loader'.cache = loader.cache),
         orderly' => orderly, edited \subseteq edited' \/ ~seen'.hydrated
  PROVE  MemoryInv'
  BY DEF MemoryInv, RequestsOfNow, CacheKnown, QuietKnows, Quiet

LEMMA MemoryStep ==
  ASSUME SyncAssumption, TypeOK, TypeOK', RequestIsOfNow, MemoryInv, [Next]_vars
  PROVE  MemoryInv'
  <1>1. ASSUME NEW p \in Choices, Pick(p) PROVE MemoryInv'
    <2>1. timer' = "picked" /\ UNCHANGED <<loader, edited, seen>> /\ (orderly' => orderly)
      BY <1>1 DEF Pick, Refresh
    <2>2. QED
      BY <2>1, MemoryAwaits
  <1>2. CASE Reconnect
    <2>1. timer' = "picked" /\ UNCHANGED <<loader, edited, seen>> /\ (orderly' => orderly)
      BY <1>2 DEF Reconnect, Refresh
    <2>2. QED
      BY <2>1, MemoryAwaits
  <1>3. ASSUME NEW r \in fetches, PresetAnswered(r) \/ PresetFails(r) PROVE MemoryInv'
    <2>1. UNCHANGED <<choice, loader, edited, seen, requests, timer>> /\ (orderly' => orderly)
      BY <1>3 DEF PresetAnswered, PresetFails
    <2>2. QED
      BY <2>1, MemoryKept
  <1>4. ASSUME NEW m \in Models, EditModel(m) PROVE MemoryInv'
    <2>1. /\ timer' = "sync" /\ UNCHANGED seen /\ loader'.cache = loader.cache
          /\ edited \subseteq edited' /\ (orderly' => orderly)
      BY <1>4 DEF EditModel, TypeOK
    <2>2. QED
      BY <2>1, MemoryAwaits
  <1>5. CASE EditTrigger
    <2>1. timer' = "sync" /\ UNCHANGED <<loader, edited, seen>> /\ (orderly' => orderly)
      BY <1>5 DEF EditTrigger, SchedulePlain
    <2>2. QED
      BY <2>1, MemoryAwaits
  <1>6. ASSUME NEW m \in Methods, EditMethod(m) PROVE MemoryInv'
    <2>1. /\ timer' = "sync" /\ UNCHANGED seen /\ loader'.cache = loader.cache
          /\ edited \subseteq edited' /\ (orderly' => orderly)
      BY <1>6 DEF EditMethod, SchedulePlain, TypeOK
    <2>2. QED
      BY <2>1, MemoryAwaits
  <1>7. CASE TypeCache
    <2>1. /\ UNCHANGED <<choice, seen, requests, timer, orderly>>
          /\ loader'.model = loader.model /\ loader'.method = loader.method
          /\ "cache" \in edited'
      BY <1>7 DEF TypeCache, TypeOK
    <2>2. QED
      BY <2>1 DEF MemoryInv, RequestsOfNow, CacheKnown, QuietKnows, Quiet, Outstanding
  <1>8. CASE TypeSteps
    <2>1. UNCHANGED <<choice, loader, edited, seen, requests, timer, orderly>>
      BY <1>8 DEF TypeSteps
    <2>2. QED
      BY <2>1, MemoryKept
  <1>9. CASE SyncStarts
    <2>1. /\ requests' = Superseded(requests) \cup {Request} /\ timer' = "off"
          /\ UNCHANGED <<choice, loader, edited, seen, orderly>>
      BY <1>9 DEF SyncStarts
    <2>2. \A r \in requests' : r.current => r = Request
      BY <2>1 DEF Superseded, TypeOK, Requests
    <2>3. Request.current /\ Request \in requests'
      BY <2>1, NewRequest
    <2>4. RequestsOfNow'
      <3>1. /\ Request.model = loader.model /\ Request.method = loader.method
            /\ Request.choice = choice
            /\ Request.modelChanged <=> loader.model # seen.model
            /\ Request.methodChanged <=> seen.method # Unset /\ loader.method # seen.method
            /\ choice # seen.trigger \/ ~seen.applied => Request.presetChanged
        BY DEF Request
      <3>2. QED
        BY <2>1, <2>2, <3>1 DEF RequestsOfNow
    <2>5. ~Quiet'
      BY <2>3 DEF Quiet, Outstanding
    <2>6. QED
      BY <2>1, <2>4, <2>5 DEF MemoryInv, CacheKnown, QuietKnows
  <1>10. ASSUME NEW r \in requests, Answered(r) PROVE MemoryInv'
    <2>1. r \in Requests /\ requests' = requests \ {r} /\ UNCHANGED choice
      BY <1>10 DEF Answered, TypeOK
    <2>2. CASE ~r.current
      <3>1. UNCHANGED <<loader, edited, seen, timer, orderly>>
        BY <1>10, <2>2 DEF Answered
      <3>2. Outstanding(requests)' <=> Outstanding(requests)
        BY <2>1, <2>2 DEF Outstanding
      <3>3. QED
        BY <2>1, <3>1, <3>2 DEF MemoryInv, RequestsOfNow, CacheKnown, QuietKnows, Quiet
    <2>3. CASE r.current
      <3>1. RequestsOfNow'
        BY <2>1, <2>3 DEF RequestsOfNow, RequestIsOfNow
      <3>2. seen'.method = loader'.method
        BY <1>10, <2>3 DEF Answered, Apply, Remembered
      <3>3. loader'.method # Unset
        BY DEF TypeOK, SyncAssumption
      <3>4. CASE orderly'
        BY <1>10, <2>1, <2>3, <3>1, <3>4, AnswerRemembered
        DEF MemoryInv, CacheKnown, QuietKnows
      <3>5. CASE ~orderly'
        BY <3>1, <3>2, <3>3, <3>5 DEF MemoryInv, CacheKnown, QuietKnows
      <3>6. QED
        BY <3>4, <3>5
    <2>4. QED
      BY <2>2, <2>3
  <1>11. ASSUME NEW r \in requests, Fails(r) PROVE MemoryInv'
    <2>1. /\ r \in Requests /\ requests' = requests \ {r}
          /\ UNCHANGED <<choice, loader, edited, seen, timer>>
          /\ orderly' <=> orderly /\ ~r.current
      BY <1>11 DEF Fails, TypeOK
    <2>2. ~r.current => (Outstanding(requests)' <=> Outstanding(requests))
      BY <2>1 DEF Outstanding
    <2>3. QED
      BY <2>1, <2>2 DEF MemoryInv, RequestsOfNow, CacheKnown, QuietKnows, Quiet
  <1>12. CASE Reload
    <2>1. timer' = "sync" /\ ~seen'.hydrated /\ (orderly' => orderly)
      BY <1>12 DEF Reload, RestoredMemory
    <2>2. QED
      BY <2>1, MemoryAwaits
  <1>13. CASE UNCHANGED vars
    BY <1>13, MemoryKept DEF vars
  <1>14. QED
    BY <1>1, <1>2, <1>3, <1>4, <1>5, <1>6, <1>7, <1>8, <1>9, <1>10, <1>11, <1>12, <1>13
    DEF Next

LEMMA MemoryInvLemma == Spec => []MemoryInv
  <1>1. Init => MemoryInv
    BY DEF Init, MemoryInv, RequestsOfNow, CacheKnown, QuietKnows, Quiet
  <1>2. /\ TypeOK /\ TypeOK' /\ PreviewInv /\ MemoryInv /\ [Next]_vars => MemoryInv'
    BY SyncAssumption, MemoryStep DEF PreviewInv
  <1>3. QED
    BY <1>1, <1>2, TypeOKThm, PreviewInvLemma, PTL DEF Spec

(* In settled nodes, cache numbers nobody typed are of the selected model. *)
THEOREM CacheIsOfTheModelThm == Spec => []CacheIsOfTheModel
  <1>1. TypeOK /\ MemoryInv => CacheIsOfTheModel
    BY DEF MemoryInv, CacheKnown, QuietKnows, Quiet, Settled, CacheIsOfTheModel
  <1>2. QED
    BY <1>1, TypeOKThm, MemoryInvLemma, PTL

-----------------------------------------------------------------------------
(* The Sample node hears of a pick by a request of its own *)

OwnNumber == orderly /\ Quiet /\ ~sample.edited /\ ~sample.fromPreset
               => sample.steps = loader.model

(* A preset's preview is on its way, and its number will be written.       *)
FetchReplaces ==
  /\ Outstanding(fetches) /\ choice \in Presets
  /\ choice \in Gives => ~(sample.trigger = choice /\ sample.applied)

(* A preset's number in the widget is of the model the node has, or is     *)
(* about to have, unless it is about to be replaced itself.                *)
PresetNumber ==
  ~sample.edited /\ sample.fromPreset =>
    /\ sample.steps \in Gives
    /\ sample.applied /\ sample.trigger \in Gives => sample.steps = sample.trigger
    /\ orderly =>
         \/ FetchReplaces
         \/ PresetPending /\ choice \in Presets /\ ModelOf[sample.steps] = ModelOf[choice]
         \/ ~(PresetPending /\ choice \in Presets) /\ ModelOf[sample.steps] = seen.model

(* A preset's preview that comes after the Model node took the preset in.  *)
FetchKnows ==
  orderly /\ Outstanding(fetches) /\ choice \in Presets /\ ~PresetPending =>
    seen.model = ModelOf[choice] /\ loader.model = ModelOf[choice]

SampleInv == OwnNumber /\ PresetNumber /\ FetchKnows

(* Between an answer and the next, nothing decides what is pending but the *)
(* user, whose orderly edits forget no pick.                               *)
LEMMA PendingKept ==
  ASSUME SyncAssumption, TypeOK, TypeOK', RequestIsOfNow, MemoryInv,
         \/ UNCHANGED <<choice, seen, timer, requests>>
         \/ timer' = "sync" /\ ~PickForgotten /\ UNCHANGED <<choice, seen, requests>>
         \/ SyncStarts
         \/ \E r \in requests : ~r.current /\ requests' = requests \ {r}
                                /\ UNCHANGED <<choice, seen, timer>>,
         orderly
  PROVE  PresetPending' <=> PresetPending
  <1>1. CASE UNCHANGED <<choice, seen, timer, requests>>
    BY <1>1 DEF PresetPending
  <1>2. CASE timer' = "sync" /\ ~PickForgotten /\ UNCHANGED <<choice, seen, requests>>
    <2>1. PresetPending' <=> choice # seen.trigger \/ ~seen.applied
      BY <1>2 DEF PresetPending
    <2>2. CASE timer # "off"
      BY <1>2, <2>1, <2>2 DEF PresetPending, PickForgotten
    <2>3. CASE timer = "off" /\ Outstanding(requests)
      BY <1>2, <2>1, <2>3 DEF PresetPending, PickForgotten, Outstanding, MemoryInv, RequestsOfNow
    <2>4. CASE Quiet
      BY <1>2, <2>1, <2>4 DEF Quiet, Outstanding, PresetPending, MemoryInv, QuietKnows
    <2>5. QED
      BY <2>2, <2>3, <2>4 DEF Quiet
  <1>3. CASE SyncStarts
    <2>1. /\ requests' = Superseded(requests) \cup {Request} /\ timer # "off" /\ timer' = "off"
          /\ UNCHANGED <<choice, seen>>
      BY <1>3 DEF SyncStarts
    <2>2. \A r \in requests' : r.current => r = Request
      BY <2>1 DEF Superseded, TypeOK, Requests
    <2>3. Request.current /\ Request \in requests'
      BY <2>1, NewRequest
    <2>4. Request.presetChanged <=> timer = "picked" \/ choice # seen.trigger \/ ~seen.applied
      BY DEF Request
    <2>5. PresetPending' <=> Request.presetChanged
      BY <2>1, <2>2, <2>3 DEF PresetPending
    <2>6. QED
      BY <2>1, <2>4, <2>5 DEF PresetPending
  <1>4. ASSUME NEW r \in requests, ~r.current, requests' = requests \ {r},
               UNCHANGED <<choice, seen, timer>>
        PROVE  PresetPending' <=> PresetPending
    BY <1>4 DEF PresetPending
  <1>5. QED
    BY <1>1, <1>2, <1>3, <1>4

LEMMA AnswerPending ==
  ASSUME SyncAssumption, TypeOK, RequestIsOfNow, MemoryInv,
         NEW r \in requests, r.current, Answered(r), orderly'
  PROVE  /\ PresetPending <=> r.presetChanged
         /\ ~PresetPending'
  <1>1. timer = "off" /\ timer' = "off" /\ ~Outstanding(requests)'
    BY OrderlyAnswer DEF MemoryInv
  <1>2. QED
    BY <1>1 DEF PresetPending, RequestIsOfNow, Outstanding

LEMMA AnswerModels ==
  ASSUME SyncAssumption, TypeOK, RequestIsOfNow, MemoryInv,
         NEW r \in requests, r.current, Answered(r), orderly'
  PROVE  /\ PresetPending /\ choice \in Presets => loader' = Wanted(choice)
         /\ ~(PresetPending /\ choice \in Presets) =>
              loader'.model = loader.model /\ About(r) = loader.model
         /\ PresetPending /\ choice = None => loader.model = seen.model
         /\ About(r) = loader'.model /\ seen'.model = loader'.model
  <1>1. /\ r \in Requests /\ r.choice = choice /\ r.model = loader.model
        /\ loader' = Gated(Filled(r), r)
        /\ r.presetChanged /\ r.choice = None => DefaultsAreIn(r)
        /\ r.modelChanged <=> loader.model # seen.model
    BY OrderlyAnswer DEF MemoryInv
  <1>2. PresetPending <=> r.presetChanged
    BY AnswerPending
  <1>3. choice \in Presets <=> choice # None
    BY DEF TypeOK, SyncAssumption
  <1>4. PresetWins(r) <=> PresetPending /\ choice \in Presets
    BY <1>1, <1>2, <1>3 DEF PresetWins
  <1>5. PresetWins(r) => loader' = Wanted(choice) /\ About(r) = ModelOf[choice]
    BY <1>1, PresetAnswerFills
  <1>6. ~PresetWins(r) => loader'.model = loader.model /\ About(r) = loader.model
    BY <1>1, AnsweredWidgets
  <1>7. PresetPending /\ choice = None => loader.model = seen.model
    BY <1>1, <1>2 DEF DefaultsAreIn
  <1>8. seen'.model = loader'.model
    BY AnswerRemembered
  <1>9. QED
    BY <1>4, <1>5, <1>6, <1>7, <1>8 DEF Wanted

(* What the Sample node makes of an answer it is told of.                  *)
LEMMA PushedSample ==
  ASSUME TypeOK, NEW r \in Requests
  PROVE  /\ Pushed(r).trigger = sample.trigger
         /\ Pushed(r).applied <=> sample.applied
         /\ Pushed(r).edited <=> sample.edited
         /\ sample.edited => Pushed(r) = sample
         /\ sample.fromPreset /\ ~(r.modelChanged /\ ~r.presetChanged) => Pushed(r) = sample
         /\ ~sample.edited /\ Pushed(r).fromPreset =>
              Pushed(r) = sample /\ ~(r.modelChanged /\ ~r.presetChanged)
         /\ ~sample.edited /\ ~Pushed(r).fromPreset => Pushed(r).steps = About(r)
  <1>1. sample \in Samples
    BY DEF TypeOK, Samples
  <1>2. CASE sample.edited \/ (sample.fromPreset /\ ~(r.modelChanged /\ ~r.presetChanged))
    BY <1>2 DEF Pushed, WithModel
  <1>3. CASE ~(sample.edited \/ (sample.fromPreset /\ ~(r.modelChanged /\ ~r.presetChanged)))
    <2>1. Pushed(r) = [sample EXCEPT !.steps = About(r), !.fromPreset = FALSE]
      BY <1>3 DEF Pushed, WithModel
    <2>2. QED
      BY <1>1, <1>3, <2>1 DEF Samples
  <1>4. QED
    BY <1>2, <1>3

(* The preset's own preview.                                               *)
LEMMA PresetSample ==
  ASSUME TypeOK
  PROVE  /\ WithPreset(choice).edited <=> sample.edited
         /\ sample.trigger = choice /\ sample.applied => WithPreset(choice) = sample
         /\ ~(sample.trigger = choice /\ sample.applied) =>
              /\ WithPreset(choice).trigger = choice
              /\ choice = None => /\ ~WithPreset(choice).applied
                                  /\ WithPreset(choice).steps = sample.steps
                                  /\ WithPreset(choice).fromPreset <=> sample.fromPreset
              /\ choice # None /\ choice \in Gives =>
                    WithPreset(choice).steps = choice /\ WithPreset(choice).fromPreset
              /\ choice # None /\ choice \notin Gives =>
                    /\ WithPreset(choice).steps = sample.steps
                    /\ WithPreset(choice).fromPreset <=> sample.fromPreset
  <1>1. sample \in Samples
    BY DEF TypeOK, Samples
  <1>2. CASE sample.trigger = choice /\ sample.applied
    BY <1>2 DEF WithPreset
  <1>3. CASE ~(sample.trigger = choice /\ sample.applied) /\ choice = None
    <2>1. WithPreset(choice) = [sample EXCEPT !.trigger = choice, !.applied = FALSE]
      BY <1>3 DEF WithPreset
    <2>2. QED
      BY <1>1, <1>3, <2>1 DEF Samples
  <1>4. CASE ~(sample.trigger = choice /\ sample.applied) /\ choice # None
    <2>1. WithPreset(choice) = [GenerationDefaults(choice) EXCEPT !.trigger = choice, !.applied = TRUE]
      BY <1>4 DEF WithPreset
    <2>2. CASE choice \in Gives
      <3>1. GenerationDefaults(choice) = [sample EXCEPT !.steps = choice, !.fromPreset = TRUE]
        BY <2>2 DEF GenerationDefaults
      <3>2. QED
        BY <1>1, <1>4, <2>1, <2>2, <3>1 DEF Samples
    <2>3. CASE choice \notin Gives
      <3>1. GenerationDefaults(choice) = sample
        BY <2>3 DEF GenerationDefaults
      <3>2. QED
        BY <1>1, <1>4, <2>1, <2>3, <3>1 DEF Samples
    <2>4. QED
      BY <2>2, <2>3
  <1>5. QED
    BY <1>2, <1>3, <1>4

LEMMA SampleKept ==
  ASSUME SampleInv, PresetPending' <=> PresetPending, OwnNumber',
         UNCHANGED <<choice, sample, fetches, seen>>, UNCHANGED loader \/ ~Outstanding(fetches),
         orderly' => orderly
  PROVE  SampleInv'
  BY DEF SampleInv, PresetNumber, FetchKnows, FetchReplaces, Outstanding

LEMMA SampleStep ==
  ASSUME SyncAssumption, TypeOK, TypeOK', RequestIsOfNow, MemoryInv, SampleInv, [Next]_vars
  PROVE  SampleInv'
  <1>1. ASSUME NEW p \in Choices, Pick(p) PROVE SampleInv'
    <2>1. /\ timer' = "picked" /\ choice' = p /\ UNCHANGED <<sample, seen, loader>>
          /\ orderly' => /\ orderly /\ (p = None => Settled)
                         /\ ~(sample.applied /\ sample.trigger = p)
          /\ [choice |-> p, current |-> TRUE] \in fetches'
      BY <1>1 DEF Pick, Refresh
    <2>2. Outstanding(fetches)'
      BY <2>1 DEF Outstanding
    <2>3. PresetPending' /\ ~Quiet'
      BY <2>1 DEF PresetPending, Quiet
    <2>4. CASE p = None
      <3>1. (~Outstanding(fetches) /\ ~PresetPending) \/ ~orderly'
        BY <2>1, <2>4 DEF Settled, PresetPending, Outstanding
      <3>2. p \notin Presets
        BY <2>4 DEF SyncAssumption
      <3>3. QED
        BY <2>1, <2>3, <3>1, <3>2
        DEF SampleInv, OwnNumber, PresetNumber, FetchKnows, FetchReplaces
    <2>5. CASE p \in Presets
      BY <2>1, <2>2, <2>3, <2>5 DEF SampleInv, OwnNumber, PresetNumber, FetchKnows, FetchReplaces
    <2>6. QED
      BY <2>4, <2>5
  <1>2. CASE Reconnect
    <2>1. /\ timer' = "picked" /\ UNCHANGED <<choice, sample, seen, loader, orderly>>
          /\ [choice |-> choice, current |-> TRUE] \in fetches'
      BY <1>2 DEF Reconnect, Refresh
    <2>2. Outstanding(fetches)'
      BY <2>1 DEF Outstanding
    <2>3. PresetPending' /\ ~Quiet'
      BY <2>1 DEF PresetPending, Quiet
    <2>4. QED
      BY <2>1, <2>2, <2>3 DEF SampleInv, OwnNumber, PresetNumber, FetchKnows, FetchReplaces
  <1>3. ASSUME NEW r \in fetches, PresetAnswered(r) PROVE SampleInv'
    <2>1. /\ fetches' = fetches \ {r} /\ UNCHANGED <<choice, loader, seen, timer, requests>>
      BY <1>3 DEF PresetAnswered
    <2>2. PresetPending' <=> PresetPending
      BY <2>1 DEF PresetPending
    <2>3. Quiet' <=> Quiet
      BY <2>1 DEF Quiet, Outstanding
    <2>4. CASE ~r.current
      <3>1. UNCHANGED <<sample, orderly>>
        BY <1>3, <2>4 DEF PresetAnswered
      <3>2. Outstanding(fetches)' <=> Outstanding(fetches)
        BY <2>1, <2>4 DEF Outstanding
      <3>3. QED
        BY <2>1, <2>2, <2>3, <3>1, <3>2
        DEF SampleInv, OwnNumber, PresetNumber, FetchKnows, FetchReplaces
    <2>5. CASE r.current
      <3>1. /\ sample' = WithPreset(choice)
            /\ orderly' => orderly /\ (sample.fromPreset => choice \in Gives \cup {None})
        BY <1>3, <2>5 DEF PresetAnswered
      <3>2. Outstanding(fetches) /\ (Outstanding(fetches)' => Outstanding(fetches))
        BY <2>1, <2>5 DEF Outstanding
      <3>3. OwnNumber' /\ FetchKnows'
        <4>1. FetchKnows'
          BY <2>1, <2>2, <3>1, <3>2 DEF SampleInv, FetchKnows
        <4>2. /\ sample'.edited <=> sample.edited
              /\ ~sample'.fromPreset => sample'.steps = sample.steps /\ ~sample.fromPreset
          BY <3>1, PresetSample
        <4>3. QED
          BY <2>1, <2>3, <3>1, <4>1, <4>2 DEF SampleInv, OwnNumber
      <3>4. CASE sample.trigger = choice /\ sample.applied
        <4>1. sample' = sample
          BY <3>1, <3>4, PresetSample
        <4>2. orderly' /\ sample.fromPreset => ~FetchReplaces
          BY <3>1, <3>4 DEF FetchReplaces, SyncAssumption
        <4>3. PresetNumber'
          BY <2>1, <2>2, <3>1, <4>1, <4>2 DEF SampleInv, PresetNumber
        <4>4. QED
          BY <3>3, <4>3 DEF SampleInv
      <3>5. CASE ~(sample.trigger = choice /\ sample.applied) /\ choice = None
        <4>1. /\ ~sample'.applied /\ sample'.steps = sample.steps
              /\ sample'.fromPreset <=> sample.fromPreset
              /\ sample'.edited <=> sample.edited
          BY <3>1, <3>5, PresetSample
        <4>2. choice \notin Presets
          BY <3>5 DEF SyncAssumption
        <4>3. PresetNumber'
          BY <2>1, <2>2, <3>1, <4>1, <4>2 DEF SampleInv, PresetNumber, FetchReplaces
        <4>4. QED
          BY <3>3, <4>3 DEF SampleInv
      <3>6. CASE ~(sample.trigger = choice /\ sample.applied) /\ choice # None
        <4>1. choice \in Presets
          BY <3>6 DEF TypeOK
        <4>2. orderly /\ ~PresetPending => seen.model = ModelOf[choice]
          BY <3>2, <4>1 DEF SampleInv, FetchKnows
        <4>3. sample'.trigger = choice /\ (sample'.edited <=> sample.edited)
          BY <3>1, <3>6, PresetSample
        <4>4. CASE choice \in Gives
          <5>1. sample'.steps = choice
            BY <3>1, <3>6, <4>4, PresetSample
          <5>2. PresetNumber'
            BY <2>1, <2>2, <3>1, <4>1, <4>2, <4>3, <4>4, <5>1 DEF PresetNumber
          <5>3. QED
            BY <3>3, <5>2 DEF SampleInv
        <4>5. CASE choice \notin Gives
          <5>1. sample'.steps = sample.steps /\ (sample'.fromPreset <=> sample.fromPreset)
            BY <3>1, <3>6, <4>5, PresetSample
          <5>2. sample.fromPreset => ~orderly'
            BY <3>1, <3>6, <4>5
          <5>3. PresetNumber'
            BY <2>1, <4>3, <4>5, <5>1, <5>2 DEF SampleInv, PresetNumber
          <5>4. QED
            BY <3>3, <5>3 DEF SampleInv
        <4>6. QED
          BY <4>4, <4>5
      <3>7. QED
        BY <3>4, <3>5, <3>6
    <2>6. QED
      BY <2>4, <2>5
  <1>4. ASSUME NEW r \in fetches, PresetFails(r) PROVE SampleInv'
    <2>1. /\ fetches' = fetches \ {r}
          /\ UNCHANGED <<choice, loader, seen, timer, requests, sample>>
          /\ orderly' => orderly /\ ~r.current
      BY <1>4 DEF PresetFails
    <2>2. PresetPending' <=> PresetPending
      BY <2>1 DEF PresetPending
    <2>3. Quiet' <=> Quiet
      BY <2>1 DEF Quiet, Outstanding
    <2>4. ~r.current => (Outstanding(fetches)' <=> Outstanding(fetches))
      BY <2>1 DEF Outstanding
    <2>5. QED
      BY <2>1, <2>2, <2>3, <2>4
      DEF SampleInv, OwnNumber, PresetNumber, FetchKnows, FetchReplaces
  <1>5. ASSUME NEW m \in Models, EditModel(m) PROVE SampleInv'
    <2>1. /\ timer' = "sync" /\ UNCHANGED <<choice, sample, fetches, seen, requests>>
          /\ orderly' => orderly /\ ~PickForgotten /\ ~Outstanding(fetches)
      BY <1>5 DEF EditModel
    <2>2. OwnNumber'
      BY <2>1 DEF OwnNumber, Quiet
    <2>3. CASE orderly'
      <3>1. PresetPending' <=> PresetPending
        BY <2>1, <2>3, PendingKept
      <3>2. QED
        BY <2>1, <2>2, <2>3, <3>1, SampleKept
    <2>4. CASE ~orderly'
      BY <2>1, <2>2, <2>4 DEF SampleInv, PresetNumber, FetchKnows
    <2>5. QED
      BY <2>3, <2>4
  <1>6. ASSUME EditTrigger \/ \E m \in Methods : EditMethod(m) PROVE SampleInv'
    <2>1. /\ timer' = "sync" /\ UNCHANGED <<choice, sample, fetches, seen, requests>>
          /\ loader'.model = loader.model
          /\ orderly' => orderly /\ ~PickForgotten
      BY <1>6 DEF EditTrigger, EditMethod, SchedulePlain, TypeOK
    <2>2. OwnNumber'
      BY <2>1 DEF OwnNumber, Quiet
    <2>3. CASE orderly'
      <3>1. PresetPending' <=> PresetPending
        BY <2>1, <2>3, PendingKept
      <3>2. QED
        BY <2>1, <2>2, <2>3, <3>1 DEF SampleInv, PresetNumber, FetchKnows, FetchReplaces
    <2>4. CASE ~orderly'
      BY <2>1, <2>2, <2>4 DEF SampleInv, PresetNumber, FetchKnows
    <2>5. QED
      BY <2>3, <2>4
  <1>7. CASE TypeCache
    <2>1. /\ UNCHANGED <<choice, sample, fetches, seen, timer, requests, orderly>>
          /\ loader'.model = loader.model
      BY <1>7 DEF TypeCache, TypeOK
    <2>2. PresetPending' <=> PresetPending
      BY <2>1 DEF PresetPending
    <2>3. QED
      BY <2>1, <2>2
      DEF SampleInv, OwnNumber, PresetNumber, FetchKnows, FetchReplaces, Quiet, Outstanding
  <1>8. CASE TypeSteps
    <2>1. /\ UNCHANGED <<choice, loader, fetches, seen, timer, requests, orderly>>
          /\ sample'.edited
      BY <1>8 DEF TypeSteps, TypeOK
    <2>2. PresetPending' <=> PresetPending
      BY <2>1 DEF PresetPending
    <2>3. QED
      BY <2>1, <2>2 DEF SampleInv, OwnNumber, PresetNumber, FetchKnows, Outstanding
  <1>9. CASE SyncStarts
    <2>1. UNCHANGED <<choice, sample, fetches, seen, loader, orderly>>
      BY <1>9 DEF SyncStarts
    <2>2. ~Quiet'
      BY <1>9, NewRequest DEF SyncStarts, Quiet, Outstanding
    <2>3. orderly => (PresetPending' <=> PresetPending)
      BY <1>9, PendingKept
    <2>4. QED
      BY <2>1, <2>2, <2>3
      DEF SampleInv, OwnNumber, PresetNumber, FetchKnows, FetchReplaces, Outstanding
  <1>10. ASSUME NEW r \in requests, Answered(r) PROVE SampleInv'
    <2>1. r \in Requests /\ requests' = requests \ {r} /\ UNCHANGED <<choice, fetches>>
      BY <1>10 DEF Answered, TypeOK
    <2>2. CASE ~r.current
      <3>1. UNCHANGED <<choice, fetches, loader, sample, seen, orderly, timer>>
        BY <1>10, <2>1, <2>2 DEF Answered
      <3>2. orderly => (PresetPending' <=> PresetPending)
        BY <2>1, <2>2, <3>1, PendingKept
      <3>3. Quiet' <=> Quiet
        BY <2>1, <2>2, <3>1 DEF Quiet, Outstanding
      <3>4. QED
        BY <3>1, <3>2, <3>3
        DEF SampleInv, OwnNumber, PresetNumber, FetchKnows, FetchReplaces, Outstanding
    <2>3. CASE r.current
      <3>1. sample' = Pushed(r)
        BY <1>10, <2>3 DEF Answered, Apply
      <3>2. ~sample'.edited /\ sample'.fromPreset
              => sample' = sample /\ ~(r.modelChanged /\ ~r.presetChanged)
        BY <2>1, <3>1, PushedSample
      <3>3. CASE ~orderly'
        BY <3>2, <3>3 DEF SampleInv, OwnNumber, PresetNumber, FetchKnows
      <3>4. CASE orderly'
        <4>1. /\ PresetPending /\ choice \in Presets => loader' = Wanted(choice)
              /\ ~(PresetPending /\ choice \in Presets) => loader'.model = loader.model
              /\ PresetPending /\ choice = None => loader.model = seen.model
              /\ About(r) = loader'.model /\ seen'.model = loader'.model
          BY <1>10, <2>3, <3>4, AnswerModels
        <4>2. /\ PresetPending <=> r.presetChanged
              /\ ~PresetPending'
          BY <1>10, <2>3, <3>4, AnswerPending
        <4>3. orderly /\ (r.modelChanged <=> loader.model # seen.model)
          BY <1>10, <2>3, <3>4, OrderlyAnswer DEF MemoryInv
        <4>4. OwnNumber'
          BY <2>1, <3>1, <4>1, PushedSample DEF OwnNumber
        <4>5. choice \in Presets \/ choice = None
          BY DEF TypeOK
        <4>6. ASSUME ~sample'.edited, sample'.fromPreset PROVE PresetNumber'
          <5>1. sample' = sample /\ ~(r.modelChanged /\ ~r.presetChanged)
            BY <3>2, <4>6
          <5>2. FetchReplaces' <=> FetchReplaces
            BY <2>1, <5>1 DEF FetchReplaces, Outstanding
          <5>3. ~(PresetPending /\ choice \in Presets) => loader'.model = seen.model
            BY <4>1, <4>2, <4>3, <4>5, <5>1
          <5>4. PresetPending /\ choice \in Presets => seen'.model = ModelOf[choice]
            BY <4>1 DEF Wanted
          <5>5. QED
            BY <2>1, <4>1, <4>2, <4>3, <4>6, <5>1, <5>2, <5>3, <5>4 DEF SampleInv, PresetNumber
        <4>7. FetchKnows'
          BY <2>1, <4>1, <4>3 DEF SampleInv, FetchKnows, Wanted, Outstanding
        <4>8. QED
          BY <4>4, <4>6, <4>7 DEF SampleInv, PresetNumber
      <3>5. QED
        BY <3>3, <3>4
    <2>4. QED
      BY <2>2, <2>3
  <1>11. ASSUME NEW r \in requests, Fails(r) PROVE SampleInv'
    <2>1. /\ requests' = requests \ {r}
          /\ UNCHANGED <<choice, fetches, loader, sample, seen, timer>>
          /\ orderly' => orderly /\ ~r.current
      BY <1>11 DEF Fails
    <2>2. orderly' => (PresetPending' <=> PresetPending)
      BY <2>1, PendingKept
    <2>3. ~r.current => (Quiet' <=> Quiet)
      BY <2>1 DEF Quiet, Outstanding
    <2>4. QED
      BY <2>1, <2>2, <2>3
      DEF SampleInv, OwnNumber, PresetNumber, FetchKnows, FetchReplaces, Outstanding
  <1>12. CASE Reload
    <2>1. timer' = "sync" /\ fetches' = {} /\ sample'.fromPreset = FALSE
      BY <1>12 DEF Reload, RestoredSample
    <2>2. QED
      BY <2>1 DEF SampleInv, OwnNumber, PresetNumber, FetchKnows, Quiet, Outstanding
  <1>13. CASE UNCHANGED vars
    BY <1>13 DEF vars, SampleInv, OwnNumber, PresetNumber, FetchKnows, FetchReplaces,
                 PresetPending, Quiet, Outstanding
  <1>14. QED
    BY <1>1, <1>2, <1>3, <1>4, <1>5, <1>6, <1>7, <1>8, <1>9, <1>10, <1>11, <1>12, <1>13
    DEF Next

LEMMA SampleInvLemma == Spec => []SampleInv
  <1>1. Init => SampleInv
    BY DEF Init, SampleInv, OwnNumber, PresetNumber, FetchKnows, Quiet, Outstanding
  <1>2. /\ TypeOK /\ TypeOK' /\ PreviewInv /\ MemoryInv /\ SampleInv /\ [Next]_vars
        => SampleInv'
    BY SyncAssumption, SampleStep DEF PreviewInv
  <1>3. QED
    BY <1>1, <1>2, TypeOKThm, PreviewInvLemma, MemoryInvLemma, PTL DEF Spec

(* In settled nodes, the Sample node's number is of the Model node's model. *)
THEOREM SampleIsOfTheModelThm == Spec => []SampleIsOfTheModel
  <1>1. TypeOK /\ MemoryInv /\ SampleInv => SampleIsOfTheModel
    <2> SUFFICES ASSUME TypeOK, MemoryInv, SampleInv, Settled, orderly, ~sample.edited
                 PROVE  sample.steps \in {Typed, loader.model}
                                         \cup {p \in Presets : ModelOf[p] = loader.model}
      BY DEF SampleIsOfTheModel
    <2>1. Quiet /\ ~PresetPending /\ ~FetchReplaces
      BY DEF Settled, Quiet, PresetPending, FetchReplaces, Outstanding
    <2>2. seen.model = loader.model
      BY <2>1 DEF MemoryInv, QuietKnows
    <2>3. CASE sample.fromPreset
      BY <2>1, <2>2, <2>3, SyncAssumption DEF SampleInv, PresetNumber, SyncAssumption
    <2>4. CASE ~sample.fromPreset
      BY <2>1, <2>4 DEF SampleInv, OwnNumber
    <2>5. QED
      BY <2>3, <2>4
  <1>2. QED
    BY <1>1, TypeOKThm, MemoryInvLemma, SampleInvLemma, PTL

-----------------------------------------------------------------------------
(* What a pick leads to *)

(* A pick the Model node has taken in is what it shows and remembers.      *)
PickReaches ==
  last \in Presets =>
    /\ last = choice
    /\ orderly /\ ~PresetPending =>
         /\ loader = Wanted(choice) /\ seen.model = loader.model
         /\ seen.method \in {Unset, loader.method}
         /\ seen.hydrated \/ "cache" \in edited \/ loader.method = "none"

(* Its number is in the Sample node, or on its way there.                  *)
NumberReaches ==
  orderly /\ last \in Gives =>
    \/ Outstanding(fetches) /\ ~(sample.trigger = choice /\ sample.applied)
    \/ sample.steps = choice /\ (sample.fromPreset \/ sample.edited)

PickInv == PickReaches /\ NumberReaches

LEMMA PickKept ==
  ASSUME PickInv, PresetPending' <=> PresetPending,
         UNCHANGED <<choice, loader, edited, seen, sample, fetches, last, orderly>>
  PROVE  PickInv'
  BY DEF PickInv, PickReaches, NumberReaches, Outstanding

(* An answer for no preset finds the preset's widgets in, and leaves them. *)
LEMMA PresetStays ==
  ASSUME SyncAssumption, TypeOK, RequestIsOfNow, MemoryInv, PickInv,
         NEW r \in requests, r.current, Answered(r), orderly',
         ~PresetPending, choice \in Presets, last \in Presets
  PROVE  loader' = loader /\ ~r.modelChanged /\ ~r.presetChanged
  <1>1. /\ r \in Requests /\ r.choice = choice /\ orderly
        /\ r.model = loader.model /\ r.method = loader.method
        /\ loader' = Gated(Filled(r), r)
        /\ r.modelChanged <=> loader.model # seen.model
        /\ r.methodChanged <=> seen.method # Unset /\ loader.method # seen.method
    BY OrderlyAnswer DEF MemoryInv
  <1>2. ~r.presetChanged
    BY AnswerPending
  <1>3. /\ loader = Wanted(choice) /\ seen.model = loader.model
        /\ seen.method \in {Unset, loader.method}
        /\ seen.hydrated \/ "cache" \in edited \/ loader.method = "none"
    BY <1>1 DEF PickInv, PickReaches
  <1>4. ~r.modelChanged /\ ~r.methodChanged
    BY <1>1, <1>3
  <1>5. Displayed(r) = loader
    BY <1>4 DEF Displayed
  <1>6. Hydrated(r) = loader
    BY <1>3, <1>4, <1>5 DEF Hydrated, Hydrates
  <1>7. Filled(r) = loader
    BY <1>1, <1>2, <1>6 DEF Filled, PresetWins, Requests
  <1>8. About(r) = loader.model /\ Resolved(r) = IF loader.model \in Cached THEN loader.method ELSE "none"
    BY <1>1, <1>2 DEF About, Resolved, PresetWins
  <1>9. CASE choice \in Caching
    <2>1. About(r) \in Cached /\ Resolved(r) = "dbcache"
      BY <1>3, <1>8, <1>9 DEF Wanted, PresetMethod, SyncAssumption
    <2>2. Gated(loader, r) = loader
      BY <1>3, <2>1 DEF Gated, Wanted
    <2>3. QED
      BY <1>1, <1>2, <1>4, <1>7, <2>2
  <1>10. CASE choice \notin Caching
    <2>1. loader = [model |-> ModelOf[choice], method |-> "none", cache |-> First]
      BY <1>3, <1>10 DEF Wanted, PresetMethod, PresetCache
    <2>2. Gated(loader, r) = loader
      BY <2>1, GatedWidgets
    <2>3. QED
      BY <1>1, <1>2, <1>4, <1>7, <2>2
  <1>11. QED
    BY <1>9, <1>10

LEMMA PickStep ==
  ASSUME SyncAssumption, TypeOK, TypeOK', RequestIsOfNow, MemoryInv, PickInv, [Next]_vars
  PROVE  PickInv'
  <1> Unset \notin Presets /\ Gives \subseteq Presets /\ None \notin Presets
    BY DEF SyncAssumption
  <1>1. ASSUME NEW p \in Choices, Pick(p) PROVE PickInv'
    <2>1. /\ timer' = "picked" /\ choice' = p /\ last' = p /\ UNCHANGED sample
          /\ orderly' => ~(sample.applied /\ sample.trigger = p)
          /\ [choice |-> p, current |-> TRUE] \in fetches'
      BY <1>1 DEF Pick, Refresh
    <2>2. Outstanding(fetches)' /\ PresetPending'
      BY <2>1 DEF Outstanding, PresetPending
    <2>3. QED
      BY <2>1, <2>2 DEF PickInv, PickReaches, NumberReaches
  <1>2. CASE Reconnect
    <2>1. /\ timer' = "picked" /\ UNCHANGED <<choice, sample, last, orderly>>
          /\ [choice |-> choice, current |-> TRUE] \in fetches'
      BY <1>2 DEF Reconnect, Refresh
    <2>2. Outstanding(fetches)' /\ PresetPending'
      BY <2>1 DEF Outstanding, PresetPending
    <2>3. QED
      BY <2>1, <2>2 DEF PickInv, PickReaches, NumberReaches
  <1>3. ASSUME NEW r \in fetches, PresetAnswered(r) PROVE PickInv'
    <2>1. /\ fetches' = fetches \ {r}
          /\ UNCHANGED <<choice, loader, edited, seen, timer, requests, last>>
          /\ orderly' => orderly
      BY <1>3 DEF PresetAnswered
    <2>2. PresetPending' <=> PresetPending
      BY <2>1 DEF PresetPending
    <2>3. PickReaches'
      BY <2>1, <2>2 DEF PickInv, PickReaches
    <2>4. CASE ~r.current
      <3>1. UNCHANGED <<sample, orderly>>
        BY <1>3, <2>4 DEF PresetAnswered
      <3>2. Outstanding(fetches)' <=> Outstanding(fetches)
        BY <2>1, <2>4 DEF Outstanding
      <3>3. QED
        BY <2>1, <2>3, <3>1, <3>2 DEF PickInv, NumberReaches
    <2>5. CASE r.current
      <3>1. sample' = WithPreset(choice)
        BY <1>3, <2>5 DEF PresetAnswered
      <3>2. CASE sample.trigger = choice /\ sample.applied
        <4>1. sample' = sample
          BY <3>1, <3>2, PresetSample
        <4>2. QED
          BY <2>1, <2>3, <3>2, <4>1 DEF PickInv, NumberReaches
      <3>3. CASE ~(sample.trigger = choice /\ sample.applied)
        <4>1. choice # None /\ choice \in Gives => sample'.steps = choice /\ sample'.fromPreset
          BY <3>1, <3>3, PresetSample
        <4>2. last \in Gives => choice # None /\ choice \in Gives
          BY DEF PickInv, PickReaches
        <4>3. QED
          BY <2>1, <2>3, <4>1, <4>2 DEF PickInv, NumberReaches
      <3>4. QED
        BY <3>2, <3>3
    <2>6. QED
      BY <2>4, <2>5
  <1>4. ASSUME NEW r \in fetches, PresetFails(r) PROVE PickInv'
    <2>1. /\ fetches' = fetches \ {r}
          /\ UNCHANGED <<choice, loader, edited, seen, timer, requests, sample, last>>
          /\ orderly' => orderly /\ ~r.current
      BY <1>4 DEF PresetFails
    <2>2. PresetPending' <=> PresetPending
      BY <2>1 DEF PresetPending
    <2>3. ~r.current => (Outstanding(fetches)' <=> Outstanding(fetches))
      BY <2>1 DEF Outstanding
    <2>4. QED
      BY <2>1, <2>2, <2>3 DEF PickInv, PickReaches, NumberReaches
  <1>5. ASSUME \/ \E m \in Models : EditModel(m)
               \/ \E m \in Methods : EditMethod(m)
               \/ TypeCache \/ TypeSteps
        PROVE  PickInv'
    <2>1. last' = Unset
      BY <1>5 DEF EditModel, EditMethod, TypeCache, TypeSteps
    <2>2. QED
      BY <2>1 DEF PickInv, PickReaches, NumberReaches
  <1>6. CASE EditTrigger
    <2>1. /\ timer' = "sync"
          /\ UNCHANGED <<choice, loader, edited, seen, requests, sample, fetches, last>>
          /\ orderly' => orderly /\ ~PickForgotten
      BY <1>6 DEF EditTrigger, SchedulePlain
    <2>2. orderly' => (PresetPending' <=> PresetPending)
      BY <2>1, PendingKept
    <2>3. QED
      BY <2>1, <2>2 DEF PickInv, PickReaches, NumberReaches, Outstanding
  <1>7. CASE SyncStarts
    <2>1. UNCHANGED <<choice, loader, edited, seen, sample, fetches, last, orderly>>
      BY <1>7 DEF SyncStarts
    <2>2. orderly => (PresetPending' <=> PresetPending)
      BY <1>7, PendingKept
    <2>3. QED
      BY <2>1, <2>2 DEF PickInv, PickReaches, NumberReaches, Outstanding
  <1>8. ASSUME NEW r \in requests, Answered(r) PROVE PickInv'
    <2>1. r \in Requests /\ requests' = requests \ {r} /\ UNCHANGED <<choice, fetches, last>>
      BY <1>8 DEF Answered, TypeOK
    <2>2. CASE ~r.current
      <3>1. UNCHANGED <<loader, edited, sample, seen, orderly, timer>>
        BY <1>8, <2>2 DEF Answered
      <3>2. orderly => (PresetPending' <=> PresetPending)
        BY <2>1, <2>2, <3>1, PendingKept
      <3>3. QED
        BY <2>1, <3>1, <3>2 DEF PickInv, PickReaches, NumberReaches, Outstanding
    <2>3. CASE r.current /\ ~orderly'
      BY <2>1, <2>3 DEF PickInv, PickReaches, NumberReaches
    <2>4. CASE r.current /\ orderly' /\ last \notin Presets
      BY <2>1, <2>4 DEF PickInv, PickReaches, NumberReaches
    <2>5. CASE r.current /\ orderly' /\ last \in Presets
      <3>1. choice \in Presets /\ last = choice
        BY <2>5 DEF PickInv, PickReaches
      <3>2. orderly /\ sample' = Pushed(r)
        BY <1>8, <2>5, OrderlyAnswer DEF MemoryInv
      <3>3. PresetPending <=> r.presetChanged
        BY <1>8, <2>5, AnswerPending
      <3>4. /\ seen'.model = loader'.model /\ seen'.method = loader'.method
            /\ loader'.method # "none" => seen'.hydrated
        BY <1>8, <2>5, AnswerRemembered
      <3>5. loader' = Wanted(choice)
        <4>1. CASE PresetPending
          BY <1>8, <2>5, <3>1, <4>1, AnswerModels
        <4>2. CASE ~PresetPending
          BY <1>8, <2>5, <3>1, <3>2, <4>2, PresetStays DEF PickInv, PickReaches
        <4>3. QED
          BY <4>1, <4>2
      <3>6. PickReaches'
        BY <2>1, <3>1, <3>4, <3>5 DEF PickReaches
      <3>7. ~(r.modelChanged /\ ~r.presetChanged)
        BY <1>8, <2>5, <3>1, <3>3, PresetStays
      <3>8. /\ sample'.trigger = sample.trigger /\ (sample'.applied <=> sample.applied)
            /\ sample.edited \/ sample.fromPreset => sample' = sample
        BY <2>1, <3>2, <3>7, PushedSample
      <3>9. NumberReaches'
        BY <2>1, <3>2, <3>8 DEF PickInv, NumberReaches, Outstanding
      <3>10. QED
        BY <3>6, <3>9 DEF PickInv
    <2>6. QED
      BY <2>2, <2>3, <2>4, <2>5
  <1>9. ASSUME NEW r \in requests, Fails(r) PROVE PickInv'
    <2>1. /\ requests' = requests \ {r}
          /\ UNCHANGED <<choice, fetches, loader, edited, sample, seen, timer, last>>
          /\ orderly' => orderly /\ ~r.current
      BY <1>9 DEF Fails
    <2>2. orderly' => (PresetPending' <=> PresetPending)
      BY <2>1, PendingKept
    <2>3. QED
      BY <2>1, <2>2 DEF PickInv, PickReaches, NumberReaches, Outstanding
  <1>10. CASE Reload
    <2>1. /\ edited' = RestoredEdits /\ seen' = RestoredMemory /\ sample' = RestoredSample
          /\ orderly' => orderly /\ Settled
          /\ UNCHANGED <<choice, loader, last>>
      BY <1>10 DEF Reload
    <2>2. CASE ~orderly' \/ last \notin Presets
      BY <2>1, <2>2 DEF PickInv, PickReaches, NumberReaches
    <2>3. CASE orderly' /\ last \in Presets
      <3>1. orderly /\ ~PresetPending /\ ~Outstanding(fetches)
        BY <2>1, <2>3 DEF Settled, PresetPending, Outstanding
      <3>2. last = choice /\ loader = Wanted(choice) /\ choice \in Presets
        BY <2>3, <3>1 DEF PickInv, PickReaches
      <3>3. seen'.model = loader.model /\ seen'.method = Unset
        BY <2>1 DEF RestoredMemory
      <3>4. choice # First
        BY <3>2 DEF SyncAssumption
      <3>5. "cache" \in edited' \/ loader.method = "none"
        BY <2>1, <3>2, <3>4 DEF RestoredEdits, Wanted, PresetMethod, PresetCache
      <3>6. PickReaches'
        BY <2>1, <3>2, <3>3, <3>5 DEF PickReaches
      <3>7. last \in Gives => sample.steps = choice
        BY <3>1 DEF PickInv, NumberReaches
      <3>8. sample'.steps = sample.steps /\ (sample'.edited <=> sample.steps # First)
        BY <2>1 DEF RestoredSample
      <3>9. NumberReaches'
        BY <2>1, <3>4, <3>7, <3>8 DEF NumberReaches
      <3>10. QED
        BY <3>6, <3>9 DEF PickInv
    <2>4. QED
      BY <2>2, <2>3
  <1>11. CASE UNCHANGED vars
    <2>1. UNCHANGED <<choice, loader, edited, seen, sample, fetches, last, orderly, timer, requests>>
      BY <1>11 DEF vars
    <2>2. QED
      BY <2>1, PickKept DEF PresetPending
  <1>12. QED
    BY <1>1, <1>2, <1>3, <1>4, <1>5, <1>6, <1>7, <1>8, <1>9, <1>10, <1>11 DEF Next

LEMMA PickInvLemma == Spec => []PickInv
  <1>1. Init => PickInv
    BY SyncAssumption DEF SyncAssumption, Init, PickInv, PickReaches, NumberReaches
  <1>2. /\ TypeOK /\ TypeOK' /\ PreviewInv /\ MemoryInv /\ PickInv /\ [Next]_vars => PickInv'
    BY SyncAssumption, PickStep DEF PreviewInv
  <1>3. QED
    BY <1>1, <1>2, TypeOKThm, PreviewInvLemma, MemoryInvLemma, PTL DEF Spec

(* In settled nodes, a preset picked last is what both of them show.       *)
THEOREM PickIsAppliedThm == Spec => []PickIsApplied
  <1>1. PickInv => PickIsApplied
    <2> SUFFICES ASSUME PickInv, Settled, orderly, last \in Presets
                 PROVE  /\ loader = Wanted(last)
                        /\ last \in Gives => sample.steps = last
      BY DEF PickIsApplied, Wanted
    <2>1. ~PresetPending /\ ~Outstanding(fetches)
      BY DEF Settled, PresetPending, Outstanding
    <2>2. QED
      BY <2>1 DEF PickInv, PickReaches, NumberReaches
  <1>2. QED
    BY <1>1, PickInvLemma, PTL

-----------------------------------------------------------------------------
(* What a user who stops leaves behind runs down.  Unrest counts the work  *)
(* that is left: a timer is worth more than the one request it sends.      *)
Unrest == (IF timer = "off" THEN 0 ELSE 2) + Cardinality(requests) + Cardinality(fetches)

FlightsBounded ==
  /\ IsFiniteSet(requests) /\ Cardinality(requests) \in 0 .. MaxFlights
  /\ IsFiniteSet(fetches) /\ Cardinality(fetches) \in 0 .. MaxFlights

(* A step that is no act of the user leaves less to do.                    *)
RunsDown == budget'.acts = budget.acts => Unrest' < Unrest

(* While there is work, the code goes on: the timer may fire, or an answer *)
(* is on its way.                                                          *)
WorkIsUnderWay ==
  /\ Unrest \in 0 .. 2 + 2 * MaxFlights
  /\ Unrest = 0 => Settled
  /\ timer # "off" => Cardinality(requests) < MaxFlights \/ requests # {}

(* Superseding tickets makes no flight out of nothing.                     *)
LEMMA SupersededSize ==
  ASSUME NEW F, IsFiniteSet(F)
  PROVE  /\ IsFiniteSet(Superseded(F))
         /\ Cardinality(Superseded(F)) <= Cardinality(F)
  <1> DEFINE stale == [r \in F |-> [r EXCEPT !.current = FALSE]]
  <1>1. stale \in [F -> Superseded(F)]
    BY DEF Superseded
  <1>2. \A t \in Superseded(F) : \E r \in F : stale[r] = t
    BY DEF Superseded
  <1> HIDE DEF stale
  <1>3. stale \in Surjection(F, Superseded(F))
    BY <1>1, <1>2 DEF Surjection
  <1>4. QED
    BY <1>3, FS_Surjection

(* A flight more: the earlier ones are superseded.                         *)
LEMMA OneMoreFlight ==
  ASSUME SyncAssumption, NEW F, NEW t, IsFiniteSet(F), Cardinality(F) < MaxFlights
  PROVE  LET G == Superseded(F) \cup {t}
         IN  /\ IsFiniteSet(G) /\ Cardinality(G) \in 0 .. MaxFlights
             /\ Cardinality(G) <= Cardinality(F) + 1
  <1>1. /\ IsFiniteSet(Superseded(F)) /\ Cardinality(Superseded(F)) <= Cardinality(F)
        /\ Cardinality(F) \in Nat /\ Cardinality(Superseded(F)) \in Nat
    BY SupersededSize, FS_CardinalityType
  <1>2. /\ IsFiniteSet(Superseded(F) \cup {t})
        /\ Cardinality(Superseded(F) \cup {t}) \in
             {Cardinality(Superseded(F)), Cardinality(Superseded(F)) + 1}
    BY <1>1, FS_AddElement
  <1>3. QED
    BY <1>1, <1>2 DEF SyncAssumption

(* An answer or an error takes one flight away.                            *)
LEMMA OneFlightLess ==
  ASSUME SyncAssumption, NEW F, NEW t \in F, IsFiniteSet(F), Cardinality(F) \in 0 .. MaxFlights
  PROVE  /\ IsFiniteSet(F \ {t}) /\ Cardinality(F \ {t}) \in 0 .. MaxFlights
         /\ Cardinality(F \ {t}) = Cardinality(F) - 1
  <1>1. IsFiniteSet(F \ {t}) /\ Cardinality(F \ {t}) = Cardinality(F) - 1
    BY FS_RemoveElement
  <1>2. Cardinality(F \ {t}) \in Nat
    BY <1>1, FS_CardinalityType
  <1>3. QED
    BY <1>1, <1>2 DEF SyncAssumption

(* An act of the user is counted.                                          *)
LEMMA ActsCount ==
  ASSUME TypeOK, Acts
  PROVE  budget'.acts # budget.acts
  BY DEF Acts, TypeOK

LEMMA FlightsStep ==
  ASSUME TypeOK, FlightsBounded, [Next]_vars
  PROVE  FlightsBounded' /\ [RunsDown]_vars
  <1> USE SyncAssumption DEF FlightsBounded
  <1>1. ASSUME Acts, UNCHANGED <<fetches, requests>>
        PROVE  FlightsBounded' /\ [RunsDown]_vars
    BY <1>1, ActsCount DEF RunsDown
  <1>2. ASSUME NEW p, Acts, Refresh(p), UNCHANGED requests
        PROVE  FlightsBounded' /\ [RunsDown]_vars
    <2>1. IsFiniteSet(fetches') /\ Cardinality(fetches') \in 0 .. MaxFlights
      BY <1>2, OneMoreFlight DEF Refresh
    <2>2. QED
      BY <1>2, <2>1, ActsCount DEF RunsDown
  <1>3. ASSUME NEW r \in fetches, PresetAnswered(r) \/ PresetFails(r)
        PROVE  FlightsBounded' /\ [RunsDown]_vars
    <2>1. fetches' = fetches \ {r} /\ UNCHANGED <<requests, timer>>
      BY <1>3 DEF PresetAnswered, PresetFails
    <2>2. /\ IsFiniteSet(fetches') /\ Cardinality(fetches') \in 0 .. MaxFlights
          /\ Cardinality(fetches') = Cardinality(fetches) - 1
      BY <2>1, OneFlightLess
    <2>3. QED
      BY <2>1, <2>2 DEF RunsDown, Unrest
  <1>4. ASSUME NEW r \in requests, Answered(r) \/ Fails(r)
        PROVE  FlightsBounded' /\ [RunsDown]_vars
    <2>1. requests' = requests \ {r} /\ UNCHANGED <<fetches, timer>>
      BY <1>4 DEF Answered, Apply, Unnotified, Fails
    <2>2. /\ IsFiniteSet(requests') /\ Cardinality(requests') \in 0 .. MaxFlights
          /\ Cardinality(requests') = Cardinality(requests) - 1
      BY <2>1, OneFlightLess
    <2>3. QED
      BY <2>1, <2>2 DEF RunsDown, Unrest
  <1>5. CASE SyncStarts
    <2>1. /\ requests' = Superseded(requests) \cup {Request}
          /\ timer # "off" /\ timer' = "off" /\ fetches' = fetches
          /\ Cardinality(requests) < MaxFlights
      BY <1>5 DEF SyncStarts
    <2>2. /\ IsFiniteSet(requests') /\ Cardinality(requests') \in 0 .. MaxFlights
          /\ Cardinality(requests') <= Cardinality(requests) + 1
      BY <2>1, OneMoreFlight
    <2>3. QED
      BY <2>1, <2>2 DEF RunsDown, Unrest
  <1>6. CASE Reload
    <2>1. requests' = {} /\ fetches' = {} /\ Acts
      BY <1>6 DEF Reload
    <2>2. FlightsBounded'
      BY <2>1, FS_EmptySet DEF SyncAssumption
    <2>3. QED
      BY <2>1, <2>2, ActsCount DEF RunsDown
  <1>7. CASE UNCHANGED vars
    BY <1>7 DEF vars
  <1>8. ASSUME NEW p \in Choices, Pick(p) PROVE FlightsBounded' /\ [RunsDown]_vars
    BY <1>2, <1>8 DEF Pick
  <1>9. CASE Reconnect
    BY <1>2, <1>9 DEF Reconnect
  <1>10. ASSUME NEW m \in Models, EditModel(m) PROVE FlightsBounded' /\ [RunsDown]_vars
    BY <1>1, <1>10 DEF EditModel
  <1>11. CASE EditTrigger
    BY <1>1, <1>11 DEF EditTrigger
  <1>12. ASSUME NEW m \in Methods, EditMethod(m) PROVE FlightsBounded' /\ [RunsDown]_vars
    BY <1>1, <1>12 DEF EditMethod
  <1>13. CASE TypeCache \/ TypeSteps
    BY <1>1, <1>13 DEF TypeCache, TypeSteps
  <1>14. QED
    BY <1>3, <1>4, <1>5, <1>6, <1>7, <1>8, <1>9, <1>10, <1>11, <1>12, <1>13 DEF Next

LEMMA FlightsBoundedLemma == Spec => []FlightsBounded
  <1>1. Init => FlightsBounded
    BY SyncAssumption, FS_EmptySet DEF Init, FlightsBounded, SyncAssumption
  <1>2. TypeOK /\ FlightsBounded /\ [Next]_vars => FlightsBounded'
    BY FlightsStep
  <1>3. QED
    BY <1>1, <1>2, TypeOKThm, PTL DEF Spec

(* With nothing left to do the nodes have settled; and a sync that finds   *)
(* every request in use waits for an answer that is on its way.            *)
LEMMA WorkIsUnderWayLemma == Spec => []WorkIsUnderWay
  <1>1. TypeOK /\ FlightsBounded => WorkIsUnderWay
    <2> SUFFICES ASSUME TypeOK, FlightsBounded PROVE WorkIsUnderWay
      OBVIOUS
    <2> USE SyncAssumption
    <2>1. /\ Cardinality(requests) \in 0 .. MaxFlights /\ Cardinality(fetches) \in 0 .. MaxFlights
          /\ MaxFlights \in Nat \ {0}
      BY DEF FlightsBounded, SyncAssumption
    <2>2. /\ Cardinality(requests) = 0 => requests = {}
          /\ Cardinality(fetches) = 0 => fetches = {}
          /\ requests = {} => Cardinality(requests) = 0
      BY FS_EmptySet DEF FlightsBounded
    <2>3. Unrest \in 0 .. 2 + 2 * MaxFlights
      BY <2>1 DEF Unrest
    <2>4. Unrest = 0 => Settled
      <3>1. Unrest = 0 => timer = "off" /\ Cardinality(requests) = 0 /\ Cardinality(fetches) = 0
        BY <2>1 DEF Unrest
      <3>2. QED
        BY <2>2, <3>1 DEF Settled, Outstanding
    <2>5. timer # "off" => Cardinality(requests) < MaxFlights \/ requests # {}
      BY <2>1, <2>2
    <2>6. QED
      BY <2>3, <2>4, <2>5 DEF WorkIsUnderWay
  <1>2. QED
    BY <1>1, TypeOKThm, FlightsBoundedLemma, PTL DEF Spec

(* Every step but the user's leaves less to do: an answer or an error of a *)
(* preview schedules no sync, and a sync sends one request for its timer.  *)
(* Nothing left to do means settled, so a user who stops leaves nodes that *)
(* settle within 2 + 2 * MaxFlights steps: the measure behind SyncSettles. *)
THEOREM SyncRunsDown == Spec => []WorkIsUnderWay /\ [][RunsDown]_vars
  <1>1. TypeOK /\ FlightsBounded /\ [Next]_vars => [RunsDown]_vars
    BY FlightsStep
  <1>2. QED
    BY <1>1, TypeOKThm, FlightsBoundedLemma, WorkIsUnderWayLemma, PTL DEF Spec
=============================================================================
