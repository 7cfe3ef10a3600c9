--------------------------- MODULE ProgressTracker ---------------------------
(***************************************************************************)
(* The progress bar of one load or of one run: _XDiTProgressTracker of     *)
(* progress.py, fed by the thread that follows the worker's log            *)
(* (_follow_worker_log) and ended by the thread of the node.               *)
(*                                                                         *)
(* The worker writes lines; the follower starts at the end of the log for  *)
(* a run, hands each line to the tracker, and calls the heartbeat when     *)
(* there is none.  When the worker has answered, or the wait was cut       *)
(* short, the node stops the follower, waits for it and closes the bar.    *)
(* The program only builds trackers with one bar: of a load, out of 100,   *)
(* or of a run, out of its steps and one slot each for decoding and for    *)
(* collecting the result.  What xFuser writes is external: any of the      *)
(* lines the tracker knows.                                                *)
(***************************************************************************)
EXTENDS Naturals, Sequences

CONSTANTS MaxSteps,  \* bound: denoising steps of a run
          Totals,    \* bound: totals of the other progress bars in the log
          MaxLag     \* bound: lines the follower is behind

ASSUME ProgressAssumption ==
  /\ MaxSteps \in Nat /\ MaxLag \in Nat
  /\ Totals \subseteq Nat \ {0}

VARIABLES
  kind,      \* "load" or "run"
  steps,     \* the run's denoising steps
  worker,    \* how far the worker is
  printed,   \* denoising: how often its bar was printed
  log,       \* the lines it has written and the follower has not read
  missed,    \* history: lines were written before the follower looked
  follower,  \* the thread that follows the log
  node,      \* the node's own thread
  tracker    \* the bar's value, the phase, the last tick and the status text

workerVars == <<kind, steps, worker, printed>>
vars == <<workerVars, log, missed, follower, node, tracker>>

INIT_DISPLAY_TOTAL == 100
INIT_START_DISPLAY == 5
COMPILE_PROGRESS_CAP == 85

Total == IF kind = "load" THEN INIT_DISPLAY_TOTAL ELSE steps + 2

Phases == {"init", "loading", "parallel", "compile", "inference", "decode",
           "finalization", "complete"}

(* The phases with a text of their own for the node. *)
ShownPhases == Phases \ {"init", "complete"}

Least(a, b) == IF a < b THEN a ELSE b

-----------------------------------------------------------------------------
(* The tracker. *)
SetPhase(t, p) ==
  IF p = t.phase THEN t
  ELSE [t EXCEPT !.phase = p, !.status = IF p \in ShownPhases THEN p ELSE @]

(* Bug: the bar goes where it is told. *)
SetCompletedAnyway(t, value) == [t EXCEPT !.bar = Least(value, Total)]

(* set_completed: never over the total, and only upwards. *)
SetCompleted(t, value) ==
  [t EXCEPT !.bar = IF Least(value, Total) > @ THEN Least(value, Total) ELSE @]

(* _start: a load's bar starts a little in, a run's at its first step. *)
StartDisplay == IF Total >= INIT_DISPLAY_TOTAL THEN INIT_START_DISPLAY ELSE 0

(* _init_stage_display: a sixth of the bar each, rounded. *)
Stage(k) == (k * INIT_DISPLAY_TOTAL + 3) \div 6

(* The bar of a load has reached this stage; a run has no such bar. *)
Reached(t, k) == IF kind = "load" THEN SetCompleted(t, Stage(k)) ELSE t

(* Bug: ticks go on to the end of the bar. *)
NoCeiling(p) == INIT_DISPLAY_TOTAL

TickCeiling(p) ==
  CASE p = "loading"  -> Stage(3) - 1
    [] p = "parallel" -> Stage(4) - 1
    [] OTHER          -> COMPILE_PROGRESS_CAP

(* _bump_init_on_tick: 1 % when another bar has moved on. *)
Bump(t, line) ==
  LET same == t.tick.tot = line.tot /\ t.tick.phase = t.phase
      next == [tot |-> line.tot, phase |-> t.phase, seen |-> line.cur + 1]
  IN  IF same /\ line.cur < t.tick.seen THEN t
      ELSE SetCompleted([t EXCEPT !.tick = next], Least(t.bar + 1, TickCeiling(t.phase)))

(* Bug: only a run in its denoising phase has denoising steps. *)
IsInferenceWhenDenoising(t, line) ==
  t.phase = "inference" /\ (line.tot = steps \/ line.mark = "running")

(* _is_inference_tqdm, of a run's tracker. *)
IsInferenceTqdm(t, line) ==
  /\ line.mark \notin {"warming", "weights", "fetch"}
  /\ line.tot = steps \/ (t.phase = "inference" /\ line.mark = "running")

(* on_tqdm, the bar of a run ... *)
OnRunTqdm(t, line) ==
  LET u == SetCompleted(SetPhase(t, "inference"), Least(line.cur, steps)) IN
  IF ~IsInferenceTqdm(t, line) THEN t
  ELSE IF line.cur >= steps THEN SetPhase(u, "decode") ELSE u

(* ... and of a load. *)
OnLoadTqdm(t, line) ==
  LET weights == line.mark = "weights" \/ t.phase = "loading"
      warm == IF line.mark = "warming" THEN Reached(t, 5) ELSE t
      read == IF weights THEN Reached(warm, 1) ELSE warm
  IN  Bump(IF t.phase = "parallel" THEN Reached(read, 3) ELSE read, line)

(* on_fragment, the markers in the text; a line holds one of them at most. *)
OnMarker(t, mark) ==
  CASE mark = "loading" -> Reached(SetPhase(t, "loading"), 1)
    [] mark = "runtime" -> Reached(SetPhase(t, "loading"), 3)
    [] mark = "fill"    -> IF kind = "load"
                           THEN Reached(SetPhase(SetPhase(t, "loading"), "parallel"), 3)
                           ELSE SetPhase(t, "loading")
    [] mark \in {"compile", "warming"} -> Reached(SetPhase(t, "compile"), 4)
    [] mark = "running"     -> Reached(SetPhase(t, "inference"), 6)
    [] mark = "initialized" -> Reached(t, 6)
    [] OTHER                -> t

(* on_fragment, the numbers in it. *)
OnFragment(t, line) ==
  LET u == OnMarker(t, line.mark) IN
  IF line.tot = 0 THEN u
  ELSE IF kind = "run" THEN OnRunTqdm(u, line)
  ELSE CASE line.mark = "warmup" -> Bump(Reached(u, 5), line)
         [] line.mark = "fetch"  -> Bump(Reached([u EXCEPT !.phase = "loading"], 1), line)
         [] OTHER                -> OnLoadTqdm(u, line)

-----------------------------------------------------------------------------
(* What the worker writes. *)
Text(mark) == [mark |-> mark, cur |-> 0, tot |-> 0]

Tqdm(marks) ==
  UNION {{[mark |-> m, cur |-> c, tot |-> n] : m \in marks, c \in 0..n} : n \in Totals}

Writes(line) ==
  /\ Len(log) < MaxLag
  /\ log' = Append(log, line)

LoadLines == {Text(m) : m \in {"loading", "runtime", "fill", "compile"}}
               \cup Tqdm({"weights", "fetch", "warming", "warmup", "plain"})

LoadLine ==
  /\ kind = "load" /\ worker \in {"busy", "initialized"}
  /\ \E line \in LoadLines : Writes(line)
  /\ UNCHANGED <<workerVars, missed, follower, node, tracker>>

(* "Model initialization complete" *)
LoadEnds ==
  /\ kind = "load" /\ worker = "busy"
  /\ Writes(Text("initialized"))
  /\ worker' = "initialized"
  /\ UNCHANGED <<kind, steps, printed, missed, follower, node, tracker>>

(* A run of a new shape compiles first, with a bar of as many steps. *)
WarmupLine ==
  /\ kind = "run" /\ worker = "busy"
  /\ \/ \E line \in {Text("fill"), Text("compile")} \cup Tqdm({"weights", "warming", "plain"}) :
          Writes(line)
     \/ \E c \in 0..steps : Writes([mark |-> "plain", cur |-> c, tot |-> steps])
  /\ UNCHANGED <<workerVars, missed, follower, node, tracker>>

(* "Running iteration 1/1" *)
RunBegins ==
  /\ kind = "run" /\ worker = "busy"
  /\ Writes([mark |-> "running", cur |-> 1, tot |-> 1])
  /\ worker' = "denoising" /\ printed' = 0
  /\ UNCHANGED <<kind, steps, missed, follower, node, tracker>>

(* The denoising bar: before the first step, and after each. *)
StepLine ==
  /\ worker = "denoising" /\ printed <= steps
  /\ Writes([mark |-> "plain", cur |-> printed, tot |-> steps])
  /\ printed' = printed + 1
  /\ UNCHANGED <<kind, steps, worker, missed, follower, node, tracker>>

Decodes ==
  /\ worker = "denoising" /\ printed = steps + 1
  /\ worker' = "decoding"
  /\ UNCHANGED <<kind, steps, printed, log, missed, follower, node, tracker>>

(* The ready file, or the answer to the run. *)
Answers ==
  /\ worker \in {"initialized", "decoding"}
  /\ worker' = "answered"
  /\ UNCHANGED <<kind, steps, printed, log, missed, follower, node, tracker>>

-----------------------------------------------------------------------------
(* The thread that follows the log: of a run from where it ends. *)
FollowerOpens ==
  /\ follower = "starting" /\ node # "new"
  /\ follower' = "following"
  /\ missed' = (kind = "run" /\ log # <<>>)
  /\ log' = IF kind = "run" THEN <<>> ELSE log
  /\ UNCHANGED <<workerVars, node, tracker>>

Handles(line) == tracker' = OnFragment(tracker, line)

ReadLine ==
  /\ follower = "following" /\ log # <<>>
  /\ Handles(Head(log)) /\ log' = Tail(log)
  /\ UNCHANGED <<workerVars, missed, follower, node>>

(* heartbeat, after five looks without a line; _tick_phase repeats the text. *)
Heartbeat ==
  /\ follower = "following" /\ log = <<>>
  /\ LET t == [tracker EXCEPT !.status = IF tracker.phase \in ShownPhases
                                         THEN tracker.phase ELSE @]
     IN  tracker' = IF kind = "load" /\ t.phase = "compile"
                    THEN SetCompleted(t, Least(t.bar + 1, COMPILE_PROGRESS_CAP)) ELSE t
  /\ UNCHANGED <<workerVars, log, missed, follower, node>>

(* It has seen `stop`; a line it had only in part is handled all the same. *)
FollowerEnds ==
  /\ follower \in {"starting", "following"} /\ node \notin {"new", "waiting"}
  /\ follower' = "ended"
  /\ \/ UNCHANGED tracker
     \/ follower = "following" /\ log # <<>> /\ Handles(Head(log))
  /\ log' = <<>>
  /\ UNCHANGED <<workerVars, missed, node>>

-----------------------------------------------------------------------------
(* The node's thread. *)
NodeWaits ==
  /\ node = "new"
  /\ node' = "waiting"
  /\ tracker' = IF kind = "load" THEN OnFragment(tracker, Text("loading")) ELSE tracker
  /\ UNCHANGED <<workerVars, log, missed, follower>>

(* The answer, or a cancel, a timeout, a worker that has ended: stop.set(). *)
NodeStops ==
  /\ node = "waiting"
  /\ \/ worker = "answered" /\ node' = "answered"
     \/ node' = "raising"
  /\ UNCHANGED <<workerVars, log, missed, follower, tracker>>

(* Bug: the follower is stopped and not waited for. *)
NotJoined == TRUE

(* thread.join(timeout=1), and the follower is done within that second. *)
Joined == follower = "ended"

Raises ==
  /\ node = "raising" /\ Joined
  /\ node' = "raised"
  /\ UNCHANGED <<workerVars, log, missed, follower, tracker>>

(* on_decode_complete; the tracker of a load has no such bar. *)
DecodeCompletes ==
  /\ node = "answered" /\ Joined
  /\ node' = "collecting"
  /\ tracker' = IF kind = "run"
                THEN SetCompleted(SetPhase(tracker, "finalization"), steps + 1) ELSE tracker
  /\ UNCHANGED <<workerVars, log, missed, follower>>

(* The answer was an error, or its output cannot be converted. *)
CollectFails ==
  /\ node = "collecting" /\ kind = "run"
  /\ node' = "raised"
  /\ UNCHANGED <<workerVars, log, missed, follower, tracker>>

(* on_finalization_complete and, as nothing was raised, finish. *)
Finishes ==
  /\ node = "collecting"
  /\ node' = "finished"
  /\ tracker' = [SetCompleted(IF kind = "run" THEN SetPhase(tracker, "complete") ELSE tracker,
                              Total) EXCEPT !.status = "done"]
  /\ UNCHANGED <<workerVars, log, missed, follower>>

-----------------------------------------------------------------------------
Init ==
  /\ kind \in {"load", "run"}
  /\ steps \in IF kind = "run" THEN 1..MaxSteps ELSE {0}
  /\ worker = "busy" /\ printed = 0 /\ log = <<>> /\ missed = FALSE
  /\ follower = "starting" /\ node = "new"
  /\ tracker = [bar    |-> StartDisplay,
                phase  |-> IF kind = "load" THEN "init" ELSE "inference",
                tick   |-> [tot |-> 0, phase |-> "init", seen |-> 0],
                status |-> "none"]

WorkerStep == LoadLine \/ LoadEnds \/ WarmupLine \/ RunBegins \/ StepLine \/ Decodes \/ Answers

FollowerStep == FollowerOpens \/ ReadLine \/ Heartbeat \/ FollowerEnds

NodeStep == NodeWaits \/ NodeStops \/ Raises \/ DecodeCompletes \/ CollectFails \/ Finishes

Next == WorkerStep \/ FollowerStep \/ NodeStep

Spec == Init /\ [][Next]_vars

-----------------------------------------------------------------------------
Marks == {"loading", "runtime", "fill", "compile", "weights", "fetch", "warming", "warmup",
          "plain", "running", "initialized"}

Trackers == [bar : Nat, phase : Phases,
             tick : [tot : Nat, phase : Phases, seen : Nat],
             status : ShownPhases \cup {"none", "done"}]

(* Every variable holds what the code could hold there, and the bar never leaves
   its range. *)
TypeOK ==
  /\ kind \in {"load", "run"} /\ steps \in 0..MaxSteps
  /\ worker \in {"busy", "initialized", "denoising", "decoding", "answered"}
  /\ printed \in 0..MaxSteps + 1
  /\ log \in Seq([mark : Marks, cur : Nat, tot : Nat])
  /\ missed \in BOOLEAN
  /\ follower \in {"starting", "following", "ended"}
  /\ node \in {"new", "waiting", "answered", "raising", "collecting", "finished", "raised"}
  /\ tracker \in Trackers /\ tracker.bar <= Total

(* A bar never goes back, whatever the log repeats, skips or shows twice: the bar
   of a compile warm-up, another one of the same length, a heartbeat between
   (set_completed). *)
BarsOnlyRise == [][tracker'.bar >= tracker.bar]_vars

(* A bar is only full when there is nothing left to wait for: a load's when the
   worker has said that it is initialized, a run's when its result has been
   collected, and decoding keeps a slot until the answer (_init_tick_ceiling, the
   total of steps + 2). *)
FullOnlyWhenDone ==
  /\ kind = "load" /\ tracker.bar = Total => worker \in {"initialized", "answered"}
  /\ kind = "run" /\ tracker.bar > steps => node \in {"collecting", "finished", "raised"}
  /\ kind = "run" /\ tracker.bar = Total => node = "finished"

(* Once the log is read the tracker knows whether the worker is denoising, which
   decides how a cancel stops it: by a signal while there are steps to come, even
   after a compile warm-up that showed the same bar, and by a kill when it decodes
   (`tracker._phase == "inference"` in _run_distributed_worker_locked). *)
PhaseFollowsTheRun ==
  follower = "following" /\ node = "waiting" /\ log = <<>> =>
    /\ worker = "denoising" /\ printed \in 1..steps => tracker.phase = "inference"
    /\ worker = "decoding" /\ ~missed => tracker.phase = "decode" /\ tracker.bar = steps

(* A node that has finished shows so, on its bar and in its text, and no line the
   follower was still to handle takes that back (_follow_worker_log joins it). *)
EndsOnAFinishedLine ==
  node = "finished" =>
    tracker.bar = Total /\ tracker.status = "done" /\ (kind = "run" => tracker.phase = "complete")
=============================================================================
