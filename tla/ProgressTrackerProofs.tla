----------------------- MODULE ProgressTrackerProofs -----------------------
(***************************************************************************)
(* For any number of steps, any log and any lag: a bar only rises, it is   *)
(* not full before its load or run is done, and it ends full, with the     *)
(* text that says so.                                                      *)
(***************************************************************************)
EXTENDS ProgressTracker, SequenceTheorems, TLAPS

Line == [mark : Marks, cur : Nat, tot : Nat]

Good(t) == t \in Trackers /\ t.bar <= Total

(* Until the answer the bar of a run keeps the two slots behind its steps. *)
Ceiling(t, u) ==
  /\ u.bar >= t.bar
  /\ kind = "run" /\ t.bar <= steps => u.bar <= steps

USE ProgressAssumption

-----------------------------------------------------------------------------
(* The sixths of a load's bar. *)
LEMMA Stages ==
  /\ Stage(1) = 17 /\ Stage(3) = 50 /\ Stage(4) = 67 /\ Stage(5) = 83 /\ Stage(6) = 100
  BY DEF Stage, INIT_DISPLAY_TOTAL

(* Another phase leaves the bar alone. *)
LEMMA SetPhaseGood ==
  ASSUME NEW t, Good(t), NEW p \in Phases
  PROVE  /\ Good(SetPhase(t, p))
         /\ SetPhase(t, p).bar = t.bar /\ SetPhase(t, p).phase = p
         /\ SetPhase(t, p).tick = t.tick
  BY DEF SetPhase, Good, Trackers, ShownPhases

(* Another value moves the bar upwards, to that value at most. *)
LEMMA SetCompletedGood ==
  ASSUME NEW t, Good(t), NEW value \in Nat, kind \in {"load", "run"}, steps \in Nat
  PROVE  LET u == SetCompleted(t, value)
         IN  /\ Good(u) /\ u.bar >= t.bar
             /\ u.bar = t.bar \/ u.bar <= value
             /\ value >= Total => u.bar = Total
             /\ u.phase = t.phase /\ u.tick = t.tick /\ u.status = t.status
  BY DEF SetCompleted, Good, Trackers, Least, Total, INIT_DISPLAY_TOTAL

(* A stage is a stage of a load; only the last one fills the bar. *)
LEMMA ReachedGood ==
  ASSUME NEW t, Good(t), NEW k \in {1, 3, 4, 5, 6}, kind \in {"load", "run"}, steps \in Nat
  PROVE  LET u == Reached(t, k)
         IN  /\ Good(u) /\ Ceiling(t, u)
             /\ kind = "load" /\ u.bar = 100 => t.bar = 100 \/ k = 6
  <1> DEFINE value == Stage(k)
  <1>1. value \in Nat /\ (k # 6 => value < 100)
    BY Stages
  <1>0. Reached(t, k) = IF kind = "load" THEN SetCompleted(t, value) ELSE t
    BY DEF Reached
  <1> HIDE DEF value
  <1>2. CASE kind = "load"
    <2>1. LET u == SetCompleted(t, value)
          IN  Good(u) /\ u.bar >= t.bar /\ (u.bar = t.bar \/ u.bar <= value)
      BY <1>1, SetCompletedGood
    <2> QED
      BY <1>0, <1>1, <1>2, <2>1 DEF Ceiling, Good, Trackers
  <1>3. CASE kind = "run"
    BY <1>0, <1>3 DEF Ceiling, Good, Trackers
  <1> QED
    BY <1>2, <1>3

(* A tick never fills a load's bar. *)
LEMMA BumpGood ==
  ASSUME NEW t, Good(t), NEW line \in Line, kind = "load", steps \in Nat
  PROVE  LET u == Bump(t, line)
         IN  /\ Good(u) /\ u.bar >= t.bar
             /\ u.bar = 100 => t.bar = 100
  <1> DEFINE next == [tot |-> line.tot, phase |-> t.phase, seen |-> line.cur + 1]
             v == [t EXCEPT !.tick = next]
             value == Least(t.bar + 1, TickCeiling(t.phase))
  <1>1. Good(v) /\ v.bar = t.bar
    BY DEF Good, Trackers, Line
  <1>2. TickCeiling(t.phase) \in 0..85
    BY Stages DEF TickCeiling, COMPILE_PROGRESS_CAP
  <1>3. value \in Nat /\ value < 100
    BY <1>2 DEF Least, Good, Trackers
  <1>4. Bump(t, line) \in {t, SetCompleted(v, value)}
    BY DEF Bump
  <1> HIDE DEF v, value
  <1>5. LET u == SetCompleted(v, value)
        IN  Good(u) /\ u.bar >= v.bar /\ (u.bar = v.bar \/ u.bar <= value)
    BY <1>1, <1>3, SetCompletedGood
  <1> QED
    BY <1>1, <1>3, <1>4, <1>5 DEF Good, Trackers

-----------------------------------------------------------------------------
(* What a line does to the bar of a run: never past its steps. *)
LEMMA OnRunTqdmGood ==
  ASSUME NEW t, Good(t), NEW line \in Line, kind = "run", steps \in Nat
  PROVE  Good(OnRunTqdm(t, line)) /\ Ceiling(t, OnRunTqdm(t, line))
  <1> DEFINE a == SetPhase(t, "inference")
             value == Least(line.cur, steps)
             u == SetCompleted(a, value)
             w == SetPhase(u, "decode")
  <1>1. Good(a) /\ a.bar = t.bar
    BY SetPhaseGood DEF Phases
  <1>2. value \in Nat /\ value <= steps
    BY DEF Least, Line
  <1>3. OnRunTqdm(t, line) \in {t, u, w}
    BY DEF OnRunTqdm
  <1> HIDE DEF a, value
  <1>4. Good(u) /\ u.bar >= a.bar /\ (u.bar = a.bar \/ u.bar <= value)
    BY <1>1, <1>2, SetCompletedGood
  <1> HIDE DEF u
  <1>5. Good(w) /\ w.bar = u.bar
    BY <1>4, SetPhaseGood DEF Phases
  <1> HIDE DEF w
  <1> QED
    BY <1>1, <1>2, <1>3, <1>4, <1>5 DEF Good, Trackers, Ceiling

(* What a bar in the log does to the bar of a load. *)
LEMMA OnLoadTqdmGood ==
  ASSUME NEW t, Good(t), NEW line \in Line, kind = "load", steps \in Nat
  PROVE  LET u == OnLoadTqdm(t, line)
         IN  Good(u) /\ u.bar >= t.bar /\ (u.bar = 100 => t.bar = 100)
  <1> DEFINE weights == line.mark = "weights" \/ t.phase = "loading"
             warm == IF line.mark = "warming" THEN Reached(t, 5) ELSE t
             read == IF weights THEN Reached(warm, 1) ELSE warm
             last == IF t.phase = "parallel" THEN Reached(read, 3) ELSE read
  <1>1. Good(warm) /\ warm.bar >= t.bar /\ (warm.bar = 100 => t.bar = 100)
    BY ReachedGood DEF Ceiling, Good, Trackers
  <1>2. Good(read) /\ read.bar >= t.bar /\ (read.bar = 100 => t.bar = 100)
    <2> HIDE DEF warm
    <2> QED BY <1>1, ReachedGood DEF Ceiling, Good, Trackers
  <1>3. Good(last) /\ last.bar >= t.bar /\ (last.bar = 100 => t.bar = 100)
    <2> HIDE DEF read
    <2> QED BY <1>2, ReachedGood DEF Ceiling, Good, Trackers
  <1>4. OnLoadTqdm(t, line) = Bump(last, line)
    BY DEF OnLoadTqdm
  <1> HIDE DEF last
  <1> QED
    BY <1>3, <1>4, BumpGood DEF Good, Trackers

(* What a marker does: only the two last ones fill a load's bar. *)
LEMMA OnMarkerGood ==
  ASSUME NEW t, Good(t), NEW mark \in Marks, kind \in {"load", "run"}, steps \in Nat
  PROVE  LET u == OnMarker(t, mark)
         IN  /\ Good(u) /\ Ceiling(t, u)
             /\ kind = "load" /\ u.bar = 100 => t.bar = 100 \/ mark \in {"running", "initialized"}
  <1>1. \A p \in Phases : /\ Good(SetPhase(t, p)) /\ SetPhase(t, p).bar = t.bar
    BY SetPhaseGood
  <1>2. LET u == SetPhase(SetPhase(t, "loading"), "parallel")
        IN  Good(u) /\ u.bar = t.bar
    BY <1>1, SetPhaseGood DEF Phases
  <1>3. \A k \in {1, 3, 4, 5, 6} : \A v : Good(v) /\ v.bar = t.bar =>
           LET u == Reached(v, k)
           IN  /\ Good(u) /\ Ceiling(t, u)
               /\ kind = "load" /\ u.bar = 100 => t.bar = 100 \/ k = 6
    BY ReachedGood DEF Ceiling
  <1>4. CASE mark \in {"loading", "runtime", "compile", "warming", "running", "initialized"}
    BY <1>1, <1>3, <1>4 DEF OnMarker, Phases
  <1>5. CASE mark = "fill"
    BY <1>1, <1>2, <1>3, <1>5 DEF OnMarker, Phases, Ceiling, Good, Trackers
  <1>6. CASE mark \in {"weights", "fetch", "warmup", "plain"}
    BY <1>6 DEF OnMarker, Ceiling, Good, Trackers
  <1> QED
    BY <1>4, <1>5, <1>6 DEF Marks

(* Whatever the line, the tracker stays well-formed and its bar rises; a run's
   stays within its steps, and a load's is filled by nothing but the markers. *)
LEMMA OnFragmentGood ==
  ASSUME NEW t, Good(t), NEW line \in Line, kind \in {"load", "run"}, steps \in Nat
  PROVE  LET u == OnFragment(t, line)
         IN  /\ Good(u) /\ Ceiling(t, u)
             /\ kind = "load" /\ u.bar = 100 =>
                  t.bar = 100 \/ line.mark \in {"running", "initialized"}
  <1> DEFINE u == OnMarker(t, line.mark)
  <1>1. /\ Good(u) /\ Ceiling(t, u) /\ line.mark \in Marks
        /\ kind = "load" /\ u.bar = 100 => t.bar = 100 \/ line.mark \in {"running", "initialized"}
    BY OnMarkerGood DEF Line
  <1> HIDE DEF u
  <1>2. CASE line.tot = 0
    BY <1>1, <1>2 DEF OnFragment, u
  <1>3. CASE line.tot # 0 /\ kind = "run"
    <2>1. OnFragment(t, line) = OnRunTqdm(u, line)
      BY <1>3 DEF OnFragment, u
    <2>2. Good(OnRunTqdm(u, line)) /\ Ceiling(u, OnRunTqdm(u, line))
      BY <1>1, <1>3, OnRunTqdmGood
    <2> QED
      BY <1>1, <1>3, <2>1, <2>2 DEF Ceiling, Good, Trackers
  <1>4. CASE line.tot # 0 /\ kind = "load"
    <2> DEFINE f == [u EXCEPT !.phase = "loading"]
    <2>0. Good(f) /\ f.bar = u.bar
      BY <1>1 DEF Good, Trackers, Phases
    <2>1. OnFragment(t, line) \in {Bump(Reached(u, 5), line), Bump(Reached(f, 1), line),
                                   OnLoadTqdm(u, line)}
      BY <1>4 DEF OnFragment, u
    <2> HIDE DEF f
    <2>2. /\ Good(Reached(u, 5)) /\ Reached(u, 5).bar >= u.bar
          /\ Reached(u, 5).bar = 100 => u.bar = 100
      BY <1>1, <1>4, ReachedGood DEF Ceiling
    <2>3. /\ Good(Reached(f, 1)) /\ Reached(f, 1).bar >= u.bar
          /\ Reached(f, 1).bar = 100 => u.bar = 100
      BY <2>0, <1>4, ReachedGood DEF Ceiling
    <2>4. LET r == Bump(Reached(u, 5), line)
          IN  Good(r) /\ r.bar >= u.bar /\ (r.bar = 100 => u.bar = 100)
      BY <2>2, <1>1, <1>4, BumpGood DEF Good, Trackers
    <2>5. LET r == Bump(Reached(f, 1), line)
          IN  Good(r) /\ r.bar >= u.bar /\ (r.bar = 100 => u.bar = 100)
      BY <2>3, <1>1, <1>4, BumpGood DEF Good, Trackers
    <2>6. LET r == OnLoadTqdm(u, line)
          IN  Good(r) /\ r.bar >= u.bar /\ (r.bar = 100 => u.bar = 100)
      BY <1>1, <1>4, OnLoadTqdmGood
    <2> QED
      BY <1>1, <1>4, <2>1, <2>4, <2>5, <2>6 DEF Ceiling, Good, Trackers
  <1> QED
    BY <1>2, <1>3, <1>4

-----------------------------------------------------------------------------
(* The parts of the inductive invariant.  A load's log names the end of the load
   only when the worker is there; a node that goes on after its wait has its
   answer, and nobody follows the log any more; and a run's bar keeps the slots of
   what is still to come. *)
TypeInv == TypeOK /\ steps \in Nat

LogInv ==
  kind = "load" =>
    /\ worker \in {"busy", "initialized", "answered"}
    /\ \A i \in 1..Len(log) :
         /\ log[i].mark # "running"
         /\ log[i].mark = "initialized" => worker \in {"initialized", "answered"}

NodeInv ==
  /\ node \in {"answered", "collecting", "finished"} => worker = "answered"
  /\ node \in {"collecting", "finished", "raised"} => follower = "ended"

BarInv ==
  /\ kind = "load" /\ tracker.bar = 100 => worker \in {"initialized", "answered"}
  /\ kind = "run" /\ node \in {"new", "waiting", "answered", "raising"} => tracker.bar <= steps
  /\ kind = "run" /\ node \in {"collecting", "raised"} => tracker.bar <= steps + 1

IInv == TypeInv /\ LogInv /\ NodeInv /\ BarInv /\ EndsOnAFinishedLine

(* What a step of the tracker may do to it. *)
TrackerStep ==
  /\ Good(tracker') /\ tracker'.bar >= tracker.bar

LEMMA InitIInv == Init => IInv
  <1> SUFFICES ASSUME Init PROVE IInv
    OBVIOUS
  <1>1. steps \in 0..MaxSteps /\ steps \in Nat /\ kind \in {"load", "run"}
    BY DEF Init
  <1>2. tracker \in Trackers
    BY DEF Init, Trackers, Phases, ShownPhases, StartDisplay, INIT_START_DISPLAY
  <1>3. /\ tracker.bar <= Total
        /\ kind = "load" => tracker.bar = 5
        /\ kind = "run" => tracker.bar <= steps
    BY <1>1 DEF Init, StartDisplay, Total, INIT_START_DISPLAY, INIT_DISPLAY_TOTAL
  <1>4. log \in Seq([mark : Marks, cur : Nat, tot : Nat]) /\ Len(log) = 0
    BY DEF Init
  <1>5. worker = "busy" /\ missed \in BOOLEAN /\ follower = "starting" /\ node = "new"
    BY Zenon DEF Init
  <1>6. printed \in 0..MaxSteps + 1
    BY <1>1 DEF Init
  <1>7. TypeInv
    BY <1>1, <1>2, <1>3, <1>4, <1>5, <1>6 DEF TypeInv, TypeOK
  <1> QED
    BY <1>3, <1>4, <1>7 DEF Init, IInv, LogInv, NodeInv, BarInv, EndsOnAFinishedLine

(* A line more, and a line less, in the log. *)
LEMMA LogLonger ==
  ASSUME log \in Seq(Line), NEW line \in Line, Writes(line)
  PROVE  /\ log' \in Seq(Line)
         /\ \A i \in 1..Len(log') : (i \in 1..Len(log) /\ log'[i] = log[i]) \/ log'[i] = line
  BY DEF Writes

LEMMA LogShorter ==
  ASSUME log \in Seq(Line), log # <<>>
  PROVE  /\ Head(log) \in Line /\ Head(log) = log[1] /\ 1 \in 1..Len(log)
         /\ Tail(log) \in Seq(Line)
         /\ \A i \in 1..Len(Tail(log)) : i + 1 \in 1..Len(log) /\ Tail(log)[i] = log[i + 1]
  BY HeadTailProperties

(* A line that the tracker handles. *)
LEMMA HandlesKeeps ==
  ASSUME IInv, NEW line \in Line, Handles(line), log # <<>>, line = Head(log)
  PROVE  /\ TrackerStep
         /\ kind = "run" /\ tracker.bar <= steps => tracker'.bar <= steps
         /\ kind = "load" /\ tracker'.bar = 100 => worker \in {"initialized", "answered"}
  <1>1. Good(tracker) /\ kind \in {"load", "run"} /\ steps \in Nat /\ log \in Seq(Line)
    BY DEF IInv, TypeInv, TypeOK, Good, Line
  <1>2. /\ Good(tracker') /\ Ceiling(tracker, tracker')
        /\ kind = "load" /\ tracker'.bar = 100 =>
             tracker.bar = 100 \/ line.mark \in {"running", "initialized"}
    BY <1>1, OnFragmentGood DEF Handles
  <1>3. kind = "load" /\ line.mark \in {"running", "initialized"}
          => worker \in {"initialized", "answered"}
    BY <1>1, LogShorter DEF IInv, LogInv
  <1> QED
    BY <1>1, <1>2, <1>3 DEF TrackerStep, Ceiling, IInv, BarInv

-----------------------------------------------------------------------------
(* The worker leaves the tracker alone. *)
LEMMA WorkerStepKeeps ==
  ASSUME IInv, WorkerStep
  PROVE  IInv' /\ tracker' = tracker
  <1>0. /\ log \in Seq(Line) /\ MaxSteps \in Nat
        /\ kind \in {"load", "run"} /\ steps \in Nat /\ printed \in Nat
    BY DEF IInv, TypeInv, TypeOK, Line
  <1>1. \A line \in LoadLines : line \in Line /\ line.mark \notin {"running", "initialized"}
    BY DEF LoadLines, Tqdm, Text, Line, Marks
  <1>2. CASE LoadLine
    <2>1. PICK line \in LoadLines : Writes(line)
      BY <1>2 DEF LoadLine
    <2>2. /\ log' \in Seq(Line)
          /\ \A i \in 1..Len(log') : (i \in 1..Len(log) /\ log'[i] = log[i]) \/ log'[i] = line
      BY <1>0, <1>1, <2>1, LogLonger
    <2>3. LogInv'
      BY <1>1, <1>2, <2>2 DEF LoadLine, workerVars, LogInv, IInv
    <2> QED
      BY <1>2, <2>2, <2>3
      DEF LoadLine, workerVars, IInv, TypeInv, TypeOK, NodeInv, BarInv, EndsOnAFinishedLine,
          Line, Total
  <1>3. CASE LoadEnds
    <2> DEFINE line == Text("initialized")
    <2>1. line \in Line /\ line.mark = "initialized"
      BY DEF Text, Line, Marks
    <2> HIDE DEF line
    <2>2. /\ log' \in Seq(Line)
          /\ \A i \in 1..Len(log') : (i \in 1..Len(log) /\ log'[i] = log[i]) \/ log'[i] = line
      BY <1>0, <1>3, <2>1, LogLonger DEF LoadEnds, line
    <2>3. LogInv'
      BY <1>3, <2>1, <2>2 DEF LoadEnds, LogInv, IInv
    <2> QED
      BY <1>3, <2>2, <2>3
      DEF LoadEnds, IInv, TypeInv, TypeOK, NodeInv, BarInv, EndsOnAFinishedLine, Line, Total
  <1>4. CASE WarmupLine \/ RunBegins \/ StepLine
    <2>1. kind = "run" /\ log' \in Seq(Line)
      <3>1. CASE WarmupLine
        <4>1. \A l \in {Text("fill"), Text("compile")}
                        \cup Tqdm({"weights", "warming", "plain"}) : l \in Line
          BY DEF Tqdm, Text, Line, Marks
        <4>2. \A c \in 0..steps : [mark |-> "plain", cur |-> c, tot |-> steps] \in Line
          BY <1>0 DEF Line, Marks
        <4> QED
          BY <1>0, <3>1, <4>1, <4>2, LogLonger DEF WarmupLine
      <3>2. CASE RunBegins
        BY <1>0, <3>2, LogLonger DEF RunBegins, Line, Marks
      <3>3. CASE StepLine
        <4>1. [mark |-> "plain", cur |-> printed, tot |-> steps] \in Line
          BY <1>0 DEF Line, Marks
        <4> QED
          BY <1>0, <3>3, <4>1, LogLonger DEF StepLine, IInv, LogInv
      <3> QED
        BY <1>4, <3>1, <3>2, <3>3
    <2>2. /\ kind' = kind /\ steps' = steps /\ tracker' = tracker /\ node' = node
          /\ follower' = follower /\ missed' = missed
          /\ printed' \in 0..MaxSteps + 1
          /\ worker' = worker \/ (worker = "busy" /\ worker' = "denoising")
      BY <1>0, <1>4
      DEF WarmupLine, RunBegins, StepLine, workerVars, IInv, TypeInv, TypeOK
    <2> QED
      BY <2>1, <2>2
      DEF IInv, TypeInv, TypeOK, LogInv, NodeInv, BarInv, EndsOnAFinishedLine, Line, Total
  <1>5. CASE Decodes \/ Answers
    BY <1>5
    DEF Decodes, Answers, IInv, TypeInv, TypeOK, LogInv, NodeInv, BarInv, EndsOnAFinishedLine,
        Total
  <1> QED
    BY <1>2, <1>3, <1>4, <1>5 DEF WorkerStep

(* The follower hands lines to the tracker before it is joined. *)
LEMMA FollowerStepKeeps ==
  ASSUME IInv, FollowerStep
  PROVE  IInv' /\ TrackerStep
  <1>0. /\ log \in Seq(Line) /\ Good(tracker) /\ tracker.bar \in Nat
        /\ kind \in {"load", "run"} /\ steps \in Nat
    BY DEF IInv, TypeInv, TypeOK, Line, Good, Trackers
  <1>1. <<>> \in Seq(Line) /\ Len(<<>>) = 0
    OBVIOUS
  <1>2. node \in {"new", "waiting", "answered", "raising"}
    BY DEF FollowerStep, FollowerOpens, ReadLine, Heartbeat, FollowerEnds, IInv, NodeInv,
           TypeInv, TypeOK
  <1>3. CASE FollowerOpens
    <2>1. log' \in Seq(Line) /\ (log' = log \/ log' = <<>>)
      BY <1>0, <1>1, <1>3 DEF FollowerOpens
    <2>2. LogInv'
      BY <1>3, <2>1 DEF FollowerOpens, workerVars, LogInv, IInv
    <2> QED
      BY <1>0, <1>2, <1>3, <2>1, <2>2
      DEF FollowerOpens, workerVars, IInv, TypeInv, TypeOK, NodeInv, BarInv,
          EndsOnAFinishedLine, Line, Total, TrackerStep, Good
  <1>4. CASE ReadLine
    <2>1. Head(log) \in Line
      BY <1>0, <1>4, LogShorter DEF ReadLine
    <2>2. /\ TrackerStep
          /\ kind = "run" /\ tracker.bar <= steps => tracker'.bar <= steps
          /\ kind = "load" /\ tracker'.bar = 100 => worker \in {"initialized", "answered"}
      BY <1>4, <2>1, HandlesKeeps DEF ReadLine
    <2>3. log' \in Seq(Line) /\ LogInv'
      BY <1>0, <1>4, LogShorter DEF ReadLine, workerVars, LogInv, IInv
    <2> QED
      BY <1>2, <1>4, <2>2, <2>3
      DEF ReadLine, workerVars, IInv, TypeInv, TypeOK, NodeInv, BarInv, EndsOnAFinishedLine,
          Line, Total, TrackerStep, Good
  <1>5. CASE Heartbeat
    <2> DEFINE t == [tracker EXCEPT !.status = IF tracker.phase \in ShownPhases
                                               THEN tracker.phase ELSE @]
               value == Least(t.bar + 1, COMPILE_PROGRESS_CAP)
               u == SetCompleted(t, value)
    <2>1. Good(t) /\ t.bar = tracker.bar
      BY <1>0 DEF Good, Trackers
    <2>2. value \in Nat /\ value < 100
      BY <1>0, <2>1 DEF Least, COMPILE_PROGRESS_CAP
    <2>3. tracker' = t \/ (kind = "load" /\ tracker' = u)
      BY <1>5 DEF Heartbeat
    <2> HIDE DEF t, value
    <2>4. Good(u) /\ u.bar >= t.bar /\ (u.bar = t.bar \/ u.bar <= value)
      BY <1>0, <2>1, <2>2, SetCompletedGood
    <2> HIDE DEF u
    <2>5. /\ TrackerStep
          /\ kind = "run" => tracker'.bar = tracker.bar
          /\ kind = "load" /\ tracker'.bar = 100 => tracker.bar = 100
      BY <1>0, <2>1, <2>2, <2>3, <2>4 DEF TrackerStep, Good, Trackers
    <2> QED
      BY <1>2, <1>5, <2>5
      DEF Heartbeat, workerVars, IInv, TypeInv, TypeOK, LogInv, NodeInv, BarInv,
          EndsOnAFinishedLine, Line, Total, TrackerStep, Good
  <1>6. CASE FollowerEnds
    <2>1. /\ TrackerStep
          /\ kind = "run" /\ tracker.bar <= steps => tracker'.bar <= steps
          /\ kind = "load" /\ tracker'.bar = 100 => worker \in {"initialized", "answered"}
      <3>1. CASE tracker' = tracker
        BY <1>0, <3>1 DEF TrackerStep, IInv, BarInv, Good, Total
      <3>2. CASE log # <<>> /\ Handles(Head(log))
        BY <1>0, <3>2, LogShorter, HandlesKeeps
      <3> QED
        BY <1>6, <3>1, <3>2 DEF FollowerEnds
    <2>2. log' \in Seq(Line) /\ LogInv'
      BY <1>1, <1>6 DEF FollowerEnds, workerVars, LogInv, IInv
    <2> QED
      BY <1>2, <1>6, <2>1, <2>2
      DEF FollowerEnds, workerVars, IInv, TypeInv, TypeOK, NodeInv, BarInv,
          EndsOnAFinishedLine, Line, Total, TrackerStep, Good
  <1> QED
    BY <1>3, <1>4, <1>5, <1>6 DEF FollowerStep

(* The node: its two slots, and the end. *)
LEMMA NodeStepKeeps ==
  ASSUME IInv, NodeStep
  PROVE  IInv' /\ TrackerStep
  <1>0. /\ Good(tracker) /\ tracker.bar \in Nat
        /\ kind \in {"load", "run"} /\ steps \in Nat
    BY DEF IInv, TypeInv, TypeOK, Good, Trackers
  <1>1. CASE NodeWaits
    <2> DEFINE line == Text("loading")
    <2>1. line \in Line /\ line.mark = "loading"
      BY DEF Text, Line, Marks
    <2>2. tracker' = tracker \/ (kind = "load" /\ tracker' = OnFragment(tracker, line))
      BY <1>1 DEF NodeWaits
    <2> HIDE DEF line
    <2>3. /\ TrackerStep
          /\ kind = "run" => tracker'.bar = tracker.bar
          /\ kind = "load" /\ tracker'.bar = 100 => tracker.bar = 100
      <3>1. CASE tracker' = tracker
        BY <1>0, <3>1 DEF TrackerStep, Good, Total
      <3>2. CASE kind = "load" /\ tracker' = OnFragment(tracker, line)
        BY <1>0, <2>1, <3>2, OnFragmentGood DEF TrackerStep, Ceiling, Good, Total
      <3> QED
        BY <1>1, <2>2, <3>1, <3>2 DEF NodeWaits
    <2> QED
      BY <1>1, <2>3
      DEF NodeWaits, workerVars, IInv, TypeInv, TypeOK, LogInv, NodeInv, BarInv,
          EndsOnAFinishedLine, Line, Total, TrackerStep, Good
  <1>2. CASE NodeStops \/ Raises \/ CollectFails
    BY <1>0, <1>2
    DEF NodeStops, Raises, CollectFails, Joined, workerVars, IInv, TypeInv, TypeOK, LogInv,
        NodeInv, BarInv, EndsOnAFinishedLine, Line, Total, TrackerStep, Good
  <1>3. CASE DecodeCompletes
    <2> DEFINE a == SetPhase(tracker, "finalization")
               u == SetCompleted(a, steps + 1)
    <2>1. Good(a) /\ a.bar = tracker.bar
      BY <1>0, SetPhaseGood DEF Phases
    <2>2. tracker' = IF kind = "run" THEN u ELSE tracker
      BY <1>3 DEF DecodeCompletes
    <2> HIDE DEF a
    <2>3. Good(u) /\ u.bar >= a.bar /\ (u.bar = a.bar \/ u.bar <= steps + 1)
      BY <1>0, <2>1, SetCompletedGood
    <2> HIDE DEF u
    <2>4. TrackerStep
      BY <1>0, <2>1, <2>2, <2>3 DEF TrackerStep, Good, Trackers
    <2>5. BarInv'
      BY <1>0, <1>3, <2>1, <2>2, <2>3
      DEF DecodeCompletes, workerVars, IInv, BarInv, Good, Trackers
    <2>6. tracker' \in Trackers /\ tracker'.bar <= Total'
      BY <1>3, <2>4 DEF DecodeCompletes, workerVars, TrackerStep, Good, Total
    <2> QED
      BY <1>3, <2>4, <2>5, <2>6
      DEF DecodeCompletes, Joined, workerVars, IInv, TypeInv, TypeOK, LogInv, NodeInv,
          EndsOnAFinishedLine, Line
  <1>4. CASE Finishes
    <2> DEFINE a == IF kind = "run" THEN SetPhase(tracker, "complete") ELSE tracker
               u == SetCompleted(a, Total)
               w == [u EXCEPT !.status = "done"]
    <2>1. Good(a) /\ a.bar = tracker.bar /\ (kind = "run" => a.phase = "complete")
      BY <1>0, SetPhaseGood DEF Phases
    <2>2. tracker' = w
      BY <1>4 DEF Finishes
    <2>3. Total \in Nat
      BY <1>0 DEF Total, INIT_DISPLAY_TOTAL
    <2> HIDE DEF a
    <2>4. Good(u) /\ u.bar >= a.bar /\ u.bar = Total /\ u.phase = a.phase
      BY <1>0, <2>1, <2>3, SetCompletedGood
    <2> HIDE DEF u
    <2>5. /\ Good(w) /\ w.bar >= tracker.bar /\ w.bar = Total /\ w.status = "done"
          /\ kind = "run" => w.phase = "complete"
      BY <2>1, <2>4 DEF Good, Trackers
    <2> HIDE DEF w
    <2>6. TrackerStep
      BY <2>2, <2>5 DEF TrackerStep, Good
    <2>7. Total' = Total
      BY <1>4 DEF Finishes, workerVars, Total
    <2>8. follower' = "ended" /\ worker' = "answered"
      BY <1>4 DEF Finishes, workerVars, IInv, NodeInv
    <2> QED
      BY <1>4, <2>2, <2>5, <2>6, <2>7, <2>8
      DEF Finishes, workerVars, IInv, TypeInv, TypeOK, LogInv, NodeInv, BarInv,
          EndsOnAFinishedLine, Line, Good
  <1> QED
    BY <1>1, <1>2, <1>3, <1>4 DEF NodeStep

LEMMA StepIInv ==
  ASSUME IInv, [Next]_vars
  PROVE  IInv' /\ tracker'.bar >= tracker.bar
  <1>0. tracker.bar \in Nat
    BY DEF IInv, TypeInv, TypeOK, Trackers
  <1>1. CASE UNCHANGED vars
    BY <1>0, <1>1
    DEF vars, workerVars, IInv, TypeInv, TypeOK, LogInv, NodeInv, BarInv, EndsOnAFinishedLine,
        Total
  <1> QED
    BY <1>0, <1>1, WorkerStepKeeps, FollowerStepKeeps, NodeStepKeeps DEF Next, TrackerStep

-----------------------------------------------------------------------------
(* The tracker keeps its type and its bar its range, for every log. *)
THEOREM TypeOKThm == Spec => []TypeOK
  <1>1. IInv /\ [Next]_vars => IInv'
    BY StepIInv
  <1>2. IInv => TypeOK
    BY DEF IInv, TypeInv
  <1> QED
    BY InitIInv, <1>1, <1>2, PTL DEF Spec

(* No bar ever goes back. *)
THEOREM BarsOnlyRiseThm == Spec => BarsOnlyRise
  <1>1. IInv /\ [Next]_vars => IInv'
    BY StepIInv
  <1>2. IInv /\ [Next]_vars => [tracker'.bar >= tracker.bar]_vars
    BY StepIInv
  <1> QED
    BY InitIInv, <1>1, <1>2, PTL DEF Spec, BarsOnlyRise

(* No bar is full before there is nothing left to wait for. *)
THEOREM FullOnlyWhenDoneThm == Spec => []FullOnlyWhenDone
  <1>1. IInv /\ [Next]_vars => IInv'
    BY StepIInv
  <1>2. IInv => FullOnlyWhenDone
    BY DEF IInv, TypeInv, TypeOK, Trackers, BarInv, FullOnlyWhenDone, Total, INIT_DISPLAY_TOTAL
  <1> QED
    BY InitIInv, <1>1, <1>2, PTL DEF Spec

(* A node that has finished shows so. *)
THEOREM EndsOnAFinishedLineThm == Spec => []EndsOnAFinishedLine
  <1>1. IInv /\ [Next]_vars => IInv'
    BY StepIInv
  <1>2. IInv => EndsOnAFinishedLine
    BY DEF IInv
  <1> QED
    BY InitIInv, <1>1, <1>2, PTL DEF Spec

-----------------------------------------------------------------------------
(* What the follower has before it of a run that is denoised or decoded: the last
   line says how far the worker is, and when there is none, the tracker knows. *)
StepBar(n) == [mark |-> "plain", cur |-> n, tot |-> steps]

Known(n) ==
  /\ n < steps => tracker.phase = "inference"
  /\ n = steps /\ ~missed => tracker.phase = "decode" /\ tracker.bar = steps

SeenInv ==
  kind = "run" =>
    /\ steps >= 1 /\ printed \in 0..steps + 1
    /\ worker = "decoding" => printed = steps + 1
    /\ follower = "starting" =>
         /\ tracker.phase = "inference"
         /\ worker \in {"denoising", "decoding"} => log # <<>>
    /\ worker \in {"denoising", "decoding"} /\ printed >= 1 =>
         /\ log # <<>> => log[Len(log)] = StepBar(printed - 1)
         /\ follower = "following" /\ log = <<>> => Known(printed - 1)

(* A line of the denoising bar tells the tracker of a run how far it is. *)
LEMMA StepBarKnown ==
  ASSUME Good(tracker), kind = "run", steps \in Nat, steps >= 1, tracker.bar <= steps,
         NEW n \in 0..steps, tracker' = OnFragment(tracker, StepBar(n))
  PROVE  /\ n < steps => tracker'.phase = "inference"
         /\ n = steps => tracker'.phase = "decode" /\ tracker'.bar = steps
  <1> DEFINE line == StepBar(n)
             a == SetPhase(tracker, "inference")
             u == SetCompleted(a, Least(n, steps))
  <1>1. OnFragment(tracker, line) = OnRunTqdm(tracker, line)
    BY DEF OnFragment, OnMarker, StepBar
  <1>2. IsInferenceTqdm(tracker, line) /\ line.cur = n
    BY DEF IsInferenceTqdm, StepBar
  <1>3. tracker' = IF n >= steps THEN SetPhase(u, "decode") ELSE u
    BY <1>1, <1>2 DEF OnRunTqdm
  <1>4. Good(a) /\ a.bar = tracker.bar /\ a.phase = "inference"
    BY SetPhaseGood DEF Phases
  <1>5. Least(n, steps) = n /\ n \in Nat
    BY DEF Least
  <1> HIDE DEF a
  <1>6. /\ Good(u) /\ u.bar >= a.bar /\ (u.bar = a.bar \/ u.bar <= n)
        /\ u.phase = "inference"
    BY <1>4, <1>5, SetCompletedGood
  <1>7. n = steps => u.bar = steps
    BY <1>4, <1>5 DEF SetCompleted, Good, Trackers, Least, Total
  <1> HIDE DEF u
  <1>8. SetPhase(u, "decode").phase = "decode" /\ SetPhase(u, "decode").bar = u.bar
    BY <1>6, SetPhaseGood DEF Phases
  <1> QED
    BY <1>3, <1>6, <1>7, <1>8

LEMMA SeenStep ==
  ASSUME IInv, SeenInv, [Next]_vars
  PROVE  SeenInv'
  <1> SUFFICES ASSUME kind' = "run" PROVE SeenInv'
    BY DEF SeenInv
  <1>0. /\ kind = "run" /\ kind' = kind /\ steps' = steps
        /\ steps \in Nat /\ printed \in Nat /\ log \in Seq(Line)
        /\ Good(tracker) /\ tracker.bar \in Nat /\ Len(log) \in Nat
    <2>1. kind' = kind /\ steps' = steps
      BY DEF Next, WorkerStep, FollowerStep, NodeStep, LoadLine, LoadEnds, WarmupLine,
             RunBegins, StepLine, Decodes, Answers, FollowerOpens, ReadLine, Heartbeat,
             FollowerEnds, NodeWaits, NodeStops, Raises, DecodeCompletes, CollectFails,
             Finishes, vars, workerVars
    <2>2. log \in Seq(Line) /\ steps \in Nat /\ printed \in Nat /\ Good(tracker)
      BY DEF IInv, TypeInv, TypeOK, Line, Good
    <2> QED
      BY <2>1, <2>2 DEF Good, Trackers
  <1>1. \A n : StepBar(n)' = StepBar(n')
    BY <1>0 DEF StepBar
  <1>2. CASE WarmupLine \/ LoadLine \/ LoadEnds
    BY <1>0, <1>2 DEF WarmupLine, LoadLine, LoadEnds, workerVars, SeenInv, Known, StepBar
  <1>3. CASE RunBegins
    <2>1. log' # <<>>
      BY <1>0, <1>3 DEF RunBegins, Writes
    <2> QED
      BY <1>0, <1>3, <2>1 DEF RunBegins, SeenInv, Known, StepBar
  <1>4. CASE StepLine
    <2>1. StepBar(printed) \in Line
      BY <1>0 DEF StepBar, Line, Marks
    <2>2. log' # <<>> /\ log'[Len(log')] = StepBar(printed)
      BY <1>0, <1>4, <2>1 DEF StepLine, Writes, StepBar
    <2>3. printed' = printed + 1 /\ printed <= steps /\ worker' = "denoising"
          /\ follower' = follower /\ tracker' = tracker
      BY <1>4 DEF StepLine
    <2> QED
      BY <1>0, <2>2, <2>3 DEF SeenInv, StepBar
  <1>5. CASE Decodes \/ Answers
    BY <1>0, <1>5 DEF Decodes, Answers, SeenInv, Known, StepBar
  <1>6. CASE FollowerOpens
    <2>1. log' = <<>> /\ missed' = (log # <<>>) /\ tracker' = tracker /\ worker' = worker
          /\ printed' = printed /\ follower' = "following" /\ follower = "starting"
      BY <1>0, <1>6 DEF FollowerOpens, workerVars
    <2> QED
      BY <1>0, <2>1 DEF SeenInv, Known, StepBar
  <1>7. CASE ReadLine
    <2>1. /\ log # <<>> /\ log' = Tail(log) /\ tracker' = OnFragment(tracker, Head(log))
          /\ worker' = worker /\ printed' = printed /\ missed' = missed
          /\ follower = "following" /\ follower' = follower
      BY <1>7 DEF ReadLine, Handles, workerVars
    <2>2. /\ Len(Tail(log)) = Len(log) - 1
          /\ Tail(log) # <<>> => Len(log) > 1 /\ Tail(log)[Len(log) - 1] = log[Len(log)]
          /\ Tail(log) = <<>> => Len(log) = 1 /\ Head(log) = log[Len(log)]
      <3>1. /\ Tail(log) \in Seq(Line) /\ Head(log) = log[1] /\ Len(log) >= 1
            /\ \A i \in 1..Len(Tail(log)) : Tail(log)[i] = log[i + 1]
        BY <1>0, <2>1, LogShorter
      <3>2. Len(Tail(log)) = Len(log) - 1
        BY <1>0, <2>1
      <3>3. Tail(log) = <<>> <=> Len(Tail(log)) = 0
        BY <3>1, EmptySeq
      <3> QED
        BY <1>0, <3>1, <3>2, <3>3
    <2>3. tracker.bar <= steps
      BY <1>0, <2>1 DEF IInv, NodeInv, BarInv, TypeInv, TypeOK
    <2>4. ASSUME worker \in {"denoising", "decoding"}, printed >= 1, Tail(log) = <<>>
          PROVE  Known(printed - 1)'
      <3>1. Head(log) = StepBar(printed - 1) /\ printed - 1 \in 0..steps /\ steps >= 1
        BY <1>0, <2>1, <2>2, <2>4 DEF SeenInv
      <3> QED
        BY <1>0, <2>1, <2>3, <3>1, StepBarKnown DEF Known
    <2> QED
      BY <1>0, <2>1, <2>2, <2>4 DEF SeenInv, StepBar
  <1>8. CASE Heartbeat
    <2>1. tracker'.phase = tracker.phase /\ tracker'.bar = tracker.bar
      BY <1>0, <1>8 DEF Heartbeat, Good, Trackers
    <2> QED
      BY <1>0, <1>8, <2>1 DEF Heartbeat, workerVars, SeenInv, Known, StepBar
  <1>9. CASE FollowerEnds
    BY <1>0, <1>9 DEF FollowerEnds, workerVars, SeenInv, Known, StepBar
  <1>10. CASE NodeStep
    <2>1. /\ log' = log /\ worker' = worker /\ printed' = printed /\ missed' = missed
          /\ follower' = follower
          /\ tracker' = tracker \/ follower = "ended"
      BY <1>0, <1>10
      DEF NodeStep, NodeWaits, NodeStops, Raises, DecodeCompletes, CollectFails, Finishes,
          Joined, workerVars, IInv, NodeInv
    <2> QED
      BY <1>0, <2>1 DEF SeenInv, Known, StepBar
  <1>11. CASE UNCHANGED vars
    BY <1>0, <1>11 DEF vars, workerVars, SeenInv, Known, StepBar
  <1> QED
    BY <1>2, <1>3, <1>4, <1>5, <1>6, <1>7, <1>8, <1>9, <1>10, <1>11
    DEF Next, WorkerStep, FollowerStep

(* A tracker that has read the log knows whether its run is denoising. *)
THEOREM PhaseFollowsTheRunThm == Spec => []PhaseFollowsTheRun
  <1>1. Init => SeenInv
    <2> SUFFICES ASSUME Init PROVE SeenInv
      OBVIOUS
    <2>1. kind = "run" => steps >= 1 /\ steps \in Nat /\ tracker.phase = "inference"
      BY DEF Init
    <2> QED
      BY <2>1 DEF Init, SeenInv
  <1>2. IInv /\ SeenInv /\ [Next]_vars => IInv' /\ SeenInv'
    BY StepIInv, SeenStep
  <1>3. IInv /\ SeenInv => PhaseFollowsTheRun
    BY DEF IInv, LogInv, TypeInv, TypeOK, SeenInv, Known, PhaseFollowsTheRun
  <1> QED
    BY InitIInv, <1>1, <1>2, <1>3, PTL DEF Spec
=============================================================================
