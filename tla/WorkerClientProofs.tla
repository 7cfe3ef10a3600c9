------------------------- MODULE WorkerClientProofs -------------------------
(***************************************************************************)
(* Theorems about WorkerClient, for any number of ranks, denoising steps,  *)
(* connections and cancels.  What they need of the ranks comes from        *)
(* WorkerServerProofs: the client is one more actor of its AnyStep.        *)
(***************************************************************************)
EXTENDS WorkerClient, TLAPS

P == INSTANCE WorkerServerProofs

-----------------------------------------------------------------------------
(* The client as the worker sees it.                                       *)

LEMMA SameConnect == ASSUME NEW op PROVE Worker!Connect(op) => P!Connect(op)
  BY DEF Worker!Connect, P!Connect, Worker!Ended, P!Ended

LEMMA SameSignal == ASSUME NEW r PROVE Worker!Signal(r) => P!Signal(r)
  BY DEF Worker!Signal, P!Signal, Worker!Ended, P!Ended

LEMMA SameFailure == ASSUME NEW r PROVE Worker!RunFails(r) => P!RunFails(r)
  BY DEF Worker!RunFails, P!RunFails, Worker!Goto, P!Goto

LEMMA SameClose == ASSUME NEW c PROVE Worker!Close(c) => P!Close(c)
  BY DEF Worker!Close, P!Close

LEMMA SameKill == Worker!Kill => P!Kill
  BY DEF Worker!Kill, P!Kill

LEMMA SameEnded == ASSUME NEW r PROVE Worker!Ended(r) <=> P!Ended(r)
  BY DEF Worker!Ended, P!Ended

LEMMA SameRefused == Worker!NothingRefused <=> P!NothingRefused
  BY DEF Worker!NothingRefused, P!NothingRefused

LEMMA SameTyping == Worker!TypeOK <=> P!TypeOK
  BY DEF Worker!TypeOK, P!TypeOK, Worker!Connections, P!Connections, Worker!Ops, P!Ops, Worker!Places, P!Places

LEMMA SameServer == Worker!Server => P!Server
  <1>1. ASSUME NEW r, Worker!Take(r) PROVE P!Take(r)
    BY <1>1 DEF Worker!Take, P!Take, Worker!Goto, P!Goto, Worker!FirstStep, P!FirstStep
  <1>2. Worker!Accept => P!Accept
    BY <1>1 DEF Worker!Accept, P!Accept
  <1>3. ASSUME NEW r, Worker!Receive(r) PROVE P!Receive(r)
    BY <1>1, <1>3 DEF Worker!Receive, P!Receive
  <1>4. ASSUME NEW r, Worker!Move(r) PROVE P!Move(r)
    BY <1>4 DEF Worker!Move, P!Move, Worker!Target, P!Target, Worker!ParkedAfter, P!ParkedAfter, Worker!AfterMove,
         P!AfterMove, Worker!Goto, P!Goto, Worker!Request, P!Request
  <1>5. ASSUME NEW r, Worker!MoveFails(r) PROVE P!MoveFails(r)
    BY <1>5 DEF Worker!MoveFails, P!MoveFails, Worker!Target, P!Target, Worker!Goto, P!Goto, Worker!Request, P!Request
  <1>6. ASSUME NEW r, Worker!Refuse(r) PROVE P!Refuse(r)
    BY <1>6 DEF Worker!Refuse, P!Refuse, Worker!Goto, P!Goto
  <1>7. ASSUME NEW r, Worker!Unpark(r) \/ Worker!Prepare(r) PROVE P!Unpark(r) \/ P!Prepare(r)
    BY <1>7 DEF Worker!Unpark, P!Unpark, Worker!Prepare, P!Prepare, Worker!Goto, P!Goto
  <1>8. ASSUME NEW r, Worker!Check(r) PROVE P!Check(r)
    BY <1>8 DEF Worker!Check, P!Check, Worker!Goto, P!Goto
  <1>9. ASSUME NEW r, Worker!Decode(r) \/ Worker!Exit(r) PROVE P!Decode(r) \/ P!Exit(r)
    BY <1>9 DEF Worker!Decode, P!Decode, Worker!Exit, P!Exit, Worker!Goto, P!Goto
  <1>10. Worker!Gather => P!Gather
    BY DEF Worker!Gather, P!Gather, Worker!Done, P!Done
  <1>11. Worker!Denoise => P!Denoise
    BY DEF Worker!Denoise, P!Denoise
  <1>12. Worker!AnswerControl => P!AnswerControl
    BY DEF Worker!AnswerControl, P!AnswerControl, Worker!Goto, P!Goto, Worker!Request, P!Request
  <1>13. Worker!AnswerRun => P!AnswerRun
    BY DEF Worker!AnswerRun, P!AnswerRun, Worker!Goto, P!Goto, Worker!Request, P!Request
  <1>14. Worker!TorchrunStops => P!TorchrunStops
    BY DEF Worker!TorchrunStops, P!TorchrunStops, Worker!Kill, P!Kill
  <1>. QED
    BY <1>2, <1>3, <1>4, <1>5, <1>6, <1>7, <1>8, <1>9, <1>10, <1>11, <1>12, <1>13, <1>14
       DEF Worker!Server, P!Server, Worker!RankStep, P!RankStep, Worker!Collective, P!Collective

LEMMA SameStuck ==
  /\ P!CanGoOn => Worker!CanGoOn
  /\ P!LeftAlone => Worker!LeftAlone
  BY DEF Worker!CanGoOn, P!CanGoOn, Worker!LeftAlone, P!LeftAlone, Worker!Request, P!Request

(* The abstract worker that the one and the other implement. *)
LEMMA SameSerial ==
  [P!Serial!Next]_(P!Serial!vars) => [Worker!Serial!Next]_(Worker!Serial!vars)
  <1>1. Worker!Weights = P!Weights /\ Worker!Weights' = P!Weights'
    BY DEF Worker!Weights, P!Weights, Worker!Ended, P!Ended
  <1>2. P!Serial!Next => Worker!Serial!Next
    <2>. USE <1>1 DEF Worker!Ended, P!Ended
    <2>1. ASSUME NEW op, P!Serial!Connect(op) PROVE Worker!Serial!Connect(op)
      BY <2>1 DEF Worker!Serial!Connect, P!Serial!Connect, Worker!Serial!Connection, P!Serial!Connection
    <2>2. ASSUME NEW c, P!Serial!GiveUp(c) PROVE Worker!Serial!GiveUp(c)
      BY <2>2 DEF Worker!Serial!GiveUp, P!Serial!GiveUp
    <2>3. P!Serial!Accept \/ P!Serial!Stop => Worker!Serial!Accept \/ Worker!Serial!Stop
      BY DEF Worker!Serial!Accept, P!Serial!Accept, Worker!Serial!Stop, P!Serial!Stop
    <2>4. /\ Worker!Serial!Wanted = P!Serial!Wanted
          /\ Worker!Serial!NothingRefused <=> P!Serial!NothingRefused
      BY DEF Worker!Serial!Wanted, P!Serial!Wanted, Worker!Serial!Wants, P!Serial!Wants,
             Worker!Serial!NothingRefused, P!Serial!NothingRefused
    <2>5. P!Serial!Move => Worker!Serial!Move
      BY <2>4 DEF Worker!Serial!Move, P!Serial!Move
    <2>6. P!Serial!Answer \/ P!Serial!Refuse => Worker!Serial!Answer \/ Worker!Serial!Refuse
      BY <2>4 DEF Worker!Serial!Answer, P!Serial!Answer, Worker!Serial!Refuse, P!Serial!Refuse
    <2>. QED
      BY <2>1, <2>2, <2>3, <2>5, <2>6 DEF Worker!Serial!Next, P!Serial!Next
  <1>3. UNCHANGED P!Serial!vars => UNCHANGED Worker!Serial!vars
    BY <1>1 DEF Worker!Serial!vars, P!Serial!vars, Worker!Ended, P!Ended
  <1>. QED
    BY <1>2, <1>3

(* A step of the client, seen from the worker. *)
LEMMA Unsignalled ==
  ASSUME TypeOK, [Next]_vars, ~ \E r \in Ranks : SignalRank(r)
  PROVE  P!Unsignalled
  <1>. USE DEF P!Unsignalled, P!vars, serverVars
  <1>1. ASSUME NEW op, op \in {"restore", "run", "park", "shutdown"}, Worker!Connect(op) PROVE P!Unsignalled
    BY <1>1, SameConnect DEF P!Ops
  <1>2. ASSUME UNCHANGED serverVars PROVE UNCHANGED P!vars
    BY <1>2
  <1>3. CASE ModelNode \/ Sample \/ SendRun \/ Demote \/ UnloadSend
    BY <1>1, <1>2, <1>3 DEF ModelNode, Sample, SendRun, Demote, UnloadSend, Send
  <1>4. CASE ControlCancelled
    <2>1. mine \in DOMAIN conn
      BY <1>4 DEF ControlCancelled, TypeOK, Worker!TypeOK
    <2>. QED
      BY <1>4, <2>1, SameClose DEF ControlCancelled
  <1>5. CASE Evict \/ Abort \/ UnloadWait
    BY <1>2, <1>5, SameKill DEF Evict, Abort, UnloadWait
  <1>7. CASE Restored \/ NotRestored \/ RunAnswered \/ RunBroken \/ RunTimesOut \/ RunCancelled
    BY <1>2, <1>7 DEF Restored, NotRestored, RunAnswered, RunBroken, RunTimesOut, RunCancelled, Leave
  <1>8. CASE WaitToStop \/ ParkAnswered \/ Cancel \/ NextPrompt \/ Unload
    BY <1>2, <1>8 DEF WaitToStop, ParkAnswered, Cancel, NextPrompt, Unload
  <1>9. CASE ServerStep
    BY <1>9, SameServer DEF ServerStep
  <1>10. CASE RankFails
    BY <1>10, SameFailure DEF RankFails
  <1>11. CASE UNCHANGED vars
    BY <1>2, <1>11 DEF vars
  <1>. QED
    BY <1>3, <1>4, <1>5, <1>7, <1>8, <1>9, <1>10, <1>11 DEF Next, ExecutorStep

LEMMA SeenByTheWorker ==
  ASSUME TypeOK, [Next]_vars
  PROVE  [P!AnyStep]_(P!vars)
  <1>1. P!Unsignalled => [P!AnyStep]_(P!vars)
    BY DEF P!Unsignalled, P!AnyStep
  <1>2. ASSUME NEW r \in Ranks, SignalRank(r) PROVE [P!AnyStep]_(P!vars)
    BY <1>2, SameSignal DEF SignalRank, P!AnyStep, P!vars, serverVars
  <1>. QED
    BY <1>1, <1>2, Unsignalled

-----------------------------------------------------------------------------
(* Types.                                                                  *)

(* The client's own part of TypeOK. *)
OwnTyping ==
  /\ adopted \in BOOLEAN /\ entry \in BOOLEAN
  /\ state \in {"warm", "parked"}
  /\ at \in {"idle", "restore", "evict", "run", "wait", "signal", "abort", "demote", "park"}
  /\ for \in {"none", "model", "sample"}
  /\ (for = "none") = (at = "idle")
  /\ mine \in 0..Len(conn)
  /\ at \in {"restore", "wait", "signal", "park"} => mine # 0
  /\ toSignal \subseteq Ranks
  /\ outcome \in {"none", "ok", "error", "timeout", "cancelled", "replaced"}
  /\ api \in {"idle", "send", "wait", "done"}
  /\ cancels \in 0..MaxCancels /\ cancel \in BOOLEAN
  /\ stopped \subseteq 1..Len(conn)

Typing == TypeOK /\ P!Typing

LEMMA OwnTypingKept ==
  ASSUME OwnTyping, [Next]_vars, 1..Len(conn) \subseteq 1..Len(conn'), mine' \in 0..Len(conn')
  PROVE  OwnTyping'
  <1>a. stopped \subseteq 1..Len(conn') /\ (mine # 0 => mine \in 1..Len(conn'))
    BY DEF OwnTyping
  <1>b. /\ adopted \in BOOLEAN /\ entry \in BOOLEAN
        /\ state \in {"warm", "parked"}
        /\ at \in {"idle", "restore", "evict", "run", "wait", "signal", "abort", "demote", "park"}
        /\ for \in {"none", "model", "sample"}
        /\ for = "none" <=> at = "idle"
        /\ at \in {"restore", "wait", "signal", "park"} => mine # 0
        /\ toSignal \subseteq Ranks
        /\ outcome \in {"none", "ok", "error", "timeout", "cancelled", "replaced"}
        /\ api \in {"idle", "send", "wait", "done"}
        /\ cancels \in 0..MaxCancels /\ cancel \in BOOLEAN /\ MaxCancels \in Nat
    BY ClientAssumption DEF OwnTyping
  <1>. USE <1>a, <1>b DEF serverVars, callVars, entryVars, restVars, clientVars
  <1>. SUFFICES 
        /\ adopted' \in BOOLEAN /\ entry' \in BOOLEAN
        /\ state' \in {"warm", "parked"}
        /\ at' \in {"idle", "restore", "evict", "run", "wait", "signal", "abort", "demote", "park"}
        /\ for' \in {"none", "model", "sample"}
        /\ for' = "none" <=> at' = "idle"
        /\ at' \in {"restore", "wait", "signal", "park"} => mine' # 0
        /\ toSignal' \subseteq Ranks
        /\ outcome' \in {"none", "ok", "error", "timeout", "cancelled", "replaced"}
        /\ api' \in {"idle", "send", "wait", "done"}
        /\ cancels' \in 0..MaxCancels /\ cancel' \in BOOLEAN
        /\ stopped' \subseteq 1..Len(conn')
    BY DEF OwnTyping
  <1>1. CASE ModelNode
    BY <1>1 DEF ModelNode, Send
  <1>2. CASE Sample
    BY <1>2 DEF Sample, Send
  <1>3. CASE Restored
    BY <1>3 DEF Restored, StateAfterRestore, Proceed, Finish
  <1>4. CASE NotRestored
    BY <1>4 DEF NotRestored, Proceed, Finish
  <1>5. CASE ControlCancelled
    BY <1>5 DEF ControlCancelled, LockHeld, Proceed, Finish
  <1>6. CASE Evict
    BY <1>6 DEF Evict, Finish
  <1>7. CASE SendRun
    BY <1>7 DEF SendRun, Send, Finish
  <1>8. CASE RunAnswered \/ RunBroken \/ RunTimesOut
    BY <1>8 DEF RunAnswered, RunBroken, RunTimesOut, Leave
  <1>9. CASE RunCancelled
    BY <1>9 DEF RunCancelled, Leave
  <1>10. CASE \E r \in Ranks : SignalRank(r)
    BY <1>10 DEF SignalRank
  <1>11. CASE WaitToStop
    BY <1>11 DEF WaitToStop, WhenSilent
  <1>12. CASE Abort
    BY <1>12 DEF Abort, Proceed
  <1>13. CASE Demote
    BY <1>13 DEF Demote, Finish, Send
  <1>14. CASE ParkAnswered
    BY <1>14 DEF ParkAnswered, Finish
  <1>15. CASE Cancel
    <2>1. cancels' \in 0..MaxCancels
      BY <1>15 DEF Cancel
    <2>. QED
      BY <1>15, <2>1 DEF Cancel
  <1>18. CASE NextPrompt \/ Unload
    BY <1>18 DEF NextPrompt, Unload
  <1>16. CASE UnloadSend \/ UnloadWait
    BY <1>16 DEF UnloadSend, UnloadWait
  <1>17. CASE ServerStep \/ RankFails \/ UNCHANGED vars
    BY <1>17 DEF ServerStep, RankFails, vars
  <1>. QED
    BY <1>1, <1>2, <1>3, <1>4, <1>5, <1>6, <1>7, <1>8, <1>9, <1>10, <1>11, <1>12, <1>13, <1>14, <1>15,
       <1>16, <1>17, <1>18 DEF Next, ExecutorStep

(* What a step does to the connections. *)
LEMMA Connections ==
  ASSUME Typing, P!OutServes, [Next]_vars
  PROVE  /\ P!Typing' /\ P!OutServes' /\ P!AnswersStay
         /\ conn \in Seq(P!Connections) /\ conn' \in Seq(P!Connections)
         /\ Len(conn) \in Nat /\ Len(conn') \in Nat
         /\ NobodyListens => NobodyListens'
  <1>1. [P!AnyStep]_(P!vars) /\ P!Typing
    BY SeenByTheWorker DEF Typing
  <1>2. P!Typing'
    BY <1>1, P!TypingKept, ClientAssumption
  <1>3. P!OutServes' /\ P!AnswersStay
    BY <1>1, P!OutServesKept, ClientAssumption
  <1>4. P!Ended(Out) => P!Ended(Out)'
    BY <1>1, P!EndedStays, ClientAssumption
  <1>5. conn \in Seq(P!Connections) /\ conn' \in Seq(P!Connections)
    BY <1>1, <1>2 DEF P!Typing, P!TypeOK
  <1>. QED
    BY <1>2, <1>3, <1>4, <1>5 DEF NobodyListens, Worker!Ended, P!Ended

(* The client sends a request, ... *)
LEMMA Sent ==
  ASSUME Typing, NEW op \in {"restore", "run", "park", "shutdown"}, Worker!Connect(op)
  PROVE  /\ Len(conn') = Len(conn) + 1 /\ \A i \in 1..Len(conn) : conn'[i] = conn[i]
         /\ conn'[Len(conn) + 1].op = op /\ conn'[Len(conn) + 1].answer = "none"
         /\ UNCHANGED <<jobNo, pc, parked, pipe, interrupt, step>>
  <1>1. P!Connect(op) /\ op \in P!Ops /\ conn \in Seq(P!Connections)
    BY SameConnect DEF P!Ops, Typing, P!Typing, P!TypeOK
  <1>. QED
    BY <1>1, P!ConnectedConn, ClientAssumption DEF P!Connect

Sends == \E op \in {"restore", "run", "park", "shutdown"} : Worker!Connect(op)

(* ... or leaves the number of connections as it is. *)
Silent ==
  \/ Restored \/ NotRestored \/ ControlCancelled \/ Evict
  \/ RunAnswered \/ RunBroken \/ RunTimesOut \/ RunCancelled
  \/ \E r \in Ranks : SignalRank(r)
  \/ WaitToStop \/ Abort \/ ParkAnswered
  \/ Cancel \/ NextPrompt \/ Unload \/ UnloadWait
  \/ ServerStep \/ RankFails \/ UNCHANGED vars

LEMMA SilentStep ==
  ASSUME Typing, Silent
  PROVE  Len(conn') = Len(conn)
  <1>. USE DEF P!vars, serverVars
  <1>1. /\ P!Typing /\ (Worker!Kill => P!Kill) /\ (Worker!Server => P!Server)
        /\ \A r \in Ranks : (Worker!Signal(r) => P!Signal(r)) /\ (Worker!RunFails(r) => P!RunFails(r))
    BY SameKill, SameServer, SameSignal, SameFailure DEF Typing
  <1>2. UNCHANGED conn \/ Worker!Kill \/ Worker!Server \/ (\E r \in Ranks : Worker!Signal(r) \/ Worker!RunFails(r))
          => Len(conn') = Len(conn)
    BY <1>1, P!LengthStays, ClientAssumption
  <1>3. CASE ControlCancelled
    <2>1. mine \in DOMAIN conn /\ P!Close(mine)
      BY <1>3, SameClose DEF ControlCancelled, Typing, TypeOK, Worker!TypeOK
    <2>. QED
      BY <1>1, <2>1, P!LengthStays, ClientAssumption
  <1>4. CASE Evict \/ Abort \/ UnloadWait
    BY <1>2, <1>4 DEF Evict, Abort, UnloadWait
  <1>5. CASE \E r \in Ranks : SignalRank(r)
    BY <1>2, <1>5 DEF SignalRank
  <1>6. CASE Restored \/ NotRestored \/ RunAnswered \/ RunBroken \/ RunTimesOut \/ RunCancelled
    BY <1>2, <1>6 DEF Restored, NotRestored, RunAnswered, RunBroken, RunTimesOut, RunCancelled, Leave
  <1>7. CASE WaitToStop \/ ParkAnswered \/ Cancel \/ NextPrompt \/ Unload
    BY <1>2, <1>7 DEF WaitToStop, ParkAnswered, Cancel, NextPrompt, Unload
  <1>8. CASE ServerStep \/ RankFails
    BY <1>2, <1>8 DEF ServerStep, RankFails
  <1>9. CASE UNCHANGED vars
    BY <1>2, <1>9 DEF vars
  <1>. QED
    BY <1>3, <1>4, <1>5, <1>6, <1>7, <1>8, <1>9 DEF Silent

LEMMA NotSent ==
  ASSUME Typing, [Next]_vars
  PROVE  Sends \/ Len(conn') = Len(conn)
  <1>1. CASE ModelNode \/ Sample \/ SendRun \/ Demote \/ UnloadSend
    BY <1>1 DEF ModelNode, Sample, SendRun, Demote, UnloadSend, Send, Sends, serverVars
  <1>. QED
    BY <1>1, SilentStep DEF Next, ExecutorStep, Silent

LEMMA MineStays ==
  ASSUME Typing, [Next]_vars
  PROVE  mine' \in {0, mine} \/ (Sends /\ mine' = Len(conn) + 1)
  <1>. USE DEF callVars, clientVars
  <1>1. CASE ModelNode \/ Sample \/ SendRun \/ Demote
    BY <1>1 DEF ModelNode, Sample, SendRun, Demote, Send, Sends, Finish
  <1>2. CASE Restored \/ NotRestored \/ ControlCancelled \/ Evict \/ Abort \/ ParkAnswered
    BY <1>2 DEF Restored, NotRestored, ControlCancelled, Evict, Abort, ParkAnswered, Proceed, Finish
  <1>3. CASE RunAnswered \/ RunBroken \/ RunTimesOut \/ RunCancelled \/ WaitToStop \/ \E r \in Ranks : SignalRank(r)
    BY <1>3 DEF RunAnswered, RunBroken, RunTimesOut, RunCancelled, WaitToStop, SignalRank, Leave
  <1>4. CASE Cancel \/ NextPrompt \/ Unload \/ UnloadSend \/ UnloadWait \/ ServerStep \/ RankFails \/ UNCHANGED vars
    BY <1>4 DEF Cancel, NextPrompt, Unload, UnloadSend, UnloadWait, ServerStep, RankFails, vars
  <1>. QED
    BY <1>1, <1>2, <1>3, <1>4 DEF Next, ExecutorStep

LEMMA TypingKept ==
  ASSUME Typing, P!OutServes, [Next]_vars
  PROVE  Typing'
  <1>1. P!Typing' /\ Len(conn) \in Nat /\ Len(conn') \in Nat /\ Len(conn) <= Len(conn')
    BY Connections DEF P!AnswersStay
  <1>2. TypeOK <=> Worker!TypeOK /\ OwnTyping
    BY DEF TypeOK, OwnTyping
  <1>3. TypeOK' <=> Worker!TypeOK' /\ OwnTyping'
    BY DEF TypeOK, OwnTyping
  <1>4. mine' \in 0..Len(conn')
    <2>1. mine \in 0..Len(conn)
      BY <1>2 DEF Typing, OwnTyping
    <2>2. Sends => Len(conn') = Len(conn) + 1
      BY Sent DEF Sends
    <2>. QED
      BY <1>1, <2>1, <2>2, MineStays
  <1>5. OwnTyping'
    BY <1>1, <1>2, <1>4, OwnTypingKept DEF Typing
  <1>6. Worker!TypeOK'
    <2>1. P!TypeOK'
      BY <1>1 DEF P!Typing
    <2>. QED
      BY <2>1 DEF Worker!TypeOK, P!TypeOK, Worker!Connections, P!Connections, Worker!Ops, P!Ops, Worker!Places,
           P!Places
  <1>. QED
    BY <1>1, <1>3, <1>5, <1>6 DEF Typing

-----------------------------------------------------------------------------
(* What the executor has under way.                                        *)

AllOpen == \A c \in 1..Len(conn) : conn[c].open
Unanswered(c) == conn[c].answer = "none"

(* The connection the executor waits on is of the kind its place says, and while
   the worker is in the registry nobody else has made a later one. *)
AtHand ==
  /\ at \in {"idle", "run", "evict"} => mine = 0
  /\ at \in {"wait", "signal"} => conn[mine].op = "run"
  /\ at = "park" => conn[mine].op = "park"
  /\ at = "signal" => mine \in stopped
  /\ entry => api = "idle" /\ (mine # 0 => mine = Len(conn))

(* A run without an answer is the one it waits for, or has given up and is about to
   kill the worker for. *)
RunsAnswered ==
  ~NobodyListens =>
    \A c \in 1..Len(conn) : conn[c].op = "run" /\ Unanswered(c) =>
      c = mine /\ at \in {"wait", "signal", "abort"}

(* Also with a worker that has ended, for whose ranks the signals still are. *)
OnlyMineRuns ==
  at \in {"wait", "signal"} =>
    \A c \in 1..Len(conn) : conn[c].op = "run" /\ Unanswered(c) => c = mine

(* While the worker is in the registry, every request without an answer is the one
   the executor is at. *)
AllAnswered ==
  entry /\ AllOpen /\ ~NobodyListens =>
    \A c \in 1..Len(conn) : Unanswered(c) =>
      c = mine /\ at \in {"restore", "wait", "signal", "abort", "park"}

(* What the registry calls parked was parked by the last request. *)
ParkedKnown ==
  entry /\ state = "parked" /\ AllOpen /\ ~NobodyListens /\ Worker!NothingRefused =>
    /\ at \in {"idle", "restore"}
    /\ at = "idle" => Len(conn) > 0 /\ conn[Len(conn)].op = "park"

(* A flag that is set where a run looks at it was set for that run. *)
StopsItsOwn ==
  Worker!NothingRefused =>
    \A r \in Ranks : pc[r] \in {"check", "denoise"} /\ interrupt[r] => jobNo[r] \in stopped

(* The executor closes a connection only to leave it. *)
MineOpen == mine # 0 => conn[mine].open

LEMMA AtHandKept ==
  ASSUME Typing, P!OutServes, AtHand, [Next]_vars
  PROVE  AtHand'
  <1>a. /\ Len(conn) \in Nat /\ mine \in 0..Len(conn)
        /\ at \in {"restore", "wait", "signal", "park"} => mine # 0
        /\ for = "none" <=> at = "idle"
    BY Connections DEF Typing, TypeOK
  <1>b. /\ \A i \in 1..Len(conn) : conn'[i].op = conn[i].op
    BY Connections DEF P!AnswersStay
  <1>c. ~Sends => Len(conn') = Len(conn)
    BY NotSent
  <1>d. ASSUME NEW op \in {"restore", "run", "park", "shutdown"}, Worker!Connect(op)
        PROVE  Len(conn') = Len(conn) + 1 /\ conn'[Len(conn) + 1].op = op
    BY <1>d, Sent
  <1>. USE <1>a, <1>b DEF AtHand, serverVars, callVars, entryVars, restVars, clientVars
  <1>1. CASE ModelNode
    BY <1>1, <1>d DEF ModelNode, Send
  <1>2. CASE Sample
    BY <1>2, <1>d DEF Sample, Send
  <1>3. CASE SendRun
    BY <1>3, <1>d DEF SendRun, Send, Finish
  <1>4. CASE Demote
    BY <1>4, <1>d DEF Demote, Send, Finish
  <1>5. CASE Restored \/ NotRestored \/ ControlCancelled \/ Evict \/ Abort \/ ParkAnswered
    BY <1>5 DEF Restored, NotRestored, ControlCancelled, Evict, Abort, ParkAnswered, Proceed, Finish
  <1>6. ASSUME Len(conn') = Len(conn), mine' = mine, UNCHANGED entryVars, UNCHANGED api, stopped \subseteq stopped',
               \/ at' = at \/ at' \in {"abort", "demote"}
               \/ at = "wait" /\ at' = "signal" /\ mine \in stopped'
        PROVE  AtHand'
    BY <1>6
  <1>7. CASE \/ RunAnswered \/ RunBroken \/ RunTimesOut \/ RunCancelled \/ WaitToStop \/ Cancel \/ NextPrompt
             \/ UNCHANGED vars
    <2>1. UNCHANGED conn
      BY <1>7 DEF RunAnswered, RunBroken, RunTimesOut, RunCancelled, WaitToStop, Cancel, NextPrompt, Leave, vars
    <2>. QED
      BY <1>6, <1>7, <2>1 DEF RunAnswered, RunBroken, RunTimesOut, RunCancelled, WaitToStop, WhenSilent, Cancel,
           NextPrompt, Leave, vars
  <1>8. CASE (\E r \in Ranks : SignalRank(r)) \/ ServerStep \/ RankFails
    <2>1. Len(conn') = Len(conn)
      BY <1>8, SilentStep DEF Silent
    <2>. QED
      BY <1>6, <1>8, <2>1 DEF SignalRank, ServerStep, RankFails
  <1>9. CASE Unload \/ UnloadSend \/ UnloadWait
    BY <1>9 DEF Unload, UnloadSend, UnloadWait
  <1>. QED
    BY <1>1, <1>2, <1>3, <1>4, <1>5, <1>7, <1>8, <1>9 DEF Next, ExecutorStep

(* What the steps leave of the answers, in the terms of the client. *)
LEMMA AnswersKept ==
  ASSUME Typing, P!OutServes, [Next]_vars
  PROVE  /\ Len(conn) \in Nat /\ mine \in 0..Len(conn)
         /\ NobodyListens => NobodyListens'
         /\ \A i \in 1..Len(conn) : /\ conn'[i].op = conn[i].op /\ (conn'[i].open => conn[i].open)
                                    /\ Unanswered(i)' => Unanswered(i)
         /\ ~Sends => Len(conn') = Len(conn)
         /\ AllOpen' => AllOpen
         /\ Worker!NothingRefused' => Worker!NothingRefused
  <1>1. /\ P!AnswersStay /\ conn \in Seq(P!Connections) /\ conn' \in Seq(P!Connections)
        /\ Len(conn) \in Nat /\ Len(conn') \in Nat /\ (NobodyListens => NobodyListens')
    BY Connections
  <1>2. P!NothingRefused' => P!NothingRefused
    BY <1>1, P!RefusedStays, ClientAssumption
  <1>3. Worker!NothingRefused' => P!NothingRefused'
    BY DEF Worker!NothingRefused, P!NothingRefused
  <1>4. Worker!NothingRefused' => Worker!NothingRefused
    BY <1>2, <1>3, SameRefused
  <1>5. mine \in 0..Len(conn) /\ (~Sends => Len(conn') = Len(conn))
    BY NotSent DEF Typing, TypeOK
  <1>6. \A i \in 1..Len(conn) : i \in 1..Len(conn') /\ conn'[i].op = conn[i].op /\ (conn'[i].open => conn[i].open)
    BY <1>1 DEF P!AnswersStay
  <1>7. \A i \in 1..Len(conn) : Unanswered(i)' => Unanswered(i)
    BY <1>1 DEF P!AnswersStay, Unanswered
  <1>8. AllOpen' => AllOpen
    BY <1>6 DEF AllOpen
  <1>. QED
    BY <1>1, <1>4, <1>5, <1>6, <1>7, <1>8

(* The executor leaves a connection it waits on with the answer, or when nobody is
   left to give it. *)
LEMMA Over ==
  ASSUME mine \in 0..Len(conn), Answered \/ Broken \/ NobodyListens
  PROVE  NobodyListens \/ (mine # 0 /\ ~Unanswered(mine))
  BY DEF Answered, Broken, Unanswered

LEMMA RunsAnsweredKept ==
  ASSUME Typing, P!OutServes, AtHand, RunsAnswered, [Next]_vars
  PROVE  RunsAnswered'
  <1>a. /\ Len(conn) \in Nat /\ mine \in 0..Len(conn)
        /\ NobodyListens => NobodyListens'
        /\ \A i \in 1..Len(conn) : conn'[i].op = conn[i].op /\ (Unanswered(i)' => Unanswered(i))
        /\ ~Sends => Len(conn') = Len(conn)
    BY AnswersKept
  <1>b. ASSUME NEW op \in {"restore", "run", "park", "shutdown"}, Worker!Connect(op)
        PROVE  /\ Len(conn') = Len(conn) + 1 /\ conn'[Len(conn) + 1].op = op
               /\ \A i \in 1..Len(conn) : conn'[i] = conn[i]
    BY <1>b, Sent
  <1>. USE <1>a DEF serverVars, callVars, entryVars, restVars, clientVars
  <1>1. ASSUME NobodyListens' PROVE RunsAnswered'
    BY <1>1 DEF RunsAnswered
  (* The executor stays at a run it waits for, or has none. *)
  <1>2. ASSUME Len(conn') = Len(conn),
               \/ at \notin {"wait", "signal", "abort"}
               \/ mine' = mine /\ at' \in {"wait", "signal", "abort"}
               \/ NobodyListens \/ NobodyListens' \/ (mine # 0 /\ ~Unanswered(mine))
        PROVE  RunsAnswered'
    BY <1>2 DEF RunsAnswered
  (* A request is sent that is no run, or the run the executor is to wait for. *)
  <1>3. ASSUME NEW op \in {"restore", "run", "park", "shutdown"}, Worker!Connect(op),
               \/ op # "run" /\ at \notin {"wait", "signal", "abort"}
               \/ op # "run" /\ mine' = mine /\ at' = at
               \/ op = "run" /\ at = "run" /\ at' = "wait" /\ mine' = Len(conn) + 1
        PROVE  RunsAnswered'
    BY <1>3, <1>b DEF RunsAnswered, Unanswered
  <1>4. CASE ModelNode
    BY <1>3, <1>4 DEF ModelNode, Send
  <1>5. CASE Sample
    BY <1>2, <1>3, <1>5 DEF Sample, Send
  <1>6. CASE SendRun
    BY <1>2, <1>3, <1>6 DEF SendRun, Send, Finish
  <1>7. CASE Demote
    BY <1>2, <1>3, <1>7 DEF Demote, Send, Finish
  <1>8. CASE \/ Restored \/ NotRestored \/ ControlCancelled \/ Evict \/ ParkAnswered \/ RunTimesOut \/ RunCancelled
             \/ (\E r \in Ranks : SignalRank(r)) \/ Cancel \/ NextPrompt \/ Unload \/ UNCHANGED vars
    <2>1. \/ at \notin {"wait", "signal", "abort"}
          \/ mine' = mine /\ at' \in {"wait", "signal", "abort"}
      BY <1>8 DEF Restored, NotRestored, ControlCancelled, Evict, ParkAnswered, RunTimesOut, RunCancelled, SignalRank,
           Cancel, NextPrompt, Unload, Leave, vars
    <2>2. Len(conn') = Len(conn)
      BY <1>8, SilentStep DEF Silent
    <2>. QED
      BY <1>2, <2>1, <2>2
  <1>9. CASE RunAnswered \/ RunBroken \/ WaitToStop
    <2>1. Len(conn') = Len(conn) /\ mine' = mine
      BY <1>9, SilentStep DEF Silent, RunAnswered, RunBroken, WaitToStop, Leave
    <2>2. at' = "abort" \/ Answered \/ Broken \/ NobodyListens
      BY <1>9 DEF RunAnswered, RunBroken, WaitToStop, WhenSilent
    <2>. QED
      BY <1>2, <2>1, <2>2, Over
  <1>10. CASE Abort \/ UnloadWait
    <2>1. Len(conn') = Len(conn)
      BY <1>10, SilentStep DEF Silent
    <2>2. CASE Worker!Kill
      <3>1. NobodyListens'
        BY <2>2, ClientAssumption DEF Worker!Kill, NobodyListens, Worker!Ended
      <3>. QED
        BY <1>1, <3>1
    <2>3. CASE UnloadWait /\ Ended
      <3>1. NobodyListens
        BY <2>3, ClientAssumption DEF Ended, NobodyListens
      <3>. QED
        BY <1>2, <2>1, <3>1
    <2>. QED
      BY <1>10, <2>2, <2>3 DEF Abort, UnloadWait
  <1>11. CASE UnloadSend
    BY <1>1, <1>3, <1>11 DEF UnloadSend
  <1>12. CASE ServerStep \/ RankFails
    <2>1. Len(conn') = Len(conn) /\ mine' = mine /\ at' = at
      BY <1>12, SilentStep DEF Silent, ServerStep, RankFails
    <2>. QED
      BY <1>2, <2>1
  <1>. QED
    BY <1>4, <1>5, <1>6, <1>7, <1>8, <1>9, <1>10, <1>11, <1>12 DEF Next, ExecutorStep

LEMMA OnlyMineRunsKept ==
  ASSUME Typing, P!OutServes, RunsAnswered, OnlyMineRuns, [Next]_vars
  PROVE  OnlyMineRuns'
  <1>a. /\ Len(conn) \in Nat /\ mine \in 0..Len(conn)
        /\ \A i \in 1..Len(conn) : conn'[i].op = conn[i].op /\ (Unanswered(i)' => Unanswered(i))
    BY AnswersKept
  <1>b. ASSUME NEW op \in {"restore", "run", "park", "shutdown"}, Worker!Connect(op)
        PROVE  /\ Len(conn') = Len(conn) + 1 /\ conn'[Len(conn) + 1].op = op
               /\ \A i \in 1..Len(conn) : conn'[i] = conn[i]
    BY <1>b, Sent
  <1>. USE <1>a DEF serverVars, callVars, entryVars, restVars, clientVars
  <1>1. ASSUME Len(conn') = Len(conn),
               \/ at' \notin {"wait", "signal"}
               \/ mine' = mine /\ at \in {"wait", "signal"}
        PROVE  OnlyMineRuns'
    BY <1>1 DEF OnlyMineRuns
  <1>2. ASSUME at' \notin {"wait", "signal"} PROVE OnlyMineRuns'
    BY <1>2 DEF OnlyMineRuns
  <1>3. CASE ModelNode \/ Sample \/ Demote
    BY <1>2, <1>3 DEF ModelNode, Sample, Demote, Send, Finish
  <1>4. CASE SendRun
    <2>1. CASE NobodyListens
      BY <1>2, <1>4, <2>1 DEF SendRun, Finish
    <2>2. CASE ~NobodyListens
      <3>1. Worker!Connect("run") /\ mine' = Len(conn) + 1 /\ at = "run"
        BY <1>4, <2>2 DEF SendRun, Send
      <3>2. \A c \in 1..Len(conn) : ~(conn[c].op = "run" /\ Unanswered(c))
        BY <2>2, <3>1 DEF RunsAnswered
      <3>. QED
        BY <1>b, <3>1, <3>2 DEF OnlyMineRuns
    <2>. QED
      BY <2>1, <2>2
  <1>5. CASE UnloadSend
    <2>1. mine' = mine /\ at' = at
      BY <1>5 DEF UnloadSend
    <2>2. CASE Worker!Connect("shutdown")
      BY <1>b, <2>1, <2>2 DEF OnlyMineRuns, Unanswered
    <2>. QED
      BY <1>1, <1>5, <2>1, <2>2 DEF UnloadSend
  <1>6. CASE Silent
    <2>1. \/ at' \notin {"wait", "signal"}
          \/ mine' = mine /\ at \in {"wait", "signal"}
      BY <1>6 DEF Silent, Restored, NotRestored, ControlCancelled, Evict, RunAnswered, RunBroken, RunTimesOut, RunCancelled,
           SignalRank, WaitToStop, WhenSilent, Abort, ParkAnswered, Cancel, NextPrompt, Unload, UnloadWait, ServerStep, RankFails,
           Leave, Proceed, Finish, vars
    <2>. QED
      BY <1>1, <1>6, <2>1, SilentStep
  <1>. QED
    BY <1>3, <1>4, <1>5, <1>6 DEF Next, ExecutorStep, Silent

LEMMA AllAnsweredKept ==
  ASSUME Typing, P!OutServes, AtHand, AllAnswered, [Next]_vars
  PROVE  AllAnswered'
  <1>a. /\ Len(conn) \in Nat /\ mine \in 0..Len(conn)
        /\ NobodyListens => NobodyListens'
        /\ \A i \in 1..Len(conn) : Unanswered(i)' => Unanswered(i)
        /\ AllOpen' => AllOpen
    BY AnswersKept
  <1>b. ASSUME NEW op \in {"restore", "run", "park", "shutdown"}, Worker!Connect(op)
        PROVE  Len(conn') = Len(conn) + 1 /\ \A i \in 1..Len(conn) : conn'[i] = conn[i]
    BY <1>b, Sent
  <1>. DEFINE Waiting == {"restore", "wait", "signal", "abort", "park"}
  <1>. USE <1>a DEF serverVars, callVars, entryVars, restVars, clientVars
  <1>1. ASSUME NobodyListens' \/ ~entry' \/ ~AllOpen' PROVE AllAnswered'
    BY <1>1 DEF AllAnswered
  <1>2. ASSUME Len(conn') = Len(conn), entry' => entry,
               \/ at \notin Waiting
               \/ mine' = mine /\ at' \in Waiting
               \/ NobodyListens \/ (mine # 0 /\ ~Unanswered(mine))
        PROVE  AllAnswered'
    BY <1>2 DEF AllAnswered
  <1>3. ASSUME NEW op \in {"restore", "run", "park", "shutdown"}, Worker!Connect(op), entry' => entry,
               at \notin Waiting, at' \in Waiting, mine' = Len(conn) + 1
        PROVE  AllAnswered'
    BY <1>3, <1>b DEF AllAnswered, Unanswered
  <1>4. CASE ModelNode
    BY <1>3, <1>4 DEF ModelNode, Send
  <1>5. CASE Sample
    BY <1>2, <1>3, <1>5 DEF Sample, Send
  <1>6. CASE SendRun
    BY <1>2, <1>3, <1>6 DEF SendRun, Send, Finish
  <1>7. CASE Demote
    BY <1>2, <1>3, <1>7 DEF Demote, Send, Finish
  <1>8. CASE Restored \/ NotRestored \/ ParkAnswered \/ RunAnswered \/ RunBroken \/ WaitToStop
    <2>1. Len(conn') = Len(conn) /\ entry' = entry
      BY <1>8, SilentStep DEF Silent, Restored, NotRestored, ParkAnswered, RunAnswered, RunBroken, WaitToStop, Leave
    <2>2. (mine' = mine /\ at' = "abort") \/ Answered \/ Broken \/ NobodyListens
      BY <1>8 DEF Restored, NotRestored, RestoreFailed, ParkAnswered, RunAnswered, RunBroken, WaitToStop, WhenSilent,
           Answered, AnsweredWith
    <2>. QED
      BY <1>2, <2>1, <2>2, Over
  <1>9. CASE ControlCancelled
    <2>1. mine \in 1..Len(conn) /\ P!Close(mine) /\ conn \in Seq(P!Connections)
      BY <1>9, SameClose DEF ControlCancelled, Typing, TypeOK, P!Typing, P!TypeOK
    <2>2. Len(conn') = Len(conn) /\ ~conn'[mine].open
      BY <2>1, P!ClosedConn, ClientAssumption
    <2>. QED
      BY <1>1, <2>1, <2>2 DEF AllOpen
  <1>10. CASE Evict \/ Abort \/ Unload \/ UnloadSend \/ UnloadWait
    <2>1. ~entry'
      BY <1>10 DEF Evict, Abort, Unload, UnloadSend, UnloadWait, AtHand
    <2>. QED
      BY <1>1, <2>1
  <1>11. CASE \/ RunTimesOut \/ RunCancelled \/ (\E r \in Ranks : SignalRank(r)) \/ Cancel \/ NextPrompt
              \/ ServerStep \/ RankFails \/ UNCHANGED vars
    <2>1. Len(conn') = Len(conn)
      BY <1>11, SilentStep DEF Silent
    <2>2. /\ entry' = entry /\ mine' = mine
          /\ at' = at \/ at' \in Waiting
      BY <1>11 DEF RunTimesOut, RunCancelled, SignalRank, Cancel, NextPrompt, ServerStep, RankFails, Leave, vars
    <2>. QED
      BY <1>2, <2>1, <2>2
  <1>. QED
    BY <1>4, <1>5, <1>6, <1>7, <1>8, <1>9, <1>10, <1>11 DEF Next, ExecutorStep

LEMMA ParkedKnownKept ==
  ASSUME Typing, P!OutServes, AtHand, ParkedKnown, [Next]_vars
  PROVE  ParkedKnown'
  <1>a. /\ Len(conn) \in Nat /\ mine \in 0..Len(conn)
        /\ NobodyListens => NobodyListens'
        /\ \A i \in 1..Len(conn) : conn'[i].op = conn[i].op
        /\ AllOpen' => AllOpen
        /\ Worker!NothingRefused' => Worker!NothingRefused
    BY AnswersKept
  <1>. USE <1>a DEF serverVars, callVars, entryVars, restVars, clientVars
  <1>1. ASSUME \/ NobodyListens' \/ ~entry' \/ ~AllOpen' \/ state' # "parked" \/ ~Worker!NothingRefused'
               \/ at' = "restore"
        PROVE  ParkedKnown'
    BY <1>1 DEF ParkedKnown
  <1>2. ASSUME entry' => entry, state' = state, at \notin {"idle", "restore"}
        PROVE  ParkedKnown'
    BY <1>2 DEF ParkedKnown
  <1>3. ASSUME entry' => entry, state' = state, at' = at, Len(conn') = Len(conn)
        PROVE  ParkedKnown'
    BY <1>3 DEF ParkedKnown
  <1>4. CASE ModelNode
    BY <1>1, <1>4 DEF ModelNode, Send
  <1>5. CASE Sample
    BY <1>1, <1>5 DEF Sample, Send
  <1>6. CASE SendRun \/ Demote
    BY <1>2, <1>6 DEF SendRun, Demote
  <1>7. CASE Restored
    BY <1>1, <1>7 DEF Restored, StateAfterRestore
  <1>8. CASE NotRestored
    <2>1. CASE AnsweredWith("error")
      <3>1. ~Worker!NothingRefused
        BY <2>1 DEF AnsweredWith, Worker!NothingRefused, Typing, TypeOK, Worker!TypeOK
      <3>. QED
        BY <1>1, <3>1
    <2>. QED
      BY <1>1, <1>8, <2>1 DEF NotRestored, RestoreFailed, Broken
  <1>9. CASE ControlCancelled
    <2>1. mine \in 1..Len(conn) /\ P!Close(mine) /\ conn \in Seq(P!Connections)
      BY <1>9, SameClose DEF ControlCancelled, Typing, TypeOK, P!Typing, P!TypeOK
    <2>2. Len(conn') = Len(conn) /\ ~conn'[mine].open
      BY <2>1, P!ClosedConn, ClientAssumption
    <2>. QED
      BY <1>1, <2>1, <2>2 DEF AllOpen
  <1>10. CASE ParkAnswered
    <2>1. CASE AnsweredWith("ok") /\ entry
      <3>1. mine = Len(conn) /\ mine # 0 /\ conn[mine].op = "park" /\ UNCHANGED conn
        BY <1>10, <2>1 DEF ParkAnswered, AnsweredWith, AtHand
      <3>. QED
        BY <1>10, <3>1 DEF ParkAnswered, Finish, ParkedKnown
    <2>2. CASE ~(AnsweredWith("ok") /\ entry)
      <3>1. entry' = entry /\ state' = state /\ at = "park"
        BY <1>10, <2>2 DEF ParkAnswered
      <3>. QED
        BY <1>2, <3>1
    <2>. QED
      BY <2>1, <2>2
  <1>11. CASE Evict \/ Abort \/ Unload \/ UnloadSend \/ UnloadWait
    <2>1. ~entry'
      BY <1>11 DEF Evict, Abort, Unload, UnloadSend, UnloadWait, AtHand
    <2>. QED
      BY <1>1, <2>1
  <1>12. CASE \/ RunAnswered \/ RunBroken \/ RunTimesOut \/ RunCancelled \/ (\E r \in Ranks : SignalRank(r)) \/ WaitToStop
    BY <1>2, <1>12 DEF RunAnswered, RunBroken, RunTimesOut, RunCancelled, SignalRank, WaitToStop, Leave
  <1>13. CASE Cancel \/ NextPrompt \/ ServerStep \/ RankFails \/ UNCHANGED vars
    <2>1. Len(conn') = Len(conn)
      BY <1>13, SilentStep DEF Silent
    <2>. QED
      BY <1>3, <1>13, <2>1 DEF Cancel, NextPrompt, ServerStep, RankFails, vars
  <1>. QED
    BY <1>4, <1>5, <1>6, <1>7, <1>8, <1>9, <1>10, <1>11, <1>12, <1>13 DEF Next, ExecutorStep

LEMMA StopsItsOwnKept ==
  ASSUME Typing, P!OutServes, P!InTouch, AtHand, OnlyMineRuns, StopsItsOwn, [Next]_vars
  PROVE  StopsItsOwn'
  <1>a. P!Typing /\ [P!AnyStep]_(P!vars) /\ (Worker!NothingRefused' => Worker!NothingRefused)
    BY AnswersKept, SeenByTheWorker DEF Typing
  <1>b. stopped \subseteq stopped'
    <2>1. CASE RunCancelled
      BY <2>1 DEF RunCancelled
    <2>. QED
      BY <2>1 DEF Next, ExecutorStep, ModelNode, Sample, Restored, NotRestored, ControlCancelled, Evict, SendRun, RunAnswered,
         RunBroken, RunTimesOut, SignalRank, WaitToStop, Abort, Demote, ParkAnswered, Cancel, NextPrompt, Unload,
         UnloadSend, UnloadWait, ServerStep, RankFails, restVars, clientVars, vars
  <1>. SUFFICES ASSUME Worker!NothingRefused', NEW r \in Ranks, pc'[r] \in {"check", "denoise"}, interrupt'[r]
                PROVE  jobNo'[r] \in stopped'
    BY DEF StopsItsOwn
  <1>1. CASE pc[r] \in {"check", "denoise"} /\ interrupt[r] /\ jobNo'[r] = jobNo[r]
    BY <1>a, <1>b, <1>1 DEF StopsItsOwn
  <1>2. ASSUME NEW q \in Ranks, SignalRank(q), Worker!Signal(q) PROVE jobNo'[r] \in stopped'
    <2>1. at = "signal" /\ jobNo' = jobNo /\ pc' = pc
      BY <1>2 DEF SignalRank, Worker!Signal
    <2>2. P!NothingRefused /\ P!OfItself(r)
      BY <1>a, SameRefused DEF P!InTouch
    <2>3. jobNo[r] \in 1..Len(conn) /\ conn[jobNo[r]].op = "run" /\ Unanswered(jobNo[r])
      BY <2>1, <2>2 DEF P!OfItself, P!Denoising, P!Moving, P!Restoring, P!Request, Unanswered
    <2>4. jobNo[r] = mine /\ mine \in stopped
      BY <2>1, <2>3 DEF OnlyMineRuns, AtHand
    <2>. QED
      BY <1>b, <2>1, <2>4
  <1>3. CASE \E q \in Ranks : SignalRank(q) /\ Worker!Signal(q)
    BY <1>2, <1>3
  <1>4. CASE ~ \E q \in Ranks : SignalRank(q) /\ Worker!Signal(q)
    <2>1. P!Unsignalled
      <3>1. CASE \E q \in Ranks : SignalRank(q)
        <4>1. UNCHANGED serverVars
          BY <1>4, <3>1 DEF SignalRank
        <4>. QED
          BY <4>1 DEF P!Unsignalled, P!vars, serverVars
      <3>2. CASE ~ \E q \in Ranks : SignalRank(q)
        BY <3>2, Unsignalled DEF Typing
      <3>. QED
        BY <3>1, <3>2
    <2>. QED
      BY <1>a, <1>1, <2>1, P!FlagsComeBySignal, ClientAssumption
  <1>. QED
    BY <1>3, <1>4

LEMMA MineOpenKept ==
  ASSUME Typing, P!OutServes, MineOpen, [Next]_vars
  PROVE  MineOpen'
  <1>a. Len(conn) \in Nat /\ mine \in 0..Len(conn) /\ P!Typing
    BY Connections DEF Typing, TypeOK
  <1>. USE <1>a DEF MineOpen, serverVars, callVars, clientVars
  <1>1. ASSUME NEW op \in {"restore", "run", "park", "shutdown"}, Worker!Connect(op)
        PROVE  /\ \A i \in 1..Len(conn) : conn'[i].open = conn[i].open
               /\ conn'[Len(conn) + 1].open
    <2>1. P!Connect(op) /\ op \in P!Ops /\ conn \in Seq(P!Connections)
      BY <1>1, SameConnect DEF P!Ops, P!Typing, P!TypeOK
    <2>. QED
      BY <2>1, P!ConnectedConn, ClientAssumption
  <1>2. CASE Sends
    BY <1>1, <1>2, MineStays DEF Sends
  <1>3. ASSUME \A i \in 1..Len(conn) : conn'[i].open = conn[i].open, ~Sends
        PROVE  MineOpen'
    BY <1>3, MineStays
  <1>4. ASSUME \/ UNCHANGED serverVars \/ Worker!Kill \/ Worker!Server
               \/ \E r \in Ranks : Worker!Signal(r) \/ Worker!RunFails(r)
        PROVE  \A i \in 1..Len(conn) : conn'[i].open = conn[i].open
    <2>1. P!Kill \/ P!Server \/ UNCHANGED P!vars \/ \E r \in Ranks : P!Signal(r) \/ P!RunFails(r)
      BY <1>4, SameKill, SameServer, SameSignal, SameFailure DEF P!vars
    <2>. QED
      BY <2>1, P!OpenStays, ClientAssumption
  <1>5. CASE ModelNode \/ Sample \/ SendRun \/ Demote \/ UnloadSend
    <2>1. Sends \/ UNCHANGED serverVars
      BY <1>5 DEF ModelNode, Sample, SendRun, Demote, UnloadSend, Send, Sends
    <2>. QED
      BY <1>2, <1>3, <1>4, <2>1
  <1>6. CASE ControlCancelled
    BY <1>6 DEF ControlCancelled, Proceed, Finish
  <1>7. CASE \/ Restored \/ NotRestored \/ RunAnswered \/ RunBroken \/ RunTimesOut \/ RunCancelled
             \/ WaitToStop \/ ParkAnswered \/ Cancel \/ NextPrompt \/ Unload \/ UNCHANGED vars
    <2>1. UNCHANGED serverVars
      BY <1>7 DEF Restored, NotRestored, RunAnswered, RunBroken, RunTimesOut, RunCancelled, WaitToStop,
           ParkAnswered, Cancel, NextPrompt, Unload, Leave, vars
    <2>. QED
      BY <1>2, <1>3, <1>4, <2>1
  <1>8. CASE Evict \/ Abort \/ UnloadWait \/ (\E r \in Ranks : SignalRank(r)) \/ ServerStep \/ RankFails
    <2>1. \/ UNCHANGED serverVars \/ Worker!Kill \/ Worker!Server
          \/ \E r \in Ranks : Worker!Signal(r) \/ Worker!RunFails(r)
      BY <1>8 DEF Evict, Abort, UnloadWait, SignalRank, ServerStep, RankFails
    <2>. QED
      BY <1>2, <1>3, <1>4, <2>1
  <1>. QED
    BY <1>5, <1>6, <1>7, <1>8 DEF Next, ExecutorStep

-----------------------------------------------------------------------------
(* The theorems.                                                           *)

ClientInv ==
  /\ Typing /\ P!OutServes /\ P!InTouch /\ P!AnsweredInTurn
  /\ AtHand /\ RunsAnswered /\ OnlyMineRuns /\ AllAnswered /\ ParkedKnown /\ StopsItsOwn /\ MineOpen

LEMMA ClientInvInitially == Init => ClientInv
  <1>. SUFFICES ASSUME Init, NEW away \in BOOLEAN, Worker!InitAs(away)
                PROVE  ClientInv
    BY DEF Init
  <1>1. /\ conn = <<>> /\ Len(conn) = 0 /\ jobNo = [r \in Ranks |-> 0] /\ pc = [r \in Ranks |-> "wait"]
        /\ parked = [r \in Ranks |-> away] /\ pipe = [r \in Ranks |-> IF away THEN "cpu" ELSE "gpu"]
        /\ interrupt = [r \in Ranks |-> FALSE] /\ step = [r \in Ranks |-> 0]
    BY DEF Worker!InitAs
  <1>2. P!TypeOK
    BY <1>1, ClientAssumption DEF P!TypeOK, P!Places, P!Connections
  <1>3. Typing
    <2>1. P!Typing
      BY <1>1, <1>2 DEF P!Typing
    <2>2. /\ adopted \in BOOLEAN /\ entry \in BOOLEAN /\ cancel \in BOOLEAN
          /\ at = "idle" /\ for = "none" /\ (for = "none") = (at = "idle")
          /\ state = "warm" /\ outcome = "none" /\ api = "idle"
          /\ mine = 0 /\ cancels = 0 /\ toSignal = {} /\ stopped = {}
      BY DEF Init
    <2>3. /\ mine \in 0..Len(conn) /\ cancels \in 0..MaxCancels
          /\ toSignal \subseteq Ranks /\ stopped \subseteq 1..Len(conn)
      BY <1>1, <2>2, ClientAssumption
    <2>4. Worker!TypeOK
      BY <1>2, SameTyping
    <2>5. TypeOK
      BY <2>2, <2>3, <2>4 DEF TypeOK
    <2>. QED
      BY <2>1, <2>5 DEF Typing
  <1>4. P!OutServes
    BY <1>1, ClientAssumption DEF P!OutServes, P!Moving, P!Restoring, P!Denoising
  <1>5. P!InTouch
    BY <1>1, ClientAssumption DEF P!InTouch, P!OfItself, P!WithOut, P!AtTheSame, P!FlagIsTrue, P!Idle, P!Moving,
       P!Restoring, P!Denoising
  <1>6. AtHand /\ RunsAnswered /\ OnlyMineRuns /\ AllAnswered /\ ParkedKnown
    BY <1>1 DEF Init, AtHand, RunsAnswered, OnlyMineRuns, AllAnswered, ParkedKnown
  <1>7. StopsItsOwn
    BY <1>1 DEF StopsItsOwn
  <1>8. P!AnsweredInTurn /\ MineOpen
    BY <1>1, ClientAssumption DEF P!AnsweredInTurn, MineOpen, Init
  <1>. QED
    BY <1>3, <1>4, <1>5, <1>6, <1>7, <1>8 DEF ClientInv

LEMMA ClientInvKept == ClientInv /\ [Next]_vars => ClientInv'
  <1>. SUFFICES ASSUME ClientInv, [Next]_vars
                PROVE  ClientInv'
    OBVIOUS
  <1>. USE DEF ClientInv
  <1>1. Typing'
    BY TypingKept
  <1>2. P!OutServes'
    BY Connections
  <1>3. P!InTouch'
    BY <1>1, SeenByTheWorker, P!InTouchKept, ClientAssumption DEF Typing
  <1>4. AtHand'
    BY AtHandKept
  <1>5. RunsAnswered'
    BY RunsAnsweredKept
  <1>6. OnlyMineRuns'
    BY OnlyMineRunsKept
  <1>7. AllAnswered'
    BY AllAnsweredKept
  <1>8. ParkedKnown'
    BY ParkedKnownKept
  <1>9. StopsItsOwn'
    BY StopsItsOwnKept
  <1>10. P!AnsweredInTurn'
    BY SeenByTheWorker, P!AnsweredInTurnKept, ClientAssumption DEF Typing
  <1>11. MineOpen'
    BY MineOpenKept
  <1>. QED
    BY <1>1, <1>2, <1>3, <1>4, <1>5, <1>6, <1>7, <1>8, <1>9, <1>10, <1>11

LEMMA ClientInvHolds == Spec => []ClientInv
  BY ClientInvInitially, ClientInvKept, PTL DEF Spec

(* Every variable of the client and of the worker holds what the code could hold
   there, and the executor waits only on a connection of its own. *)
THEOREM ClientTypeCorrect == Spec => []TypeOK
  <1>1. ClientInv => TypeOK
    BY DEF ClientInv, Typing
  <1>. QED
    BY <1>1, ClientInvHolds, PTL

(* However late a signal reaches a rank, it stops the run that was cancelled or no
   run, as long as the worker has refused nothing. *)
THEOREM InterruptsStopTheirRun == Spec => []NoStaleInterrupt
  <1>1. ClientInv => NoStaleInterrupt
    BY DEF ClientInv, StopsItsOwn, NoStaleInterrupt
  <1>. QED
    BY <1>1, ClientInvHolds, PTL

(* Between two nodes no run of a living worker is without its answer, however the
   run before was cancelled or ran out of time. *)
THEOREM NoRunWaitsBehindAnother == Spec => []NoRunLeftBehind
  <1>1. ClientInv => NoRunLeftBehind
    <2>. SUFFICES ASSUME ClientInv, at = "idle", ~NobodyListens, NEW c \in DOMAIN conn, conn[c].op = "run"
                  PROVE  conn[c].answer # "none"
      BY DEF NoRunLeftBehind
    <2>1. c \in 1..Len(conn)
      BY DEF ClientInv, Typing, TypeOK, Worker!TypeOK
    <2>. QED
      BY <2>1 DEF ClientInv, RunsAnswered, Unanswered
  <1>. QED
    BY <1>1, ClientInvHolds, PTL

(* What the registry calls parked holds no weights on a GPU, on any rank: the last
   request was a park, it is answered, and every rank is where that answer says. *)
THEOREM ParkedWorkersAreFreed == Spec => []ParkedMeansFreed
  <1>1. ClientInv => ParkedMeansFreed
    <2>. SUFFICES ASSUME ClientInv, at = "idle", entry, state = "parked", ~NobodyListens, Worker!NothingRefused,
                         \A c \in DOMAIN conn : conn[c].open, NEW r \in Ranks
                  PROVE  pipe[r] = "cpu" /\ parked[r]
      BY DEF ParkedMeansFreed
    <2>1. /\ P!TypeOK /\ DOMAIN conn = 1..Len(conn) /\ Len(conn) \in Nat
          /\ pc[Out] \in P!Places /\ jobNo[Out] \in Nat /\ jobNo[Out] <= Len(conn) /\ Out \in Ranks
      BY ClientAssumption DEF ClientInv, Typing, P!Typing, P!TypeOK
    <2>2. AllOpen
      BY <2>1 DEF AllOpen
    <2>3. Len(conn) > 0 /\ conn[Len(conn)].op = "park" /\ \A c \in 1..Len(conn) : ~Unanswered(c)
      BY <2>2 DEF ClientInv, ParkedKnown, AllAnswered
    <2>4. jobNo[Out] = Len(conn)
      BY <2>1, <2>3 DEF ClientInv, P!OutServes, Unanswered
    <2>5. pc[Out] = "wait"
      BY <2>1, <2>3, <2>4 DEF ClientInv, P!OutServes, Unanswered, NobodyListens, Worker!Ended
    <2>6. P!WithOut(r) /\ P!WithOut(Out)
      BY <2>1, SameRefused DEF ClientInv, P!InTouch, NobodyListens, Worker!Ended, P!Ended
    <2>7. P!AtTheSame(r) /\ P!AtTheSame(Out)
      BY <2>5, <2>6 DEF P!WithOut, P!ToReceive, P!Idle
    <2>8. pc[Out] \in P!Idle /\ jobNo[Out] # 0 /\ P!Request(Out) = "park"
      BY <2>1, <2>3, <2>4, <2>5 DEF P!Idle, P!Request
    <2>9. P!FlagIsTrue(r) /\ parked[r] = parked[Out] /\ parked[Out] = (P!Request(Out) = "park")
      BY <2>7, <2>8 DEF P!AtTheSame
    <2>. QED
      BY <2>1, <2>8, <2>9 DEF P!FlagIsTrue, P!TypeOK
  <1>. QED
    BY <1>1, ClientInvHolds, PTL

(* A run of a worker that was found parked, adopted or unloaded meanwhile denoises
   where its weights are, on every rank, as long as the worker has refused nothing. *)
THEOREM RunsFindTheirWeights == Spec => []DenoisedOnTheGpu
  <1>1. ClientInv => DenoisedOnTheGpu
    BY SameRefused DEF ClientInv, P!InTouch, P!OfItself, P!Denoising, DenoisedOnTheGpu, Worker!RunsOnTheGpu,
         Worker!NothingRefused
  <1>. QED
    BY <1>1, ClientInvHolds, PTL

(* A park or a restore that is waited for is answered by ranks that can go on: the
   request is theirs to serve, and no rank is at a run any more, whose cancel might
   have torn them apart. *)
THEOREM WaitsAreServed == Spec => []WaitsCanEnd
  <1>1. ClientInv => WaitsCanEnd
    <2>. SUFFICES ASSUME ClientInv, at \in {"restore", "park"}, ~Answered, ~NobodyListens, Worker!NothingRefused
                  PROVE  P!CanGoOn \/ P!LeftAlone
      BY SameStuck DEF WaitsCanEnd
    <2>a. /\ P!NothingRefused /\ ~P!Ended(Out) /\ P!ServerInv
          /\ Len(conn) \in Nat /\ jobNo[Out] \in Nat /\ mine \in 1..Len(conn)
      <3>1. P!NothingRefused /\ ~P!Ended(Out) /\ P!ServerInv
        BY SameRefused, SameEnded DEF ClientInv, P!ServerInv, Typing, NobodyListens
      <3>2. mine \in 1..Len(conn)
        BY DEF ClientInv, Typing, TypeOK
      <3>. QED
        BY <3>1, <3>2, ClientAssumption DEF P!ServerInv, P!Typing, P!TypeOK
    <2>1. pc[Out] # "wait" \/ jobNo[Out] < Len(conn)
      <3>1. ~P!Settled(mine)
        BY <2>a DEF ClientInv, MineOpen, P!Settled, Answered
      <3>2. mine \in 1..jobNo[Out] => pc[Out] # "wait"
        BY <2>a, <3>1 DEF ClientInv, P!AnsweredInTurn
      <3>. QED
        BY <2>a, <3>2
    <2>2. ~P!CancelledApart
      <3>. SUFFICES ASSUME NEW r \in Ranks, pc[r] = "denoise"
                    PROVE  FALSE
        BY DEF P!CancelledApart
      <3>1. jobNo[r] \in 1..Len(conn) /\ conn[jobNo[r]].op = "run" /\ Unanswered(jobNo[r])
        BY <2>a DEF P!ServerInv, P!InTouch, P!OfItself, P!Denoising, P!Request, Unanswered
      <3>. QED
        BY <3>1 DEF ClientInv, RunsAnswered
    <2>. QED
      BY <2>a, <2>1, <2>2, P!NeverStuckHere, ClientAssumption DEF P!NeverStuck
  <1>. QED
    BY <1>1, ClientInvHolds, PTL

(* With an executor that cancels, runs out of time and kills, and an Unload beside
   it, the ranks are one serial worker still. *)
THEOREM ClientFindsOneWorker == Spec => Worker!OneSerialWorker
  <1>1. Init => Worker!Serial!Init
    <2>. SUFFICES ASSUME NEW away \in BOOLEAN, Worker!InitAs(away) PROVE Worker!Serial!Init
      BY DEF Init
    <2>. QED
      BY ClientAssumption DEF Worker!InitAs, Worker!Serial!Init, Worker!Weights, Worker!Ended
  <1>2. ClientInv /\ [Next]_vars => [Worker!Serial!Next]_(Worker!Serial!vars)
    <2>. SUFFICES ASSUME ClientInv, [Next]_vars
                  PROVE  [P!Serial!Next]_(P!Serial!vars)
      BY SameSerial
    <2>1. P!ServerInv /\ [P!AnyStep]_(P!vars)
      BY SeenByTheWorker DEF ClientInv, P!ServerInv, Typing
    <2>. QED
      BY <2>1, P!StepRefines, ClientAssumption
  <1>. QED
    BY <1>1, <1>2, ClientInvHolds, PTL DEF Spec, Worker!OneSerialWorker, Worker!Serial!Spec
=============================================================================
