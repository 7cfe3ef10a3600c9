------------------------- MODULE WorkerServerProofs -------------------------
(***************************************************************************)
(* Theorems about WorkerServer, for any number of ranks, denoising steps   *)
(* and connections.                                                        *)
(***************************************************************************)
EXTENDS WorkerServer, TLAPS

-----------------------------------------------------------------------------
(* Types.                                                                  *)

(* The steps of a worker and of any client, also of one that closes a connection
   it has an answer on, or kills the worker. *)
AnyStep ==
  \/ \E op \in Ops : Connect(op)
  \/ \E c \in DOMAIN conn : Close(c)
  \/ Kill
  \/ Server
  \/ \E r \in Ranks : Signal(r) \/ RunFails(r)

LEMMA NextIsAnyStep == [Next]_vars => [AnyStep]_vars
  BY DEF Next, AnyStep, GiveUp

(* A rank that is about to denoise has a step left. *)
Typing ==
  /\ TypeOK
  /\ \A r \in Ranks : pc[r] = "denoise" => step[r] < Steps

(* The branch of the loop is one of its places. *)
LEMMA FirstStepPlace ==
  ASSUME NEW r, NEW op \in Ops
  PROVE  FirstStep(r, op) \in {"stop", "move", "unpark", "prepare"}
  BY DEF FirstStep, Ops

(* A request that has been received is one of the four. *)
LEMMA RequestIsAnOp ==
  ASSUME conn \in Seq(Connections), NEW i \in 1..Len(conn)
  PROVE  conn[i].op \in Ops
  <1>1. conn[i] \in Connections
    OBVIOUS
  <1>. QED
    BY <1>1 DEF Connections

LEMMA TakeTyping ==
  ASSUME Typing, NEW r \in Ranks, Take(r), jobNo[r] < Len(conn),
         r = Out \/ jobNo[r] < jobNo[Out]
  PROVE  Typing'
  <1>. USE ServerAssumption DEF Typing, TypeOK, Take, Goto
  <1>1. jobNo[r] + 1 \in 1..Len(conn)
    OBVIOUS
  <1>2. FirstStep(r, conn[jobNo[r] + 1].op) \in {"stop", "move", "unpark", "prepare"}
    BY <1>1, RequestIsAnOp, FirstStepPlace
  <1>3. pc' \in [Ranks -> Places]
    BY <1>2 DEF Places
  <1>4. \A s \in Ranks : pc'[s] = "denoise" => step'[s] < Steps
    BY <1>2
  <1>5. jobNo' \in [Ranks -> 0..MaxConns] /\ jobNo'[Out] <= Len(conn)
    BY <1>1
  <1>6. \A s \in Ranks : jobNo'[s] <= jobNo'[Out]
    OBVIOUS
  <1>. QED
    BY <1>3, <1>4, <1>5, <1>6

(* A sequence with another element in one of its places. *)
LEMMA ExceptTyping ==
  ASSUME NEW S, NEW q \in Seq(S), NEW i, NEW e, i \in 1..Len(q) => e \in S
  PROVE  [q EXCEPT ![i] = e] \in Seq(S) /\ Len([q EXCEPT ![i] = e]) = Len(q)
  <1>. DEFINE new == [q EXCEPT ![i] = e]
  <1>1. q \in [1..Len(q) -> S] /\ Len(q) \in Nat
    OBVIOUS
  <1>2. new \in [1..Len(q) -> S]
    BY <1>1
  <1>. QED
    BY <1>1, <1>2

(* The connections keep their type and their number when one of them is closed
   or answered. *)
LEMMA AnsweredTyping ==
  ASSUME conn \in Seq(Connections), NEW i, NEW word \in {"ok", "error"}
  PROVE  /\ [conn EXCEPT ![i].answer = word] \in Seq(Connections)
         /\ Len([conn EXCEPT ![i].answer = word]) = Len(conn)
  <1>1. \A k \in 1..Len(conn) : conn[k] \in Connections
    OBVIOUS
  <1>2. i \in 1..Len(conn) => [conn[i] EXCEPT !.answer = word] \in Connections
    BY <1>1 DEF Connections
  <1>. QED
    BY <1>2, ExceptTyping

LEMMA ClosedTyping ==
  ASSUME conn \in Seq(Connections), NEW i
  PROVE  /\ [conn EXCEPT ![i].open = FALSE] \in Seq(Connections)
         /\ Len([conn EXCEPT ![i].open = FALSE]) = Len(conn)
  <1>1. \A k \in 1..Len(conn) : conn[k] \in Connections
    OBVIOUS
  <1>2. i \in 1..Len(conn) => [conn[i] EXCEPT !.open = FALSE] \in Connections
    BY <1>1 DEF Connections
  <1>. QED
    BY <1>2, ExceptTyping

LEMMA TypingKept == Typing /\ [AnyStep]_vars => Typing'
  <1>. SUFFICES ASSUME Typing, [AnyStep]_vars PROVE Typing'
    OBVIOUS
  <1>. USE ServerAssumption
  <1>1. ASSUME NEW op \in Ops, Connect(op) PROVE Typing'
    <2>1. [op |-> op, open |-> TRUE, answer |-> "none"] \in Connections
      BY DEF Connections
    <2>2. conn' \in Seq(Connections) /\ Len(conn') = Len(conn) + 1
      BY <1>1, <2>1 DEF Connect, Typing, TypeOK
    <2>. QED
      BY <1>1, <2>2 DEF Connect, Typing, TypeOK
  <1>2. ASSUME NEW c \in DOMAIN conn, Close(c) PROVE Typing'
    <2>1. conn' \in Seq(Connections) /\ Len(conn') = Len(conn)
      BY <1>2, ClosedTyping DEF Close, Typing, TypeOK
    <2>. QED
      BY <1>2, <2>1 DEF Close, Typing, TypeOK
  <1>3. CASE Accept
    BY <1>3, TakeTyping DEF Accept, Typing, TypeOK
  <1>4. ASSUME NEW r \in Ranks, Receive(r) PROVE Typing'
    BY <1>4, TakeTyping DEF Receive, Typing, TypeOK
  <1>5. ASSUME NEW r \in Ranks, Move(r) PROVE Typing'
    BY <1>5 DEF Move, AfterMove, ParkedAfter, Target, Goto, Typing, TypeOK, Places
  <1>6. ASSUME NEW r \in Ranks, MoveFails(r) PROVE Typing'
    BY <1>6 DEF MoveFails, Target, Goto, Typing, TypeOK, Places
  <1>7. CASE Gather
    BY <1>7 DEF Gather, Done, Typing, TypeOK, Places
  <1>8. ASSUME NEW r \in Ranks, Refuse(r) PROVE Typing'
    <2>1. conn' \in Seq(Connections) /\ Len(conn') = Len(conn)
      BY <1>8, AnsweredTyping DEF Refuse, Typing, TypeOK
    <2>. QED
      BY <1>8, <2>1 DEF Refuse, Goto, Typing, TypeOK, Places
  <1>9. CASE AnswerControl
    <2>1. conn' \in Seq(Connections) /\ Len(conn') = Len(conn)
      BY <1>9, AnsweredTyping DEF AnswerControl, Typing, TypeOK
    <2>. QED
      BY <1>9, <2>1 DEF AnswerControl, Goto, Typing, TypeOK, Places
  <1>10. ASSUME NEW r \in Ranks, Unpark(r) PROVE Typing'
    BY <1>10 DEF Unpark, Goto, Typing, TypeOK, Places
  <1>11. ASSUME NEW r \in Ranks, Prepare(r) PROVE Typing'
    BY <1>11 DEF Prepare, Goto, Typing, TypeOK, Places
  <1>12. ASSUME NEW r \in Ranks, Check(r) PROVE Typing'
    <2>1. CASE interrupt[r]
      <3>1. step' = [step EXCEPT ![r] = step[r] + 1] /\ step[r] + 1 \in 0..Steps
        BY <1>12, <2>1 DEF Check, Typing, TypeOK
      <3>2. step' \in [Ranks -> 0..Steps]
        BY <3>1 DEF Typing, TypeOK
      <3>3. \A s \in Ranks : pc'[s] = "denoise" => step'[s] < Steps
        BY <1>12, <2>1, <3>1 DEF Check, Typing, TypeOK
      <3>. QED
        BY <1>12, <2>1, <3>2, <3>3 DEF Check, Typing, TypeOK
    <2>2. CASE ~interrupt[r]
      <3>1. pc' = [pc EXCEPT ![r] = "denoise"] /\ step' = step /\ step[r] < Steps
        BY <1>12, <2>2 DEF Check, Goto
      <3>. QED
        BY <1>12, <3>1 DEF Check, Typing, TypeOK, Places
    <2>. QED
      BY <2>1, <2>2
  <1>13. CASE Denoise
    BY <1>13 DEF Denoise, Typing, TypeOK, Places
  <1>14. ASSUME NEW r \in Ranks, Decode(r) PROVE Typing'
    BY <1>14 DEF Decode, Goto, Typing, TypeOK, Places
  <1>15. CASE AnswerRun
    <2>1. conn' \in Seq(Connections) /\ Len(conn') = Len(conn)
      BY <1>15, AnsweredTyping DEF AnswerRun, Typing, TypeOK
    <2>. QED
      BY <1>15, <2>1 DEF AnswerRun, Goto, Typing, TypeOK, Places
  <1>16. ASSUME NEW r \in Ranks, Signal(r) PROVE Typing'
    BY <1>16 DEF Signal, Typing, TypeOK
  <1>17. ASSUME NEW r \in Ranks, RunFails(r) PROVE Typing'
    BY <1>17 DEF RunFails, Goto, Typing, TypeOK, Places
  <1>18. ASSUME NEW r \in Ranks, Exit(r) PROVE Typing'
    BY <1>18 DEF Exit, Goto, Typing, TypeOK, Places
  <1>19. CASE Kill \/ TorchrunStops
    BY <1>19 DEF TorchrunStops, Kill, Typing, TypeOK, Places
  <1>20. CASE UNCHANGED vars
    BY <1>20 DEF vars, Typing, TypeOK
  <1>. QED
    BY <1>1, <1>2, <1>3, <1>4, <1>5, <1>6, <1>7, <1>8, <1>9, <1>10, <1>11, <1>12, <1>13,
       <1>14, <1>15, <1>16, <1>17, <1>18, <1>19, <1>20
       DEF AnyStep, Server, RankStep, Collective

LEMMA TypingInductive == Typing /\ [Next]_vars => Typing'
  BY TypingKept, NextIsAnyStep

LEMMA TypingInitially == Init => Typing
  BY ServerAssumption DEF Init, InitAs, Typing, TypeOK, Connections, Places

(* Every variable keeps its type, and no rank is ahead of the output rank. *)
THEOREM ServerTypeCorrect == Spec => []TypeOK
  <1>1. Typing => TypeOK
    BY DEF Typing
  <1>. QED
    BY <1>1, TypingInitially, TypingInductive, PTL DEF Spec

(* As long as no component fails to move, a rank's `parked` says where its
   pipeline is, and a run goes on from where it was restored. *)
ParkedIsTrue ==
  \A r \in Ranks :
    /\ pipe[r] = IF parked[r] THEN "cpu" ELSE "gpu"
    /\ pc[r] \in {"regather", "prepare", "check", "denoise", "report"} => ~parked[r]

LEMMA ParkedIsTrueInductive ==
  Typing /\ ParkedIsTrue /\ [Next]_vars /\ Undisturbed' => ParkedIsTrue'
  <1>. SUFFICES ASSUME Typing, ParkedIsTrue, [Next]_vars, Undisturbed' PROVE ParkedIsTrue'
    OBVIOUS
  <1>. USE DEF Typing, TypeOK, ParkedIsTrue
  <1>1. ASSUME NEW op \in Ops, Connect(op) PROVE ParkedIsTrue'
    BY <1>1 DEF Connect
  <1>2. ASSUME NEW c \in DOMAIN conn, GiveUp(c) PROVE ParkedIsTrue'
    BY <1>2 DEF GiveUp, Close
  <1>3. ASSUME NEW r \in Ranks, Take(r), jobNo[r] + 1 \in 1..Len(conn) PROVE ParkedIsTrue'
    <2>1. FirstStep(r, conn[jobNo[r] + 1].op) = "prepare" => ~parked[r]
      BY <1>3, RequestIsAnOp DEF FirstStep, Ops
    <2>2. FirstStep(r, conn[jobNo[r] + 1].op) \in {"stop", "move", "unpark", "prepare"}
      BY <1>3, RequestIsAnOp, FirstStepPlace
    <2>. QED
      BY <1>3, <2>1, <2>2 DEF Take, Goto
  <1>4. CASE Accept
    <2>1. Out \in Ranks /\ Take(Out) /\ jobNo[Out] + 1 \in 1..Len(conn)
      BY <1>4, ServerAssumption DEF Accept
    <2>. QED
      BY <1>3, <2>1
  <1>5. ASSUME NEW r \in Ranks, Receive(r) PROVE ParkedIsTrue'
    <2>1. Take(r) /\ jobNo[r] + 1 \in 1..Len(conn)
      BY <1>5, ServerAssumption DEF Receive
    <2>. QED
      BY <1>3, <2>1
  <1>6. ASSUME NEW r \in Ranks, Move(r) PROVE ParkedIsTrue'
    BY <1>6 DEF Move, AfterMove, ParkedAfter, Target, Goto
  <1>7. CASE Gather
    BY <1>7 DEF Gather, Done
  <1>8. ASSUME NEW r \in Ranks, Refuse(r) PROVE ParkedIsTrue'
    BY <1>8 DEF Refuse, Goto
  <1>9. CASE AnswerControl
    BY <1>9, ServerAssumption DEF AnswerControl, Goto
  <1>10. ASSUME NEW r \in Ranks, Unpark(r) PROVE ParkedIsTrue'
    BY <1>10 DEF Unpark, Goto
  <1>11. ASSUME NEW r \in Ranks, Prepare(r) PROVE ParkedIsTrue'
    BY <1>11 DEF Prepare, Goto
  <1>12. ASSUME NEW r \in Ranks, Check(r) PROVE ParkedIsTrue'
    BY <1>12 DEF Check, Goto
  <1>13. CASE Denoise
    BY <1>13 DEF Denoise
  <1>14. ASSUME NEW r \in Ranks, Decode(r) PROVE ParkedIsTrue'
    BY <1>14 DEF Decode, Goto
  <1>15. CASE AnswerRun
    BY <1>15, ServerAssumption DEF AnswerRun, Goto
  <1>16. ASSUME NEW r \in Ranks, Signal(r) PROVE ParkedIsTrue'
    BY <1>16 DEF Signal
  <1>17. ASSUME NEW r \in Ranks, RunFails(r) \/ Exit(r) PROVE ParkedIsTrue'
    BY <1>17 DEF RunFails, Exit, Goto
  <1>18. CASE TorchrunStops
    BY <1>18 DEF TorchrunStops, Kill
  <1>19. CASE UNCHANGED vars
    BY <1>19 DEF vars
  <1>20. ASSUME NEW r \in Ranks, MoveFails(r) PROVE FALSE
    BY <1>20 DEF MoveFails, Goto, Undisturbed
  <1>. QED
    BY <1>1, <1>2, <1>4, <1>5, <1>6, <1>7, <1>8, <1>9, <1>10, <1>11, <1>12, <1>13,
       <1>14, <1>15, <1>16, <1>17, <1>18, <1>19, <1>20
       DEF Next, Server, RankStep, Collective

-----------------------------------------------------------------------------
(* The ranks stay in step.                                                 *)

Idle == {"wait", "answer"}
Moving == {"move", "gather"}
Restoring == {"unpark", "regather"}
Denoising == {"prepare", "check", "denoise", "report"}

(* The denoising steps behind a rank within the run it is at. *)
Progress(r) == IF pc[r] = "prepare" THEN 0 ELSE step[r]

(* What a rank that is alive knows by itself. *)
OnItsOwn(r) ==
  /\ interrupt[r] = FALSE
  /\ pc[r] # "refuse"
  /\ pc[r] = "answer" => r = Out
  /\ pc[r] \notin Idle \cup {"dead"} => jobNo[r] \in 1..Len(conn)
  /\ pc[r] \in Moving => Request(r) \in {"park", "restore"}
  /\ pc[r] \in Restoring \cup Denoising => Request(r) = "run"
  /\ pc[r] \in {"stop", "gone"} => Request(r) = "shutdown"
  /\ pc[r] = "gather" => parked[r] = (Request(r) = "park")
  /\ pc[r] = "report" => step[r] = Steps

(* Two ranks at the same request take the same branch, and wait for the next one
   with the same `parked`. *)
SideBySide(r, s) ==
  /\ pc[r] \in Idle <=> pc[s] \in Idle
  /\ pc[r] \in Idle => parked[r] = parked[s]
  /\ pc[r] \in Restoring <=> pc[s] \in Restoring
  /\ pc[r] \in Denoising /\ pc[s] \in Denoising => Progress(r) = Progress(s)

(* A rank that has still to receive the request of another one will take the same
   branch, and the other one has not left its first collective. *)
OneBehind(r, s) ==
  /\ jobNo[s] = jobNo[r] + 1
  /\ pc[r] = "wait" /\ pc[s] \notin Idle
  /\ pc[s] \in Restoring => parked[r]
  /\ pc[s] \in Denoising => ~parked[r] /\ Progress(s) = 0

Together(r, s) ==
  pc[r] # "dead" /\ pc[s] # "dead" =>
    /\ jobNo[r] = jobNo[s] => SideBySide(r, s)
    /\ jobNo[r] < jobNo[s] => OneBehind(r, s)

InStep ==
  /\ \A r \in Ranks : OnItsOwn(r)
  /\ \A r, s \in Ranks : Together(r, s)

(* Connecting, closing and answering leave the requests as they are. *)
LEMMA SameRequests ==
  ASSUME conn \in Seq(Connections),
         \/ \E op \in Ops : Connect(op)
         \/ \E c \in DOMAIN conn : GiveUp(c)
         \/ AnswerControl \/ AnswerRun
  PROVE  \A i \in 1..Len(conn) : i \in 1..Len(conn') /\ conn'[i].op = conn[i].op
  <1>1. \A i \in 1..Len(conn) : conn[i] \in Connections
    OBVIOUS
  <1>2. ASSUME NEW op \in Ops, Connect(op)
        PROVE  \A i \in 1..Len(conn) : i \in 1..Len(conn') /\ conn'[i].op = conn[i].op
    <2>. DEFINE e == [op |-> op, open |-> TRUE, answer |-> "none"]
    <2>1. e \in Connections
      BY DEF Connections
    <2>2. conn' = Append(conn, e)
      BY <1>2 DEF Connect
    <2>. HIDE DEF e
    <2>3. Len(conn') = Len(conn) + 1 /\ \A i \in 1..Len(conn) : conn'[i] = conn[i]
      BY <2>1, <2>2
    <2>. QED
      BY <2>3
  <1>3. ASSUME NEW c \in DOMAIN conn, GiveUp(c)
        PROVE  \A i \in 1..Len(conn) : i \in 1..Len(conn') /\ conn'[i].op = conn[i].op
    <2>. DEFINE e == [conn[c] EXCEPT !.open = FALSE]
    <2>1. conn' = [conn EXCEPT ![c] = e]
      BY <1>3 DEF GiveUp, Close
    <2>. c \in 1..Len(conn) /\ conn[c] \in Connections
      BY <1>1
    <2>2. e \in Connections /\ e.op = conn[c].op
      BY DEF Connections
    <2>. HIDE DEF e
    <2>3. Len(conn') = Len(conn)
      BY <2>1, <2>2, ExceptTyping
    <2>. QED
      BY <2>1, <2>2, <2>3
  <1>4. ASSUME AnswerControl \/ AnswerRun
        PROVE  \A i \in 1..Len(conn) : i \in 1..Len(conn') /\ conn'[i].op = conn[i].op
    <2>. DEFINE c == jobNo[Out]
    <2>. DEFINE e == [conn[c] EXCEPT !.answer = "ok"]
    <2>1. conn' = conn \/ conn' = [conn EXCEPT ![c] = e]
      BY <1>4 DEF AnswerControl, AnswerRun
    <2>2. c \in 1..Len(conn) => e \in Connections /\ e.op = conn[c].op
      BY <1>1 DEF Connections
    <2>. HIDE DEF c, e
    <2>3. Len(conn') = Len(conn)
      BY <2>1, <2>2, ExceptTyping
    <2>. QED
      BY <2>1, <2>2, <2>3
  <1>. QED
    BY <1>2, <1>3, <1>4

LEMMA InStepInductive ==
  Typing /\ ParkedIsTrue /\ InStep /\ [Next]_vars /\ Undisturbed' => InStep'
  <1>. SUFFICES ASSUME Typing, ParkedIsTrue, InStep, [Next]_vars, Undisturbed' PROVE InStep'
    OBVIOUS
  <1>a. /\ pc \in [Ranks -> Places] /\ parked \in [Ranks -> BOOLEAN]
        /\ interrupt \in [Ranks -> BOOLEAN] /\ step \in [Ranks -> 0..Steps]
        /\ jobNo \in [Ranks -> 0..MaxConns] /\ MaxConns \in Nat /\ Steps \in Nat
        /\ Out \in Ranks
    BY ServerAssumption DEF Typing, TypeOK
  <1>b. \A q \in Ranks : OnItsOwn(q)
    BY DEF InStep
  <1>c. \A q, s \in Ranks : Together(q, s)
    BY DEF InStep
  <1>d. \A q \in Ranks : pc[q] = "denoise" => step[q] < Steps
    BY DEF Typing
  <1>. USE <1>a, <1>b, <1>c
  <1>1. ASSUME NEW r \in Ranks, Move(r) PROVE InStep'
    <2>1. \A q \in Ranks : OnItsOwn(q)'
      BY <1>1 DEF Move, AfterMove, ParkedAfter, Goto, OnItsOwn, Request, Idle, Moving,
                  Restoring, Denoising
    <2>2. \A q, s \in Ranks : Together(q, s)'
      BY <1>1 DEF Move, AfterMove, ParkedAfter, Goto, Together, SideBySide, OneBehind,
                  Progress, Idle, Restoring, Denoising, OnItsOwn
    <2>. QED
      BY <2>1, <2>2 DEF InStep
  <1>2. ASSUME NEW r \in Ranks, Unpark(r) PROVE InStep'
    <2>1. \A q \in Ranks : OnItsOwn(q)'
      BY <1>2 DEF Unpark, Goto, OnItsOwn, Request, Idle, Moving, Restoring, Denoising
    <2>2. /\ pc[r] = "unpark" /\ pc'[r] = "regather"
          /\ \A q \in Ranks \ {r} : pc'[q] = pc[q] /\ parked'[q] = parked[q]
          /\ jobNo' = jobNo /\ step' = step
      BY <1>2 DEF Unpark, Goto
    <2>3. \A q, s \in Ranks : Together(q, s)'
      <3>1. ASSUME NEW q \in Ranks, NEW s \in Ranks PROVE Together(q, s)'
        <4>1. Together(q, s)
          OBVIOUS
        <4>. QED
          BY <2>2, <4>1 DEF Together, SideBySide, OneBehind, Progress, Idle, Restoring,
                            Denoising
      <3>. QED
        BY <3>1
    <2>. QED
      BY <2>1, <2>3 DEF InStep
  <1>3. ASSUME NEW r \in Ranks, Prepare(r) PROVE InStep'
    <2>1. \A q \in Ranks : OnItsOwn(q)'
      BY <1>3 DEF Prepare, Goto, OnItsOwn, Request, Idle, Moving, Restoring, Denoising
    <2>2. \A q, s \in Ranks : Together(q, s)'
      BY <1>3 DEF Prepare, Goto, Together, SideBySide, OneBehind, Progress, Idle, Restoring,
                  Denoising, OnItsOwn
    <2>. QED
      BY <2>1, <2>2 DEF InStep
  <1>4. ASSUME NEW r \in Ranks, Check(r) PROVE InStep'
    <2>1. \A q \in Ranks : OnItsOwn(q)'
      BY <1>4 DEF Check, Goto, OnItsOwn, Request, Idle, Moving, Restoring, Denoising
    <2>2. \A q, s \in Ranks : Together(q, s)'
      BY <1>4 DEF Check, Goto, Together, SideBySide, OneBehind, Progress, Idle, Restoring,
                  Denoising, OnItsOwn
    <2>. QED
      BY <2>1, <2>2 DEF InStep
  <1>5. ASSUME NEW r \in Ranks, Decode(r) PROVE InStep'
    <2>1. \A q \in Ranks : OnItsOwn(q)'
      BY <1>5 DEF Decode, Goto, OnItsOwn, Request, Idle, Moving, Restoring, Denoising
    <2>2. \A q, s \in Ranks : Together(q, s)'
      BY <1>5 DEF Decode, Goto, Together, SideBySide, OneBehind, Progress, Idle, Restoring,
                  Denoising, OnItsOwn
    <2>. QED
      BY <2>1, <2>2 DEF InStep
  <1>6. ASSUME NEW r \in Ranks, RunFails(r) PROVE InStep'
    <2>1. \A q \in Ranks : OnItsOwn(q)'
      BY <1>6 DEF RunFails, Goto, OnItsOwn, Request, Idle, Moving, Restoring, Denoising
    <2>2. \A q, s \in Ranks : Together(q, s)'
      BY <1>6 DEF RunFails, Goto, Together, SideBySide, OneBehind, Progress, Idle,
                  Restoring, Denoising, OnItsOwn
    <2>. QED
      BY <2>1, <2>2 DEF InStep
  <1>7. ASSUME NEW r \in Ranks, Exit(r) PROVE InStep'
    <2>1. \A q \in Ranks : OnItsOwn(q)'
      BY <1>7 DEF Exit, Goto, OnItsOwn, Request, Idle, Moving, Restoring, Denoising
    <2>2. \A q, s \in Ranks : Together(q, s)'
      BY <1>7 DEF Exit, Goto, Together, SideBySide, OneBehind, Progress, Idle, Restoring,
                  Denoising, OnItsOwn
    <2>. QED
      BY <2>1, <2>2 DEF InStep
  <1>8. CASE TorchrunStops
    <2>1. \A q \in Ranks : OnItsOwn(q)'
      BY <1>8 DEF TorchrunStops, Kill, OnItsOwn, Request, Idle, Moving, Restoring, Denoising
    <2>2. \A q, s \in Ranks : Together(q, s)'
      BY <1>8 DEF TorchrunStops, Kill, Together, SideBySide, OneBehind, Progress, Idle,
                  Restoring, Denoising, OnItsOwn
    <2>. QED
      BY <2>1, <2>2 DEF InStep
  <1>9. CASE Denoise
    <2>1. \A q \in Ranks : OnItsOwn(q)'
      BY <1>9, <1>d DEF Denoise, OnItsOwn, Request, Idle, Moving, Restoring, Denoising
    <2>2. \A q, s \in Ranks : Together(q, s)'
      BY <1>9, <1>d DEF Denoise, Together, SideBySide, OneBehind, Progress, Idle, Restoring,
                        Denoising, OnItsOwn
    <2>. QED
      BY <2>1, <2>2 DEF InStep
  <1>e. \A i \in 1..Len(conn) : conn[i].op \in Ops
    BY RequestIsAnOp DEF Typing, TypeOK
  <1>10. ASSUME \/ \E op \in Ops : Connect(op)
                \/ \E c \in DOMAIN conn : GiveUp(c)
         PROVE  InStep'
    <2>1. \A i \in 1..Len(conn) : i \in 1..Len(conn') /\ conn'[i].op = conn[i].op
      BY <1>10, SameRequests DEF Typing, TypeOK
    <2>2. UNCHANGED <<jobNo, pc, parked, pipe, interrupt, step>>
      BY <1>10 DEF Connect, GiveUp, Close
    <2>3. \A q \in Ranks : OnItsOwn(q)'
      <3>1. ASSUME NEW q \in Ranks PROVE OnItsOwn(q)'
        <4>1. OnItsOwn(q)
          OBVIOUS
        <4>. QED
          BY <2>1, <2>2, <4>1 DEF OnItsOwn, Request, Idle, Moving, Restoring, Denoising
      <3>. QED
        BY <3>1
    <2>4. \A q, s \in Ranks : Together(q, s)'
      BY <2>2 DEF Together, SideBySide, OneBehind, Progress, Idle, Restoring, Denoising
    <2>. QED
      BY <2>3, <2>4 DEF InStep
  <1>11. CASE AnswerControl \/ AnswerRun
    <2>1. \A i \in 1..Len(conn) : i \in 1..Len(conn') /\ conn'[i].op = conn[i].op
      BY <1>11, SameRequests DEF Typing, TypeOK
    <2>2. /\ pc[Out] = "answer" /\ pc'[Out] \in {"wait", "dead"}
          /\ \A q \in Ranks \ {Out} : pc'[q] = pc[q]
          /\ UNCHANGED <<jobNo, parked, pipe, interrupt, step>>
      BY <1>11 DEF AnswerControl, AnswerRun, Goto
    <2>3. \A q \in Ranks : OnItsOwn(q)'
      <3>1. ASSUME NEW q \in Ranks PROVE OnItsOwn(q)'
        <4>1. OnItsOwn(q)
          OBVIOUS
        <4>. QED
          BY <2>1, <2>2, <4>1 DEF OnItsOwn, Request, Idle, Moving, Restoring, Denoising
      <3>. QED
        BY <3>1
    <2>4. \A q, s \in Ranks : Together(q, s)'
      <3>1. ASSUME NEW q \in Ranks, NEW s \in Ranks PROVE Together(q, s)'
        <4>1. Together(q, s)
          OBVIOUS
        <4>. QED
          BY <2>2, <4>1 DEF Together, SideBySide, OneBehind, Progress, Idle, Restoring,
                            Denoising
      <3>. QED
        BY <3>1
    <2>. QED
      BY <2>3, <2>4 DEF InStep
  <1>12. CASE Gather
    <2>1. \A q, s \in Ranks : jobNo[q] = jobNo[s]
      BY <1>12 DEF Gather, Together, SideBySide, OneBehind, Progress, Idle, Restoring,
                   Denoising
    <2>2. (\A q \in Ranks : pc[q] = "regather") \/ (\A q \in Ranks : pc[q] \in {"gather", "report"})
      BY <1>12, <2>1 DEF Gather, Together, SideBySide, OneBehind, Progress, Idle, Restoring,
                         Denoising
    <2>3. CASE \A q \in Ranks : pc[q] = "regather"
      <3>1. pc' = [q \in Ranks |-> "prepare"] /\ UNCHANGED <<conn, jobNo, parked, pipe, interrupt, step>>
        BY <1>12, <2>3 DEF Gather
      <3>2. \A q \in Ranks : OnItsOwn(q)'
        BY <2>3, <3>1 DEF OnItsOwn, Request, Idle, Moving, Restoring, Denoising
      <3>3. \A q, s \in Ranks : Together(q, s)'
        BY <2>1, <3>1 DEF Together, SideBySide, OneBehind, Progress, Idle, Restoring,
                          Denoising
      <3>. QED
        BY <3>2, <3>3 DEF InStep
    <2>4. CASE \A q \in Ranks : pc[q] \in {"gather", "report"}
      <3>1. pc' = [q \in Ranks |-> Done(q)] /\ UNCHANGED <<conn, jobNo, parked, pipe, interrupt, step>>
        BY <1>12, <2>4 DEF Gather
      <3>2. \A q \in Ranks : OnItsOwn(q)'
        BY <2>4, <3>1 DEF Done, OnItsOwn, Request, Idle, Moving, Restoring, Denoising
      <3>3. \A q \in Ranks : parked[q] = (Request(q) = "park")
        BY <2>4 DEF OnItsOwn, Request, Idle, Moving, Restoring, Denoising, ParkedIsTrue
      <3>4. \A q, s \in Ranks : parked[q] = parked[s]
        BY <2>1, <3>3 DEF Request
      <3>5. \A q, s \in Ranks : Together(q, s)'
        BY <2>1, <3>1, <3>4 DEF Done, Together, SideBySide, OneBehind, Progress, Idle,
                                Restoring, Denoising
      <3>. QED
        BY <3>2, <3>5 DEF InStep
    <2>. QED
      BY <2>2, <2>3, <2>4
  <1>13. ASSUME NEW r \in Ranks, Take(r), jobNo[r] + 1 \in 1..Len(conn)
         PROVE  /\ conn' = conn /\ parked' = parked /\ step' = step /\ interrupt' = interrupt
                /\ \A q \in Ranks \ {r} : pc'[q] = pc[q] /\ jobNo'[q] = jobNo[q]
                /\ pc[r] = "wait" /\ jobNo'[r] = jobNo[r] + 1
                /\ \/ conn[jobNo'[r]].op = "shutdown" /\ pc'[r] = "stop"
                   \/ conn[jobNo'[r]].op \in {"park", "restore"} /\ pc'[r] = "move"
                   \/ conn[jobNo'[r]].op = "run" /\ parked[r] /\ pc'[r] = "unpark"
                   \/ conn[jobNo'[r]].op = "run" /\ ~parked[r] /\ pc'[r] = "prepare"
    <2>1. pc'[r] = FirstStep(r, conn[jobNo[r] + 1].op) /\ jobNo'[r] = jobNo[r] + 1
      BY <1>13 DEF Take, Goto
    <2>2. conn[jobNo[r] + 1].op \in {"park", "restore", "run", "shutdown"}
      BY <1>13, <1>e DEF Ops
    <2>. QED
      BY <1>13, <2>1, <2>2 DEF Take, Goto, FirstStep
  <1>14. ASSUME NEW r \in Ranks, Take(r), jobNo[r] + 1 \in 1..Len(conn)
         PROVE  \A q \in Ranks : OnItsOwn(q)'
    <2>1. ASSUME NEW q \in Ranks PROVE OnItsOwn(q)'
      <3>1. OnItsOwn(q)
        OBVIOUS
      <3>. QED
        BY <1>13, <1>14, <3>1 DEF OnItsOwn, Request, Idle, Moving, Restoring, Denoising
    <2>. QED
      BY <2>1
  <1>15. CASE Accept
    <2>1. /\ Take(Out) /\ jobNo[Out] + 1 \in 1..Len(conn)
          /\ \A q \in Ranks : jobNo[q] = jobNo[Out]
      BY <1>15 DEF Accept, Typing, TypeOK
    <2>2. \A q, s \in Ranks : Together(q, s)'
      <3>1. ASSUME NEW q \in Ranks, NEW s \in Ranks PROVE Together(q, s)'
        <4>1. Together(q, s) /\ Together(q, Out) /\ Together(s, Out) /\ OnItsOwn(q) /\ OnItsOwn(s)
          OBVIOUS
        <4>. QED
          BY <1>13, <2>1, <4>1 DEF Together, SideBySide, OneBehind, Progress, Idle,
                                   Restoring, Denoising, OnItsOwn
      <3>. QED
        BY <3>1
    <2>. QED
      BY <1>14, <2>1, <2>2 DEF InStep
  <1>16. ASSUME NEW r \in Ranks, Receive(r) PROVE InStep'
    <2>1. Take(r) /\ jobNo[r] + 1 \in 1..Len(conn) /\ r # Out /\ jobNo[r] < jobNo[Out]
      BY <1>16 DEF Receive, Typing, TypeOK
    <2>2. \A q, s \in Ranks : Together(q, s)'
      <3>1. ASSUME NEW q \in Ranks, NEW s \in Ranks PROVE Together(q, s)'
        <4>1. Together(q, s) /\ Together(q, r) /\ Together(r, s) /\ Together(s, r) /\ Together(r, q)
          OBVIOUS
        <4>2. OnItsOwn(q) /\ OnItsOwn(s)
          OBVIOUS
        <4>3. CASE q # r /\ s # r
          BY <1>13, <2>1, <4>1, <4>3 DEF Together, SideBySide, OneBehind, Progress, Idle,
                                         Restoring, Denoising
        <4>4. CASE q = r /\ s # r
          <5>1. jobNo[r] < jobNo[s] /\ pc[s] # "dead" => jobNo[s] = jobNo'[r] /\ OneBehind(r, s)
            BY <1>13, <2>1, <4>1 DEF Together, OneBehind
          <5>2. jobNo[s] = jobNo'[r] => jobNo[r] < jobNo[s]
            BY <1>13, <2>1
          <5>. QED
            BY <1>13, <2>1, <4>2, <4>4, <5>1, <5>2, SMTT(40)
               DEF Together, SideBySide, OneBehind, Progress, Idle, Restoring, Denoising,
                   OnItsOwn, Request, Moving, Places
        <4>5. CASE q # r /\ s = r
          <5>1. CASE jobNo[q] = jobNo'[r]
            <6>1. pc[q] # "dead" => OneBehind(r, q)
              BY <1>13, <2>1, <4>1, <5>1 DEF Together
            <6>. QED
              BY <1>13, <2>1, <4>2, <4>5, <5>1, <6>1
                 DEF Together, SideBySide, OneBehind, Progress, Idle, Restoring, Denoising,
                     OnItsOwn, Request, Moving, Places
          <5>2. CASE jobNo[q] < jobNo'[r]
            <6>1. pc[q] # "dead" => jobNo[q] = jobNo[r] /\ SideBySide(q, r)
              BY <1>13, <2>1, <4>1, <5>2 DEF Together, OneBehind, Idle
            <6>2. pc[q] # "dead" => pc[q] = "wait"
              BY <1>13, <2>1, <4>2, <6>1 DEF SideBySide, OnItsOwn, Idle
            <6>3. pc[q] # "dead" => parked[q] = parked[r]
              BY <6>1, <6>2 DEF SideBySide, Idle
            <6>4. jobNo'[q] = jobNo[q] /\ pc'[q] = pc[q]
              BY <1>13, <2>1, <4>5
            <6>5. pc[q] # "dead" => OneBehind(q, r)'
              BY <1>13, <2>1, <6>1, <6>2, <6>3, <6>4
                 DEF OneBehind, Progress, Idle, Restoring, Denoising
            <6>. QED
              BY <4>5, <5>2, <6>4, <6>5 DEF Together
          <5>. QED
            BY <1>13, <2>1, <4>5, <5>1, <5>2 DEF Together
        <4>6. CASE q = r /\ s = r
          BY <1>13, <2>1, <4>6 DEF Together, SideBySide, OneBehind, Progress, Idle,
                                   Restoring, Denoising
        <4>. QED
          BY <4>3, <4>4, <4>5, <4>6
      <3>. QED
        BY <3>1
    <2>. QED
      BY <1>14, <2>1, <2>2 DEF InStep
  <1>17. CASE UNCHANGED vars
    BY <1>17 DEF vars, InStep, OnItsOwn, Request, Idle, Moving, Restoring, Denoising,
                 Together, SideBySide, OneBehind, Progress, Idle, Restoring, Denoising
  <1>18. ASSUME NEW r \in Ranks, MoveFails(r) \/ Refuse(r) \/ Signal(r) PROVE FALSE
    <2>1. pc'[r] # "refuse" /\ ~interrupt'[r]
      BY DEF Undisturbed
    <2>2. ~Refuse(r)
      BY DEF Refuse, OnItsOwn
    <2>. QED
      BY <1>18, <2>1, <2>2 DEF MoveFails, Signal, Goto
  <1>. QED
    BY <1>1, <1>2, <1>3, <1>4, <1>5, <1>6, <1>7, <1>8, <1>9, <1>10, <1>11, <1>12,
       <1>15, <1>16, <1>17, <1>18
       DEF Next, Server, RankStep, Collective

(* Whatever requests come, clients that go and runs that fail: no two ranks ever
   wait in different collectives, as long as no component fails to move and no run is
   cancelled. *)
THEOREM RanksInStep == Spec => NoCrossedCollectives
  <1>1. Init => InStep
    BY DEF Init, InitAs, InStep, OnItsOwn, Request, Idle, Moving, Restoring, Denoising,
           Together, SideBySide, OneBehind, Progress, Idle, Restoring, Denoising
  <1>2. Typing /\ InStep => InOneCollective
    <2>. SUFFICES ASSUME Typing, InStep, NEW r \in Ranks, NEW s \in Ranks,
                         pc[r] \in AtCollective, pc[s] \in AtCollective
                  PROVE  pc[r] = pc[s]
      BY DEF InOneCollective
    <2>1. OnItsOwn(r) /\ OnItsOwn(s) /\ Together(r, s) /\ Together(s, r)
      BY DEF InStep
    <2>2. jobNo[r] \in Nat /\ jobNo[s] \in Nat
      BY ServerAssumption DEF Typing, TypeOK
    <2>3. jobNo[r] = jobNo[s]
      BY <2>1, <2>2 DEF AtCollective, Together, OneBehind
    <2>4. \/ pc[r] = "gather" /\ pc[s] = "gather"
          \/ pc[r] = "regather" /\ pc[s] = "regather"
          \/ pc[r] \in {"denoise", "report"} /\ pc[s] \in {"denoise", "report"}
      BY <2>1, <2>3 DEF AtCollective, Together, SideBySide, OnItsOwn, Request, Idle, Moving,
                        Restoring, Denoising
    <2>5. pc[r] \in Denoising /\ pc[s] \in Denoising => step[r] = step[s] \/ "prepare" \in {pc[r], pc[s]}
      BY <2>1, <2>3 DEF Together, SideBySide, Progress, Denoising
    <2>6. /\ pc[r] = "denoise" => step[r] < Steps
          /\ pc[s] = "denoise" => step[s] < Steps
          /\ pc[r] = "report" => step[r] = Steps
          /\ pc[s] = "report" => step[s] = Steps
      BY <2>1 DEF Typing, OnItsOwn
    <2>. QED
      BY <2>4, <2>5, <2>6, ServerAssumption DEF Denoising
  <1>3. Init => ParkedIsTrue
    BY DEF Init, InitAs, ParkedIsTrue
  <1>. QED
    BY <1>1, <1>2, <1>3, ParkedIsTrueInductive, InStepInductive, TypingInitially,
       TypingInductive, PTL DEF Spec, NoCrossedCollectives

-----------------------------------------------------------------------------
(* What holds whatever fails, as long as the output rank has refused nothing. *)

(* A client connects, or closes a connection: nobody else sees a difference. *)
LEMMA ConnectedConn ==
  ASSUME conn \in Seq(Connections), NEW op \in Ops, Connect(op)
  PROVE  /\ Len(conn') = Len(conn) + 1
         /\ \A i \in 1..Len(conn) : conn'[i] = conn[i]
         /\ conn'[Len(conn) + 1].op = op /\ conn'[Len(conn) + 1].answer = "none"
         /\ conn'[Len(conn) + 1].open
  <1>. DEFINE e == [op |-> op, open |-> TRUE, answer |-> "none"]
  <1>1. e \in Connections /\ e.op = op /\ e.answer = "none" /\ e.open
    BY DEF Connections
  <1>2. conn' = Append(conn, e)
    BY DEF Connect
  <1>. HIDE DEF e
  <1>3. /\ Len(conn') = Len(conn) + 1 /\ conn'[Len(conn) + 1] = e
        /\ \A i \in 1..Len(conn) : conn'[i] = conn[i]
    BY <1>1, <1>2
  <1>. QED
    BY <1>1, <1>3

LEMMA ClosedConn ==
  ASSUME conn \in Seq(Connections), NEW c \in 1..Len(conn), Close(c)
  PROVE  /\ Len(conn') = Len(conn) /\ ~conn'[c].open
         /\ \A i \in 1..Len(conn) : /\ conn'[i].op = conn[i].op /\ conn'[i].answer = conn[i].answer
                                    /\ i # c => conn'[i] = conn[i]
  <1>. DEFINE e == [conn[c] EXCEPT !.open = FALSE]
  <1>1. conn[c] \in Connections
    OBVIOUS
  <1>2. e \in Connections /\ e.op = conn[c].op /\ e.answer = conn[c].answer /\ ~e.open
    BY <1>1 DEF Connections
  <1>3. conn' = [conn EXCEPT ![c] = e]
    BY DEF Close
  <1>. HIDE DEF e
  <1>4. Len(conn') = Len(conn)
    BY <1>2, <1>3, ExceptTyping
  <1>. QED
    BY <1>2, <1>3, <1>4

(* The output rank answers the request it is at. *)
Answers(word) == conn' = [conn EXCEPT ![jobNo[Out]].answer = word]

LEMMA AnsweredConn ==
  ASSUME conn \in Seq(Connections), NEW word \in {"ok", "error"},
         jobNo[Out] \in 1..Len(conn), Answers(word)
  PROVE  /\ Len(conn') = Len(conn)
         /\ conn'[jobNo[Out]].answer = word
         /\ \A i \in 1..Len(conn) : /\ conn'[i].op = conn[i].op /\ conn'[i].open = conn[i].open
                                    /\ i # jobNo[Out] => conn'[i] = conn[i]
  <1>. DEFINE c == jobNo[Out]
  <1>. DEFINE e == [conn[c] EXCEPT !.answer = word]
  <1>1. conn[c] \in Connections
    OBVIOUS
  <1>2. e \in Connections /\ e.op = conn[c].op /\ e.open = conn[c].open /\ e.answer = word
    BY <1>1 DEF Connections
  <1>3. conn' = [conn EXCEPT ![c] = e]
    BY DEF Answers
  <1>. HIDE DEF e
  <1>4. Len(conn') = Len(conn)
    BY <1>2, <1>3, ExceptTyping
  <1>. QED
    BY <1>2, <1>3, <1>4

(* A rank that has ended does not come back, and only a client that connects makes
   a connection. *)
LEMMA EndedStays ==
  ASSUME Typing, [AnyStep]_vars, NEW r \in Ranks, Ended(r)
  PROVE  Ended(r)'
  <1>. USE DEF Typing, TypeOK
  <1>1. ASSUME NEW q \in Ranks, Receive(q) \/ Move(q) \/ MoveFails(q) \/ Refuse(q) \/ Unpark(q) \/ Prepare(q)
                                \/ Check(q) \/ Decode(q) \/ Exit(q) \/ Signal(q) \/ RunFails(q)
        PROVE  Ended(r)'
    BY <1>1 DEF Ended, Receive, Take, Move, AfterMove, MoveFails, Refuse, Unpark, Prepare, Check, Decode, Exit, Signal,
         RunFails, Goto
  <1>2. CASE Accept \/ AnswerControl \/ AnswerRun
    BY <1>2, ServerAssumption DEF Ended, Accept, Take, AnswerControl, AnswerRun, Goto
  <1>3. CASE Gather \/ Denoise
    BY <1>3 DEF Ended, Gather, Denoise
  <1>4. CASE Kill \/ TorchrunStops \/ UNCHANGED vars
    BY <1>4 DEF Ended, Kill, TorchrunStops, vars
  <1>5. ASSUME (\E op \in Ops : Connect(op)) \/ (\E c \in DOMAIN conn : Close(c))
        PROVE  Ended(r)'
    BY <1>5 DEF Ended, Connect, Close
  <1>. QED
    BY <1>1, <1>2, <1>3, <1>4, <1>5 DEF AnyStep, Server, RankStep, Collective

LEMMA LengthStays ==
  ASSUME Typing,
         \/ \E c \in DOMAIN conn : Close(c)
         \/ Kill \/ Server \/ UNCHANGED vars
         \/ \E r \in Ranks : Signal(r) \/ RunFails(r)
  PROVE  Len(conn') = Len(conn)
  <1>. USE DEF Typing, TypeOK
  <1>1. ASSUME NEW c \in DOMAIN conn, Close(c) PROVE Len(conn') = Len(conn)
    BY <1>1, ClosedTyping DEF Close
  <1>2. CASE AnswerControl \/ AnswerRun
    BY <1>2, AnsweredTyping DEF AnswerControl, AnswerRun
  <1>3. ASSUME NEW r \in Ranks, Refuse(r) PROVE Len(conn') = Len(conn)
    BY <1>3, AnsweredTyping DEF Refuse
  <1>4. ASSUME NEW q \in Ranks, Receive(q) \/ Move(q) \/ MoveFails(q) \/ Unpark(q) \/ Prepare(q)
                                \/ Check(q) \/ Decode(q) \/ Exit(q) \/ Signal(q) \/ RunFails(q)
        PROVE  Len(conn') = Len(conn)
    BY <1>4 DEF Receive, Take, Move, MoveFails, Unpark, Prepare, Check, Decode, Exit, Signal, RunFails
  <1>5. CASE Accept \/ Gather \/ Denoise \/ Kill \/ TorchrunStops \/ UNCHANGED vars
    BY <1>5 DEF Accept, Take, Gather, Denoise, Kill, TorchrunStops, vars
  <1>. QED
    BY <1>1, <1>2, <1>3, <1>4, <1>5 DEF Server, RankStep, Collective

(* Without a signal no flag comes up, and a rank enters a run with its flag down. *)
Unsignalled ==
  \/ \E op \in Ops : Connect(op)
  \/ \E c \in DOMAIN conn : Close(c)
  \/ Kill \/ Server \/ UNCHANGED vars
  \/ \E r \in Ranks : RunFails(r)

LEMMA FlagsComeBySignal ==
  ASSUME Typing, Unsignalled, NEW r \in Ranks, pc'[r] \in {"check", "denoise"}, interrupt'[r]
  PROVE  pc[r] \in {"check", "denoise"} /\ interrupt[r] /\ jobNo'[r] = jobNo[r]
  <1>. USE DEF Typing, TypeOK
  <1>1. ASSUME NEW q \in Ranks, Take(q), jobNo[q] + 1 \in 1..Len(conn)
        PROVE  pc[r] \in {"check", "denoise"} /\ interrupt[r] /\ jobNo'[r] = jobNo[r]
    <2>1. FirstStep(q, conn[jobNo[q] + 1].op) \in {"stop", "move", "unpark", "prepare"}
      BY <1>1, RequestIsAnOp, FirstStepPlace
    <2>. QED
      BY <1>1, <2>1 DEF Take, Goto
  <1>2. CASE Accept \/ \E q \in Ranks : Receive(q)
    <2>1. Accept => Take(Out) /\ jobNo[Out] + 1 \in 1..Len(conn) /\ Out \in Ranks
      BY ServerAssumption DEF Accept
    <2>2. \A q \in Ranks : Receive(q) => Take(q) /\ jobNo[q] + 1 \in 1..Len(conn)
      BY ServerAssumption DEF Receive
    <2>. QED
      BY <1>1, <1>2, <2>1, <2>2
  <1>3. CASE \E q \in Ranks : \/ Move(q) \/ MoveFails(q) \/ Refuse(q) \/ Unpark(q) \/ Prepare(q) \/ Check(q)
                             \/ Decode(q) \/ Exit(q) \/ RunFails(q)
    BY <1>3 DEF Move, AfterMove, MoveFails, Refuse, Unpark, Prepare, Check, Decode, Exit, RunFails, Goto
  <1>4. CASE AnswerControl \/ AnswerRun \/ Gather \/ Denoise
    <2>1. CASE AnswerControl
      BY <2>1, ServerAssumption DEF AnswerControl, Goto
    <2>2. CASE AnswerRun
      BY <2>2, ServerAssumption DEF AnswerRun, Goto
    <2>3. CASE Gather
      BY <2>3 DEF Gather, Done
    <2>4. CASE Denoise
      BY <2>4 DEF Denoise
    <2>. QED
      BY <1>4, <2>1, <2>2, <2>3, <2>4
  <1>5. CASE \/ (\E op \in Ops : Connect(op)) \/ (\E c \in DOMAIN conn : Close(c))
             \/ Kill \/ TorchrunStops \/ UNCHANGED vars
    BY <1>5 DEF Connect, Close, Kill, TorchrunStops, vars
  <1>. QED
    BY <1>2, <1>3, <1>4, <1>5 DEF Unsignalled, Server, RankStep, Collective

(* What the output rank is at is the request it accepted last, and nothing is
   answered before its turn. *)
OutServes ==
  /\ pc[Out] \notin {"wait", "dead", "gone"} =>
       jobNo[Out] \in 1..Len(conn) /\ conn[jobNo[Out]].answer = "none"
  /\ pc[Out] \in Moving \cup {"refuse"} => Request(Out) \in {"park", "restore"}
  /\ pc[Out] \in Restoring \cup Denoising => Request(Out) = "run"
  /\ pc[Out] = "answer" => Request(Out) # "shutdown"
  /\ pc[Out] = "stop" => Request(Out) = "shutdown"
  /\ \A c \in 1..Len(conn) : c > jobNo[Out] => conn[c].answer = "none"

(* An answer is given once. *)
AnswersStay ==
  /\ Len(conn) <= Len(conn')
  /\ \A i \in 1..Len(conn) :
       /\ conn'[i].op = conn[i].op /\ (conn'[i].open => conn[i].open)
       /\ conn[i].answer # "none" => conn'[i].answer = conn[i].answer

FlagIsTrue(r) == pipe[r] = IF parked[r] THEN "cpu" ELSE "gpu"

(* What a rank knows by itself; one that has still to receive a request knows that
   nobody can have answered it. *)
OfItself(r) ==
  /\ pc[r] \in Moving \cup Restoring \cup Denoising => jobNo[r] \in 1..Len(conn)
  /\ pc[r] \in Restoring \cup Denoising => Request(r) = "run" /\ conn[jobNo[r]].answer = "none"
  /\ pc[r] \in Denoising \cup {"regather"} => pipe[r] = "gpu" /\ ~parked[r]
  /\ pc[r] = "gather" => FlagIsTrue(r) /\ parked[r] = (Request(r) = "park")
  /\ jobNo[r] < jobNo[Out] =>
       /\ jobNo[Out] = jobNo[r] + 1
       /\ pc[r] \in {"wait", "dead"} /\ FlagIsTrue(r)
       /\ jobNo[Out] \in 1..Len(conn) /\ conn[jobNo[Out]].answer = "none"

(* A rank at the request of the output rank takes the same branch, unless it could
   not move its weights: then it waits for a request that never comes. *)
AtTheSame(r) ==
  /\ pc[Out] \in Idle =>
       /\ r # Out => pc[r] = "wait"
       /\ FlagIsTrue(r) /\ parked[r] = parked[Out]
       /\ jobNo[Out] # 0 => parked[Out] = (Request(Out) = "park")
  /\ pc[Out] \in Moving \cup {"refuse"} => pc[r] \in Moving \cup {"refuse", "wait"}
  /\ pc[Out] \in Restoring => pc[r] \in Restoring \cup {"dead"}
  /\ pc[Out] \in Denoising => pc[r] \in Denoising \cup {"dead"}
  /\ pc[Out] = "stop" => pc[r] \in {"stop", "gone"}

(* A rank that has still to receive it will take the same branch. *)
ToReceive(r) ==
  /\ pc[r] = "wait"
  /\ pc[Out] \notin Idle
  /\ pc[Out] \in Restoring => parked[r]
  /\ pc[Out] \in Denoising => ~parked[r]

WithOut(r) == IF jobNo[r] = jobNo[Out] THEN AtTheSame(r) ELSE ToReceive(r)

InTouch ==
  NothingRefused =>
    /\ \A r \in Ranks : OfItself(r)
    /\ ~Ended(Out) => \A r \in Ranks : WithOut(r)

(* Only its client closes a connection. *)
LEMMA OpenStays ==
  ASSUME Typing, OutServes,
         Kill \/ Server \/ UNCHANGED vars \/ \E r \in Ranks : Signal(r) \/ RunFails(r)
  PROVE  \A i \in 1..Len(conn) : conn'[i].open = conn[i].open
  <1>. USE DEF Typing, TypeOK
  <1>1. ASSUME NEW word \in {"ok", "error"}, Answers(word), pc[Out] \in {"answer", "refuse"}
        PROVE  \A i \in 1..Len(conn) : conn'[i].open = conn[i].open
    BY <1>1, AnsweredConn DEF OutServes
  <1>2. CASE AnswerControl \/ AnswerRun
    BY <1>1, <1>2 DEF AnswerControl, AnswerRun, Answers
  <1>3. ASSUME NEW r \in Ranks, Refuse(r)
        PROVE  \A i \in 1..Len(conn) : conn'[i].open = conn[i].open
    BY <1>1, <1>3 DEF Refuse, Answers
  <1>4. ASSUME NEW q \in Ranks, Receive(q) \/ Move(q) \/ MoveFails(q) \/ Unpark(q) \/ Prepare(q)
                                \/ Check(q) \/ Decode(q) \/ Exit(q) \/ Signal(q) \/ RunFails(q)
        PROVE  conn' = conn
    BY <1>4 DEF Receive, Take, Move, MoveFails, Unpark, Prepare, Check, Decode, Exit, Signal, RunFails
  <1>5. CASE Accept \/ Gather \/ Denoise \/ Kill \/ TorchrunStops \/ UNCHANGED vars
    BY <1>5 DEF Accept, Take, Gather, Denoise, Kill, TorchrunStops, vars
  <1>. QED
    BY <1>2, <1>3, <1>4, <1>5 DEF Server, RankStep, Collective

LEMMA OutServesKept ==
  ASSUME Typing, OutServes, [AnyStep]_vars
  PROVE  OutServes' /\ AnswersStay
  <1>a. /\ pc \in [Ranks -> Places] /\ jobNo \in [Ranks -> 0..MaxConns] /\ MaxConns \in Nat
        /\ Out \in Ranks /\ conn \in Seq(Connections) /\ Len(conn) \in Nat /\ jobNo[Out] <= Len(conn)
    BY ServerAssumption DEF Typing, TypeOK
  <1>b. \A i \in 1..Len(conn) : conn[i].op \in Ops
    BY <1>a, RequestIsAnOp
  <1>. USE <1>a
  <1>1. ASSUME NEW op \in Ops, Connect(op) PROVE OutServes' /\ AnswersStay
    <2>1. /\ Len(conn') = Len(conn) + 1 /\ \A i \in 1..Len(conn) : conn'[i] = conn[i]
          /\ conn'[Len(conn) + 1].answer = "none" /\ pc' = pc /\ jobNo' = jobNo
      BY <1>1, ConnectedConn DEF Connect
    <2>. QED
      BY <2>1 DEF OutServes, AnswersStay, Request, Moving, Restoring, Denoising
  <1>2. ASSUME NEW c \in DOMAIN conn, Close(c) PROVE OutServes' /\ AnswersStay
    <2>1. c \in 1..Len(conn)
      OBVIOUS
    <2>2. /\ Len(conn') = Len(conn) /\ pc' = pc /\ jobNo' = jobNo /\ ~conn'[c].open
          /\ \A i \in 1..Len(conn) : /\ conn'[i].op = conn[i].op /\ conn'[i].answer = conn[i].answer
                                     /\ i # c => conn'[i] = conn[i]
      BY <1>2, <2>1, ClosedConn DEF Close
    <2>. QED
      BY <2>2 DEF OutServes, AnswersStay, Request, Moving, Restoring, Denoising
  <1>3. ASSUME NEW word \in {"ok", "error"}, Answers(word), pc[Out] \notin {"wait", "dead", "gone"},
               pc' = [pc EXCEPT ![Out] = "wait"], jobNo' = jobNo
        PROVE  OutServes' /\ AnswersStay
    <2>1. jobNo[Out] \in 1..Len(conn) /\ conn[jobNo[Out]].answer = "none"
      BY <1>3 DEF OutServes
    <2>2. /\ Len(conn') = Len(conn)
          /\ \A i \in 1..Len(conn) : /\ conn'[i].op = conn[i].op /\ conn'[i].open = conn[i].open
                                     /\ i # jobNo[Out] => conn'[i] = conn[i]
      BY <1>3, <2>1, AnsweredConn
    <2>3. pc'[Out] = "wait"
      BY <1>3
    <2>4. OutServes'
      BY <1>3, <2>1, <2>2, <2>3 DEF OutServes, Moving, Restoring, Denoising
    <2>5. \A i \in 1..Len(conn) : conn[i].answer # "none" => conn'[i].answer = conn[i].answer
      BY <2>1, <2>2
    <2>. QED
      BY <2>2, <2>4, <2>5 DEF AnswersStay
  <1>4. ASSUME conn' = conn, jobNo' = jobNo,
               \/ pc'[Out] = pc[Out] \/ pc'[Out] \in {"dead", "gone", "wait"}
               \/ pc[Out] \in Moving /\ pc'[Out] \in {"gather", "refuse", "answer"}
               \/ pc[Out] \in Restoring \cup Denoising /\ pc'[Out] \in {"regather", "answer"} \cup Denoising
        PROVE  OutServes' /\ AnswersStay
    BY <1>4 DEF OutServes, AnswersStay, Request, Moving, Restoring, Denoising
  <1>5. CASE Accept
    <2>1. /\ jobNo'[Out] = jobNo[Out] + 1 /\ jobNo'[Out] \in 1..Len(conn) /\ conn' = conn
          /\ pc[Out] = "wait" /\ pc'[Out] = FirstStep(Out, conn[jobNo'[Out]].op)
      BY <1>5 DEF Accept, Take, Goto
    <2>2. conn[jobNo'[Out]].op \in Ops /\ conn[jobNo'[Out]].answer = "none"
      BY <1>b, <2>1 DEF OutServes
    <2>. DEFINE op == conn[jobNo'[Out]].op
    <2>3. /\ op = "shutdown" => pc'[Out] = "stop"
          /\ op \in {"park", "restore"} => pc'[Out] = "move"
          /\ op = "run" => pc'[Out] \in {"unpark", "prepare"}
          /\ op \in {"shutdown", "park", "restore", "run"}
      BY <2>1, <2>2 DEF FirstStep, Ops
    <2>4. Request(Out)' = op
      BY <2>1 DEF Request
    <2>. QED
      BY <2>1, <2>2, <2>3, <2>4 DEF OutServes, AnswersStay, Moving, Restoring, Denoising
  <1>6. ASSUME NEW r \in Ranks, Receive(r) PROVE OutServes' /\ AnswersStay
    <2>1. conn' = conn /\ jobNo'[Out] = jobNo[Out] /\ pc'[Out] = pc[Out]
      BY <1>6 DEF Receive, Take, Goto
    <2>. QED
      BY <2>1 DEF OutServes, AnswersStay, Request, Moving, Restoring, Denoising
  <1>7. CASE AnswerControl \/ AnswerRun
    <2>1. /\ jobNo' = jobNo /\ pc[Out] = "answer"
          /\ \/ conn' = conn /\ pc' = [pc EXCEPT ![Out] = "dead"]
             \/ conn' = conn /\ pc' = [pc EXCEPT ![Out] = "wait"]
             \/ Answers("ok") /\ pc' = [pc EXCEPT ![Out] = "wait"]
      BY <1>7 DEF AnswerControl, AnswerRun, Goto, Answers
    <2>. QED
      BY <1>3, <1>4, <2>1
  <1>8. ASSUME NEW r \in Ranks, Refuse(r) PROVE OutServes' /\ AnswersStay
    <2>1. /\ jobNo' = jobNo /\ pc[r] = "refuse"
          /\ \/ conn' = conn /\ (pc' = [pc EXCEPT ![r] = "dead"] \/ pc' = [pc EXCEPT ![r] = "wait"])
             \/ r = Out /\ Answers("error") /\ pc' = [pc EXCEPT ![Out] = "wait"]
      BY <1>8 DEF Refuse, Goto, Answers
    <2>. QED
      BY <1>3, <1>4, <2>1
  <1>9. ASSUME NEW r \in Ranks,
               \/ Move(r) \/ MoveFails(r) \/ Unpark(r) \/ Prepare(r) \/ Check(r) \/ Decode(r) \/ Exit(r)
               \/ Signal(r) \/ RunFails(r)
        PROVE  OutServes' /\ AnswersStay
    BY <1>4, <1>9 DEF Move, AfterMove, MoveFails, Unpark, Prepare, Check, Decode, Exit, Signal, RunFails,
         Goto, Moving, Restoring, Denoising
  <1>10. CASE Gather \/ Denoise
    BY <1>4, <1>10 DEF Gather, Denoise, Done, Moving, Restoring, Denoising
  <1>11. CASE Kill \/ TorchrunStops \/ UNCHANGED vars
    BY <1>4, <1>11 DEF Kill, TorchrunStops, vars
  <1>. QED
    BY <1>1, <1>2, <1>5, <1>6, <1>7, <1>8, <1>9, <1>10, <1>11
       DEF AnyStep, Server, RankStep, Collective

(* So the worker that has refused nothing had refused nothing before. *)
LEMMA RefusedStays ==
  ASSUME conn \in Seq(Connections), conn' \in Seq(Connections), AnswersStay, NothingRefused'
  PROVE  NothingRefused
  BY DEF AnswersStay, NothingRefused

LEMMA InTouchKept ==
  ASSUME Typing, Typing', OutServes, InTouch, [AnyStep]_vars
  PROVE  InTouch'
  <1>. SUFFICES ASSUME NothingRefused'
                PROVE  /\ \A q \in Ranks : OfItself(q)'
                       /\ ~Ended(Out)' => \A q \in Ranks : WithOut(q)'
    BY DEF InTouch
  <1>a. /\ pc \in [Ranks -> Places] /\ jobNo \in [Ranks -> 0..MaxConns] /\ MaxConns \in Nat
        /\ parked \in [Ranks -> BOOLEAN] /\ pipe \in [Ranks -> {"gpu", "cpu", "mixed"}]
        /\ Out \in Ranks /\ conn \in Seq(Connections) /\ Len(conn) \in Nat /\ jobNo[Out] <= Len(conn)
        /\ \A q \in Ranks : jobNo[q] <= jobNo[Out]
    BY ServerAssumption DEF Typing, TypeOK
  <1>b. OutServes' /\ AnswersStay /\ NothingRefused
    <2>1. conn' \in Seq(Connections)
      BY DEF Typing, TypeOK
    <2>. QED
      BY <1>a, <2>1, OutServesKept, RefusedStays
  <1>c. \A q \in Ranks : OfItself(q)
    BY <1>b DEF InTouch
  <1>d. ASSUME ~Ended(Out) PROVE \A q \in Ranks : WithOut(q)
    BY <1>b, <1>d DEF InTouch
  <1>e. \A i \in 1..Len(conn) : conn[i].op \in Ops
    BY <1>a, RequestIsAnOp
  <1>. USE <1>a, <1>c
  (* A client connects, closes or is answered: the requests stay what they are. *)
  <1>1. ASSUME UNCHANGED <<jobNo, pc, parked, pipe>>,
               \A i \in 1..Len(conn) : conn'[i].op = conn[i].op /\ conn'[i].answer = conn[i].answer,
               Len(conn) <= Len(conn'), Len(conn') \in Nat
        PROVE  /\ \A q \in Ranks : OfItself(q)'
               /\ ~Ended(Out)' => \A q \in Ranks : WithOut(q)'
    <2>1. \A q \in Ranks : OfItself(q)'
      <3>1. ASSUME NEW q \in Ranks PROVE OfItself(q)'
        <4>1. jobNo[q] \in Nat /\ jobNo[Out] \in Nat /\ OfItself(q)
          OBVIOUS
        <4>2. pc[q] \in Moving \cup Restoring \cup Denoising => Request(q)' = Request(q)
          BY <1>1, <4>1 DEF OfItself, Request
        <4>. QED
          BY <1>1, <4>1, <4>2 DEF OfItself, FlagIsTrue, Moving, Restoring, Denoising
      <3>. QED
        BY <3>1
    <2>2. ASSUME ~Ended(Out) PROVE \A q \in Ranks : WithOut(q)'
      <3>1. jobNo[Out] # 0 => Request(Out)' = Request(Out)
        BY <1>1 DEF Request
      <3>. QED
        BY <1>1, <1>d, <2>2, <3>1 DEF WithOut, AtTheSame, ToReceive, FlagIsTrue, Idle, Moving,
             Restoring, Denoising
    <2>. QED
      BY <1>1, <2>1, <2>2 DEF Ended
  <1>2. CASE Accept
    <2>1. /\ jobNo' = [jobNo EXCEPT ![Out] = jobNo[Out] + 1] /\ conn' = conn
          /\ jobNo[Out] + 1 \in 1..Len(conn) /\ \A q \in Ranks : jobNo[q] = jobNo[Out]
          /\ pc[Out] = "wait" /\ UNCHANGED <<parked, pipe>>
          /\ pc' = [pc EXCEPT ![Out] = FirstStep(Out, conn[jobNo[Out] + 1].op)]
      BY <1>2 DEF Accept, Take, Goto
    <2>2. conn[jobNo[Out] + 1].answer = "none" /\ conn[jobNo[Out] + 1].op \in Ops
      BY <1>e, <2>1 DEF OutServes
    <2>3. \A q \in Ranks : /\ pc[q] = "wait" /\ FlagIsTrue(q) /\ parked[q] = parked[Out]
      BY <1>d, <2>1 DEF WithOut, AtTheSame, Ended, Idle
    <2>. DEFINE op == conn[jobNo[Out] + 1].op
    <2>4. /\ op = "shutdown" => pc'[Out] = "stop"
          /\ op \in {"park", "restore"} => pc'[Out] = "move"
          /\ op = "run" => pc'[Out] = IF parked[Out] THEN "unpark" ELSE "prepare"
          /\ op \in {"shutdown", "park", "restore", "run"}
      BY <2>1, <2>2 DEF FirstStep, Ops
    <2>5. Request(Out)' = op
      BY <2>1 DEF Request
    <2>6. ASSUME NEW q \in Ranks \ {Out} PROVE OfItself(q)' /\ WithOut(q)'
      <3>1. pc'[q] = "wait" /\ jobNo'[q] = jobNo[q] /\ jobNo'[Out] = jobNo[q] + 1
        BY <2>1, <2>3
      <3>. QED
        BY <2>1, <2>2, <2>3, <2>4, <3>1 DEF OfItself, WithOut, ToReceive, FlagIsTrue, Idle, Moving,
             Restoring, Denoising
    <2>7. OfItself(Out)' /\ WithOut(Out)'
      <3>1. jobNo'[Out] = jobNo[Out] + 1 /\ FlagIsTrue(Out)
        BY <2>1, <2>3
      <3>. QED
        BY <2>1, <2>2, <2>3, <2>4, <2>5, <3>1 DEF OfItself, WithOut, AtTheSame, FlagIsTrue, Idle, Moving,
             Restoring, Denoising
    <2>. QED
      BY <2>6, <2>7
  <1>3. ASSUME NEW r \in Ranks, Receive(r)
        PROVE  /\ \A q \in Ranks : OfItself(q)'
               /\ ~Ended(Out)' => \A q \in Ranks : WithOut(q)'
    <2>1. /\ jobNo' = [jobNo EXCEPT ![r] = jobNo[r] + 1] /\ conn' = conn /\ r # Out
          /\ jobNo[r] < jobNo[Out] /\ pc[r] = "wait" /\ UNCHANGED <<parked, pipe>>
          /\ pc' = [pc EXCEPT ![r] = FirstStep(r, conn[jobNo[r] + 1].op)]
      BY <1>3 DEF Receive, Take, Goto
    <2>. DEFINE op == conn[jobNo[r] + 1].op
    <2>2. jobNo[r] + 1 \in 1..Len(conn) /\ op \in Ops
      BY <1>e, <2>1
    <2>3. /\ op = "shutdown" => pc'[r] = "stop"
          /\ op \in {"park", "restore"} => pc'[r] = "move"
          /\ op = "run" => pc'[r] = IF parked[r] THEN "unpark" ELSE "prepare"
          /\ op \in {"shutdown", "park", "restore", "run"}
      BY <2>1, <2>2 DEF FirstStep, Ops
    <2>4. FlagIsTrue(r) /\ conn[jobNo[Out]].answer = "none"
      BY <2>1 DEF OfItself
    <2>5. jobNo'[r] = jobNo'[Out] /\ jobNo'[Out] = jobNo[Out] /\ pc'[Out] = pc[Out]
      BY <2>1 DEF OfItself
    <2>6. OfItself(r)'
      <3>1. Request(r)' = op /\ conn'[jobNo'[r]].answer = "none" /\ jobNo'[r] \in 1..Len(conn')
        BY <2>1, <2>2, <2>4, <2>5 DEF Request
      <3>2. FlagIsTrue(r)' /\ parked'[r] = parked[r] /\ pipe'[r] = pipe[r]
        BY <2>1, <2>4 DEF FlagIsTrue
      <3>. QED
        BY <2>3, <2>4, <2>5, <3>1, <3>2 DEF OfItself, FlagIsTrue, Moving, Restoring, Denoising
    <2>7. ASSUME NEW q \in Ranks \ {r} PROVE OfItself(q)'
      <3>1. /\ jobNo'[q] = jobNo[q] /\ pc'[q] = pc[q] /\ OfItself(q)
            /\ jobNo'[Out] = jobNo[Out] /\ conn' = conn /\ UNCHANGED <<parked, pipe>>
        BY <2>1, <2>5
      <3>. QED
        BY <3>1 DEF OfItself, Request, FlagIsTrue
    <2>8. ASSUME ~Ended(Out) PROVE WithOut(r)'
      <3>1. ToReceive(r)
        BY <1>d, <2>1, <2>8 DEF WithOut
      <3>2. /\ pc[Out] \in Moving \cup {"refuse"} => op \in {"park", "restore"}
            /\ pc[Out] \in Restoring \cup Denoising => op = "run"
            /\ pc[Out] = "stop" => op = "shutdown"
        BY <2>1, <2>5 DEF OutServes, Request, OfItself
      <3>. QED
        BY <2>3, <2>5, <3>1, <3>2, <2>1 DEF WithOut, AtTheSame, ToReceive, Idle, Moving, Restoring, Denoising
    <2>9. ASSUME ~Ended(Out), NEW q \in Ranks \ {r} PROVE WithOut(q)'
      <3>1. /\ jobNo'[q] = jobNo[q] /\ pc'[q] = pc[q] /\ WithOut(q)
            /\ jobNo'[Out] = jobNo[Out] /\ pc'[Out] = pc[Out] /\ conn' = conn /\ UNCHANGED <<parked, pipe>>
        BY <1>d, <2>1, <2>5, <2>9
      <3>. QED
        BY <3>1 DEF WithOut, AtTheSame, ToReceive, Request, FlagIsTrue
    <2>. QED
      BY <2>5, <2>6, <2>7, <2>8, <2>9 DEF Ended
  (* One rank goes on by itself within a request, or ends. *)
  <1>4. ASSUME NEW r \in Ranks, conn' = conn, jobNo' = jobNo,
               \A q \in Ranks \ {r} : pc'[q] = pc[q] /\ parked'[q] = parked[q] /\ pipe'[q] = pipe[q],
               \/ /\ pc[r] = "move" /\ pc'[r] = "gather"
                  /\ FlagIsTrue(r)' /\ parked'[r] = (Request(r) = "park")
               \/ pc[r] = "move" /\ pc'[r] = "refuse"
               \/ pc[r] = "refuse" /\ pc'[r] = "wait" /\ r # Out
               \/ pc[r] = "unpark" /\ pc'[r] = "regather" /\ pipe'[r] = "gpu" /\ ~parked'[r]
               \/ /\ pc[r] \in Denoising /\ pc'[r] \in Denoising
                  /\ pipe'[r] = pipe[r] /\ parked'[r] = parked[r]
               \/ /\ pc[r] \in Restoring \cup Denoising /\ pc'[r] = "dead"
               \/ pc[r] = "refuse" /\ r = Out /\ pc'[r] = "dead"
               \/ pc[r] = "answer" /\ r = Out /\ pc'[r] = "dead"
               \/ pc[r] = "stop" /\ pc'[r] = "gone"
        PROVE  /\ \A q \in Ranks : OfItself(q)'
               /\ ~Ended(Out)' => \A q \in Ranks : WithOut(q)'
    <2>1. OfItself(r)'
      <3>1. OfItself(r)
        OBVIOUS
      <3>2. jobNo[r] < jobNo[Out] => pc[r] \in {"wait", "dead"}
        BY DEF OfItself
      <3>3. Request(r)' = Request(r)
        BY <1>4 DEF Request
      <3>. QED
        BY <1>4, <3>1, <3>2, <3>3 DEF OfItself, FlagIsTrue, Moving, Restoring, Denoising
    <2>2. ASSUME NEW q \in Ranks \ {r} PROVE OfItself(q)'
      <3>1. OfItself(q) /\ pc'[q] = pc[q] /\ parked'[q] = parked[q] /\ pipe'[q] = pipe[q]
        BY <1>4
      <3>. QED
        BY <1>4, <3>1 DEF OfItself, Request, FlagIsTrue
    <2>3. ASSUME ~Ended(Out), ~Ended(Out)', NEW q \in Ranks PROVE WithOut(q)'
      <3>1. WithOut(q) /\ WithOut(r) /\ OfItself(q) /\ OfItself(r)
        BY <1>d, <2>3
      <3>2. Request(Out)' = Request(Out)
        BY <1>4 DEF Request
      <3>3. CASE r = Out
        <4>1. \/ pc[Out] \in Moving /\ pc'[Out] \in {"gather", "refuse"}
              \/ pc[Out] \in Restoring /\ pc'[Out] \in Restoring
              \/ pc[Out] \in Denoising /\ pc'[Out] \in Denoising
          BY <1>4, <2>3, <3>3 DEF Ended, Moving, Restoring, Denoising
        <4>2. pc'[q] = pc[q] \/ q = Out
          BY <1>4, <3>3
        <4>3. parked'[q] = parked[q] \/ q = Out
          BY <1>4, <3>3
        <4>. QED
          BY <1>4, <3>1, <3>3, <4>1, <4>2, <4>3 DEF WithOut, AtTheSame, ToReceive, Idle, Moving,
               Restoring, Denoising
      <3>4. CASE r # Out
        BY <1>4, <2>3, <3>1, <3>2, <3>4 DEF WithOut, AtTheSame, ToReceive, OfItself, FlagIsTrue, Ended, Idle,
             Moving, Restoring, Denoising
      <3>. QED
        BY <3>3, <3>4
    <2>4. Ended(Out) => Ended(Out)'
      BY <1>4 DEF Ended, Restoring, Denoising
    <2>. QED
      BY <2>1, <2>2, <2>3, <2>4
  <1>5. ASSUME conn' = conn, jobNo' = jobNo, UNCHANGED <<parked, pipe>>, \A q \in Ranks : pc'[q] = "dead"
        PROVE  /\ \A q \in Ranks : OfItself(q)'
               /\ ~Ended(Out)' => \A q \in Ranks : WithOut(q)'
    BY <1>5 DEF OfItself, FlagIsTrue, Ended, Moving, Restoring, Denoising
  <1>6. CASE Gather
    <2>1. /\ \A q \in Ranks : pc[q] \in {"gather", "regather", "report"}
          /\ pc' = [q \in Ranks |-> IF pc[q] = "regather" THEN "prepare" ELSE Done(q)]
          /\ UNCHANGED <<conn, jobNo, parked, pipe>>
      BY <1>6 DEF Gather
    <2>2. \A q \in Ranks : jobNo[q] = jobNo[Out] /\ AtTheSame(q)
      <3>1. ASSUME NEW q \in Ranks PROVE jobNo[q] = jobNo[Out] /\ AtTheSame(q)
        <4>1. ~(jobNo[q] < jobNo[Out]) /\ jobNo[q] \in Nat /\ jobNo[Out] \in Nat /\ jobNo[q] <= jobNo[Out]
          BY <2>1 DEF OfItself
        <4>2. ~Ended(Out)
          BY <2>1 DEF Ended
        <4>. QED
          BY <1>d, <4>1, <4>2 DEF WithOut
      <3>. QED
        BY <3>1
    <2>3. ASSUME NEW q \in Ranks PROVE Request(q) = Request(Out) /\ Request(q)' = Request(Out)
      BY <2>1, <2>2 DEF Request
    <2>4. CASE pc[Out] = "regather"
      <3>1. \A q \in Ranks : pc[q] = "regather" /\ pc'[q] = "prepare"
        BY <2>1, <2>2, <2>4 DEF AtTheSame, Restoring
      <3>. QED
        BY <2>1, <2>2, <3>1, <2>3 DEF OfItself, WithOut, AtTheSame, FlagIsTrue, Idle, Moving, Restoring, Denoising
    <2>5. CASE pc[Out] # "regather"
      <3>1. \A q \in Ranks : pc[q] \in {"gather", "report"} /\ pc'[q] = IF q = Out THEN "answer" ELSE "wait"
        BY <2>1, <2>2, <2>5 DEF AtTheSame, Moving, Denoising, Done
      <3>2. \A q \in Ranks : FlagIsTrue(q) /\ parked[q] = (Request(Out) = "park")
        BY <2>3, <3>1 DEF OfItself, FlagIsTrue, Restoring, Denoising
      <3>3. Request(Out)' = Request(Out)
        BY <2>1 DEF Request
      <3>. QED
        BY <2>1, <2>2, <3>1, <3>2, <3>3 DEF OfItself, WithOut, AtTheSame, FlagIsTrue, Idle, Moving,
             Restoring, Denoising
    <2>. QED
      BY <2>4, <2>5
  <1>7. CASE Denoise
    <2>1. /\ \A q \in Ranks : pc[q] = "denoise" /\ pc'[q] = "check"
          /\ UNCHANGED <<conn, jobNo, parked, pipe>>
      BY <1>7 DEF Denoise
    <2>2. ~Ended(Out)
      BY <2>1 DEF Ended
    <2>. QED
      BY <1>d, <2>1, <2>2 DEF OfItself, WithOut, AtTheSame, ToReceive, Request, FlagIsTrue, Idle, Moving,
           Restoring, Denoising
  (* The output rank answers a request that every rank is done with. *)
  <1>8. ASSUME Answers("ok") \/ conn' = conn, pc[Out] = "answer", pc' = [pc EXCEPT ![Out] = "wait"],
               UNCHANGED <<jobNo, parked, pipe>>
        PROVE  /\ \A q \in Ranks : OfItself(q)'
               /\ ~Ended(Out)' => \A q \in Ranks : WithOut(q)'
    <2>1. jobNo[Out] \in 1..Len(conn) /\ ~Ended(Out)
      BY <1>8 DEF OutServes, Ended
    <2>2. Len(conn') = Len(conn) /\ \A i \in 1..Len(conn) : conn'[i].op = conn[i].op
      BY <1>8, <2>1, AnsweredConn
    <2>3. \A q \in Ranks : jobNo[q] = jobNo[Out] /\ AtTheSame(q) /\ pc'[q] = "wait"
      BY <1>8, <1>d, <2>1 DEF WithOut, AtTheSame, ToReceive, Idle
    <2>4. Request(Out)' = Request(Out)
      BY <1>8, <2>1, <2>2 DEF Request
    <2>. QED
      BY <1>8, <2>3, <2>4 DEF OfItself, WithOut, AtTheSame, FlagIsTrue, Idle, Moving, Restoring, Denoising
  <1>9. CASE AnswerControl \/ AnswerRun
    <2>1. /\ UNCHANGED <<jobNo, parked, pipe>> /\ pc[Out] = "answer"
          /\ \/ conn' = conn /\ pc' = [pc EXCEPT ![Out] = "dead"]
             \/ conn' = conn /\ pc' = [pc EXCEPT ![Out] = "wait"]
             \/ Answers("ok") /\ pc' = [pc EXCEPT ![Out] = "wait"]
      BY <1>9 DEF AnswerControl, AnswerRun, Goto, Answers
    <2>. QED
      BY <1>4, <1>8, <2>1
  <1>10. ASSUME NEW r \in Ranks, Refuse(r)
         PROVE  /\ \A q \in Ranks : OfItself(q)'
                /\ ~Ended(Out)' => \A q \in Ranks : WithOut(q)'
    <2>1. CASE r = Out /\ conn[jobNo[r]].open
      <3>1. Answers("error") /\ jobNo[Out] \in 1..Len(conn)
        BY <1>10, <2>1 DEF Refuse, Answers, OutServes
      <3>2. conn'[jobNo[Out]].answer = "error" /\ Len(conn') = Len(conn)
        BY <3>1, AnsweredConn
      <3>3. conn' \in Seq(Connections)
        BY DEF Typing, TypeOK
      <3>. QED
        BY <3>1, <3>2, <3>3 DEF NothingRefused
    <2>2. CASE ~(r = Out /\ conn[jobNo[r]].open)
      <3>1. /\ conn' = conn /\ UNCHANGED <<jobNo, parked, pipe>> /\ pc[r] = "refuse"
            /\ pc' = [pc EXCEPT ![r] = IF r = Out THEN "dead" ELSE "wait"]
        BY <1>10, <2>2 DEF Refuse, Goto
      <3>. QED
        BY <1>4, <3>1
    <2>. QED
      BY <2>1, <2>2
  <1>11. ASSUME NEW r \in Ranks, Move(r) \/ MoveFails(r) \/ Unpark(r)
         PROVE  /\ \A q \in Ranks : OfItself(q)'
                /\ ~Ended(Out)' => \A q \in Ranks : WithOut(q)'
    <2>1. /\ conn' = conn /\ jobNo' = jobNo
          /\ \A q \in Ranks \ {r} : pc'[q] = pc[q] /\ parked'[q] = parked[q] /\ pipe'[q] = pipe[q]
      BY <1>11 DEF Move, MoveFails, Unpark, Goto
    <2>2. Move(r) => /\ pc[r] = "move" /\ pc'[r] = "gather"
                     /\ FlagIsTrue(r)' /\ parked'[r] = (Request(r) = "park")
      BY DEF Move, Goto, AfterMove, FlagIsTrue, Target, ParkedAfter
    <2>3. MoveFails(r) => pc[r] = "move" /\ pc'[r] = "refuse"
      BY DEF MoveFails, Goto
    <2>4. Unpark(r) => pc[r] = "unpark" /\ pc'[r] = "regather" /\ pipe'[r] = "gpu" /\ ~parked'[r]
      BY DEF Unpark, Goto
    <2>. QED
      BY <1>4, <1>11, <2>1, <2>2, <2>3, <2>4
  <1>12. ASSUME NEW r \in Ranks, Prepare(r) \/ Check(r) \/ Decode(r) \/ Exit(r) \/ RunFails(r)
         PROVE  /\ \A q \in Ranks : OfItself(q)'
                /\ ~Ended(Out)' => \A q \in Ranks : WithOut(q)'
    <2>1. /\ conn' = conn /\ jobNo' = jobNo /\ UNCHANGED <<parked, pipe>>
          /\ \A q \in Ranks \ {r} : pc'[q] = pc[q]
          /\ \/ pc[r] \in Denoising /\ pc'[r] \in Denoising
             \/ pc[r] = "stop" /\ pc'[r] = "gone"
             \/ pc[r] \in Restoring \cup Denoising /\ pc'[r] = "dead"
      BY <1>12 DEF Prepare, Check, Decode, Exit, RunFails, Goto, Restoring, Denoising
    <2>. QED
      BY <1>4, <2>1
  <1>13. ASSUME NEW r \in Ranks, Signal(r)
         PROVE  /\ \A q \in Ranks : OfItself(q)'
                /\ ~Ended(Out)' => \A q \in Ranks : WithOut(q)'
    BY <1>1, <1>13 DEF Signal
  <1>14. ASSUME NEW op \in Ops, Connect(op)
         PROVE  /\ \A q \in Ranks : OfItself(q)'
                /\ ~Ended(Out)' => \A q \in Ranks : WithOut(q)'
    BY <1>1, <1>14, ConnectedConn DEF Connect
  <1>15. ASSUME NEW c \in DOMAIN conn, Close(c)
         PROVE  /\ \A q \in Ranks : OfItself(q)'
                /\ ~Ended(Out)' => \A q \in Ranks : WithOut(q)'
    <2>1. c \in 1..Len(conn)
      OBVIOUS
    <2>. QED
      BY <1>1, <1>15, <2>1, ClosedConn DEF Close
  <1>16. CASE Kill \/ TorchrunStops
    BY <1>5, <1>16 DEF Kill, TorchrunStops
  <1>17. CASE UNCHANGED vars
    BY <1>1, <1>17 DEF vars
  <1>. QED
    BY <1>2, <1>3, <1>6, <1>7, <1>9, <1>10, <1>11, <1>12, <1>13, <1>14, <1>15, <1>16, <1>17
       DEF AnyStep, Server, RankStep, Collective

-----------------------------------------------------------------------------
(* What follows from being in touch.                                       *)

ServerInv == Typing /\ OutServes /\ InTouch

LEMMA ServerInvKept == ServerInv /\ [AnyStep]_vars => ServerInv'
  BY TypingKept, OutServesKept, InTouchKept DEF ServerInv

(* A worker that waits for its first request, parked or not. *)
LEMMA ServerInvInitially ==
  ASSUME NEW away \in BOOLEAN, InitAs(away)
  PROVE  ServerInv
  <1>1. Typing
    BY ServerAssumption DEF InitAs, Typing, TypeOK, Connections, Places
  <1>2. OutServes /\ InTouch
    BY ServerAssumption DEF InitAs, OutServes, InTouch, OfItself, WithOut, AtTheSame, FlagIsTrue,
       Idle, Moving, Restoring, Denoising
  <1>. QED
    BY <1>1, <1>2 DEF ServerInv

LEMMA ServerInvHolds == Spec => []ServerInv
  <1>1. Init => ServerInv
    BY ServerInvInitially DEF Init
  <1>. QED
    BY <1>1, ServerInvKept, NextIsAnyStep, PTL DEF Spec

(* While the output rank waits for a request or writes an answer, every rank is done
   with the one before. *)
LEMMA AllAtIdle ==
  ASSUME ServerInv, NothingRefused, pc[Out] \in Idle, NEW r \in Ranks
  PROVE  jobNo[r] = jobNo[Out] /\ AtTheSame(r)
  BY ServerAssumption DEF ServerInv, InTouch, WithOut, ToReceive, Ended, Idle

(* Whatever fails on whatever rank, clients that go, signals and runs that are cut
   short: the weights are where the last answer says, on every rank, as long as the
   output rank has refused nothing. *)
THEOREM AnswersTrue == Spec => []AnswersAreTrue
  <1>1. ServerInv => AnswersAreTrue
    <2>. SUFFICES ASSUME ServerInv, NothingRefused, pc[Out] = "wait", jobNo[Out] # 0, NEW r \in Ranks
                  PROVE  pipe[r] = IF conn[jobNo[Out]].op = "park" THEN "cpu" ELSE "gpu"
      BY DEF AnswersAreTrue
    <2>1. AtTheSame(r) /\ AtTheSame(Out)
      BY AllAtIdle, ServerAssumption DEF Idle
    <2>. QED
      BY <2>1 DEF AtTheSame, FlagIsTrue, Request, Idle
  <1>. QED
    BY <1>1, ServerInvHolds, PTL

(* Whatever requests come and whatever fails: a step is only ever denoised where the
   weights are, as long as the output rank has refused nothing. *)
THEOREM DenoisingOnTheGpu == Spec => []RunsOnTheGpu
  <1>1. ServerInv => RunsOnTheGpu
    BY DEF ServerInv, InTouch, OfItself, Denoising, RunsOnTheGpu
  <1>. QED
    BY <1>1, ServerInvHolds, PTL
-----------------------------------------------------------------------------
(* The ranks are together one serial worker.                               *)

(* What the steps of the abstract worker are made of. *)
Busy == pc[Out] # "wait" /\ ~Ended(Out)

(* A rank that moves its weights serves the request the output rank is at. *)
LEMMA MoverServes ==
  ASSUME ServerInv, NothingRefused, NEW r \in Ranks, pc[r] \in {"move", "unpark"}, ~Ended(Out)
  PROVE  /\ jobNo[Out] = jobNo[r] /\ Busy
         /\ pc[r] = "unpark" => Request(Out) = "run"
  <1>1. OfItself(r) /\ WithOut(r)
    BY DEF ServerInv, InTouch
  <1>2. jobNo[r] = jobNo[Out] /\ AtTheSame(r)
    BY <1>1 DEF WithOut, ToReceive
  <1>3. pc[Out] # "wait"
    BY <1>2 DEF AtTheSame, Idle
  <1>. QED
    BY <1>1, <1>2, <1>3 DEF OfItself, Request, Busy, Restoring

(* One rank moves its weights, or some of them: where the request wants them, or not
   at all. *)
LEMMA MoveRefines ==
  ASSUME ServerInv, NEW r \in Ranks, Move(r) \/ MoveFails(r) \/ Unpark(r)
  PROVE  [Serial!Next]_(Serial!vars)
  <1>a. /\ pc \in [Ranks -> Places] /\ jobNo \in [Ranks -> 0..MaxConns] /\ Out \in Ranks
        /\ pipe \in [Ranks -> {"gpu", "cpu", "mixed"}]
    BY ServerAssumption DEF ServerInv, Typing, TypeOK
  <1>. USE <1>a
  <1>1. /\ pc[r] \in {"move", "unpark"} /\ pc'[r] \in {"gather", "refuse", "regather"}
        /\ \A q \in Ranks \ {r} : pc'[q] = pc[q] /\ pipe'[q] = pipe[q]
        /\ conn' = conn /\ jobNo' = jobNo
    BY DEF Move, AfterMove, MoveFails, Unpark, Goto
  <1>2. /\ pc[r] = "move" => pipe'[r] \in {pipe[r], "mixed", Target(r)}
        /\ pc[r] = "unpark" => pipe'[r] = "gpu"
    BY DEF Move, MoveFails, Unpark
  <1>3. Ended(Out)' = Ended(Out) /\ Busy' = Busy
    BY <1>1 DEF Ended, Busy
  <1>4. CASE Ended(Out)
    BY <1>1, <1>3, <1>4 DEF Serial!vars, Busy, Weights
  <1>5. CASE ~Ended(Out) /\ ~NothingRefused
    <2>1. Weights' \in {"moving", "gpu", "cpu"}
      BY <1>3, <1>5 DEF Weights
    <2>2. Serial!Move
      BY <1>1, <1>3, <1>5, <2>1 DEF Serial!Move, Serial!NothingRefused, NothingRefused, Busy
    <2>. QED
      BY <2>2 DEF Serial!Next
  <1>6. CASE ~Ended(Out) /\ NothingRefused
    <2>1. jobNo[Out] = jobNo[r] /\ Busy /\ (pc[r] = "unpark" => Request(Out) = "run")
      BY <1>1, <1>6, MoverServes
    <2>2. Serial!Wanted = IF Request(Out) = "park" THEN "cpu" ELSE "gpu"
      BY DEF Serial!Wanted, Serial!Wants, Request
    <2>3. pipe'[r] \in {pipe[r], "mixed", Serial!Wanted}
      BY <1>1, <1>2, <2>1, <2>2 DEF Target, Request
    <2>4. CASE pipe'[r] = pipe[r]
      <3>1. pipe' = pipe
        <4>1. pipe' \in [Ranks -> {pipe[r], pipe'[r], "gpu"}] \/ pipe' = [pipe EXCEPT ![r] = pipe'[r]]
          BY DEF Move, MoveFails, Unpark
        <4>. QED
          BY <1>1, <2>4, <4>1 DEF Move, MoveFails, Unpark
      <3>. QED
        BY <1>1, <1>3, <3>1 DEF Serial!vars, Busy, Weights
    <2>5. CASE pipe'[r] # pipe[r]
      <3>1. Weights' \in {"moving", Serial!Wanted}
        BY <1>3, <1>6, <2>2, <2>3, <2>5 DEF Weights
      <3>2. Serial!Move
        BY <1>1, <1>3, <1>6, <2>1, <3>1 DEF Serial!Move, Serial!NothingRefused, NothingRefused, Busy
      <3>. QED
        BY <3>2 DEF Serial!Next
    <2>. QED
      BY <2>4, <2>5
  <1>. QED
    BY <1>4, <1>5, <1>6

(* When the output rank answers, every rank has done what was asked. *)
LEMMA AnswerRefines ==
  ASSUME ServerInv, AnswerControl \/ AnswerRun
  PROVE  Serial!Next
  <1>a. /\ pc \in [Ranks -> Places] /\ Out \in Ranks /\ pipe' = pipe /\ jobNo' = jobNo
    BY ServerAssumption DEF ServerInv, Typing, TypeOK, AnswerControl, AnswerRun
  <1>. USE <1>a
  <1>1. /\ pc[Out] = "answer" /\ ~Ended(Out) /\ Busy
        /\ jobNo[Out] \in 1..Len(conn) /\ Request(Out) # "shutdown"
    BY DEF AnswerControl, AnswerRun, Ended, Busy, ServerInv, OutServes
  <1>2. NothingRefused => Weights = Serial!Wanted
    <2>. SUFFICES ASSUME NothingRefused PROVE Weights = Serial!Wanted
      OBVIOUS
    <2>1. \A r \in Ranks : jobNo[r] = jobNo[Out] /\ AtTheSame(r)
      BY <1>1, AllAtIdle DEF Idle
    <2>2. \A r \in Ranks : pipe[r] = IF Request(Out) = "park" THEN "cpu" ELSE "gpu"
      <3>1. jobNo[Out] # 0 /\ parked \in [Ranks -> BOOLEAN]
        BY <1>1, ServerAssumption DEF ServerInv, Typing, TypeOK
      <3>. QED
        BY <1>1, <2>1, <3>1 DEF AtTheSame, FlagIsTrue, Idle
    <2>. QED
      BY <1>1, <2>2 DEF Weights, Serial!Wanted, Serial!Wants, Request
  <1>3. CASE pc'[Out] = "wait"
    <2>1. Weights' = Weights /\ ~Ended(Out)' /\ ~Busy'
      BY <1>1, <1>3 DEF Weights, Ended, Busy
    <2>2. conn' = IF conn[jobNo[Out]].open THEN [conn EXCEPT ![jobNo[Out]].answer = "ok"] ELSE conn
      BY <1>3 DEF AnswerControl, AnswerRun, Goto
    <2>3. Serial!Answer
      BY <1>1, <1>2, <2>1, <2>2 DEF Serial!Answer, Serial!NothingRefused, NothingRefused, Busy, Request
    <2>. QED
      BY <2>3 DEF Serial!Next
  <1>4. CASE pc'[Out] = "dead"
    <2>1. conn' = conn
      BY <1>4 DEF AnswerControl, AnswerRun, Goto
    <2>2. Serial!Stop
      BY <1>1, <1>4, <2>1 DEF Serial!Stop, Weights, Ended, Busy
    <2>. QED
      BY <2>2 DEF Serial!Next
  <1>. QED
    BY <1>3, <1>4 DEF AnswerControl, AnswerRun, Goto

LEMMA StepRefines == ServerInv /\ [AnyStep]_vars => [Serial!Next]_(Serial!vars)
  <1>. SUFFICES ASSUME ServerInv, [AnyStep]_vars
                PROVE  [Serial!Next]_(Serial!vars)
    OBVIOUS
  <1>a. /\ pc \in [Ranks -> Places] /\ jobNo \in [Ranks -> 0..MaxConns] /\ Out \in Ranks
        /\ conn \in Seq(Connections)
    BY ServerAssumption DEF ServerInv, Typing, TypeOK
  <1>. USE <1>a
  (* The output rank does not move, or stays at the same request. *)
  <1>1. ASSUME UNCHANGED <<conn, pipe>>, jobNo'[Out] = jobNo[Out],
               pc'[Out] = pc[Out] \/ {pc[Out], pc'[Out]} \cap {"wait", "dead", "gone"} = {}
        PROVE  [Serial!Next]_(Serial!vars)
    BY <1>1 DEF Serial!vars, Busy, Weights, Ended
  <1>2. ASSUME UNCHANGED <<conn, pipe, jobNo>>, Ended(Out)'
        PROVE  [Serial!Next]_(Serial!vars)
    <2>1. CASE Ended(Out)
      BY <1>2, <2>1 DEF Serial!vars, Busy, Weights
    <2>2. CASE ~Ended(Out)
      <3>1. Serial!Stop
        BY <1>2, <2>2 DEF Serial!Stop, Weights, Ended, Busy
      <3>. QED
        BY <3>1 DEF Serial!Next
    <2>. QED
      BY <2>1, <2>2
  <1>3. ASSUME NEW op \in Ops, Connect(op) PROVE Serial!Next
    <2>1. Weights' = Weights /\ Ended(Out)' = Ended(Out)
      BY <1>3 DEF Connect, Weights, Ended
    <2>2. Serial!Connect(op)
      BY <1>3, <2>1 DEF Connect, Serial!Connect, Serial!Connection, Ended, Busy
    <2>. QED
      BY <2>2 DEF Serial!Next, Ops
  <1>4. ASSUME NEW c \in DOMAIN conn, Close(c) PROVE Serial!Next
    <2>1. Weights' = Weights /\ Ended(Out)' = Ended(Out)
      BY <1>4 DEF Close, Weights, Ended
    <2>2. Serial!GiveUp(c)
      BY <1>4, <2>1 DEF Close, Serial!GiveUp, Ended, Busy
    <2>. QED
      BY <2>2 DEF Serial!Next
  <1>5. CASE Accept
    <2>1. jobNo[Out] + 1 \in 1..Len(conn) /\ jobNo[Out] < Len(conn) /\ Take(Out)
      BY <1>5 DEF Accept
    <2>2. FirstStep(Out, conn[jobNo[Out] + 1].op) \in {"stop", "move", "unpark", "prepare"}
      BY <2>1, RequestIsAnOp, FirstStepPlace
    <2>3. /\ pc[Out] = "wait" /\ pc'[Out] \in {"stop", "move", "unpark", "prepare"}
          /\ jobNo'[Out] = jobNo[Out] + 1 /\ conn' = conn /\ pipe' = pipe
      BY <2>1, <2>2 DEF Take, Goto
    <2>4. Weights' = Weights /\ ~Ended(Out) /\ ~Ended(Out)' /\ ~Busy /\ Busy'
      BY <2>3 DEF Weights, Ended, Busy
    <2>5. Serial!Accept
      BY <2>1, <2>3, <2>4 DEF Serial!Accept, Busy
    <2>. QED
      BY <2>5 DEF Serial!Next
  <1>6. ASSUME NEW r \in Ranks, Receive(r) PROVE [Serial!Next]_(Serial!vars)
    BY <1>1, <1>6 DEF Receive, Take, Goto
  <1>7. ASSUME NEW r \in Ranks, Refuse(r) PROVE [Serial!Next]_(Serial!vars)
    <2>1. CASE r # Out
      BY <1>1, <1>7, <2>1 DEF Refuse, Goto
    <2>2. CASE r = Out /\ ~conn[jobNo[Out]].open
      BY <1>2, <1>7, <2>2 DEF Refuse, Goto, Ended
    <2>3. CASE r = Out /\ conn[jobNo[Out]].open
      <3>1. /\ pc[Out] = "refuse" /\ pc'[Out] = "wait" /\ UNCHANGED <<jobNo, pipe>>
            /\ conn' = [conn EXCEPT ![jobNo[Out]].answer = "error"]
        BY <1>7, <2>3 DEF Refuse, Goto
      <3>2. Request(Out) \in {"park", "restore"}
        BY <3>1 DEF ServerInv, OutServes
      <3>3. ~Ended(Out) /\ ~Ended(Out)' /\ Busy /\ ~Busy' /\ Weights' = Weights
        BY <3>1 DEF Ended, Busy, Weights
      <3>4. Serial!Refuse
        BY <2>3, <3>1, <3>2, <3>3 DEF Serial!Refuse, Busy, Request
      <3>. QED
        BY <3>4 DEF Serial!Next
    <2>. QED
      BY <2>1, <2>2, <2>3
  <1>8. CASE Gather \/ Denoise
    BY <1>1, <1>8 DEF Gather, Denoise, Done
  <1>9. ASSUME NEW r \in Ranks, Prepare(r) \/ Check(r) \/ Decode(r) \/ Signal(r)
        PROVE  [Serial!Next]_(Serial!vars)
    BY <1>1, <1>9 DEF Prepare, Check, Decode, Signal, Goto
  <1>10. ASSUME NEW r \in Ranks, RunFails(r) \/ Exit(r)
         PROVE  [Serial!Next]_(Serial!vars)
    <2>1. UNCHANGED <<conn, jobNo, pipe>> /\ (pc'[Out] = pc[Out] \/ Ended(Out)')
      BY <1>10 DEF RunFails, Exit, Goto, Ended
    <2>. QED
      BY <1>1, <1>2, <2>1
  <1>11. CASE Kill \/ TorchrunStops
    BY <1>2, <1>11 DEF TorchrunStops, Kill, Ended
  <1>12. CASE UNCHANGED vars
    BY <1>1, <1>12 DEF vars
  <1>. QED
    BY <1>3, <1>4, <1>5, <1>6, <1>7, <1>8, <1>9, <1>10, <1>11, <1>12, MoveRefines, AnswerRefines
       DEF AnyStep, Server, RankStep, Collective

LEMMA InitRefines ==
  ASSUME NEW away \in BOOLEAN, InitAs(away)
  PROVE  Serial!Init
  BY ServerAssumption DEF InitAs, Serial!Init, Weights, Ended

(* However many ranks there are and whatever fails on them: a client sees one serial
   worker, which answers a request when the weights are where it wants them, as long
   as it has refused none. *)
THEOREM RanksAreOneWorker == Spec => OneSerialWorker
  <1>1. Init => Serial!Init
    BY InitRefines DEF Init
  <1>2. ServerInv /\ [Next]_vars => [Serial!Next]_(Serial!vars)
    BY StepRefines, NextIsAnyStep
  <1>. QED
    BY <1>1, <1>2, ServerInvHolds, PTL DEF Spec, OneSerialWorker, Serial!Spec
-----------------------------------------------------------------------------
(* The ranks do not wait for one another.                                  *)

(* Which ranks the output rank finds at its request, by its own place: where all of
   them have come to the same collective, they can leave it. *)
LEMMA NeverStuckHere == ServerInv => NeverStuck
  <1>. SUFFICES ASSUME ServerInv, NothingRefused, ~Ended(Out),
                       pc[Out] # "wait" \/ jobNo[Out] < Len(conn),
                       ~CanGoOn, ~LeftAlone, ~CancelledApart
                PROVE  FALSE
    BY DEF NeverStuck
  <1>a. /\ pc \in [Ranks -> Places] /\ Out \in Ranks
        /\ \A r \in Ranks : jobNo[r] \in Nat /\ jobNo[r] <= jobNo[Out]
    BY ServerAssumption DEF ServerInv, Typing, TypeOK
  <1>. USE <1>a
  <1>b. \A r \in Ranks : pc[r] \notin {"move", "refuse", "unpark", "prepare", "check", "stop"}
    BY DEF CanGoOn
  <1>c. \A r \in Ranks : pc[r] # "dead"
    BY DEF CanGoOn, Ended
  (* A rank that has still to receive the request can do so. *)
  <1>d. \A r \in Ranks : jobNo[r] = jobNo[Out] /\ AtTheSame(r)
    <2>1. ASSUME NEW r \in Ranks PROVE jobNo[r] = jobNo[Out]
      <3>1. jobNo[r] # jobNo[Out] => r # Out /\ jobNo[r] < jobNo[Out]
        OBVIOUS
      <3>2. jobNo[r] # jobNo[Out] => pc[r] = "wait"
        BY DEF ServerInv, InTouch, WithOut, ToReceive
      <3>. QED
        BY <3>1, <3>2 DEF CanGoOn
    <2>. QED
      BY <2>1 DEF ServerInv, InTouch, WithOut
  <1>1. CASE pc[Out] = "wait"
    BY <1>d, <1>1 DEF CanGoOn
  <1>2. CASE pc[Out] = "answer"
    BY <1>2 DEF CanGoOn, ServerInv, OutServes
  <1>3. CASE pc[Out] = "gather"
    <2>1. \A r \in Ranks : pc[r] \in {"gather", "wait"}
      BY <1>b, <1>d, <1>3 DEF AtTheSame, Moving
    <2>2. \A r \in Ranks : pc[r] = "gather"
      BY <1>d, <1>3, <2>1 DEF LeftAlone
    <2>. QED
      BY <2>2 DEF CanGoOn
  <1>4. CASE pc[Out] = "regather"
    <2>1. \A r \in Ranks : pc[r] = "regather"
      BY <1>b, <1>c, <1>d, <1>4 DEF AtTheSame, Restoring
    <2>. QED
      BY <2>1 DEF CanGoOn
  <1>5. CASE pc[Out] \in {"denoise", "report"}
    <2>1. \A r \in Ranks : pc[r] \in {"denoise", "report"}
      BY <1>b, <1>c, <1>d, <1>5 DEF AtTheSame, Denoising
    <2>2. (\A r \in Ranks : pc[r] = "denoise") \/ (\A r \in Ranks : pc[r] = "report")
      BY <2>1 DEF CancelledApart
    <2>. QED
      BY <2>2 DEF CanGoOn
  <1>. QED
    BY <1>b, <1>1, <1>2, <1>3, <1>4, <1>5 DEF Places, Ended

(* Whatever fails, clients that go and cancels: the ranks with a request to serve can
   go on, but for the two ways they are torn apart, as long as the output rank has
   refused nothing. *)
THEOREM RanksNeverStuck == Spec => []NeverStuck
  BY NeverStuckHere, ServerInvHolds, PTL

-----------------------------------------------------------------------------
(* Every accepted request is done with before the next.                    *)

(* The output rank goes on to the next request by accepting it, and waits for one
   only after it has answered or found the client gone. *)
LEMMA OutReturns ==
  ASSUME Typing, [AnyStep]_vars
  PROVE  /\ jobNo'[Out] = jobNo[Out] \/ Accept
         /\ pc'[Out] = "wait" => \/ pc[Out] = "wait"
                                 \/ AnswerControl \/ AnswerRun \/ Refuse(Out)
  <1>. USE ServerAssumption DEF Typing, TypeOK
  <1>1. ASSUME NEW r \in Ranks, Receive(r)
        PROVE  jobNo'[Out] = jobNo[Out] /\ pc'[Out] = pc[Out]
    BY <1>1 DEF Receive, Take, Goto
  <1>2. ASSUME NEW r \in Ranks, Refuse(r)
        PROVE  jobNo'[Out] = jobNo[Out] /\ (r = Out \/ pc'[Out] = pc[Out])
    BY <1>2 DEF Refuse, Goto
  <1>3. ASSUME NEW r \in Ranks,
               \/ Move(r) \/ MoveFails(r) \/ Unpark(r) \/ Prepare(r) \/ Check(r) \/ Decode(r) \/ Exit(r)
               \/ Signal(r) \/ RunFails(r)
        PROVE  jobNo'[Out] = jobNo[Out] /\ (pc'[Out] = pc[Out] \/ pc'[Out] # "wait")
    BY <1>3 DEF Move, AfterMove, MoveFails, Unpark, Prepare, Check, Decode, Exit, Signal, RunFails, Goto
  <1>4. CASE Accept
    <2>1. Take(Out) /\ jobNo[Out] + 1 \in 1..Len(conn)
      BY <1>4 DEF Accept
    <2>2. pc[Out] = "wait"
      BY <2>1 DEF Take
    <2>. QED
      BY <1>4, <2>2
  <1>5. CASE Gather \/ Denoise \/ Kill \/ TorchrunStops \/ UNCHANGED vars
    BY <1>5 DEF Gather, Done, Denoise, Kill, TorchrunStops, vars
  <1>6. CASE AnswerControl \/ AnswerRun
    BY <1>6 DEF AnswerControl, AnswerRun
  <1>7. ASSUME (\E op \in Ops : Connect(op)) \/ (\E c \in DOMAIN conn : Close(c))
        PROVE  jobNo'[Out] = jobNo[Out] /\ pc'[Out] = pc[Out]
    BY <1>7 DEF Connect, Close
  <1>. QED
    BY <1>1, <1>2, <1>3, <1>4, <1>5, <1>6, <1>7 DEF AnyStep, Server, RankStep, Collective

(* A request that was accepted, and is not the one being served, is answered, unless
   its client has gone: none is skipped. *)
Settled(c) == conn[c].answer # "none" \/ ~conn[c].open

AnsweredInTurn ==
  ~Ended(Out) =>
    \A c \in 1..jobNo[Out] : Settled(c) \/ (c = jobNo[Out] /\ pc[Out] # "wait")

LEMMA AnsweredInTurnKept ==
  ASSUME Typing, OutServes, AnsweredInTurn, [AnyStep]_vars
  PROVE  AnsweredInTurn'
  <1>. SUFFICES ASSUME ~Ended(Out)', NEW c \in 1..jobNo'[Out],
                       ~(c = jobNo'[Out] /\ pc'[Out] # "wait")
                PROVE  Settled(c)'
    BY DEF AnsweredInTurn
  <1>a. /\ jobNo[Out] \in Nat /\ Len(conn) \in Nat /\ jobNo[Out] <= Len(conn)
        /\ conn \in Seq(Connections) /\ Out \in Ranks /\ jobNo \in [Ranks -> 0..MaxConns] /\ MaxConns \in Nat
        /\ pc \in [Ranks -> Places]
    BY ServerAssumption DEF Typing, TypeOK
  <1>b. ~Ended(Out)
    BY <1>a, EndedStays
  <1>c. \A i \in 1..Len(conn) : Settled(i) => Settled(i)'
    BY OutServesKept DEF AnswersStay, Settled
  <1>. USE <1>a, <1>b
  <1>1. CASE Accept
    <2>1. jobNo'[Out] = jobNo[Out] + 1 /\ pc[Out] = "wait" /\ pc'[Out] # "wait"
      <3>1. Take(Out) /\ jobNo[Out] + 1 \in 1..Len(conn)
        BY <1>1 DEF Accept
      <3>2. FirstStep(Out, conn[jobNo[Out] + 1].op) # "wait"
        BY <3>1, RequestIsAnOp, FirstStepPlace
      <3>. QED
        BY <3>1, <3>2 DEF Take, Goto
    <2>2. c \in 1..jobNo[Out]
      BY <2>1
    <2>. QED
      BY <1>c, <2>1, <2>2 DEF AnsweredInTurn
  <1>2. CASE jobNo'[Out] = jobNo[Out] /\ (pc[Out] = "wait" \/ pc'[Out] # "wait")
    BY <1>c, <1>2 DEF AnsweredInTurn
  <1>3. CASE jobNo'[Out] = jobNo[Out] /\ pc'[Out] = "wait" /\ (AnswerControl \/ AnswerRun \/ Refuse(Out))
    <2>1. pc[Out] \in {"answer", "refuse"}
      BY <1>3 DEF AnswerControl, AnswerRun, Refuse
    <2>2. jobNo[Out] \in 1..Len(conn)
      BY <2>1 DEF OutServes
    <2>3. \/ Answers("ok") \/ Answers("error")
          \/ conn' = conn /\ ~conn[jobNo[Out]].open
      BY <1>3 DEF AnswerControl, AnswerRun, Refuse, Answers, Goto
    <2>4. Settled(jobNo[Out])'
      <3>1. CASE conn' = conn /\ ~conn[jobNo[Out]].open
        BY <1>3, <3>1 DEF Settled
      <3>2. ASSUME NEW word \in {"ok", "error"}, Answers(word) PROVE Settled(jobNo[Out])'
        <4>1. conn'[jobNo[Out]].answer = word
          BY <2>2, <3>2, AnsweredConn
        <4>. QED
          BY <1>3, <4>1 DEF Settled
      <3>. QED
        BY <2>3, <3>1, <3>2
    <2>. QED
      BY <1>c, <1>3, <2>2, <2>4 DEF AnsweredInTurn
  <1>. QED
    BY <1>1, <1>2, <1>3, OutReturns
(* No accepted request is skipped, whatever fails, as long as the output rank is
   there. *)
THEOREM NoRequestSkipped == Spec => []AnsweredInTurn
  <1>1. Init => AnsweredInTurn
    BY ServerAssumption DEF Init, InitAs, AnsweredInTurn
  <1>2. ServerInv /\ AnsweredInTurn /\ [Next]_vars => AnsweredInTurn'
    BY AnsweredInTurnKept, NextIsAnyStep DEF ServerInv
  <1>. QED
    BY <1>1, <1>2, ServerInvHolds, PTL DEF Spec

-----------------------------------------------------------------------------
(* The ranks only go forward.                                              *)

(* The stages of a request, in the order a rank comes to them. *)
Stage(r) ==
  CASE pc[r] \in {"move", "unpark", "stop"}        -> 1
    [] pc[r] \in {"gather", "regather", "refuse"} -> 2
    [] pc[r] = "prepare"                          -> 3
    [] pc[r] \in {"check", "denoise"}             -> 4
    [] pc[r] = "report"                           -> 5
    [] pc[r] = "answer"                           -> 6
    [] pc[r] = "wait"                             -> 7
    [] pc[r] = "gone"                             -> 8
    [] OTHER                                      -> 9

(* In the fourth stage a rank looks at its flag and denoises, step by step. *)
Beat(r) == IF pc[r] = "denoise" THEN 2 * step[r] + 1 ELSE 2 * step[r]

Ahead(r) ==
  \/ jobNo'[r] > jobNo[r]
  \/ jobNo'[r] = jobNo[r] /\ Stage(r)' > Stage(r)
  \/ jobNo'[r] = jobNo[r] /\ Stage(r)' = Stage(r) /\ Beat(r)' > Beat(r)

Still(r) == jobNo'[r] = jobNo[r] /\ pc'[r] = pc[r] /\ step'[r] = step[r]

(* A step of the ranks takes one of them further through its requests, and none
   back. *)
OnlyForward ==
  [][Server => (\E r \in Ranks : Ahead(r)) /\ (\A r \in Ranks : Ahead(r) \/ Still(r))]_vars

LEMMA StepForward ==
  ASSUME Typing, Server
  PROVE  (\E r \in Ranks : Ahead(r)) /\ (\A r \in Ranks : Ahead(r) \/ Still(r))
  <1>a. /\ pc \in [Ranks -> Places] /\ jobNo \in [Ranks -> 0..MaxConns] /\ MaxConns \in Nat
        /\ step \in [Ranks -> 0..Steps] /\ Steps \in Nat /\ Out \in Ranks
    BY ServerAssumption DEF Typing, TypeOK
  <1>. USE <1>a
  (* One rank goes on. *)
  <1>1. ASSUME NEW r \in Ranks, Ahead(r), \A q \in Ranks \ {r} : Still(q)
        PROVE  (\E q \in Ranks : Ahead(q)) /\ (\A q \in Ranks : Ahead(q) \/ Still(q))
    BY <1>1
  <1>2. ASSUME NEW r \in Ranks, Take(r)
        PROVE  Ahead(r) /\ \A q \in Ranks \ {r} : Still(q)
    BY <1>2 DEF Take, Goto, Ahead, Still
  <1>3. ASSUME NEW r \in Ranks, Move(r) \/ MoveFails(r) \/ Refuse(r) \/ Unpark(r) \/ Decode(r) \/ Exit(r)
        PROVE  Ahead(r) /\ \A q \in Ranks \ {r} : Still(q)
    BY <1>3 DEF Move, AfterMove, MoveFails, Refuse, Unpark, Decode, Exit, Goto, Ahead, Still, Stage
  <1>4. ASSUME NEW r \in Ranks, Prepare(r)
        PROVE  Ahead(r) /\ \A q \in Ranks \ {r} : Still(q)
    BY <1>4 DEF Prepare, Goto, Ahead, Still, Stage
  <1>5. ASSUME NEW r \in Ranks, Check(r)
        PROVE  Ahead(r) /\ \A q \in Ranks \ {r} : Still(q)
    <2>1. CASE interrupt[r]
      <3>1. step' = [step EXCEPT ![r] = step[r] + 1] /\ pc' = pc /\ jobNo' = jobNo /\ pc[r] = "check"
        BY <1>5, <2>1 DEF Check
      <3>. QED
        BY <3>1 DEF Ahead, Still, Stage, Beat
    <2>2. CASE ~interrupt[r]
      <3>1. step' = step /\ pc' = [pc EXCEPT ![r] = "denoise"] /\ jobNo' = jobNo /\ pc[r] = "check"
        BY <1>5, <2>2 DEF Check, Goto
      <3>. QED
        BY <3>1 DEF Ahead, Still, Stage, Beat
    <2>. QED
      BY <2>1, <2>2
  <1>6. CASE AnswerControl \/ AnswerRun
    <2>1. Ahead(Out) /\ \A q \in Ranks \ {Out} : Still(q)
      BY <1>6 DEF AnswerControl, AnswerRun, Goto, Ahead, Still, Stage
    <2>. QED
      BY <1>1, <2>1
  (* All of them go on. *)
  <1>7. CASE Gather
    <2>1. \A r \in Ranks : Ahead(r)
      BY <1>7 DEF Gather, Done, Ahead, Stage
    <2>. QED
      BY <2>1
  <1>8. CASE Denoise
    <2>1. ASSUME NEW r \in Ranks PROVE Ahead(r)
      <3>1. pc[r] = "denoise" /\ pc'[r] = "check" /\ step'[r] = step[r] + 1 /\ jobNo' = jobNo
        BY <1>8 DEF Denoise
      <3>. QED
        BY <3>1 DEF Ahead, Stage, Beat
    <2>. QED
      BY <2>1
  <1>9. CASE TorchrunStops
    <2>1. ASSUME NEW r \in Ranks PROVE Ahead(r) \/ (pc[r] = "dead" /\ Still(r))
      BY <1>9 DEF TorchrunStops, Kill, Ahead, Still, Stage, Places
    <2>2. \E r \in Ranks : pc[r] # "dead"
      BY <1>9 DEF TorchrunStops
    <2>. QED
      BY <2>1, <2>2
  <1>10. CASE Accept
    BY <1>1, <1>2, <1>10 DEF Accept
  <1>11. ASSUME NEW r \in Ranks, RankStep(r)
         PROVE  (\E q \in Ranks : Ahead(q)) /\ (\A q \in Ranks : Ahead(q) \/ Still(q))
    BY <1>1, <1>2, <1>3, <1>4, <1>5, <1>11 DEF RankStep, Receive
  <1>. QED
    BY <1>6, <1>7, <1>8, <1>9, <1>10, <1>11 DEF Server, Collective

(* So, as the requests and their stages are finite, the ranks come to a stop; and
   RanksNeverStuck says where. *)
THEOREM RanksGoForward == Spec => OnlyForward
  <1>1. Typing => (Server => (\E r \in Ranks : Ahead(r)) /\ (\A r \in Ranks : Ahead(r) \/ Still(r)))
    BY StepForward
  <1>. QED
    BY <1>1, ServerInvHolds, PTL DEF OnlyForward, ServerInv
-----------------------------------------------------------------------------
(* Without refusals and cancels they always go on.                         *)

LEMMA NothingRefusedKept ==
  ASSUME Typing, OutServes, InStep, NothingRefused, [Next]_vars
  PROVE  NothingRefused'
  <1>a. conn \in Seq(Connections) /\ Len(conn) \in Nat /\ DOMAIN conn = 1..Len(conn) /\ DOMAIN conn' = 1..Len(conn')
    BY TypingInductive DEF Typing, TypeOK
  <1>. USE <1>a DEF NothingRefused
  <1>1. ASSUME NEW op \in Ops, Connect(op) PROVE NothingRefused'
    <2>1. /\ Len(conn') = Len(conn) + 1 /\ conn'[Len(conn) + 1].answer = "none"
          /\ \A i \in 1..Len(conn) : conn'[i] = conn[i]
      BY <1>1, ConnectedConn
    <2>2. \A c \in 1..Len(conn') : c \in 1..Len(conn) \/ c = Len(conn) + 1
      BY <2>1
    <2>. QED
      BY <2>1, <2>2
  <1>2. ASSUME NEW c \in DOMAIN conn, GiveUp(c) PROVE NothingRefused'
    <2>1. c \in 1..Len(conn) /\ Close(c)
      BY <1>2 DEF GiveUp
    <2>. QED
      BY <2>1, ClosedConn
  <1>3. CASE AnswerControl \/ AnswerRun
    <2>1. (conn' = conn \/ Answers("ok")) /\ jobNo[Out] \in 1..Len(conn)
      BY <1>3 DEF AnswerControl, AnswerRun, Answers, OutServes
    <2>. QED
      BY <2>1, AnsweredConn
  <1>4. ASSUME NEW r \in Ranks, Refuse(r) PROVE FALSE
    BY <1>4 DEF Refuse, InStep, OnItsOwn
  <1>5. ASSUME NEW q \in Ranks, Receive(q) \/ Move(q) \/ MoveFails(q) \/ Unpark(q) \/ Prepare(q)
                                \/ Check(q) \/ Decode(q) \/ Exit(q) \/ Signal(q) \/ RunFails(q)
        PROVE  NothingRefused'
    BY <1>5 DEF Receive, Take, Move, MoveFails, Unpark, Prepare, Check, Decode, Exit, Signal, RunFails
  <1>6. CASE Accept \/ Gather \/ Denoise \/ TorchrunStops \/ UNCHANGED vars
    BY <1>6 DEF Accept, Take, Gather, Denoise, Kill, TorchrunStops, vars
  <1>. QED
    BY <1>1, <1>2, <1>3, <1>4, <1>5, <1>6 DEF Next, Server, RankStep, Collective

(* Whatever clients give up and runs fail, the ranks of a worker that is there never
   stop before they have served every request: as long as no component fails to move
   and no run is cancelled, nothing tears them apart. *)
AlwaysGoOn ==
  ~Ended(Out) /\ (pc[Out] # "wait" \/ jobNo[Out] < Len(conn)) => CanGoOn

THEOREM RanksGoOn == Spec => ([]Undisturbed => []AlwaysGoOn)
  <1>1. Init => ParkedIsTrue /\ InStep /\ NothingRefused
    BY ServerAssumption
       DEF Init, InitAs, ParkedIsTrue, InStep, OnItsOwn, Request, Moving, Together, SideBySide,
           OneBehind, Progress, Idle, Restoring, Denoising, NothingRefused
  <1>2. Typing /\ ParkedIsTrue /\ InStep /\ [Next]_vars /\ Undisturbed'
          => ParkedIsTrue' /\ InStep'
    BY ParkedIsTrueInductive, InStepInductive
  <1>3. ServerInv /\ InStep /\ NothingRefused /\ [Next]_vars => NothingRefused'
    BY NothingRefusedKept DEF ServerInv
  <1>4. ServerInv /\ InStep /\ NothingRefused /\ NeverStuck => AlwaysGoOn
    <2>. SUFFICES ASSUME ServerInv, InStep, LeftAlone \/ CancelledApart PROVE FALSE
      BY DEF NeverStuck, AlwaysGoOn
    <2>a. Out \in Ranks /\ \A r \in Ranks : jobNo[r] \in Nat
      BY ServerAssumption DEF ServerInv, Typing, TypeOK
    <2>1. ~LeftAlone
      BY <2>a DEF LeftAlone, InStep, Together, SideBySide, Idle
    <2>2. ~CancelledApart
      <3>. SUFFICES ASSUME NEW r \in Ranks, NEW s \in Ranks, pc[r] = "denoise", pc[s] = "report"
                    PROVE  FALSE
        BY DEF CancelledApart
      <3>1. Together(r, s) /\ Together(s, r)
        BY DEF InStep
      <3>2. jobNo[r] = jobNo[s]
        BY <2>a, <3>1 DEF Together, OneBehind
      <3>3. step[r] = step[s]
        BY <3>1, <3>2 DEF Together, SideBySide, Progress, Denoising
      <3>4. step[r] < Steps /\ step[s] = Steps /\ Steps \in Nat
        BY ServerAssumption DEF ServerInv, Typing, InStep, OnItsOwn
      <3>. QED
        BY <3>3, <3>4
    <2>. QED
      BY <2>1, <2>2
  <1>. QED
    BY <1>1, <1>2, <1>3, <1>4, ServerInvHolds, RanksNeverStuck, PTL DEF Spec, ServerInv
=============================================================================
