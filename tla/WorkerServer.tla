---------------------------- MODULE WorkerServer ----------------------------
(***************************************************************************)
(* The ranks of one warm worker: worker_server.py under torchrun, with the *)
(* park and restore of xdit_ext/residency_park.py.                         *)
(*                                                                         *)
(* The output rank accepts a connection, reads its request and broadcasts  *)
(* it over a CPU group; every rank then carries it out on its own process  *)
(* and pipeline, and meets the others at the collectives on the way: the   *)
(* gathering of the memory statistics and every denoising step.  A rank    *)
(* leaves a collective only when all of them have come to it.  Loading,    *)
(* messages, outputs and statistics are left out.                          *)
(***************************************************************************)
EXTENDS Naturals, Sequences

CONSTANTS Ranks,
          Out,       \* the output rank: the last one, which owns the socket
          Steps,     \* denoising steps of a run
          MaxConns,  \* bound: connections ever made
          Faults     \* what may go wrong

ASSUME ServerAssumption ==
  /\ Out \in Ranks
  /\ Steps \in Nat /\ MaxConns \in Nat
  /\ Faults \subseteq {"giveup", "run", "move", "signal"}

Ops == {"park", "restore", "run", "shutdown"}

VARIABLES
  conn,      \* the connections in the order they were made
  jobNo,     \* rank -> how many requests it has received; for Out, accepted
  pc,        \* rank -> where it is
  parked,    \* rank -> its `parked` variable
  pipe,      \* rank -> where the components of its pipeline are
  interrupt, \* rank -> pipe._interrupt
  step       \* rank -> denoising steps behind it

vars == <<conn, jobNo, pc, parked, pipe, interrupt, step>>

Connections == [op : Ops, open : BOOLEAN, answer : {"none", "ok", "error"}]

Request(r) == conn[jobNo[r]].op

(* Nothing of the process is left; "gone" is a normal exit. *)
Ended(r) == pc[r] \in {"dead", "gone"}

Goto(r, label) == pc' = [pc EXCEPT ![r] = label]

-----------------------------------------------------------------------------
(* The clients of the socket. *)
Connect(op) ==
  /\ Len(conn) < MaxConns
  /\ ~Ended(Out)
  /\ conn' = Append(conn, [op |-> op, open |-> TRUE, answer |-> "none"])
  /\ UNCHANGED <<jobNo, pc, parked, pipe, interrupt, step>>

Close(c) ==
  /\ conn' = [conn EXCEPT ![c].open = FALSE]
  /\ UNCHANGED <<jobNo, pc, parked, pipe, interrupt, step>>

(* A client that is cancelled or out of time closes its connection. *)
GiveUp(c) ==
  /\ "giveup" \in Faults
  /\ conn[c].open /\ conn[c].answer = "none"
  /\ Close(c)

-----------------------------------------------------------------------------
(* Bug: a run does not look whether the pipeline is parked. *)
FirstStepUnlooked(r, op) ==
  CASE op = "shutdown"          -> "stop"
    [] op \in {"park", "restore"} -> "move"
    [] op = "run"               -> "prepare"

(* The branch of the loop a request takes. *)
FirstStep(r, op) ==
  CASE op = "shutdown"          -> "stop"
    [] op \in {"park", "restore"} -> "move"
    [] op = "run"               -> IF parked[r] THEN "unpark" ELSE "prepare"

Take(r) ==
  /\ pc[r] = "wait"
  /\ jobNo' = [jobNo EXCEPT ![r] = @ + 1]
  /\ Goto(r, FirstStep(r, conn[jobNo[r] + 1].op))
  /\ UNCHANGED <<conn, parked, pipe, interrupt, step>>

(* accept, _read_message, _broadcast_job: the request before has reached every
   rank when the next one is broadcast. *)
Accept ==
  /\ jobNo[Out] < Len(conn)
  /\ \A r \in Ranks : jobNo[r] = jobNo[Out]
  /\ Take(Out)

(* The other ranks wait in the broadcast. *)
Receive(r) ==
  /\ r # Out
  /\ jobNo[r] < jobNo[Out]
  /\ Take(r)

-----------------------------------------------------------------------------
(* Bug: only the rank that answers knows that it is parked. *)
ParkedAtOut(r) == IF r = Out THEN Request(r) = "park" ELSE parked[r]

(* The `parked` flag after a park or a restore. *)
ParkedAfter(r) == Request(r) = "park"

(* Bug: only the rank that reports the statistics gathers them. *)
GatherAtOut(r) == IF r = Out THEN "gather" ELSE "wait"

(* Bug: the answer does not wait for the other ranks. *)
AnswerAtOnce(r) == IF r = Out THEN "answer" ELSE "gather"

AfterMove(r) == "gather"

Target(r) == IF Request(r) = "park" THEN "cpu" ELSE "gpu"

(* park_runner or restore_runner, in _handle_control. *)
Move(r) ==
  /\ pc[r] = "move"
  /\ pipe' = [pipe EXCEPT ![r] = Target(r)]
  /\ parked' = [parked EXCEPT ![r] = ParkedAfter(r)]
  /\ Goto(r, AfterMove(r))
  /\ UNCHANGED <<conn, jobNo, interrupt, step>>

(* A component does not fit, and those before it, if any, have been moved; or the
   pipeline was moved as a whole, which park_runner takes for no component. *)
MoveFails(r) ==
  /\ "move" \in Faults
  /\ pc[r] = "move"
  /\ \E place \in {pipe[r], "mixed", Target(r)} : pipe' = [pipe EXCEPT ![r] = place]
  /\ Goto(r, "refuse")
  /\ UNCHANGED <<conn, jobNo, parked, interrupt, step>>

(* The place of a rank when a request is done. *)
Done(r) == IF r = Out THEN "answer" ELSE "wait"

(* _gather_memory_stats, one and the same collective wherever a rank calls it: of
   a park or a restore, of the restore before a run, and of a run. *)
Gather ==
  /\ \A r \in Ranks : pc[r] \in {"gather", "regather", "report"}
  /\ pc' = [r \in Ranks |-> IF pc[r] = "regather" THEN "prepare" ELSE Done(r)]
  /\ UNCHANGED <<conn, jobNo, parked, pipe, interrupt, step>>

(* The `except` of _handle_control. *)
Refuse(r) ==
  /\ pc[r] = "refuse"
  /\ IF r = Out /\ ~conn[jobNo[r]].open
     THEN Goto(r, "dead") /\ UNCHANGED conn
     ELSE /\ Goto(r, "wait")
          /\ conn' = IF r = Out THEN [conn EXCEPT ![jobNo[r]].answer = "error"] ELSE conn
  /\ UNCHANGED <<jobNo, parked, pipe, interrupt, step>>

(* The answer of a park or a restore.  Nobody is there to read it: the write
   raises, the `except` writes again, and that leaves the loop. *)
AnswerControl ==
  /\ pc[Out] = "answer" /\ Request(Out) \in {"park", "restore"}
  /\ IF conn[jobNo[Out]].open
     THEN Goto(Out, "wait") /\ conn' = [conn EXCEPT ![jobNo[Out]].answer = "ok"]
     ELSE Goto(Out, "dead") /\ UNCHANGED conn
  /\ UNCHANGED <<jobNo, parked, pipe, interrupt, step>>

-----------------------------------------------------------------------------
(* A run on a parked pipeline restores it first. *)
Unpark(r) ==
  /\ pc[r] = "unpark"
  /\ pipe' = [pipe EXCEPT ![r] = "gpu"]
  /\ parked' = [parked EXCEPT ![r] = FALSE]
  /\ Goto(r, "regather")
  /\ UNCHANGED <<conn, jobNo, interrupt, step>>

(* Bug: a run does not clear the flag of the one before. *)
PrepareAsIs(r) ==
  /\ pc[r] = "prepare"
  /\ step' = [step EXCEPT ![r] = 0]
  /\ Goto(r, "check")
  /\ UNCHANGED <<conn, jobNo, parked, pipe, interrupt>>

(* maybe_refresh_step_cache, preprocess_run, and pipe._interrupt = False. *)
Prepare(r) ==
  /\ pc[r] = "prepare"
  /\ interrupt' = [interrupt EXCEPT ![r] = FALSE]
  /\ step' = [step EXCEPT ![r] = 0]
  /\ Goto(r, "check")
  /\ UNCHANGED <<conn, jobNo, parked, pipe>>

(* The pipeline looks at its flag before each step; without the flag it joins
   the collectives of the step, with it, it skips the step. *)
Check(r) ==
  /\ pc[r] = "check" /\ step[r] < Steps
  /\ IF interrupt[r]
     THEN step' = [step EXCEPT ![r] = @ + 1] /\ UNCHANGED pc
     ELSE Goto(r, "denoise") /\ UNCHANGED step
  /\ UNCHANGED <<conn, jobNo, parked, pipe, interrupt>>

Denoise ==
  /\ \A r \in Ranks : pc[r] = "denoise"
  /\ pc' = [r \in Ranks |-> "check"]
  /\ step' = [r \in Ranks |-> step[r] + 1]
  /\ UNCHANGED <<conn, jobNo, parked, pipe, interrupt>>

(* The `finally` of xdit_adapter.run. *)
Decode(r) ==
  /\ pc[r] = "check" /\ step[r] = Steps
  /\ interrupt' = [interrupt EXCEPT ![r] = FALSE]
  /\ Goto(r, "report")
  /\ UNCHANGED <<conn, jobNo, parked, pipe, step>>

(* The result of a run; a client that has gone does not matter. *)
AnswerRun ==
  /\ pc[Out] = "answer" /\ Request(Out) = "run"
  /\ Goto(Out, "wait")
  /\ conn' = IF conn[jobNo[Out]].open THEN [conn EXCEPT ![jobNo[Out]].answer = "ok"] ELSE conn
  /\ UNCHANGED <<jobNo, parked, pipe, interrupt, step>>

-----------------------------------------------------------------------------
(* SIGUSR1, whose handler (_interrupt_run) runs wherever the rank is. *)
Signal(r) ==
  /\ "signal" \in Faults
  /\ ~Ended(r)
  /\ interrupt' = [interrupt EXCEPT ![r] = TRUE]
  /\ UNCHANGED <<conn, jobNo, pc, parked, pipe, step>>

(* An exception in a run, or in the restore before it, ends the rank. *)
RunFails(r) ==
  /\ "run" \in Faults
  /\ pc[r] \in {"unpark", "prepare", "denoise"}
  /\ Goto(r, "dead")
  /\ UNCHANGED <<conn, jobNo, parked, pipe, interrupt, step>>

Exit(r) ==
  /\ pc[r] = "stop"
  /\ Goto(r, "gone")
  /\ UNCHANGED <<conn, jobNo, parked, pipe, interrupt, step>>

Kill ==
  /\ pc' = [r \in Ranks |-> "dead"]
  /\ UNCHANGED <<conn, jobNo, parked, pipe, interrupt, step>>

(* torchrun: a rank that fails takes the others with it. *)
TorchrunStops ==
  /\ \E r \in Ranks : pc[r] = "dead"
  /\ \E r \in Ranks : pc[r] # "dead"
  /\ Kill

-----------------------------------------------------------------------------
(* Waiting for a request, with the pipeline parked or not. *)
InitAs(away) ==
  /\ conn = <<>>
  /\ jobNo = [r \in Ranks |-> 0]
  /\ pc = [r \in Ranks |-> "wait"]
  /\ parked = [r \in Ranks |-> away]
  /\ pipe = [r \in Ranks |-> IF away THEN "cpu" ELSE "gpu"]
  /\ interrupt = [r \in Ranks |-> FALSE]
  /\ step = [r \in Ranks |-> 0]

Init == InitAs(FALSE)

Collective == Gather \/ Denoise

RankStep(r) ==
  \/ Receive(r) \/ Move(r) \/ MoveFails(r) \/ Refuse(r)
  \/ Unpark(r) \/ Prepare(r) \/ Check(r) \/ Decode(r) \/ Exit(r)

Server ==
  \/ Accept \/ AnswerControl \/ AnswerRun \/ Collective \/ TorchrunStops
  \/ \E r \in Ranks : RankStep(r)

Next ==
  \/ \E op \in Ops : Connect(op)
  \/ \E c \in DOMAIN conn : GiveUp(c)
  \/ Server
  \/ \E r \in Ranks : Signal(r) \/ RunFails(r)

Spec == Init /\ [][Next]_vars

(* The ranks are processes of their own: none that can go on stands still. *)
FairServer ==
  /\ WF_vars(Accept) /\ WF_vars(AnswerControl) /\ WF_vars(AnswerRun)
  /\ WF_vars(Collective) /\ WF_vars(TorchrunStops)
  /\ \A r \in Ranks : WF_vars(RankStep(r))

FairSpec == Spec /\ FairServer

-----------------------------------------------------------------------------
Places == {"wait", "move", "gather", "refuse", "answer", "unpark", "regather", "prepare",
           "check", "denoise", "report", "stop", "dead", "gone"}

(* Every variable holds what the code could hold there, and no rank has received
   more requests than were accepted. *)
TypeOK ==
  /\ conn \in Seq(Connections) /\ Len(conn) <= MaxConns
  /\ jobNo \in [Ranks -> 0..MaxConns]
  /\ jobNo[Out] <= Len(conn) /\ \A r \in Ranks : jobNo[r] <= jobNo[Out]
  /\ pc \in [Ranks -> Places]
  /\ parked \in [Ranks -> BOOLEAN]
  /\ pipe \in [Ranks -> {"gpu", "cpu", "mixed"}]
  /\ interrupt \in [Ranks -> BOOLEAN]
  /\ step \in [Ranks -> 0..Steps]

AtCollective == {"gather", "regather", "denoise", "report"}

(* No cancel has reached a rank, and no component fails to move. *)
Undisturbed == \A r \in Ranks : ~interrupt[r] /\ pc[r] # "refuse"

InOneCollective ==
  \A r, s \in Ranks :
    pc[r] \in AtCollective /\ pc[s] \in AtCollective => pc[r] = pc[s]

(* Two ranks never wait in different collectives, where neither could ever
   leave: every rank takes the same branches of main, whose conditions it evaluates
   on variables of its own.  Clients that give up and runs that fail do not change
   it; a cancel and a refusal do (CancelledApart, LeftAlone). *)
NoCrossedCollectives == []Undisturbed => []InOneCollective

NothingRefused == \A c \in DOMAIN conn : conn[c].answer # "error"

(* A denoising step only ever runs on a pipeline that is on its GPU, however
   parks, restores and runs followed each other (main: `if parked`), unless the
   output rank has refused one. *)
RunsOnTheGpu ==
  NothingRefused => \A r \in Ranks : pc[r] = "denoise" => pipe[r] = "gpu"

(* The weights are where the last answer says, on every rank and not only on the
   one that answers, also when another rank could not move them or the run was cut
   short; unless the output rank has refused a request (_gather_memory_stats comes
   before the answer). *)
AnswersAreTrue ==
  LET c == jobNo[Out] IN
    /\ NothingRefused
    /\ pc[Out] = "wait" /\ c # 0 /\ conn[c].answer = "ok"
    => \A r \in Ranks : pipe[r] = IF conn[c].op = "park" THEN "cpu" ELSE "gpu"

(* Some rank can take its next step: the guards of the actions of Server. *)
CanGoOn ==
  \/ \E r \in Ranks : pc[r] \in {"move", "refuse", "unpark", "prepare", "check", "stop"}
  \/ \E r \in Ranks \ {Out} : pc[r] = "wait" /\ jobNo[r] < jobNo[Out]
  \/ pc[Out] = "answer" /\ Request(Out) # "shutdown"
  \/ pc[Out] = "wait" /\ jobNo[Out] < Len(conn) /\ \A r \in Ranks : jobNo[r] = jobNo[Out]
  \/ \A r \in Ranks : pc[r] \in {"gather", "regather", "report"}
  \/ \A r \in Ranks : pc[r] = "denoise"
  \/ (\E r \in Ranks : pc[r] = "dead") /\ (\E r \in Ranks : pc[r] # "dead")

(* A rank could not move its weights: it is back in the loop, and the output rank
   waits for it in the gathering of the statistics. *)
LeftAlone ==
  /\ pc[Out] = "gather"
  /\ \E r \in Ranks : pc[r] = "wait" /\ jobNo[r] = jobNo[Out]

(* A signal reached one rank before a step and another one after its last check of
   the flag: the ranks have made a different number of steps. *)
CancelledApart ==
  \E r, s \in Ranks : pc[r] = "denoise" /\ pc[s] = "report"

(* The ranks do not wait for one another in a circle: with a request to serve, one of
   them can go on, whatever fails, clients that go and cancels.  But for the two ways
   they are known to be torn apart, out of which only a client that kills them helps
   (_wait_for_cooperative_cancel), and what follows on a refused request. *)
NeverStuck ==
  /\ ~Ended(Out) /\ NothingRefused
  /\ pc[Out] # "wait" \/ jobNo[Out] < Len(conn)
  => CanGoOn \/ LeftAlone \/ CancelledApart

(* A request that was accepted is answered, unless its client has gone away or
   the worker has ended, also when runs fail and are cancelled; as long as every
   component moves and the cancel has not torn the ranks apart. *)
EveryRequestEnds ==
  []((\A r \in Ranks : pc[r] # "refuse") /\ ~CancelledApart) =>
    \A c \in 1..MaxConns :
      jobNo[Out] = c ~> \/ Ended(Out)
                        \/ c \in DOMAIN conn /\ (conn[c].answer # "none" \/ ~conn[c].open)

(* Where the weights are, if they are all in one place. *)
Weights ==
  IF Ended(Out) THEN "gone"
  ELSE IF \A r \in Ranks : pipe[r] = "gpu" THEN "gpu"
  ELSE IF \A r \in Ranks : pipe[r] = "cpu" THEN "cpu" ELSE "moving"

(* The ranks are together one worker. *)
Serial == INSTANCE SerialWorker WITH
  served  <- jobNo[Out],
  busy    <- pc[Out] # "wait" /\ ~Ended(Out),
  weights <- Weights,
  alive   <- ~Ended(Out)

(* A client sees what a single process with a single pipeline would show it,
   whatever fails: one request at a time in the order of the connections, and no
   answer before every rank has moved its weights (_gather_memory_stats comes before
   the answer), as long as the output rank has refused none. *)
OneSerialWorker == Serial!Spec
=============================================================================
