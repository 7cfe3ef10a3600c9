---------------------------- MODULE WorkerClient ----------------------------
(***************************************************************************)
(* ComfyUI's end of one warm worker, in xdit_comfyui/worker.py, with the   *)
(* ranks of WorkerServer at the other end of the socket.                   *)
(*                                                                         *)
(* The prompt executor restores a parked worker for a Model node           *)
(* (_ensure_loader_worker) or for a Sample (_get_or_create_distributed_    *)
(* worker, under REGISTRY.lock), sends it the run and waits, parks it when *)
(* the policy says so, and is cancelled or out of time on the way.  One    *)
(* API thread unloads it meanwhile.  A worker that has ended is not        *)
(* started again here: that is LoaderLifecycle.                            *)
(***************************************************************************)
EXTENDS Naturals, Sequences

CONSTANTS Ranks, Out, Steps, MaxConns, Faults,  \* see WorkerServer
          MaxCancels  \* bound: how often the user cancels

ASSUME ClientAssumption ==
  /\ Out \in Ranks
  /\ Steps \in Nat /\ MaxConns \in Nat /\ MaxCancels \in Nat
  /\ Faults \subseteq {"giveup", "run", "move", "signal"}

VARIABLES
  conn, jobNo, pc, parked, pipe, interrupt, step,  \* the worker
  adopted,   \* an earlier ComfyUI started it: entry["proc"] is a _ProcRef
  entry,     \* it is in REGISTRY.workers
  state,     \* entry["residency_state"]
  at,        \* the executor's place
  for,       \* what it does: "none", "model" or "sample"
  mine,      \* the connection it waits on, or 0
  toSignal,  \* the ranks it has still to send SIGUSR1
  outcome,   \* of the last Sample
  api,       \* the API thread's place
  cancels,   \* bound: cancels so far
  cancel,    \* the user has cancelled, and no check has raised it yet
  stopped    \* history: runs that ComfyUI has asked the ranks to cut short

serverVars == <<conn, jobNo, pc, parked, pipe, interrupt, step>>
callVars   == <<at, for, mine, toSignal, outcome>>
entryVars  == <<adopted, entry, state>>
restVars   == <<api, cancels, cancel, stopped>>
clientVars == <<callVars, entryVars, restVars>>
vars == <<serverVars, clientVars>>

Worker == INSTANCE WorkerServer

Ended == \A r \in Ranks : Worker!Ended(r)
NobodyListens == Worker!Ended(Out)

(* REGISTRY.lock is held while a Sample restores the worker it has found. *)
LockHeld == at = "restore" /\ for = "sample"

(* The bound on connections never stops a client halfway. *)
Room(n) == Len(conn) + n < MaxConns

Answered == mine # 0 /\ conn[mine].answer # "none"
AnsweredWith(answer) == mine # 0 /\ conn[mine].answer = answer

(* The connection is closed, by its end or by a worker that has ended. *)
Broken == ~Answered /\ NobodyListens

-----------------------------------------------------------------------------
(* The executor goes on within the node, its connection behind it. *)
Proceed(place) ==
  /\ at' = place /\ mine' = 0
  /\ UNCHANGED <<for, toSignal, outcome>>

(* The node is over. *)
Finish(result) ==
  /\ at' = "idle" /\ for' = "none" /\ mine' = 0 /\ toSignal' = {}
  /\ outcome' = IF for = "sample" THEN result ELSE outcome

(* conn.connect and _socket_write_json, for a caller that goes on to wait. *)
Send(op, place) ==
  /\ Worker!Connect(op)
  /\ at' = place /\ mine' = Len(conn) + 1
  /\ UNCHANGED <<toSignal, outcome>>

(* A Model node whose worker is alive restores it when it is parked, and does
   not mind when that fails. *)
ModelNode ==
  /\ at = "idle" /\ entry /\ ~NobodyListens /\ Room(1)
  /\ state = "parked"
  /\ for' = "model"
  /\ Send("restore", "restore")
  /\ UNCHANGED <<entryVars, restVars>>

(* A Sample finds its worker alive in the registry and, when it is parked,
   restores it first. *)
Sample ==
  /\ at = "idle" /\ entry /\ ~Ended /\ Room(3)
  /\ for' = "sample"
  /\ \/ /\ state # "parked"
        /\ at' = "run" /\ UNCHANGED <<serverVars, mine, toSignal, outcome>>
     \/ /\ state = "parked" /\ ~NobodyListens
        /\ Send("restore", "restore")
     \/ /\ state = "parked" /\ NobodyListens
        /\ at' = "evict" /\ UNCHANGED <<serverVars, mine, toSignal, outcome>>
  /\ UNCHANGED <<entryVars, restVars>>

(* Bug: the registry is not told. *)
StateKept == state

(* _set_worker_residency_state finds no entry once an Unload has taken it. *)
StateAfterRestore == IF entry THEN "warm" ELSE state

(* _restore_loader_worker has its answer. *)
Restored ==
  /\ at = "restore" /\ AnsweredWith("ok")
  /\ state' = StateAfterRestore
  /\ IF for = "sample" THEN Proceed("run") ELSE Finish("ok")
  /\ UNCHANGED <<serverVars, adopted, entry, restVars>>

(* Bug: a worker that ends while it restores goes unnoticed. *)
RestoreRefused == AnsweredWith("error")

RestoreFailed == AnsweredWith("error") \/ Broken

(* `_restore_loader_worker` returns False; a Sample then replaces the worker. *)
NotRestored ==
  /\ at = "restore" /\ RestoreFailed
  /\ IF for = "sample" THEN Proceed("evict") ELSE Finish("error")
  /\ UNCHANGED <<serverVars, entryVars, restVars>>

(* _raise_if_interrupted while a park or a restore is under way.  It leaves the
   node, or `except Exception` takes it for a failure, as the class of ComfyUI's
   exception has it. *)
ControlCancelled ==
  /\ at \in {"restore", "park"} /\ cancel
  /\ cancel' = FALSE
  /\ Worker!Close(mine)
  /\ \/ Finish("cancelled")
     \/ IF LockHeld THEN Proceed("evict")
        ELSE Finish(IF at = "park" THEN outcome ELSE "error")
  /\ UNCHANGED <<entryVars, api, cancels, stopped>>

(* A worker that was not restored is popped, shut down and waited for, and
   another one takes its place; _shutdown_distributed_worker in one step. *)
Evict ==
  /\ at = "evict"
  /\ entry' = FALSE
  /\ Worker!Kill
  /\ Finish("replaced")
  /\ UNCHANGED <<adopted, state, restVars>>

-----------------------------------------------------------------------------
(* _run_distributed_worker_locked connects and sends the run. *)
SendRun ==
  /\ at = "run"
  /\ IF NobodyListens THEN Finish("error") /\ UNCHANGED serverVars
                      ELSE Send("run", "wait") /\ UNCHANGED for
  /\ UNCHANGED <<entryVars, restVars>>

(* The wait for the answer is over; demote_loader_after_run comes next, or,
   when the worker has to go, _abort_distributed_worker before it. *)
Leave(place, result) ==
  /\ at' = place /\ outcome' = result
  /\ UNCHANGED <<serverVars, entryVars, for, mine, toSignal>>

RunAnswered ==
  /\ at = "wait" /\ Answered
  /\ Leave("demote", "ok")
  /\ UNCHANGED restVars

RunBroken ==
  /\ at = "wait" /\ Broken
  /\ Leave("demote", "error")
  /\ UNCHANGED restVars

(* Past the deadline, which is looked at before the answer. *)
RunTimesOut ==
  /\ at = "wait"
  /\ Leave("abort", "timeout")
  /\ UNCHANGED restVars

(* _raise_if_interrupted in the wait.  Only a worker of this ComfyUI is asked to
   stop by itself, and only while the tracker, which follows the worker's log,
   takes it to be denoising. *)
RunCancelled ==
  /\ at = "wait" /\ cancel
  /\ cancel' = FALSE
  /\ \/ Leave("abort", "cancelled") /\ UNCHANGED stopped
     \/ /\ ~adopted
        /\ toSignal' = {r \in Ranks : ~Worker!Ended(r)} /\ toSignal' # {}
        /\ at' = "signal" /\ outcome' = "cancelled"
        /\ stopped' = stopped \cup {mine}
        /\ UNCHANGED <<serverVars, entryVars, for, mine>>
  /\ UNCHANGED <<api, cancels>>

(* _interrupt_distributed_worker: one rank after the other; a rank that has
   ended raises, and the worker is killed. *)
SignalRank(r) ==
  /\ at = "signal" /\ r \in toSignal
  /\ IF Worker!Ended(r)
     THEN at' = "abort" /\ UNCHANGED <<serverVars, toSignal>>
     ELSE Worker!Signal(r) /\ toSignal' = toSignal \ {r} /\ UNCHANGED at
  /\ UNCHANGED <<entryVars, for, mine, outcome, restVars>>

(* Bug: a second is enough for any run to stop. *)
NoLongerWait == "demote"

(* Nothing to read for a second: the worker is killed. *)
WhenSilent == "abort"

(* _wait_for_cooperative_cancel: an answer, or the end of the connection. *)
WaitToStop ==
  /\ at = "signal" /\ toSignal = {}
  /\ at' = IF Answered \/ NobodyListens THEN "demote" ELSE WhenSilent
  /\ UNCHANGED <<serverVars, entryVars, for, mine, toSignal, outcome, restVars>>

Abort ==
  /\ at = "abort"
  /\ Worker!Kill
  /\ entry' = FALSE
  /\ Proceed("demote")
  /\ UNCHANGED <<adopted, state, restVars>>

(* demote_loader_after_run: keep, or park what is not parked. *)
Demote ==
  /\ at = "demote"
  /\ \/ Finish(outcome) /\ UNCHANGED serverVars
     \/ /\ entry /\ state # "parked" /\ ~NobodyListens
        /\ Send("park", "park") /\ UNCHANGED for
  /\ UNCHANGED <<entryVars, restVars>>

ParkAnswered ==
  /\ at = "park" /\ (Answered \/ Broken)
  /\ state' = IF AnsweredWith("ok") /\ entry THEN "parked" ELSE state
  /\ Finish(outcome)
  /\ UNCHANGED <<serverVars, adopted, entry, restVars>>

-----------------------------------------------------------------------------
(* The user, who cancels only what is running. *)
Cancel ==
  /\ at # "idle" /\ ~cancel /\ cancels < MaxCancels
  /\ cancel' = TRUE /\ cancels' = cancels + 1
  /\ UNCHANGED <<serverVars, callVars, entryVars, api, stopped>>

(* A prompt that starts clears a cancel nobody has raised. *)
NextPrompt ==
  /\ at = "idle" /\ cancel
  /\ cancel' = FALSE
  /\ UNCHANGED <<serverVars, callVars, entryVars, api, cancels, stopped>>

(* /xdit/loader/clear: _evict_loader_worker takes the entry out ... *)
Unload ==
  /\ api = "idle" /\ ~LockHeld /\ entry
  /\ entry' = FALSE
  /\ api' = "send"
  /\ UNCHANGED <<serverVars, callVars, adopted, state, cancels, cancel, stopped>>

(* ... and _shutdown_distributed_worker asks the worker to stop, ... *)
UnloadSend ==
  /\ api = "send"
  /\ IF NobodyListens THEN UNCHANGED serverVars ELSE Worker!Connect("shutdown")
  /\ api' = "wait"
  /\ UNCHANGED <<callVars, entryVars, cancels, cancel, stopped>>

(* ... and waits for it, for 30 s at most. *)
UnloadWait ==
  /\ api = "wait"
  /\ IF Ended THEN UNCHANGED serverVars ELSE Worker!Kill
  /\ api' = "done"
  /\ UNCHANGED <<callVars, entryVars, cancels, cancel, stopped>>

-----------------------------------------------------------------------------
(* A worker this ComfyUI has started, or one it has adopted: that one may be
   parked, which the new entry does not say (_try_adopt_orphan_worker). *)
Init ==
  /\ adopted \in BOOLEAN
  /\ \E away \in {FALSE, adopted} : Worker!InitAs(away)
  /\ entry = TRUE /\ state = "warm"
  /\ at = "idle" /\ for = "none" /\ mine = 0
  /\ toSignal = {} /\ outcome = "none" /\ api = "idle"
  /\ cancels = 0 /\ cancel = FALSE /\ stopped = {}

ServerStep == Worker!Server /\ UNCHANGED clientVars

RankFails == (\E r \in Ranks : Worker!RunFails(r)) /\ UNCHANGED clientVars

ExecutorStep ==
  \/ Restored \/ NotRestored \/ ControlCancelled \/ Evict
  \/ SendRun \/ RunAnswered \/ RunBroken \/ RunTimesOut \/ RunCancelled
  \/ \E r \in Ranks : SignalRank(r)
  \/ WaitToStop \/ Abort \/ Demote \/ ParkAnswered

Next ==
  \/ ModelNode \/ Sample \/ ExecutorStep
  \/ Cancel \/ NextPrompt \/ Unload \/ UnloadSend \/ UnloadWait
  \/ ServerStep \/ RankFails

Spec == Init /\ [][Next]_vars

(* The executor's thread runs, every wait of a run has its deadline, and the
   ranks run; nobody has to cancel or unload. *)
FairSpec == Spec /\ WF_vars(ExecutorStep) /\ Worker!FairServer

-----------------------------------------------------------------------------
(* Every variable holds what the code could hold there; the executor waits on a
   connection exactly where it has one that is its own. *)
TypeOK ==
  /\ Worker!TypeOK
  /\ adopted \in BOOLEAN /\ entry \in BOOLEAN
  /\ state \in {"warm", "parked"}
  /\ at \in {"idle", "restore", "evict", "run", "wait", "signal", "abort", "demote", "park"}
  /\ for \in {"none", "model", "sample"}
  /\ (for = "none") = (at = "idle")
  /\ mine \in 0..Len(conn)
  /\ at \in {"restore", "wait", "signal", "park"} => mine # 0
  /\ toSignal \subseteq Ranks
  /\ outcome \in {"none", "ok", "error", "timeout", "cancelled", "replaced"}
  /\ api \in {"idle", "send", "wait", "done"}
  /\ cancels \in 0..MaxCancels /\ cancel \in BOOLEAN
  /\ stopped \subseteq 1..Len(conn)

(* A cancel never cuts short another run than the one it was meant for, however
   late the signal reaches a rank (`pipe._interrupt = False` before a run); unless
   the worker has refused to park or to restore, after which a rank may still be at
   a run that the output rank has long answered. *)
NoStaleInterrupt ==
  Worker!NothingRefused =>
    \A r \in Ranks :
      pc[r] = "check" /\ step[r] < Steps /\ interrupt[r] => jobNo[r] \in stopped

(* ComfyUI turns to the next node only when its worker is dead or has nothing
   left of the runs it was sent: the next run never waits behind a cancelled or
   timed out one (_run_distributed_worker_locked). *)
NoRunLeftBehind ==
  at = "idle" /\ ~NobodyListens =>
    \A c \in DOMAIN conn : conn[c].op = "run" => conn[c].answer # "none"

(* A worker that the registry says is parked holds no weights on its GPUs, on any
   rank, unless a park or a restore was refused or cancelled halfway
   (_set_worker_residency_state follows the answer). *)
ParkedMeansFreed ==
  /\ at = "idle" /\ entry /\ state = "parked" /\ ~NobodyListens
  /\ Worker!NothingRefused /\ \A c \in DOMAIN conn : conn[c].open
  => \A r \in Ranks : pipe[r] = "cpu" /\ parked[r]

(* A run on a worker found parked, adopted with an entry that says warm, or
   unloaded meanwhile is denoised where the weights are, unless the worker has
   refused to park or to restore (main: `if parked`). *)
DenoisedOnTheGpu == Worker!RunsOnTheGpu

(* A node that waits for a park or a restore, which has no deadline, waits for ranks
   that can still go on to answer it: no cancelled run, Unload or failing rank before
   it has left them waiting for one another (_worker_control_response). *)
WaitsCanEnd ==
  /\ at \in {"restore", "park"} /\ ~Answered /\ ~NobodyListens
  /\ Worker!NothingRefused
  => Worker!CanGoOn \/ Worker!LeftAlone

(* Whatever happens to the worker, and whenever the user cancels or unloads it,
   the executor is never kept in a node for ever, unless a rank fails to move its
   weights: a park or a restore waits for its answer without a deadline
   (_worker_control_response). *)
NodesEnd ==
  [](\A r \in Ranks : pc[r] # "refuse") => (at # "idle" ~> at = "idle")
=============================================================================
