----------------------------- MODULE WorkerPool -----------------------------
(***************************************************************************)
(* What worker.py promises of the workers of all Model nodes, whichever    *)
(* threads, files and ComfyUI processes have them in hand: a Model node    *)
(* has one worker at a time, made for one configuration and never made     *)
(* over; a Sample runs on the worker it asks for; an Unload is answered    *)
(* when the workers it found are gone; and the end of ComfyUI ends no      *)
(* worker.                                                                 *)
(***************************************************************************)
CONSTANTS Ids,      \* of workers
          Loaders,  \* Model nodes
          Keys,     \* what a worker can be configured with
          Clients   \* who may ask for an Unload

VARIABLES ever,  \* the ids that have been used
          live,  \* the workers that are alive
          run,   \* the worker of the Sample under way, as the Sample asks for it
          owed   \* client -> ids of the workers its Unload is to free

vars == <<ever, live, run, owed>>

Worker(id, l, k) == [id |-> id, loader |-> l, key |-> k]

WorkersOf(l) == {w \in live : w.loader = l}

(* A model is loaded where none is, and not while a Sample runs. *)
Start(id, l, k) ==
  /\ id \notin ever
  /\ WorkersOf(l) = {} /\ run = {}
  /\ ever' = ever \cup {id}
  /\ live' = live \cup {Worker(id, l, k)}
  /\ UNCHANGED <<run, owed>>

(* A worker may end at any time, on request or by itself, and never comes back. *)
End(W) ==
  /\ live' = live \ W
  /\ UNCHANGED <<ever, run, owed>>

Give(w) ==
  /\ run = {}
  /\ run' = {w}
  /\ UNCHANGED <<ever, live, owed>>

(* A Sample that is aborted takes its worker with it, and no other. *)
Finish(w, W) ==
  /\ run = {w} /\ run' = {}
  /\ live' = live \ W
  /\ UNCHANGED <<ever, owed>>

Unload(c, L) ==
  /\ owed[c] = {}
  /\ owed' = [owed EXCEPT ![c] = {w.id : w \in UNION {WorkersOf(l) : l \in L}}]
  /\ UNCHANGED <<ever, live, run>>

Answer(c) ==
  /\ \A w \in live : w.id \notin owed[c]
  /\ owed' = [owed EXCEPT ![c] = {}]
  /\ UNCHANGED <<ever, live, run>>

(* ComfyUI ends, with its Sample and the requests it has taken. *)
ComfyUIEnds ==
  /\ run' = {} /\ owed' = [c \in Clients |-> {}]
  /\ UNCHANGED <<ever, live>>

Init == ever = {} /\ live = {} /\ run = {} /\ owed = [c \in Clients |-> {}]

Next ==
  \/ \E id \in Ids, l \in Loaders, k \in Keys : Start(id, l, k)
  \/ \E W \in SUBSET live : End(W)
  \/ \E w \in live : Give(w)
  \/ \E w \in run : \E W \in SUBSET WorkersOf(w.loader) : Finish(w, W)
  \/ \E c \in Clients, L \in SUBSET Loaders : Unload(c, L)
  \/ \E c \in Clients : Answer(c)
  \/ ComfyUIEnds

Spec == Init /\ [][Next]_vars
=============================================================================
