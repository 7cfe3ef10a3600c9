---------------------------- MODULE SerialWorker ----------------------------
(***************************************************************************)
(* What a warm worker promises to the clients of its socket: it is one     *)
(* process with one pipeline.  It takes the connections in the order they  *)
(* came, one at a time, and answers a request only when the weights are    *)
(* where the request wants them, on every GPU.  It may refuse to move      *)
(* them; from then on it no longer promises where they are.                *)
(***************************************************************************)
EXTENDS Naturals, Sequences

CONSTANT MaxConns  \* bound: connections ever made

VARIABLES conn,     \* the connections, in the order they were made
          served,   \* how many of them were accepted
          busy,     \* the last of these is being served
          weights,  \* "gpu", "cpu", "moving", or "gone" with the worker
          alive

vars == <<conn, served, busy, weights, alive>>

(* Where a request wants the weights. *)
Wants(op) == IF op = "park" THEN "cpu" ELSE "gpu"

Wanted == Wants(conn[served].op)

NothingRefused == \A c \in DOMAIN conn : conn[c].answer # "error"

Connection(op) == [op |-> op, open |-> TRUE, answer |-> "none"]

Connect(op) ==
  /\ alive /\ Len(conn) < MaxConns
  /\ conn' = Append(conn, Connection(op))
  /\ UNCHANGED <<served, busy, weights, alive>>

(* The client closes its end. *)
GiveUp(c) ==
  /\ conn' = [conn EXCEPT ![c].open = FALSE]
  /\ UNCHANGED <<served, busy, weights, alive>>

Accept ==
  /\ alive /\ ~busy /\ served < Len(conn)
  /\ served' = served + 1 /\ busy' = TRUE
  /\ UNCHANGED <<conn, weights, alive>>

Move ==
  /\ alive
  /\ \/ NothingRefused /\ busy /\ weights' \in {"moving", Wanted}
     \/ ~NothingRefused /\ weights' \in {"moving", "gpu", "cpu"}
  /\ UNCHANGED <<conn, served, busy, alive>>

(* Nobody hears the answer when the client has gone. *)
Answer ==
  /\ alive /\ busy
  /\ conn[served].op # "shutdown" /\ (NothingRefused => weights = Wanted)
  /\ busy' = FALSE
  /\ conn' = IF conn[served].open THEN [conn EXCEPT ![served].answer = "ok"] ELSE conn
  /\ UNCHANGED <<served, weights, alive>>

Refuse ==
  /\ alive /\ busy
  /\ conn[served].op \in {"park", "restore"} /\ conn[served].open
  /\ busy' = FALSE
  /\ conn' = [conn EXCEPT ![served].answer = "error"]
  /\ UNCHANGED <<served, weights, alive>>

Stop ==
  /\ alive /\ alive' = FALSE
  /\ busy' = FALSE /\ weights' = "gone"
  /\ UNCHANGED <<conn, served>>

(* A worker that was adopted may be parked. *)
Init ==
  /\ conn = <<>> /\ served = 0 /\ busy = FALSE
  /\ weights \in {"gpu", "cpu"} /\ alive = TRUE

Next ==
  \/ \E op \in {"park", "restore", "run", "shutdown"} : Connect(op)
  \/ \E c \in DOMAIN conn : GiveUp(c)
  \/ Accept \/ Move \/ Answer \/ Refuse \/ Stop

Spec == Init /\ [][Next]_vars
=============================================================================
