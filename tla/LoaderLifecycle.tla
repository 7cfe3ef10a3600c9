--------------------------- MODULE LoaderLifecycle ---------------------------
(***************************************************************************)
(* The life of the torchrun workers that back the Model nodes, as          *)
(* xdit_comfyui/worker.py runs it.                                         *)
(*                                                                         *)
(* One thread, Exec, is ComfyUI's prompt executor: it runs the Model nodes *)
(* (_register_loader_cache, _ensure_loader_worker) and the Sample nodes    *)
(* (_run_xdit_distributed, _release_loader_after_run) one after another.   *)
(* The Api threads are asyncio.to_thread calls: /xdit/loader/clear,        *)
(* /xdit/loader/reap and the on_cleanup hook.  They share the registry and *)
(* the per-token files, and REGISTRY.lock is held only inside one step of  *)
(* this module, so every step boundary is a place where the code lets the  *)
(* other threads in.  Worker processes are in sessions of their own: they  *)
(* survive a ComfyUI crash, and a restarted ComfyUI finds them by files    *)
(* and by the process table, keyed by a token made of the node id alone.   *)
(***************************************************************************)
EXTENDS Integers, FiniteSets

CONSTANTS Loaders,     \* Model node ids (loader_uid; the token is a hash of it)
          Keys,        \* cache keys: what a worker was configured with
          NoLoader,    \* no loader
          NoKey,       \* no cache key, or an identity file that does not exist
          Exec,        \* the prompt executor thread
          Api,         \* API threads
          MaxPid,      \* bound: worker processes ever started
          MaxSession,  \* bound: ComfyUI processes, one after another
          Neighbour    \* whether another ComfyUI server shares the machine

ASSUME LifecycleAssumption ==
  /\ Exec \notin Api
  /\ NoKey \notin Keys
  /\ NoLoader \notin Loaders
  /\ MaxPid \in Nat
  /\ MaxSession \in Nat \ {0}
  /\ Neighbour \in BOOLEAN

Threads == Api \cup {Exec}
Pid     == 1..MaxPid
NoPid   == 0

VARIABLES
  (* worker processes (the torchrun parent stands for its ranks) *)
  proc,      \* pid -> Process
  nextPid,   \* the pid the next Popen gets
  foreign,   \* loader -> state of another server's worker with the same token
  (* files of a token *)
  sock,      \* loader -> pid whose socket the path names, or NoPid
  ready,     \* loader -> pid that wrote the .ready file, or NoPid
  ident,     \* loader -> content of the .key file, or NoKey
  (* REGISTRY *)
  workers,   \* loader -> entry, or NoEntry
  pending,   \* loader -> pid being started, or NoPid
  cacheKey,  \* loader -> key the Model node registered, or NoKey
  (* every thread *)
  pc, uid, mode, held,
  (* the executor's prompt *)
  op,        \* the node it runs: "none", "model" or "sample"
  key,       \* the cache key that node asks for
  new,       \* the pid it has just started, or NoPid
  rt,        \* loader -> key in the runtime its Model node returned, or NoKey
  job,       \* the pid that took the Sample's job, or NoPid
  (* API threads *)
  kind, todo, seen, grabbed,
  (* the ComfyUI process *)
  session, up

procVars   == <<proc, nextPid, foreign>>
fileVars   == <<sock, ready, ident>>
regVars    == <<workers, pending, cacheKey>>
threadVars == <<pc, uid, mode, held>>
execVars   == <<op, key, new, rt, job>>
apiVars    == <<kind, todo, seen, grabbed>>
comfyVars  == <<session, up>>
vars == <<procVars, fileVars, regVars, threadVars, execVars, apiVars, comfyVars>>

-----------------------------------------------------------------------------
(* A worker process: the loader whose token is on its command line, the key of
   the configuration it loads, and the ComfyUI session that started it. *)
Process == [st : {"none", "starting", "ready", "stopping", "dead"},
            owner : Loaders \cup {NoLoader}, key : Keys \cup {NoKey},
            sess : 0..MaxSession]
NoProc  == [st |-> "none", owner |-> NoLoader, key |-> NoKey, sess |-> 0]
Dead    == [st |-> "dead", owner |-> NoLoader, key |-> NoKey, sess |-> 0]

(* Registry entries. `adopted` marks an entry built by _try_adopt_orphan_worker
   (its proc is a _ProcRef); `parked` is residency_state = "cpu_parked". *)
Entry   == [pid : Pid \cup {NoPid}, key : Keys \cup {NoKey},
            adopted : BOOLEAN, parked : BOOLEAN]
NoEntry == [pid |-> NoPid, key |-> NoKey, adopted |-> FALSE, parked |-> FALSE]

NoEntries == [l \in Loaders |-> NoEntry]
NoPids    == [l \in Loaders |-> NoPid]
NoKeys    == [l \in Loaders |-> NoKey]
FirstPc   == [t \in Threads |-> IF t = Exec THEN "prompt" ELSE "idle"]
NoUids    == [t \in Threads |-> NoLoader]
NoModes   == [t \in Threads |-> "none"]
NoHeld    == [t \in Threads |-> NoEntry]

Live(p) == proc[p].st \in {"starting", "ready", "stopping"}

(* Bug: ask only the workers that have come up, as a health check would. *)
ReadyOfToken(l) == {p \in Pid : proc[p].st = "ready" /\ proc[p].owner = l}

(* What pgrep finds for a token: every process with it on its command line. *)
OfToken(l) == {p \in Pid : Live(p) /\ proc[p].owner = l}

(* Kill the processes in S: SIGTERM, then SIGKILL for what is left. *)
Kill(S) == proc' = [p \in Pid |-> IF p \in S THEN Dead ELSE proc[p]]

(* _terminate_workers_for_token: the pattern holds the token but not the
   server's runtime directory, so it also matches a neighbour's worker. *)
KillTokens(L) ==
  /\ Kill(UNION {OfToken(l) : l \in L})
  /\ foreign' = [l \in Loaders |->
                   IF l \in L /\ foreign[l] = "alive" THEN "killed" ELSE foreign[l]]

KillToken(l) == KillTokens({l})

EntryAlive(l) == workers[l] # NoEntry /\ Live(workers[l].pid)

(* _orphan_worker_pid: ready and socket files, and a live process. *)
OrphanPids(l) == IF ready[l] # NoPid /\ sock[l] # NoPid THEN OfToken(l) ELSE {}

(* Somebody accepts connections on the socket path. *)
Listening(l) == sock[l] # NoPid /\ proc[sock[l]].st = "ready"

Goto(t, label) == pc' = [pc EXCEPT ![t] = label]

(* The thread's call has returned: its local variables are gone. *)
ForgetLocals(t) ==
  /\ uid'  = [uid  EXCEPT ![t] = NoLoader]
  /\ mode' = [mode EXCEPT ![t] = "none"]
  /\ held' = [held EXCEPT ![t] = NoEntry]

NodeDone == /\ Goto(Exec, "prompt") /\ ForgetLocals(Exec)
            /\ op' = "none" /\ key' = NoKey

-----------------------------------------------------------------------------
(* Steps shared by the threads: _evict_loader_worker and its callees.      *)
(* mode[t] says on whose behalf they run: "evict" (_evict_loader_worker),  *)
(* "create" (_get_or_create_distributed_worker), "failed" (its except      *)
(* branch), "stop" (_clear_all_runtime_caches).                            *)

(* _abort_loader_pending, the pop under the lock. *)
EvictPending(t) ==
  /\ up /\ pc[t] = "evict"
  /\ pending' = [pending EXCEPT ![uid[t]] = NoPid]
  /\ Goto(t, IF pending[uid[t]] # NoPid THEN "abort_kill" ELSE "pop")
  /\ UNCHANGED <<procVars, fileVars, workers, cacheKey, uid, mode, held,
                 execVars, apiVars, comfyVars>>

(* _abort_worker_startup: kill by token, then unlink socket, ready, config. *)
AbortKill(t) ==
  /\ up /\ pc[t] = "abort_kill"
  /\ KillToken(uid[t])
  /\ Goto(t, "abort_unlink")
  /\ UNCHANGED <<nextPid, fileVars, regVars, uid, mode, held, execVars, apiVars, comfyVars>>

AfterAbort(t) == CASE mode[t] = "evict"  -> "pop"
                   [] mode[t] = "failed" -> "raise"
                   [] OTHER              -> "stop_pending"

UnlinkSocket(l) == /\ sock'  = [sock  EXCEPT ![l] = NoPid]
                   /\ ready' = [ready EXCEPT ![l] = NoPid]

AbortUnlink(t) ==
  /\ up /\ pc[t] = "abort_unlink"
  /\ UnlinkSocket(uid[t])
  /\ Goto(t, AfterAbort(t))
  /\ UNCHANGED <<procVars, ident, regVars, uid, mode, held, execVars, apiVars, comfyVars>>

(* Bug: with no entry to shut down there is nothing left to kill. *)
NothingToKill(t) == IF workers[uid[t]] # NoEntry THEN "send" ELSE "clean"

AfterPop(t) == IF workers[uid[t]] # NoEntry THEN "send" ELSE "kill"

(* REGISTRY.workers.pop(uid, None) *)
EvictPop(t) ==
  /\ up /\ pc[t] = "pop"
  /\ held' = [held EXCEPT ![t] = workers[uid[t]]]
  /\ workers' = [workers EXCEPT ![uid[t]] = NoEntry]
  /\ Goto(t, AfterPop(t))
  /\ UNCHANGED <<procVars, fileVars, pending, cacheKey, uid, mode,
                 execVars, apiVars, comfyVars>>

(* _shutdown_distributed_worker: ask over the socket, if its path is there;
   when the request cannot be sent (nobody listens any more, or the backlog
   stays full behind a running job), terminate the process.  What a worker does
   with the request is WorkerStops, which needs no request to happen. *)
ShutdownSend(t) ==
  /\ up /\ pc[t] = "send"
  /\ \/ /\ sock[uid[t]] = NoPid \/ Listening(uid[t])
        /\ UNCHANGED proc
     \/ /\ sock[uid[t]] # NoPid
        /\ Kill({p \in Pid : p = held[t].pid /\ Live(p)})
  /\ Goto(t, "wait")
  /\ UNCHANGED <<nextPid, foreign, fileVars, regVars, uid, mode, held,
                 execVars, apiVars, comfyVars>>

(* proc.wait(timeout=30), then _terminate_worker_proc on a timeout. *)
ShutdownWait(t) ==
  /\ up /\ pc[t] = "wait"
  /\ Kill({p \in Pid : p = held[t].pid /\ Live(p)})
  /\ Goto(t, "unlink")
  /\ UNCHANGED <<nextPid, foreign, fileVars, regVars, uid, mode, held,
                 execVars, apiVars, comfyVars>>

AfterShutdown(t) == CASE mode[t] = "evict"  -> "kill"
                      [] mode[t] = "create" -> "adopt"
                      [] OTHER              -> "stop_workers"

ShutdownUnlink(t) ==
  /\ up /\ pc[t] = "unlink"
  /\ UnlinkSocket(uid[t])
  /\ held' = [held EXCEPT ![t] = NoEntry]
  /\ Goto(t, AfterShutdown(t))
  /\ UNCHANGED <<procVars, ident, regVars, uid, mode, execVars, apiVars, comfyVars>>

(* _cleanup_worker_artifacts: kill by token, then unlink socket, ready, stats
   and identity. *)
CleanupKill(t) ==
  /\ up /\ pc[t] = "kill"
  /\ KillToken(uid[t])
  /\ Goto(t, "clean")
  /\ UNCHANGED <<nextPid, fileVars, regVars, uid, mode, held, execVars, apiVars, comfyVars>>

(* Bug: the identity file stays. *)
KeepIdentity(L) == UNCHANGED ident

UnlinkIdentity(L) == ident' = [l \in Loaders |-> IF l \in L THEN NoKey ELSE ident[l]]

(* An eviction ends: back to the Model node, to the end of a Sample, or to the
   API loop. *)
EvictReturns(t) ==
  \/ t \in Api /\ Goto(t, "next") /\ ForgetLocals(t) /\ UNCHANGED <<op, key>>
  \/ /\ t = Exec /\ op = "model"
     /\ Goto(t, "ensure")
     /\ mode' = [mode EXCEPT ![t] = "create"]
     /\ UNCHANGED <<uid, held, op, key>>
  \/ t = Exec /\ op # "model" /\ NodeDone

CleanupUnlink(t) ==
  /\ up /\ pc[t] = "clean"
  /\ UnlinkSocket(uid[t])
  /\ UnlinkIdentity({uid[t]})
  /\ \/ mode[t] = "evict" /\ EvictReturns(t)
     \/ /\ mode[t] # "evict" /\ Goto(t, "sweep")
        /\ UNCHANGED <<uid, mode, held, op, key>>
  /\ UNCHANGED <<procVars, regVars, new, rt, job, apiVars, comfyVars>>

-----------------------------------------------------------------------------
(* The executor: a Model node.                                             *)

(* A prompt runs each Model node at most once, then Samples on what it
   returned; rt[l] is the key in the runtime dict the Model node of l returned
   in this prompt.  _register_loader_cache: note the key, and evict the worker
   when another key was registered before. *)
BeginModel(l, k) ==
  /\ up /\ pc[Exec] = "prompt" /\ rt[l] = NoKey
  /\ cacheKey' = [cacheKey EXCEPT ![l] = k]
  /\ uid' = [uid EXCEPT ![Exec] = l]
  /\ op' = "model" /\ key' = k
  /\ LET keyChanged == cacheKey[l] \notin {NoKey, k}
     IN  /\ mode' = [mode EXCEPT ![Exec] = IF keyChanged THEN "evict" ELSE "create"]
         /\ Goto(Exec, IF keyChanged THEN "evict" ELSE "ensure")
  /\ UNCHANGED <<procVars, fileVars, workers, pending, held, new, rt,
                 job, apiVars, comfyVars>>

(* The Model node returns its runtime dict. *)
ModelReturns ==
  /\ rt' = [rt EXCEPT ![uid[Exec]] = key]
  /\ NodeDone

(* An image task without reference images leaves the warm-up to the Sample. *)
DeferWarm ==
  /\ up /\ pc[Exec] = "ensure"
  /\ ModelReturns
  /\ UNCHANGED <<procVars, fileVars, regVars, new, job, apiVars, comfyVars>>

EntryHit(l, k) == EntryAlive(l) /\ workers[l].key = k

(* _ensure_loader_worker on a live entry with the key: restore it if it is
   parked, and do not look whether that worked. *)
EnsureHit ==
  LET l == uid[Exec] IN
  /\ up /\ pc[Exec] = "ensure"
  /\ EntryHit(l, key)
  /\ \/ workers' = [workers EXCEPT ![l].parked = FALSE]
     \/ workers[l].parked /\ UNCHANGED workers
  /\ ModelReturns
  /\ UNCHANGED <<procVars, fileVars, pending, cacheKey, new, job, apiVars, comfyVars>>

(* _loader_worker_alive without such an entry: any live worker of the token
   whose identity file holds the key will do; it is not registered. *)
EnsureOrphan ==
  LET l == uid[Exec] IN
  /\ up /\ pc[Exec] = "ensure"
  /\ ~EntryHit(l, key)
  /\ ident[l] = key /\ OrphanPids(l) # {}
  /\ ModelReturns
  /\ UNCHANGED <<procVars, fileVars, regVars, new, job, apiVars, comfyVars>>

EnsureMiss ==
  LET l == uid[Exec] IN
  /\ up /\ pc[Exec] = "ensure"
  /\ ~EntryHit(l, key)
  /\ OrphanPids(l) = {} \/ ident[l] # key
  /\ Goto(Exec, "lookup")
  /\ UNCHANGED <<procVars, fileVars, regVars, uid, mode, held, execVars, apiVars, comfyVars>>

-----------------------------------------------------------------------------
(* The executor: _get_or_create_distributed_worker.                        *)

(* It returns entry e, to the Model node or to the Sample. *)
Acquired(e) ==
  \/ op = "model" /\ ModelReturns
  \/ /\ op = "sample"
     /\ held' = [held EXCEPT ![Exec] = e]
     /\ Goto(Exec, "connect")
     /\ UNCHANGED <<uid, mode, op, key, rt>>

(* Reuse a live entry with the key, restoring it first if it is parked. *)
LookupHit ==
  LET l == uid[Exec] IN
  /\ up /\ pc[Exec] = "lookup"
  /\ EntryHit(l, key)
  /\ workers' = [workers EXCEPT ![l].parked = FALSE]
  /\ Acquired([workers[l] EXCEPT !.parked = FALSE])
  /\ UNCHANGED <<procVars, fileVars, pending, cacheKey, new, job, apiVars, comfyVars>>

(* Bug: the stale entry is dropped and the start goes on. *)
AdoptAfterStale == "adopt"

AfterStale == "send"

(* A live entry with another key, or a parked one that does not come back, is
   taken out of the registry to be shut down. *)
LookupStale ==
  LET l == uid[Exec] IN
  /\ up /\ pc[Exec] = "lookup"
  /\ EntryAlive(l)
  /\ workers[l].key # key \/ workers[l].parked
  /\ held' = [held EXCEPT ![Exec] = workers[l]]
  /\ workers' = [workers EXCEPT ![l] = NoEntry]
  /\ Goto(Exec, AfterStale)
  /\ UNCHANGED <<procVars, fileVars, pending, cacheKey, uid, mode,
                 execVars, apiVars, comfyVars>>

(* No entry, or a dead one, which is left where it is. *)
LookupMiss ==
  /\ up /\ pc[Exec] = "lookup"
  /\ ~EntryAlive(uid[Exec])
  /\ Goto(Exec, "adopt")
  /\ UNCHANGED <<procVars, fileVars, regVars, uid, mode, held, execVars, apiVars, comfyVars>>

(* _try_adopt_orphan_worker: probe and compare.  On a mismatch it cleans up by
   itself and the caller cleans up once more; the second pass finds nothing, so
   the two are one here. *)
AdoptProbe ==
  LET l == uid[Exec] IN
  /\ up /\ pc[Exec] = "adopt"
  /\ \/ /\ ident[l] = key
        /\ \E p \in OrphanPids(l) :
             held' = [held EXCEPT ![Exec] =
                        [pid |-> p, key |-> key, adopted |-> TRUE, parked |-> FALSE]]
        /\ Goto(Exec, "adopt_register")
     \/ /\ OrphanPids(l) = {} \/ ident[l] # key
        /\ Goto(Exec, "kill")
        /\ UNCHANGED held
  /\ UNCHANGED <<procVars, fileVars, regVars, uid, mode, execVars, apiVars, comfyVars>>

AdoptRegister ==
  /\ up /\ pc[Exec] = "adopt_register"
  /\ workers' = [workers EXCEPT ![uid[Exec]] = held[Exec]]
  /\ Acquired(held[Exec])
  /\ UNCHANGED <<procVars, fileVars, pending, cacheKey, new, job, apiVars, comfyVars>>

(* Bug: look for orphans where adoption looks for them, at the socket and ready
   files, which a worker that is still loading has not made yet. *)
SweepReadyTokens ==
  {l \in Loaders \ {uid[Exec]} : /\ workers[l] = NoEntry /\ pending[l] = NoPid
                                 /\ \E p \in OrphanPids(l) : proc[p].sess < session}

(* _sweep_orphan_workers: clean up every token with a worker whose ComfyUI is
   gone, unless this ComfyUI has it registered or is about to start it.  Only
   this thread registers tokens, so what it keeps cannot grow meanwhile. *)
SweepTokens ==
  {l \in Loaders \ {uid[Exec]} : /\ workers[l] = NoEntry /\ pending[l] = NoPid
                                 /\ \E p \in OfToken(l) : proc[p].sess < session}

SweepOrphans ==
  /\ up /\ pc[Exec] = "sweep"
  /\ KillTokens(SweepTokens)
  /\ sock'  = [l \in Loaders |-> IF l \in SweepTokens THEN NoPid ELSE sock[l]]
  /\ ready' = [l \in Loaders |-> IF l \in SweepTokens THEN NoPid ELSE ready[l]]
  /\ UnlinkIdentity(SweepTokens)
  /\ Goto(Exec, "spawn")
  /\ UNCHANGED <<nextPid, regVars, uid, mode, held, execVars, apiVars, comfyVars>>

(* subprocess.Popen.  The _abort_loader_pending call before it never finds
   anything (PendingOnlyWhileStarting), and the configuration file written just
   before is read by this worker alone: when another thread unlinks it first,
   the worker dies (WorkerDies). *)
Spawn ==
  /\ up /\ pc[Exec] = "spawn" /\ nextPid <= MaxPid
  /\ proc' = [proc EXCEPT ![nextPid] =
                [st |-> "starting", owner |-> uid[Exec], key |-> key, sess |-> session]]
  /\ nextPid' = nextPid + 1
  /\ new' = nextPid
  /\ Goto(Exec, "identity")
  /\ UNCHANGED <<foreign, fileVars, regVars, uid, mode, held, op, key, rt, job,
                 apiVars, comfyVars>>

(* _write_worker_identity *)
WriteIdentity ==
  /\ up /\ pc[Exec] = "identity"
  /\ ident' = [ident EXCEPT ![uid[Exec]] = key]
  /\ Goto(Exec, "register_pending")
  /\ UNCHANGED <<procVars, sock, ready, regVars, uid, mode, held, execVars, apiVars, comfyVars>>

(* _register_loader_pending *)
RegisterPending ==
  /\ up /\ pc[Exec] = "register_pending"
  /\ pending' = [pending EXCEPT ![uid[Exec]] = new]
  /\ Goto(Exec, "wait_ready")
  /\ UNCHANGED <<procVars, fileVars, workers, cacheKey, uid, mode, held,
                 execVars, apiVars, comfyVars>>

(* _wait_for_worker_ready: the process is there and the .ready file is not
   older than the Popen. *)
WorkerIsReady ==
  /\ up /\ pc[Exec] = "wait_ready"
  /\ Live(new) /\ ready[uid[Exec]] = new
  /\ Goto(Exec, "clear_pending")
  /\ UNCHANGED <<procVars, fileVars, regVars, uid, mode, held, execVars, apiVars, comfyVars>>

(* _clear_loader_pending in the `finally` *)
ClearPending ==
  /\ up /\ pc[Exec] = "clear_pending"
  /\ pending' = [pending EXCEPT ![uid[Exec]] = NoPid]
  /\ Goto(Exec, "register_entry")
  /\ UNCHANGED <<procVars, fileVars, workers, cacheKey, uid, mode, held,
                 execVars, apiVars, comfyVars>>

NewEntry == [pid |-> new, key |-> key, adopted |-> FALSE, parked |-> FALSE]

(* REGISTRY.workers[loader_uid] = entry *)
RegisterEntry ==
  /\ up /\ pc[Exec] = "register_entry"
  /\ workers' = [workers EXCEPT ![uid[Exec]] = NewEntry]
  /\ Acquired(NewEntry)
  /\ new' = NoPid
  /\ UNCHANGED <<procVars, fileVars, pending, cacheKey, job, apiVars, comfyVars>>

(* Bug: the failed start stays in the table. *)
StartupFailsPending ==
  /\ up /\ pc[Exec] = "wait_ready"
  /\ mode' = [mode EXCEPT ![Exec] = "failed"]
  /\ Goto(Exec, "abort_kill")
  /\ UNCHANGED <<procVars, fileVars, regVars, uid, held, execVars, apiVars, comfyVars>>

(* The wait ends in an exception: the worker exited, the deadline passed, or
   the user cancelled.  _abort_worker_startup follows. *)
StartupFails ==
  /\ up /\ pc[Exec] = "wait_ready"
  /\ pending' = [pending EXCEPT ![uid[Exec]] = NoPid]
  /\ mode' = [mode EXCEPT ![Exec] = "failed"]
  /\ Goto(Exec, "abort_kill")
  /\ UNCHANGED <<procVars, fileVars, workers, cacheKey, uid, held,
                 execVars, apiVars, comfyVars>>

(* An exception ends the prompt; a Sample still runs its `finally`. *)
PromptFails ==
  /\ rt' = NoKeys
  /\ \/ /\ op = "sample"
        /\ held' = [held EXCEPT ![Exec] = NoEntry]
        /\ Goto(Exec, "demote")
        /\ UNCHANGED <<uid, mode, op, key>>
     \/ op = "model" /\ NodeDone

StartupRaises ==
  /\ up /\ pc[Exec] = "raise"
  /\ new' = NoPid
  /\ PromptFails
  /\ UNCHANGED <<procVars, fileVars, regVars, job, apiVars, comfyVars>>

-----------------------------------------------------------------------------
(* The executor: a Sample node.                                            *)

(* _execute_sample on the runtime the Model node of l returned. *)
BeginSample(l) ==
  /\ up /\ pc[Exec] = "prompt" /\ rt[l] # NoKey
  /\ uid' = [uid EXCEPT ![Exec] = l]
  /\ mode' = [mode EXCEPT ![Exec] = "create"]
  /\ op' = "sample" /\ key' = rt[l]
  /\ Goto(Exec, "lookup")
  /\ UNCHANGED <<procVars, fileVars, regVars, held, new, rt, job, apiVars, comfyVars>>

(* The Sample's own checks fail (no reference image, a task the model cannot do,
   a world size that does not fit): the prompt ends without a worker being asked
   for, and the `finally` runs all the same. *)
RejectSample(l) ==
  /\ up /\ pc[Exec] = "prompt" /\ rt[l] # NoKey
  /\ uid' = [uid EXCEPT ![Exec] = l]
  /\ op' = "sample" /\ key' = rt[l]
  /\ rt' = NoKeys
  /\ Goto(Exec, "demote")
  /\ UNCHANGED <<procVars, fileVars, regVars, mode, held, new, job, apiVars, comfyVars>>

(* _run_distributed_worker_locked: connect to the socket path and send the
   job.  Whoever is bound to the path takes it. *)
RunConnect ==
  /\ up /\ pc[Exec] = "connect" /\ Listening(uid[Exec])
  /\ job' = sock[uid[Exec]]
  /\ Goto(Exec, "running")
  /\ UNCHANGED <<procVars, fileVars, regVars, uid, mode, held, op, key, new, rt,
                 apiVars, comfyVars>>

RunRefused ==
  /\ up /\ pc[Exec] = "connect" /\ ~Listening(uid[Exec])
  /\ PromptFails
  /\ UNCHANGED <<procVars, fileVars, regVars, new, job, apiVars, comfyVars>>

RunSucceeds ==
  /\ up /\ pc[Exec] = "running"
  /\ job' = NoPid
  /\ held' = [held EXCEPT ![Exec] = NoEntry]
  /\ Goto(Exec, "demote")
  /\ UNCHANGED <<procVars, fileVars, regVars, uid, mode, op, key, new, rt,
                 apiVars, comfyVars>>

(* The connection breaks, or a cancelled run stops at the worker's next step:
   the exception leaves the worker and its registry entry alone. *)
RunBroken ==
  /\ up /\ pc[Exec] = "running"
  /\ job' = NoPid
  /\ PromptFails
  /\ UNCHANGED <<procVars, fileVars, regVars, new, apiVars, comfyVars>>

(* A timeout, or a cancel the worker does not answer: _abort_distributed_worker
   kills the worker, by token when it was adopted, ... *)
RunAborted ==
  /\ up /\ pc[Exec] = "running"
  /\ job' = NoPid
  /\ \/ held[Exec].adopted /\ KillToken(uid[Exec])
     \/ /\ ~held[Exec].adopted
        /\ Kill({p \in Pid : p = held[Exec].pid /\ Live(p)})
        /\ UNCHANGED foreign
  /\ Goto(Exec, "abort_run_unlink")
  /\ UNCHANGED <<nextPid, fileVars, regVars, uid, mode, held, op, key, new, rt,
                 apiVars, comfyVars>>

(* ... unlinks its socket, ready and config paths, ... *)
RunAbortUnlink ==
  /\ up /\ pc[Exec] = "abort_run_unlink"
  /\ UnlinkSocket(uid[Exec])
  /\ Goto(Exec, "abort_run_pop")
  /\ UNCHANGED <<procVars, ident, regVars, uid, mode, held, execVars, apiVars, comfyVars>>

(* ... and takes its entry, if it is still that one, out of the registry. *)
RunAbortPop ==
  LET l == uid[Exec] IN
  /\ up /\ pc[Exec] = "abort_run_pop"
  /\ workers' = [workers EXCEPT ![l] = IF @.pid = held[Exec].pid THEN NoEntry ELSE @]
  /\ PromptFails
  /\ UNCHANGED <<procVars, fileVars, pending, cacheKey, new, job, apiVars, comfyVars>>

(* _release_loader_after_run.  Whether this was the prompt's last Sample of the
   loader is LoaderResidency; here the residency policy may act or not. *)
KeepWorker ==
  /\ up /\ pc[Exec] = "demote"
  /\ NodeDone
  /\ UNCHANGED <<procVars, fileVars, regVars, new, rt, job, apiVars, comfyVars>>

(* residency=release: _evict_loader_worker. *)
ReleaseWorker ==
  /\ up /\ pc[Exec] = "demote"
  /\ mode' = [mode EXCEPT ![Exec] = "evict"]
  /\ Goto(Exec, "evict")
  /\ UNCHANGED <<procVars, fileVars, regVars, uid, held, execVars, apiVars, comfyVars>>

(* residency=park_cpu, when the worker accepts: _park_loader_worker marks the
   entry.  A park that fails changes nothing (KeepWorker). *)
ParkWorker ==
  LET l == uid[Exec] IN
  /\ up /\ pc[Exec] = "demote"
  /\ workers[l] # NoEntry /\ Listening(l)
  /\ workers' = [workers EXCEPT ![l].parked = TRUE]
  /\ NodeDone
  /\ UNCHANGED <<procVars, fileVars, pending, cacheKey, new, rt, job,
                 apiVars, comfyVars>>

EndPrompt ==
  /\ up /\ pc[Exec] = "prompt" /\ \E l \in Loaders : rt[l] # NoKey
  /\ rt' = NoKeys
  /\ UNCHANGED <<procVars, fileVars, regVars, threadVars, op, key, new, job, apiVars, comfyVars>>

-----------------------------------------------------------------------------
(* API threads.  seen[a] is history: the live workers that the request must  *)
(* have stopped when it answers, as they are when it arrives.                *)

LiveOf(L) == UNION {OfToken(l) : l \in L}

(* POST /xdit/loader/clear: _clear_loader_cache for one Model node. *)
ClearRequest(a, l) ==
  /\ up /\ pc[a] = "idle"
  /\ kind' = [kind EXCEPT ![a] = "clear"]
  /\ todo' = [todo EXCEPT ![a] = {l}]
  /\ seen' = [seen EXCEPT ![a] = LiveOf({l})]
  /\ Goto(a, "next")
  /\ UNCHANGED <<procVars, fileVars, regVars, uid, mode, held, execVars, grabbed, comfyVars>>

(* POST /xdit/loader/reap: _reap_loaders_except the nodes still in the graph
   (none of them for {"all": true}, _release_all_loaders), one after another. *)
ReapRequest(a, liveNodes) ==
  /\ up /\ pc[a] = "idle"
  /\ kind' = [kind EXCEPT ![a] = "reap"]
  /\ LET deleted == {l \in Loaders \ liveNodes : cacheKey[l] # NoKey}
     IN  /\ todo' = [todo EXCEPT ![a] = deleted]
         /\ seen' = [seen EXCEPT ![a] = LiveOf(deleted)]
  /\ Goto(a, "next")
  /\ UNCHANGED <<procVars, fileVars, regVars, uid, mode, held, execVars, grabbed, comfyVars>>

(* _clear_loader_cache: forget the key, then evict. *)
ClearNext(a, l) ==
  /\ up /\ pc[a] = "next" /\ l \in todo[a]
  /\ todo' = [todo EXCEPT ![a] = @ \ {l}]
  /\ cacheKey' = [cacheKey EXCEPT ![l] = NoKey]
  /\ uid' = [uid EXCEPT ![a] = l]
  /\ mode' = [mode EXCEPT ![a] = "evict"]
  /\ Goto(a, "evict")
  /\ UNCHANGED <<procVars, fileVars, workers, pending, held, execVars, kind, seen,
                 grabbed, comfyVars>>

ClearReturns(a) ==
  /\ up /\ pc[a] = "next" /\ todo[a] = {}
  /\ Goto(a, "done")
  /\ UNCHANGED <<procVars, fileVars, regVars, uid, mode, held, execVars, apiVars, comfyVars>>

Respond(a) ==
  /\ up /\ pc[a] = "done"
  /\ seen' = [seen EXCEPT ![a] = {}]
  /\ kind' = [kind EXCEPT ![a] = "none"]
  /\ Goto(a, "idle")
  /\ UNCHANGED <<procVars, fileVars, regVars, uid, mode, held, execVars, todo, grabbed,
                 comfyVars>>

(* The live workers that are in one of the two tables. *)
Tabled == {p \in Pid : Live(p) /\ (\/ workers[proc[p].owner].pid = p
                                   \/ pending[proc[p].owner] = p)}

(* on_cleanup: _clear_all_runtime_caches.  The executor keeps running. *)
StopRequest(a) ==
  /\ up /\ pc[a] = "idle" /\ \A b \in Api : kind[b] # "stop"
  /\ kind' = [kind EXCEPT ![a] = "stop"]
  /\ todo' = [todo EXCEPT ![a] = {l \in Loaders : pending[l] # NoPid}]
  /\ seen' = [seen EXCEPT ![a] = Tabled]
  /\ pending' = [l \in Loaders |-> NoPid]
  /\ cacheKey' = [l \in Loaders |-> NoKey]
  /\ mode' = [mode EXCEPT ![a] = "stop"]
  /\ Goto(a, "stop_pending")
  /\ UNCHANGED <<procVars, fileVars, workers, uid, held, execVars, grabbed, comfyVars>>

StopPending(a, l) ==
  /\ up /\ pc[a] = "stop_pending" /\ l \in todo[a]
  /\ todo' = [todo EXCEPT ![a] = @ \ {l}]
  /\ uid' = [uid EXCEPT ![a] = l]
  /\ Goto(a, "abort_kill")
  /\ UNCHANGED <<procVars, fileVars, regVars, mode, held, execVars, kind, seen, grabbed,
                 comfyVars>>

(* Bug: a parked worker holds no GPU and is let be. *)
WarmEntries == {l \in Loaders : workers[l] # NoEntry /\ ~workers[l].parked}

Entries == {l \in Loaders : workers[l] # NoEntry}

StopGrab(a) ==
  /\ up /\ pc[a] = "stop_pending" /\ todo[a] = {}
  /\ todo' = [todo EXCEPT ![a] = Entries]
  /\ grabbed' = workers
  /\ workers' = [l \in Loaders |-> NoEntry]
  /\ Goto(a, "stop_workers")
  /\ UNCHANGED <<procVars, fileVars, pending, cacheKey, uid, mode, held, execVars,
                 kind, seen, comfyVars>>

StopWorker(a, l) ==
  /\ up /\ pc[a] = "stop_workers" /\ l \in todo[a]
  /\ todo' = [todo EXCEPT ![a] = @ \ {l}]
  /\ uid' = [uid EXCEPT ![a] = l]
  /\ held' = [held EXCEPT ![a] = grabbed[l]]
  /\ Goto(a, "send")
  /\ UNCHANGED <<procVars, fileVars, regVars, mode, execVars, kind, seen, grabbed, comfyVars>>

(* A ComfyUI process that is gone, or has just been started: the registry and
   the threads are new, workers and files are what they were. *)
NewComfyUI ==
  /\ workers' = NoEntries /\ pending' = NoPids /\ cacheKey' = NoKeys
  /\ pc' = FirstPc /\ uid' = NoUids /\ mode' = NoModes /\ held' = NoHeld
  /\ op' = "none" /\ key' = NoKey /\ new' = NoPid /\ job' = NoPid
  /\ rt' = NoKeys
  /\ kind' = [a \in Api |-> "none"]
  /\ todo' = [a \in Api |-> {}] /\ seen' = [a \in Api |-> {}]
  /\ grabbed' = NoEntries
  /\ UNCHANGED <<procVars, fileVars>>

(* The hook returns; the ComfyUI process then exits, its threads with it,
   wherever they are. *)
StopExit(a) ==
  /\ up /\ pc[a] = "stop_workers" /\ todo[a] = {}
  /\ up' = FALSE /\ UNCHANGED session
  /\ NewComfyUI

-----------------------------------------------------------------------------
(* Worker processes, as the host sees them (worker_server.main).           *)

(* The model is loaded: unlink what is at the socket path, bind it, and write
   the .ready file. *)
WorkerReady(p) ==
  /\ proc[p].st = "starting"
  /\ proc' = [proc EXCEPT ![p].st = "ready"]
  /\ sock'  = [sock  EXCEPT ![proc[p].owner] = p]
  /\ ready' = [ready EXCEPT ![proc[p].owner] = p]
  /\ UNCHANGED <<nextPid, foreign, ident, regVars, threadVars,
                 execVars, apiVars, comfyVars>>

(* The rank loop ends, on a shutdown request or an exception: the finally
   branch unlinks both paths, whoever they belong to by now.  torchrun is
   still there. *)
WorkerStops(p) ==
  /\ proc[p].st = "ready"
  /\ proc' = [proc EXCEPT ![p].st = "stopping"]
  /\ UnlinkSocket(proc[p].owner)
  /\ UNCHANGED <<nextPid, foreign, ident, regVars, threadVars,
                 execVars, apiVars, comfyVars>>

(* The process is gone: it finished stopping, failed to start, or was killed by
   something that is not ComfyUI (its files stay). *)
WorkerDies(p) ==
  /\ Live(p)
  /\ Kill({p})
  /\ UNCHANGED <<nextPid, foreign, fileVars, regVars, threadVars,
                 execVars, apiVars, comfyVars>>

(* Another ComfyUI server, with a runtime directory of its own, starts a worker
   for a Model node with the same id. *)
NeighbourStarts(l) ==
  /\ Neighbour /\ foreign[l] = "none"
  /\ foreign' = [foreign EXCEPT ![l] = "alive"]
  /\ UNCHANGED <<proc, nextPid, fileVars, regVars, threadVars,
                 execVars, apiVars, comfyVars>>

-----------------------------------------------------------------------------
Init ==
  /\ workers = NoEntries /\ pending = NoPids /\ cacheKey = NoKeys
  /\ pc = FirstPc /\ uid = NoUids /\ mode = NoModes /\ held = NoHeld
  /\ op = "none" /\ key = NoKey /\ new = NoPid /\ job = NoPid
  /\ rt = NoKeys
  /\ kind = [a \in Api |-> "none"]
  /\ todo = [a \in Api |-> {}]
  /\ seen = [a \in Api |-> {}]
  /\ grabbed = NoEntries
  /\ proc = [p \in Pid |-> NoProc]
  /\ nextPid = 1
  /\ foreign = [l \in Loaders |-> "none"]
  /\ sock = NoPids /\ ready = NoPids /\ ident = NoKeys
  /\ session = 1 /\ up = TRUE

(* ComfyUI is killed, or has exited, and is started again. *)
Restart ==
  /\ session < MaxSession
  /\ session' = session + 1 /\ up' = TRUE
  /\ NewComfyUI

ThreadStep(t) ==
  \/ EvictPending(t) \/ AbortKill(t) \/ AbortUnlink(t) \/ EvictPop(t)
  \/ ShutdownSend(t) \/ ShutdownWait(t) \/ ShutdownUnlink(t)
  \/ CleanupKill(t) \/ CleanupUnlink(t)

ModelStep ==
  \/ \E l \in Loaders, k \in Keys : BeginModel(l, k)
  \/ DeferWarm \/ EnsureHit \/ EnsureOrphan \/ EnsureMiss

CreateStep ==
  \/ LookupHit \/ LookupStale \/ LookupMiss \/ AdoptProbe \/ AdoptRegister
  \/ SweepOrphans \/ Spawn \/ WriteIdentity \/ RegisterPending
  \/ WorkerIsReady \/ ClearPending \/ RegisterEntry \/ StartupFails \/ StartupRaises

SampleStep ==
  \/ \E l \in Loaders : BeginSample(l) \/ RejectSample(l)
  \/ RunConnect \/ RunRefused \/ RunSucceeds \/ RunBroken
  \/ RunAborted \/ RunAbortUnlink \/ RunAbortPop
  \/ KeepWorker \/ ReleaseWorker \/ ParkWorker \/ EndPrompt

ExecStep == ModelStep \/ CreateStep \/ SampleStep

ApiStep(a) ==
  \/ \E l \in Loaders : \/ ClearRequest(a, l) \/ ClearNext(a, l)
                        \/ StopPending(a, l) \/ StopWorker(a, l)
  \/ \E liveNodes \in SUBSET Loaders : ReapRequest(a, liveNodes)
  \/ ClearReturns(a) \/ Respond(a) \/ StopRequest(a) \/ StopGrab(a) \/ StopExit(a)

WorkerStep == \E p \in Pid : WorkerReady(p) \/ WorkerStops(p) \/ WorkerDies(p)

Next ==
  \/ \E t \in Threads : ThreadStep(t)
  \/ ExecStep
  \/ \E a \in Api : ApiStep(a)
  \/ WorkerStep
  \/ \E l \in Loaders : NeighbourStarts(l)
  \/ Restart

Spec == Init /\ [][Next]_vars

-----------------------------------------------------------------------------
ThreadLabels ==
  {"prompt", "idle", "evict", "abort_kill", "abort_unlink", "pop", "send", "wait",
   "unlink", "kill", "clean", "ensure", "lookup", "adopt", "adopt_register",
   "sweep", "spawn", "identity", "register_pending", "wait_ready", "clear_pending",
   "register_entry", "raise", "connect", "running", "abort_run_unlink",
   "abort_run_pop", "demote", "next", "done", "stop_pending", "stop_workers"}

(* Every variable holds what the code could hold there. *)
TypeOK ==
  /\ proc \in [Pid -> Process]
  /\ nextPid \in 1..MaxPid + 1
  /\ foreign \in [Loaders -> {"none", "alive", "killed"}]
  /\ sock \in [Loaders -> Pid \cup {NoPid}]
  /\ ready \in [Loaders -> Pid \cup {NoPid}]
  /\ ident \in [Loaders -> Keys \cup {NoKey}]
  /\ workers \in [Loaders -> Entry]
  /\ pending \in [Loaders -> Pid \cup {NoPid}]
  /\ cacheKey \in [Loaders -> Keys \cup {NoKey}]
  /\ pc \in [Threads -> ThreadLabels]
  /\ uid \in [Threads -> Loaders \cup {NoLoader}]
  /\ mode \in [Threads -> {"none", "evict", "create", "failed", "stop"}]
  /\ held \in [Threads -> Entry]
  /\ op \in {"none", "model", "sample"}
  /\ key \in Keys \cup {NoKey}
  /\ new \in Pid \cup {NoPid}
  /\ rt \in [Loaders -> Keys \cup {NoKey}]
  /\ job \in Pid \cup {NoPid}
  /\ kind \in [Api -> {"none", "clear", "reap", "stop"}]
  /\ todo \in [Api -> SUBSET Loaders]
  /\ seen \in [Api -> SUBSET Pid]
  /\ grabbed \in [Loaders -> Entry]
  /\ session \in 1..MaxSession
  /\ up \in BOOLEAN

(* Two live workers never carry the same token: whatever Unload, a cancelled
   start or a crash leaves behind is gone before the next Popen for that Model
   node (_cleanup_worker_artifacts in _get_or_create_distributed_worker), also
   when the previous one was still loading and answers no request. *)
OneWorkerPerLoader ==
  \A p, q \in Pid : Live(p) /\ Live(q) /\ proc[p].owner = proc[q].owner => p = q

(* A job only ever reaches a worker that was configured with the cache key the
   Sample asks for, whether the worker was started, reused or adopted after a
   crash, and wherever between Popen and the identity file the crash came
   (_try_adopt_orphan_worker: an orphan whose settings changed "would otherwise
   answer with the old model"). *)
JobMeetsItsModel ==
  pc[Exec] = "running" /\ Live(job) => proc[job].key = key /\ proc[job].owner = uid[Exec]

(* When /xdit/loader/clear answers, every worker that existed for that Model
   node when the request came is dead, even one the executor had started but
   not yet registered (_evict_loader_worker); when /xdit/loader/reap answers,
   every worker of a deleted Model node that had registered a cache key is. *)
UnloadFreesTheGpu ==
  \A a \in Api :
    pc[a] = "done" /\ kind[a] \in {"clear", "reap"} => \A p \in seen[a] : ~Live(p)

(* Thread t will stop worker p before it does anything else. *)
OnItsWayToKill(t, p) ==
  /\ uid[t] = proc[p].owner
  /\ \/ pc[t] \in {"abort_kill", "kill"}
     \/ pc[t] \in {"evict", "pop", "send", "wait", "unlink"} /\ mode[t] = "evict"
     \/ pc[t] \in {"send", "wait"} /\ held[t].pid = p

(* Somebody holds what is needed to stop p: the registry, the pending table, the
   executor that is starting it, a thread that is on its way to kill its token,
   or the shutdown hook that works through the registry it took. *)
InHand(p) ==
  \/ workers[proc[p].owner].pid = p
  \/ pending[proc[p].owner] = p
  \/ new = p
  \/ \E t \in Threads : OnItsWayToKill(t, p)
  \/ \E a \in Api : /\ pc[a] \in {"stop_workers", "send", "wait", "unlink"}
                    /\ mode[a] = "stop" /\ grabbed[proc[p].owner].pid = p

(* Somebody always holds what is needed to stop a worker this ComfyUI started
   (worker.py: every path that pops an entry goes on to shut it down). *)
WorkersAreAccountedFor ==
  \A p \in Pid : up /\ Live(p) /\ proc[p].sess = session => InHand(p)

(* From the moment ComfyUI is about to start its first worker, and for as long
   as one of its own lives, no worker of an earlier ComfyUI is out of its hands,
   not even one that was still loading when that ComfyUI died and has neither
   socket nor ready file: it is in the registry because it was adopted, or on
   its way out of it, or dead (_sweep_orphan_workers: "Reclaim GPUs from workers
   no live ComfyUI can reach, before we need them"). *)
NeedsGpus ==
  /\ up
  /\ \/ pc[Exec] = "spawn"
     \/ \E p \in Pid : Live(p) /\ proc[p].sess = session

OrphansAreReclaimed ==
  NeedsGpus => \A p \in Pid : Live(p) /\ proc[p].sess < session => InHand(p)

(* When the shutdown hook returns, every worker that was registered or pending
   when it was called is dead, or the executor, which goes on meanwhile, has
   taken its entry out first and is on its way to stop it
   (_clear_all_runtime_caches; on_cleanup: "must not leave torchrun holding the
   GPUs").  A worker that the executor had started and that was in neither
   table is not among them. *)
ShutdownFreesTheGpus ==
  \A a \in Api : pc[a] = "stop_workers" /\ todo[a] = {} =>
    \A p \in seen[a] : Live(p) => \E t \in Threads \ {a} : OnItsWayToKill(t, p)

(* A loader is marked as starting only while the executor is starting it, so a
   cancel or a failure leaves no entry that a later eviction would act on. *)
PendingOnlyWhileStarting ==
  \A l \in Loaders : pending[l] # NoPid =>
    /\ pc[Exec] \in {"wait_ready", "clear_pending"}
    /\ uid[Exec] = l /\ pending[l] = new

(* The live workers, by what they were configured with. *)
Configured(p) == [id |-> p, loader |-> proc[p].owner, key |-> proc[p].key]

Alive == {Configured(p) : p \in {q \in Pid : Live(q)}}

(* The worker a job went to, as the Sample asks for it. *)
Asked == [id |-> job, loader |-> uid[Exec], key |-> key]

Given == IF pc[Exec] = "running" THEN {Asked} ELSE {}

(* What an Unload or a reap found. *)
Owed == [a \in Api |-> IF kind[a] \in {"clear", "reap"} THEN seen[a] ELSE {}]

Pool == INSTANCE WorkerPool WITH
  Ids <- Pid, Clients <- Api,
  ever <- 1..nextPid - 1, live <- Alive, run <- Given, owed <- Owed

(* Registry, files, process table and threads are together one pool of workers:
   one at a time for each Model node, none made over or brought back, none stopped
   by the aborted Sample of another node, every job with the worker it asks for,
   and an Unload answered only when what it found is gone
   (_get_or_create_distributed_worker, _abort_distributed_worker,
   _clear_loader_cache). *)
OnePool == Pool!Spec
=============================================================================
