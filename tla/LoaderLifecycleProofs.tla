------------------------ MODULE LoaderLifecycleProofs ------------------------
(* What LoaderLifecycle does for any number of Model nodes, cache keys, API   *)
(* threads, workers and ComfyUI processes.                                    *)
EXTENDS LoaderLifecycle, TLAPS

USE LifecycleAssumption

(* Outside these labels a thread is inside a call about one loader, and the *)
(* executor's call asks for one key.                                        *)
BetweenCalls == {"prompt", "idle", "next", "done", "stop_pending", "stop_workers"}

CallsHaveALoader ==
  /\ \A t \in Threads : pc[t] \notin BetweenCalls => uid[t] \in Loaders
  /\ pc[Exec] \notin BetweenCalls => key \in Keys

Typing == TypeOK /\ CallsHaveALoader

LEMMA InitTyping == Init => Typing
  BY DEF Init, Typing, TypeOK, CallsHaveALoader, BetweenCalls, ThreadLabels, NoEntries,
         NoPids, NoKeys, NoEntry, NoProc, Entry, Process, FirstPc, NoUids, NoModes, NoHeld,
         Threads, Pid, NoPid

ThreadTyping == /\ pc \in [Threads -> ThreadLabels]
                /\ uid \in [Threads -> Loaders \cup {NoLoader}]
                /\ mode \in [Threads -> {"none", "evict", "create", "failed", "stop"}]
                /\ held \in [Threads -> Entry]
                /\ CallsHaveALoader
NodeTyping == op \in {"none", "model", "sample"} /\ key \in Keys \cup {NoKey}
PromptTyping == rt \in [Loaders -> Keys \cup {NoKey}]

LEMMA NoEntryTyping == NoEntry \in Entry
  BY DEF NoEntry, Entry, Pid, NoPid

LEMMA ParkedTyping ==
  ASSUME NEW w \in [Loaders -> Entry], NEW l \in Loaders, NEW b \in BOOLEAN
  PROVE  /\ [w EXCEPT ![l].parked = b] \in [Loaders -> Entry]
         /\ [w[l] EXCEPT !.parked = b] \in Entry
  BY DEF Entry

LEMMA ParkedKeepsTheRest ==
  ASSUME NEW w \in [Loaders -> Entry], NEW l, NEW m \in Loaders, NEW b \in BOOLEAN
  PROVE  /\ [w EXCEPT ![l].parked = b][m].pid = w[m].pid
         /\ [w EXCEPT ![l].parked = b][m].key = w[m].key
         /\ m # l => [w EXCEPT ![l].parked = b][m] = w[m]
  BY DEF Entry

LEMMA StateTyping ==
  ASSUME NEW w \in [Pid -> Process], NEW p \in Pid, NEW st \in {"ready", "stopping"}
  PROVE  [w EXCEPT ![p].st = st] \in [Pid -> Process]
<1>1. [w[p] EXCEPT !.st = st] \in Process
  BY DEF Process
<1> QED
  BY <1>1

LEMMA NodeDoneTyping ==
  ASSUME Typing, NodeDone
  PROVE  ThreadTyping' /\ NodeTyping'
  BY NoEntryTyping DEF Typing, TypeOK, CallsHaveALoader, BetweenCalls, ThreadLabels, Threads, NodeDone,
         ForgetLocals, Goto, ThreadTyping, NodeTyping

LEMMA ModelReturnsTyping ==
  ASSUME Typing, ModelReturns, uid[Exec] \in Loaders
  PROVE  ThreadTyping' /\ NodeTyping' /\ PromptTyping'
  BY NodeDoneTyping DEF ModelReturns, Typing, TypeOK, PromptTyping

LEMMA PromptFailsTyping ==
  ASSUME Typing, PromptFails, uid[Exec] \in Loaders, key \in Keys
  PROVE  ThreadTyping' /\ NodeTyping' /\ PromptTyping'
<1>1. PromptTyping'
  BY DEF PromptFails, PromptTyping, NoKeys
<1>2. CASE op = "model"
  BY <1>1, <1>2, NodeDoneTyping DEF PromptFails
<1>3. CASE op = "sample"
  BY <1>1, <1>3, NoEntryTyping DEF PromptFails, Typing, TypeOK, CallsHaveALoader, BetweenCalls,
       ThreadLabels, Threads, Goto, ThreadTyping, NodeTyping
<1> QED
  BY <1>2, <1>3 DEF PromptFails

LEMMA AcquiredTyping ==
  ASSUME Typing, NEW e \in Entry, Acquired(e), uid[Exec] \in Loaders, key \in Keys
  PROVE  ThreadTyping' /\ NodeTyping' /\ PromptTyping'
<1>1. CASE op = "model"
  BY <1>1, ModelReturnsTyping DEF Acquired
<1>2. CASE op = "sample"
  BY <1>2 DEF Acquired, Typing, TypeOK, CallsHaveALoader, BetweenCalls,
       ThreadLabels, Threads, Goto, ThreadTyping, NodeTyping, PromptTyping
<1> QED
  BY <1>1, <1>2 DEF Acquired

LEMMA TypingStep ==
  ASSUME Typing, [Next]_vars
  PROVE  Typing'
<1> USE DEF Typing, TypeOK, CallsHaveALoader, BetweenCalls, ThreadLabels, Threads, Pid, NoPid,
            procVars, fileVars, regVars, threadVars, execVars, apiVars, comfyVars, vars, Goto,
            NoEntry, Entry, Process
<1>1. ASSUME NEW t \in Threads, EvictPending(t) PROVE Typing'
  BY <1>1 DEF EvictPending
<1>2. ASSUME NEW t \in Threads, AbortKill(t) PROVE Typing'
  BY <1>2 DEF AbortKill, KillToken, KillTokens, Kill, Dead
<1>3. ASSUME NEW t \in Threads, AbortUnlink(t) PROVE Typing'
  BY <1>3 DEF AbortUnlink, UnlinkSocket, AfterAbort
<1>4. ASSUME NEW t \in Threads, EvictPop(t) PROVE Typing'
  BY <1>4 DEF EvictPop, AfterPop
<1>5. ASSUME NEW t \in Threads, ShutdownSend(t) PROVE Typing'
  BY <1>5 DEF ShutdownSend, Kill, Dead
<1>6. ASSUME NEW t \in Threads, ShutdownWait(t) PROVE Typing'
  BY <1>6 DEF ShutdownWait, Kill, Dead
<1>7. ASSUME NEW t \in Threads, ShutdownUnlink(t) PROVE Typing'
  BY <1>7 DEF ShutdownUnlink, UnlinkSocket, AfterShutdown
<1>8. ASSUME NEW t \in Threads, CleanupKill(t) PROVE Typing'
  BY <1>8 DEF CleanupKill, KillToken, KillTokens, Kill, Dead
<1>9. ASSUME NEW t \in Threads, CleanupUnlink(t) PROVE Typing'
  <2> HIDE DEF Entry, Process, NoEntry
  <2>1. uid[t] \in Loaders /\ sock' \in [Loaders -> Pid \cup {NoPid}]
        /\ ready' \in [Loaders -> Pid \cup {NoPid}] /\ ident' \in [Loaders -> Keys \cup {NoKey}]
    BY <1>9 DEF CleanupUnlink, UnlinkSocket, UnlinkIdentity
  <2>2. CASE mode[t] # "evict"
    BY <1>9, <2>1, <2>2 DEF CleanupUnlink
  <2>3. CASE EvictReturns(t)
    <3>1. CASE t \in Api /\ Goto(t, "next") /\ ForgetLocals(t) /\ UNCHANGED <<op, key>>
      BY <1>9, <2>1, <3>1, NoEntryTyping DEF CleanupUnlink, ForgetLocals
    <3>2. CASE t = Exec /\ op = "model" /\ ~NodeDone
      BY <1>9, <2>1, <2>3, <3>2 DEF CleanupUnlink, EvictReturns
    <3>3. CASE NodeDone
      BY <1>9, <2>1, <3>3, NodeDoneTyping DEF CleanupUnlink, ThreadTyping, NodeTyping,
           PromptTyping
    <3> QED
      BY <2>3, <3>1, <3>2, <3>3 DEF EvictReturns
  <2> QED
    BY <1>9, <2>2, <2>3 DEF CleanupUnlink
<1>10. ASSUME NEW l \in Loaders, NEW k \in Keys, BeginModel(l, k) PROVE Typing'
  BY <1>10 DEF BeginModel
<1>11. ASSUME DeferWarm PROVE Typing'
  BY <1>11 DEF DeferWarm, ModelReturns, NodeDone, ForgetLocals
<1>12. ASSUME EnsureHit PROVE Typing'
  <2> HIDE DEF Entry, Process, NoEntry
  <2>1. uid[Exec] \in Loaders /\ ModelReturns
    BY <1>12 DEF EnsureHit
  <2>2. workers' \in [Loaders -> Entry]
    <3>1. workers' = workers \/ workers' = [workers EXCEPT ![uid[Exec]].parked = FALSE]
      BY <1>12 DEF EnsureHit
    <3>2. [workers[uid[Exec]] EXCEPT !.parked = FALSE] \in Entry
      BY <2>1, ParkedTyping
    <3> QED
      BY <2>1, <3>1, <3>2
  <2>3. ThreadTyping' /\ NodeTyping' /\ PromptTyping'
    BY <2>1, ModelReturnsTyping
  <2> QED
    BY <1>12, <2>1, <2>2, <2>3 DEF EnsureHit, ThreadTyping, NodeTyping, PromptTyping
<1>13. ASSUME EnsureOrphan PROVE Typing'
  <2> HIDE DEF Entry, Process, NoEntry
  <2>1. uid[Exec] \in Loaders /\ workers' \in [Loaders -> Entry]
    BY <1>13, NoEntryTyping DEF EnsureOrphan
  <2>2. ThreadTyping' /\ NodeTyping' /\ PromptTyping'
    BY <1>13, <2>1, ModelReturnsTyping DEF EnsureOrphan
  <2> QED
    BY <1>13, <2>1, <2>2 DEF EnsureOrphan, ThreadTyping, NodeTyping, PromptTyping
<1>14. ASSUME EnsureMiss PROVE Typing'
  BY <1>14 DEF EnsureMiss
<1>15. ASSUME LookupHit PROVE Typing'
  <2> HIDE DEF Entry, Process, NoEntry
  <2>1. uid[Exec] \in Loaders /\ key \in Keys /\ [workers[uid[Exec]] EXCEPT !.parked = FALSE] \in Entry
    BY <1>15, ParkedTyping DEF LookupHit
  <2>2. workers' \in [Loaders -> Entry]
    BY <1>15, <2>1, ParkedTyping DEF LookupHit
  <2>3. Acquired([workers[uid[Exec]] EXCEPT !.parked = FALSE])
    BY <1>15 DEF LookupHit
  <2>4. ThreadTyping' /\ NodeTyping' /\ PromptTyping'
    BY <2>1, <2>3, AcquiredTyping
  <2> QED
    BY <1>15, <2>2, <2>4 DEF LookupHit, ThreadTyping, NodeTyping, PromptTyping
<1>16. ASSUME LookupStale PROVE Typing'
  BY <1>16 DEF LookupStale, AfterStale
<1>17. ASSUME LookupMiss PROVE Typing'
  BY <1>17 DEF LookupMiss
<1>18. ASSUME AdoptProbe PROVE Typing'
  <2>1. ASSUME NEW p \in OrphanPids(uid[Exec])
        PROVE  [pid |-> p, key |-> key, adopted |-> TRUE, parked |-> FALSE] \in Entry
    BY <2>1 DEF OrphanPids, OfToken
  <2> HIDE DEF Entry, Process, NoEntry
  <2>2. held' \in [Threads -> Entry]
    BY <1>18, <2>1 DEF AdoptProbe
  <2> QED
    BY <1>18, <2>2 DEF AdoptProbe
<1>19. ASSUME AdoptRegister PROVE Typing'
  <2> HIDE DEF Entry, Process, NoEntry
  <2>1. uid[Exec] \in Loaders /\ key \in Keys /\ held[Exec] \in Entry
    BY <1>19, NoEntryTyping DEF AdoptRegister
  <2>2. workers' \in [Loaders -> Entry]
    BY <1>19, <2>1 DEF AdoptRegister
  <2>3. Acquired(held[Exec])
    BY <1>19 DEF AdoptRegister
  <2>4. ThreadTyping' /\ NodeTyping' /\ PromptTyping'
    BY <2>1, <2>3, AcquiredTyping
  <2> QED
    BY <1>19, <2>2, <2>4 DEF AdoptRegister, ThreadTyping, NodeTyping, PromptTyping
<1>20. ASSUME SweepOrphans PROVE Typing'
  BY <1>20 DEF SweepOrphans, KillTokens, Kill, Dead, UnlinkIdentity
<1>21. ASSUME Spawn PROVE Typing'
  BY <1>21 DEF Spawn
<1>22. ASSUME WriteIdentity PROVE Typing'
  BY <1>22 DEF WriteIdentity
<1>23. ASSUME RegisterPending PROVE Typing'
  BY <1>23 DEF RegisterPending
<1>24. ASSUME WorkerIsReady PROVE Typing'
  BY <1>24 DEF WorkerIsReady
<1>25. ASSUME ClearPending PROVE Typing'
  BY <1>25 DEF ClearPending
<1>26. ASSUME RegisterEntry PROVE Typing'
  <2>1. uid[Exec] \in Loaders /\ key \in Keys /\ NewEntry \in Entry
    BY <1>26, NoEntryTyping DEF RegisterEntry, NewEntry
  <2>2. workers' \in [Loaders -> Entry]
    BY <1>26, <2>1 DEF RegisterEntry
  <2>3. Acquired(NewEntry)
    BY <1>26 DEF RegisterEntry
  <2>4. ThreadTyping' /\ NodeTyping' /\ PromptTyping'
    BY <2>1, <2>3, AcquiredTyping
  <2> QED
    BY <1>26, <2>2, <2>4 DEF RegisterEntry, ThreadTyping, NodeTyping, PromptTyping
<1>27. ASSUME StartupFails PROVE Typing'
  BY <1>27 DEF StartupFails
<1>28. ASSUME StartupRaises PROVE Typing'
  BY <1>28, PromptFailsTyping DEF StartupRaises, ThreadTyping, NodeTyping, PromptTyping
<1>29. ASSUME NEW l \in Loaders, BeginSample(l) PROVE Typing'
  BY <1>29 DEF BeginSample
<1>29a. ASSUME NEW l \in Loaders, RejectSample(l) PROVE Typing'
  BY <1>29a DEF RejectSample, NoKeys
<1>30. ASSUME RunConnect PROVE Typing'
  BY <1>30 DEF RunConnect
<1>31. ASSUME RunRefused PROVE Typing'
  BY <1>31, PromptFailsTyping DEF RunRefused, ThreadTyping, NodeTyping, PromptTyping
<1>32. ASSUME RunSucceeds PROVE Typing'
  BY <1>32 DEF RunSucceeds
<1>33. ASSUME RunBroken PROVE Typing'
  BY <1>33, PromptFailsTyping DEF RunBroken, ThreadTyping, NodeTyping, PromptTyping
<1>34. ASSUME RunAborted PROVE Typing'
  BY <1>34 DEF RunAborted, KillToken, KillTokens, Kill, Dead
<1>35. ASSUME RunAbortUnlink PROVE Typing'
  BY <1>35 DEF RunAbortUnlink, UnlinkSocket
<1>36. ASSUME RunAbortPop PROVE Typing'
  <2> HIDE DEF Entry, Process, NoEntry
  <2>1. uid[Exec] \in Loaders /\ key \in Keys
    BY <1>36 DEF RunAbortPop
  <2>2. workers' \in [Loaders -> Entry]
    BY <1>36, NoEntryTyping DEF RunAbortPop
  <2> QED
    BY <1>36, <2>1, <2>2, PromptFailsTyping DEF RunAbortPop, ThreadTyping, NodeTyping, PromptTyping
<1>37. ASSUME KeepWorker PROVE Typing'
  BY <1>37 DEF KeepWorker, NodeDone, ForgetLocals
<1>38. ASSUME ReleaseWorker PROVE Typing'
  BY <1>38 DEF ReleaseWorker
<1>39. ASSUME ParkWorker PROVE Typing'
  <2> HIDE DEF Entry, Process, NoEntry
  <2>1. workers' \in [Loaders -> Entry]
    BY <1>39, ParkedTyping DEF ParkWorker
  <2> QED
    BY <1>39, <2>1, NodeDoneTyping DEF ParkWorker, ThreadTyping, NodeTyping, PromptTyping
<1>40. ASSUME EndPrompt PROVE Typing'
  BY <1>40 DEF EndPrompt, NoKeys
<1>41. ASSUME NEW a \in Api, NEW l \in Loaders, ClearRequest(a, l) PROVE Typing'
  BY <1>41 DEF ClearRequest, LiveOf, OfToken
<1>42. ASSUME NEW a \in Api, NEW l \in Loaders, ClearNext(a, l) PROVE Typing'
  BY <1>42 DEF ClearNext
<1>43. ASSUME NEW a \in Api, NEW l \in Loaders, StopPending(a, l) PROVE Typing'
  BY <1>43 DEF StopPending
<1>44. ASSUME NEW a \in Api, NEW l \in Loaders, StopWorker(a, l) PROVE Typing'
  BY <1>44 DEF StopWorker
<1>45. ASSUME NEW a \in Api, NEW L \in SUBSET Loaders, ReapRequest(a, L) PROVE Typing'
  BY <1>45 DEF ReapRequest, LiveOf, OfToken
<1>46. ASSUME NEW a \in Api, ClearReturns(a) PROVE Typing'
  BY <1>46 DEF ClearReturns
<1>47. ASSUME NEW a \in Api, Respond(a) PROVE Typing'
  BY <1>47 DEF Respond
<1>48. ASSUME NEW a \in Api, StopRequest(a) PROVE Typing'
  BY <1>48 DEF StopRequest, Tabled
<1>49. ASSUME NEW a \in Api, StopGrab(a) PROVE Typing'
  BY <1>49 DEF StopGrab, Entries
<1>50. ASSUME NEW a \in Api, StopExit(a) PROVE Typing'
  BY <1>50 DEF StopExit, NewComfyUI, NoEntries, NoPids, NoKeys, FirstPc, NoUids, NoModes, NoHeld
<1>51. ASSUME NEW p \in Pid, WorkerReady(p) PROVE Typing'
  <2> HIDE DEF Entry, Process, NoEntry
  <2>1. proc' \in [Pid -> Process]
    BY <1>51, StateTyping DEF WorkerReady
  <2>2. sock' \in [Loaders -> Pid \cup {NoPid}] /\ ready' \in [Loaders -> Pid \cup {NoPid}]
    BY <1>51 DEF WorkerReady, UnlinkSocket
  <2> QED
    BY <1>51, <2>1, <2>2 DEF WorkerReady
<1>52. ASSUME NEW p \in Pid, WorkerStops(p) PROVE Typing'
  <2> HIDE DEF Entry, Process, NoEntry
  <2>1. proc' \in [Pid -> Process]
    BY <1>52, StateTyping DEF WorkerStops
  <2>2. sock' \in [Loaders -> Pid \cup {NoPid}] /\ ready' \in [Loaders -> Pid \cup {NoPid}]
    BY <1>52 DEF WorkerStops, UnlinkSocket
  <2> QED
    BY <1>52, <2>1, <2>2 DEF WorkerStops
<1>53. ASSUME NEW p \in Pid, WorkerDies(p) PROVE Typing'
  BY <1>53 DEF WorkerDies, Kill, Dead
<1>54. ASSUME NEW l \in Loaders, NeighbourStarts(l) PROVE Typing'
  BY <1>54 DEF NeighbourStarts
<1>55. ASSUME Restart PROVE Typing'
  BY <1>55 DEF Restart, NewComfyUI, NoEntries, NoPids, NoKeys, FirstPc, NoUids, NoModes, NoHeld
<1>56. CASE UNCHANGED vars
  BY <1>56
<1> QED
  BY <1>1, <1>2, <1>3, <1>4, <1>5, <1>6, <1>7, <1>8, <1>9, <1>10, <1>11, <1>12, <1>13, <1>14,
     <1>15, <1>16, <1>17, <1>18, <1>19, <1>20, <1>21, <1>22, <1>23, <1>24, <1>25, <1>26, <1>27,
     <1>28, <1>29, <1>29a, <1>30, <1>31, <1>32, <1>33, <1>34, <1>35, <1>36, <1>37, <1>38,
     <1>39, <1>40, <1>41, <1>42, <1>43, <1>44, <1>45, <1>46, <1>47, <1>48, <1>49, <1>50, <1>51,
     <1>52, <1>53, <1>54, <1>55, <1>56 DEF Next, ThreadStep, ExecStep, ModelStep,
     CreateStep, SampleStep, ApiStep, WorkerStep

(* Every variable of the lifecycle holds what the code could hold there, for
   every number of loaders, keys, API threads, workers and restarts. *)
THEOREM TypeCorrect == Spec => []TypeOK
<1>1. Typing /\ [Next]_vars => Typing'
  BY TypingStep
<1>2. Typing => TypeOK
  BY DEF Typing
<1> QED
  BY InitTyping, <1>1, <1>2, PTL DEF Spec

-----------------------------------------------------------------------------
(* One worker per token, and the right one for every job.  Apart from starting *)
(* a worker, noting its key, binding its socket and registering it, every step *)
(* can only take processes, files and entries away.                            *)

FreshPids == \A p \in Pid : p >= nextPid => ~Live(p)

IdentityTells ==
  \A l \in Loaders, p \in Pid :
    Live(p) /\ proc[p].owner = l /\ ident[l] # NoKey => proc[p].key = ident[l]

SocketTells ==
  \A l \in Loaders : /\ sock[l] < nextPid
                     /\ sock[l] # NoPid /\ Live(sock[l]) => proc[sock[l]].owner = l

EntryTells ==
  \A l \in Loaders :
    /\ workers[l].pid < nextPid
    /\ workers[l].pid = NoPid => workers[l] = NoEntry
    /\ workers[l].pid # NoPid /\ Live(workers[l].pid) =>
         proc[workers[l].pid].owner = l /\ proc[workers[l].pid].key = workers[l].key

World == FreshPids /\ OneWorkerPerLoader /\ IdentityTells /\ SocketTells /\ EntryTells

(* ... and what the executor knows at each label on the way to a job. *)
TokenCleared ==
  pc[Exec] \in {"clean", "sweep", "spawn"} =>
    \A p \in Pid : Live(p) => proc[p].owner # uid[Exec]

IdentityCleared == pc[Exec] \in {"sweep", "spawn"} => ident[uid[Exec]] = NoKey

StartLabels == {"identity", "register_pending", "wait_ready", "clear_pending", "register_entry"}

WorkerHasKey ==
  pc[Exec] \in StartLabels \cup {"adopt_register", "connect", "running"} =>
    \A p \in Pid : Live(p) /\ proc[p].owner = uid[Exec] => proc[p].key = key

NewIsOurs ==
  pc[Exec] \in StartLabels =>
    /\ new \in Pid /\ new < nextPid
    /\ Live(new) => proc[new].owner = uid[Exec]

AdoptedIsOurs ==
  pc[Exec] = "adopt_register" =>
    /\ held[Exec].pid \in Pid /\ held[Exec].pid < nextPid /\ held[Exec].key = key
    /\ Live(held[Exec].pid) => proc[held[Exec].pid].owner = uid[Exec]

JobIsOurs ==
  pc[Exec] = "running" => job \in Pid /\ (Live(job) => proc[job].owner = uid[Exec])

ExecKnows == TokenCleared /\ IdentityCleared /\ WorkerHasKey /\ NewIsOurs /\ AdoptedIsOurs
             /\ JobIsOurs

ProcsShrink ==
  /\ nextPid' = nextPid
  /\ \A p \in Pid : Live(p)' => /\ Live(p)
                                /\ proc'[p].owner = proc[p].owner
                                /\ proc'[p].key = proc[p].key
  /\ \A l \in Loaders : ident'[l] \in {ident[l], NoKey}

SocketsShrink == \A l \in Loaders : sock'[l] \in {sock[l], NoPid}

EntriesShrink ==
  \A l \in Loaders : \/ workers'[l] = NoEntry
                     \/ /\ workers[l] # NoEntry
                        /\ workers'[l].pid = workers[l].pid
                        /\ workers'[l].key = workers[l].key

Shrinks == ProcsShrink /\ SocketsShrink /\ EntriesShrink

ExecQuiet == /\ pc'[Exec] = pc[Exec] /\ uid'[Exec] = uid[Exec] /\ held'[Exec] = held[Exec]
             /\ key' = key /\ new' = new /\ job' = job

(* The labels at which ExecKnows claims something. *)
Known == {"clean", "sweep", "spawn", "adopt_register", "connect", "running"} \cup StartLabels

USE DEF Live, ProcsShrink, SocketsShrink, EntriesShrink

LEMMA ProcsShrinkIsSafe ==
  ASSUME World, ProcsShrink
  PROVE  FreshPids' /\ OneWorkerPerLoader' /\ IdentityTells'
<1>1. FreshPids' /\ OneWorkerPerLoader'
  BY DEF World, FreshPids, OneWorkerPerLoader
<1>2. IdentityTells'
  BY DEF World, IdentityTells
<1> QED
  BY <1>1, <1>2

LEMMA SocketsShrinkIsSafe ==
  ASSUME Typing, World, ProcsShrink, SocketsShrink
  PROVE  SocketTells'
<1> SUFFICES ASSUME NEW l \in Loaders
             PROVE  /\ sock'[l] < nextPid'
                    /\ sock'[l] # NoPid /\ Live(sock[l])' => proc'[sock'[l]].owner = l
  BY DEF SocketTells
<1>1. sock[l] \in Pid \cup {NoPid} /\ nextPid \in 1..MaxPid + 1
  BY DEF Typing, TypeOK
<1>2. CASE sock'[l] = NoPid
  BY <1>1, <1>2 DEF NoPid
<1>3. CASE sock'[l] = sock[l]
  BY <1>1, <1>3 DEF World, SocketTells
<1> QED
  BY <1>2, <1>3

LEMMA EntriesShrinkIsSafe ==
  ASSUME Typing, World, ProcsShrink, EntriesShrink
  PROVE  EntryTells'
<1> SUFFICES ASSUME NEW l \in Loaders
             PROVE  /\ workers'[l].pid < nextPid'
                    /\ workers'[l].pid = NoPid => workers'[l] = NoEntry
                    /\ workers'[l].pid # NoPid /\ Live(workers[l].pid)' =>
                         /\ proc'[workers'[l].pid].owner = l
                         /\ proc'[workers'[l].pid].key = workers'[l].key
  BY DEF EntryTells
<1>1. workers[l].pid \in Pid \cup {NoPid} /\ nextPid \in 1..MaxPid + 1
  BY DEF Typing, TypeOK, Entry
<1>2. CASE workers'[l] = NoEntry
  BY <1>1, <1>2 DEF NoEntry, NoPid
<1>3. CASE /\ workers[l] # NoEntry
           /\ workers'[l].pid = workers[l].pid
           /\ workers'[l].key = workers[l].key
  BY <1>1, <1>3 DEF World, EntryTells
<1> QED
  BY <1>2, <1>3

LEMMA QuietKeepsExecKnows ==
  ASSUME Typing, ExecKnows, ProcsShrink, ExecQuiet
  PROVE  ExecKnows'
<1> USE DEF ExecKnows, ExecQuiet
<1>1. TokenCleared'
  BY DEF TokenCleared
<1>2. IdentityCleared'
  BY DEF IdentityCleared, Typing, CallsHaveALoader, BetweenCalls, Threads
<1>3. WorkerHasKey'
  BY DEF WorkerHasKey
<1>4. NewIsOurs' /\ AdoptedIsOurs' /\ JobIsOurs'
  BY DEF NewIsOurs, AdoptedIsOurs, JobIsOurs
<1> QED
  BY <1>1, <1>2, <1>3, <1>4

(* Every other step only shrinks, and the executor is where it was or at a label *)
(* that claims nothing.                                                          *)
Harmless == Shrinks /\ (ExecQuiet \/ pc'[Exec] \notin Known)

LEMMA HarmlessIsEnough ==
  ASSUME Typing, Typing', World, ExecKnows, Harmless
  PROVE  World' /\ ExecKnows'
<1>1. World'
  BY ProcsShrinkIsSafe, SocketsShrinkIsSafe, EntriesShrinkIsSafe DEF Harmless, Shrinks, World
<1>2. CASE ExecQuiet
  BY <1>1, <1>2, QuietKeepsExecKnows DEF Harmless, Shrinks
<1>3. CASE pc'[Exec] \notin Known
  <2> USE DEF Known, StartLabels
  <2>1. TokenCleared' /\ IdentityCleared'
    BY <1>3 DEF TokenCleared, IdentityCleared
  <2>2. WorkerHasKey' /\ NewIsOurs'
    BY <1>3 DEF WorkerHasKey, NewIsOurs
  <2>3. AdoptedIsOurs' /\ JobIsOurs'
    BY <1>3 DEF AdoptedIsOurs, JobIsOurs
  <2> QED
    BY <1>1, <2>1, <2>2, <2>3 DEF ExecKnows
<1> QED
  BY <1>1, <1>2, <1>3 DEF Harmless

LEMMA ThreadStepsAreHarmless ==
  ASSUME Typing, Typing', NEW t \in Threads,
         ThreadStep(t), t # Exec \/ ~(CleanupKill(t) \/ CleanupUnlink(t))
  PROVE  Harmless
<1> USE DEF Harmless, Shrinks, ExecQuiet, Known, StartLabels, Typing, TypeOK, Threads, Goto,
            procVars, fileVars, regVars, threadVars, execVars, apiVars, comfyVars, vars
<1>1. CASE EvictPending(t)
  BY <1>1 DEF EvictPending
<1>2. CASE AbortKill(t)
  BY <1>2 DEF AbortKill, KillToken, KillTokens, Kill, Dead
<1>3. CASE AbortUnlink(t)
  BY <1>3 DEF AbortUnlink, UnlinkSocket, AfterAbort
<1>4. CASE EvictPop(t)
  BY <1>4 DEF EvictPop, AfterPop
<1>5. CASE ShutdownSend(t)
  BY <1>5 DEF ShutdownSend, Kill, Dead
<1>6. CASE ShutdownWait(t)
  BY <1>6 DEF ShutdownWait, Kill, Dead
<1>7. CASE ShutdownUnlink(t)
  BY <1>7 DEF ShutdownUnlink, UnlinkSocket, AfterShutdown
<1>8. CASE CleanupKill(t) /\ t # Exec
  BY <1>8 DEF CleanupKill, KillToken, KillTokens, Kill, Dead
<1>9. CASE CleanupUnlink(t) /\ t # Exec
  BY <1>9 DEF CleanupUnlink, UnlinkSocket, UnlinkIdentity, EvictReturns, ForgetLocals
<1> QED
  BY <1>1, <1>2, <1>3, <1>4, <1>5, <1>6, <1>7, <1>8, <1>9 DEF ThreadStep

HarmlessExecStep ==
  \/ \E l \in Loaders, k \in Keys : BeginModel(l, k)
  \/ \E l \in Loaders : BeginSample(l) \/ RejectSample(l)
  \/ DeferWarm \/ EnsureHit \/ EnsureOrphan \/ EnsureMiss \/ LookupStale \/ LookupMiss
  \/ StartupFails \/ StartupRaises \/ RunRefused \/ RunSucceeds \/ RunBroken \/ RunAborted
  \/ RunAbortUnlink \/ RunAbortPop \/ KeepWorker \/ ReleaseWorker \/ ParkWorker \/ EndPrompt

LEMMA HarmlessExecSteps ==
  ASSUME Typing, Typing', HarmlessExecStep
  PROVE  Harmless
<1> USE DEF Harmless, Shrinks, ExecQuiet, Known, StartLabels, Typing, TypeOK, Threads, Goto,
            procVars, fileVars, regVars, threadVars, execVars, apiVars, comfyVars, vars
<1>1. ASSUME NEW l \in Loaders, NEW k \in Keys, BeginModel(l, k) PROVE Harmless
  BY <1>1 DEF BeginModel
<1>2. ASSUME NEW l \in Loaders, BeginSample(l) PROVE Harmless
  BY <1>2 DEF BeginSample
<1>2a. ASSUME NEW l \in Loaders, RejectSample(l) PROVE Harmless
  BY <1>2a DEF RejectSample
<1>3. CASE DeferWarm
  BY <1>3 DEF DeferWarm, ModelReturns, NodeDone, ForgetLocals
<1>4. CASE EnsureHit
  <2>1. workers' = workers \/ workers' = [workers EXCEPT ![uid[Exec]].parked = FALSE]
    BY <1>4 DEF EnsureHit
  <2>2. workers[uid[Exec]] # NoEntry /\ proc' = proc /\ ident' = ident /\ sock' = sock
        /\ nextPid' = nextPid /\ pc' = [pc EXCEPT ![Exec] = "prompt"]
    BY <1>4 DEF EnsureHit, ModelReturns, EntryHit, EntryAlive, NodeDone
  <2>3. ASSUME NEW l \in Loaders
        PROVE  \/ workers'[l] = NoEntry
               \/ /\ workers[l] # NoEntry
                  /\ workers'[l].pid = workers[l].pid
                  /\ workers'[l].key = workers[l].key
    <3>1. workers \in [Loaders -> Entry]
      OBVIOUS
    <3>2. workers'[l].pid = workers[l].pid /\ workers'[l].key = workers[l].key
      <4>1. CASE workers' = workers
        BY <4>1
      <4>2. CASE workers' = [workers EXCEPT ![uid[Exec]].parked = FALSE]
        <5>1. FALSE \in BOOLEAN
          OBVIOUS
        <5> QED
          BY ONLY <3>1, <4>2, <5>1, ParkedKeepsTheRest, Zenon
      <4> QED
        BY <2>1, <4>1, <4>2
    <3>3. workers[l] = NoEntry => workers'[l] = NoEntry
      <4>1. CASE l = uid[Exec]
        BY <2>2, <4>1
      <4>2. CASE l # uid[Exec]
        BY ONLY <2>1, <3>1, <4>2, ParkedKeepsTheRest
      <4> QED
        BY <4>1, <4>2
    <3> QED
      BY <3>2, <3>3
  <2> QED
    BY <2>2, <2>3
<1>5. CASE EnsureOrphan
  BY <1>5 DEF EnsureOrphan, ModelReturns, NodeDone, ForgetLocals
<1>6. CASE EnsureMiss
  BY <1>6 DEF EnsureMiss
<1>7. CASE LookupStale
  BY <1>7 DEF LookupStale, AfterStale
<1>8. CASE LookupMiss
  BY <1>8 DEF LookupMiss
<1>9. CASE StartupFails
  BY <1>9 DEF StartupFails
<1>10. CASE StartupRaises
  BY <1>10 DEF StartupRaises, PromptFails, NodeDone, ForgetLocals
<1>11. CASE RunRefused
  BY <1>11 DEF RunRefused, PromptFails, NodeDone, ForgetLocals
<1>12. CASE RunSucceeds
  BY <1>12 DEF RunSucceeds
<1>13. CASE RunBroken
  BY <1>13 DEF RunBroken, PromptFails, NodeDone, ForgetLocals
<1>14. CASE RunAborted
  BY <1>14 DEF RunAborted, KillToken, KillTokens, Kill, Dead
<1>15. CASE RunAbortUnlink
  BY <1>15 DEF RunAbortUnlink, UnlinkSocket
<1>16. CASE RunAbortPop
  BY <1>16 DEF RunAbortPop, PromptFails, NodeDone, ForgetLocals
<1>17. CASE KeepWorker
  BY <1>17 DEF KeepWorker, NodeDone, ForgetLocals
<1>18. CASE ReleaseWorker
  BY <1>18 DEF ReleaseWorker
<1>19. CASE ParkWorker
  BY <1>19 DEF ParkWorker, NodeDone, ForgetLocals
<1>20. CASE EndPrompt
  BY <1>20 DEF EndPrompt
<1> QED
  BY <1>1, <1>2, <1>2a, <1>3, <1>4, <1>5, <1>6, <1>7, <1>8, <1>9, <1>10, <1>11, <1>12,
     <1>13, <1>14, <1>15, <1>16, <1>17, <1>18, <1>19, <1>20 DEF HarmlessExecStep

LEMMA OtherStepsAreHarmless ==
  ASSUME Typing, Typing',
         \/ \E a \in Api : ApiStep(a)
         \/ \E p \in Pid : WorkerStops(p) \/ WorkerDies(p)
         \/ \E l \in Loaders : NeighbourStarts(l)
         \/ Restart
         \/ UNCHANGED vars
  PROVE  Harmless
<1> USE DEF Harmless, Shrinks, ExecQuiet, Known, StartLabels, Typing, TypeOK, Threads, Goto,
            procVars, fileVars, regVars, threadVars, execVars, apiVars, comfyVars, vars
<1>1. ASSUME NEW a \in Api, NEW l \in Loaders, ClearRequest(a, l) PROVE Harmless
  BY <1>1 DEF ClearRequest
<1>2. ASSUME NEW a \in Api, NEW l \in Loaders, ClearNext(a, l) PROVE Harmless
  BY <1>2 DEF ClearNext
<1>3. ASSUME NEW a \in Api, NEW l \in Loaders, StopPending(a, l) PROVE Harmless
  BY <1>3 DEF StopPending
<1>4. ASSUME NEW a \in Api, NEW l \in Loaders, StopWorker(a, l) PROVE Harmless
  BY <1>4 DEF StopWorker
<1>5. ASSUME NEW a \in Api, NEW L \in SUBSET Loaders, ReapRequest(a, L) PROVE Harmless
  BY <1>5 DEF ReapRequest
<1>6. ASSUME NEW a \in Api, ClearReturns(a) PROVE Harmless
  BY <1>6 DEF ClearReturns
<1>7. ASSUME NEW a \in Api, Respond(a) PROVE Harmless
  BY <1>7 DEF Respond
<1>8. ASSUME NEW a \in Api, StopRequest(a) PROVE Harmless
  BY <1>8 DEF StopRequest
<1>9. ASSUME NEW a \in Api, StopGrab(a) PROVE Harmless
  BY <1>9 DEF StopGrab
<1>10. ASSUME NEW a \in Api, StopExit(a) PROVE Harmless
  BY <1>10 DEF StopExit, NewComfyUI, NoEntries, FirstPc
<1>11. ASSUME NEW p \in Pid, WorkerStops(p) PROVE Harmless
  BY <1>11 DEF WorkerStops, UnlinkSocket
<1>12. ASSUME NEW p \in Pid, WorkerDies(p) PROVE Harmless
  BY <1>12 DEF WorkerDies, Kill, Dead
<1>13. ASSUME NEW l \in Loaders, NeighbourStarts(l) PROVE Harmless
  BY <1>13 DEF NeighbourStarts
<1>14. CASE Restart
  BY <1>14 DEF Restart, NewComfyUI, NoEntries, FirstPc
<1>15. CASE UNCHANGED vars
  BY <1>15
<1> QED
  BY <1>1, <1>2, <1>3, <1>4, <1>5, <1>6, <1>7, <1>8, <1>9, <1>10, <1>11, <1>12, <1>13, <1>14, <1>15 DEF ApiStep

(* The steps that add something to the world. *)
LEMMA WorkerReadyStep ==
  ASSUME Typing, Typing', World, ExecKnows, NEW p \in Pid, WorkerReady(p)
  PROVE  World' /\ ExecKnows'
<1> USE DEF WorkerReady, Typing, TypeOK, Threads,
            procVars, fileVars, regVars, threadVars, execVars, apiVars, comfyVars, vars
<1>1. ProcsShrink /\ EntriesShrink /\ ExecQuiet
  BY DEF ExecQuiet
<1>2. SocketTells'
  BY <1>1 DEF World, SocketTells, FreshPids, NoPid, Pid
<1> QED
  BY <1>1, <1>2, ProcsShrinkIsSafe, EntriesShrinkIsSafe, QuietKeepsExecKnows DEF World

LEMMA SpawnStep ==
  ASSUME Typing, Typing', World, ExecKnows, Spawn
  PROVE  World' /\ ExecKnows'
<1> USE DEF Spawn, Typing, TypeOK, Threads, Goto, CallsHaveALoader, BetweenCalls,
            procVars, fileVars, regVars, threadVars, execVars, apiVars, comfyVars, vars
<1>1. /\ \A q \in Pid : q # nextPid => proc'[q] = proc[q]
      /\ proc'[nextPid].owner = uid[Exec] /\ proc'[nextPid].key = key
      /\ nextPid \in Pid /\ uid[Exec] \in Loaders
      /\ uid' = uid /\ nextPid' = nextPid + 1 /\ pc'[Exec] = "identity" /\ key' = key
      /\ new' = nextPid /\ ident' = ident /\ workers' = workers /\ sock' = sock
  BY DEF Pid
<1>2. /\ \A q \in Pid : Live(q) => proc[q].owner # uid[Exec]
      /\ ident[uid[Exec]] = NoKey
  BY DEF ExecKnows, TokenCleared, IdentityCleared
<1> HIDE DEF Spawn, Typing
<1>3. FreshPids'
  BY <1>1 DEF World, FreshPids, Pid, Typing
<1>4. OneWorkerPerLoader'
  BY <1>1, <1>2 DEF World, OneWorkerPerLoader, FreshPids, Pid
<1>5. IdentityTells'
  BY <1>1, <1>2 DEF World, IdentityTells
<1>6. SocketTells'
  BY <1>1 DEF World, SocketTells, Pid, NoPid, Typing
<1>7. EntryTells'
  BY <1>1 DEF World, EntryTells, Pid, NoPid, Typing, Entry
<1>8. WorkerHasKey' /\ NewIsOurs'
  BY <1>1, <1>2 DEF WorkerHasKey, NewIsOurs, Pid
<1>9. TokenCleared' /\ IdentityCleared' /\ AdoptedIsOurs' /\ JobIsOurs'
  BY <1>1 DEF TokenCleared, IdentityCleared, AdoptedIsOurs, JobIsOurs
<1> QED
  BY <1>3, <1>4, <1>5, <1>6, <1>7, <1>8, <1>9 DEF World, ExecKnows

LEMMA WriteIdentityStep ==
  ASSUME Typing, Typing', World, ExecKnows, WriteIdentity
  PROVE  World' /\ ExecKnows'
<1>1. /\ proc' = proc /\ nextPid' = nextPid /\ sock' = sock /\ workers' = workers
      /\ uid' = uid /\ key' = key /\ new' = new /\ pc[Exec] = "identity"
      /\ pc'[Exec] = "register_pending" /\ ident' = [ident EXCEPT ![uid[Exec]] = key]
  BY DEF WriteIdentity, Typing, TypeOK, Threads, Goto, procVars, fileVars, regVars, threadVars, execVars, apiVars, comfyVars, vars
<1>2. FreshPids' /\ OneWorkerPerLoader'
  BY <1>1 DEF World, FreshPids, OneWorkerPerLoader
<1>3. IdentityTells'
  BY <1>1 DEF World, IdentityTells, ExecKnows, WorkerHasKey, StartLabels, Typing, TypeOK
<1>4. SocketTells' /\ EntryTells'
  BY <1>1, SocketsShrinkIsSafe DEF World, SocketTells, EntryTells
<1>5. ExecKnows'
  BY <1>1 DEF ExecKnows, StartLabels, TokenCleared, IdentityCleared, WorkerHasKey, NewIsOurs, AdoptedIsOurs, JobIsOurs
<1> QED
  BY <1>2, <1>3, <1>4, <1>5 DEF World

LEMMA RegisterEntryStep ==
  ASSUME Typing, Typing', World, ExecKnows, RegisterEntry
  PROVE  World' /\ ExecKnows'
<1>1. /\ proc' = proc /\ nextPid' = nextPid /\ sock' = sock /\ ident' = ident
      /\ pc[Exec] = "register_entry" /\ uid[Exec] \in Loaders
      /\ workers' = [workers EXCEPT ![uid[Exec]] = NewEntry]
      /\ Acquired(NewEntry)
  BY DEF RegisterEntry, Typing, TypeOK, Threads, CallsHaveALoader, BetweenCalls, procVars, fileVars, regVars, threadVars, execVars, apiVars, comfyVars, vars
<1>2. pc'[Exec] = "prompt" \/ (pc'[Exec] = "connect" /\ uid' = uid /\ key' = key)
  BY <1>1 DEF Acquired, ModelReturns, NodeDone, Goto, Typing, TypeOK, Threads
<1>3. /\ new \in Pid /\ new < nextPid
      /\ Live(new) => proc[new].owner = uid[Exec] /\ proc[new].key = key
  BY <1>1 DEF ExecKnows, NewIsOurs, WorkerHasKey, StartLabels
<1>4. FreshPids' /\ OneWorkerPerLoader' /\ IdentityTells' /\ SocketTells'
  BY <1>1, SocketsShrinkIsSafe DEF World, FreshPids, OneWorkerPerLoader, IdentityTells, SocketTells
<1>5. EntryTells'
  <2>1. NewEntry.pid = new /\ NewEntry.key = key
    BY DEF NewEntry
  <2> QED
    BY <1>1, <1>3, <2>1 DEF World, EntryTells, Typing, TypeOK, Pid, NoPid
<1>6. ExecKnows'
  BY <1>1, <1>2 DEF ExecKnows, StartLabels, TokenCleared, IdentityCleared, WorkerHasKey, NewIsOurs, AdoptedIsOurs, JobIsOurs
<1> QED
  BY <1>4, <1>5, <1>6 DEF World

LEMMA AdoptRegisterStep ==
  ASSUME Typing, Typing', World, ExecKnows, AdoptRegister
  PROVE  World' /\ ExecKnows'
<1>1. /\ proc' = proc /\ nextPid' = nextPid /\ sock' = sock /\ ident' = ident
      /\ pc[Exec] = "adopt_register" /\ uid[Exec] \in Loaders
      /\ workers' = [workers EXCEPT ![uid[Exec]] = held[Exec]]
      /\ Acquired(held[Exec])
  BY DEF AdoptRegister, Typing, TypeOK, Threads, CallsHaveALoader, BetweenCalls, procVars, fileVars, regVars, threadVars, execVars, apiVars, comfyVars, vars
<1>2. pc'[Exec] = "prompt" \/ (pc'[Exec] = "connect" /\ uid' = uid /\ key' = key)
  BY <1>1 DEF Acquired, ModelReturns, NodeDone, Goto, Typing, TypeOK, Threads
<1>3. /\ held[Exec].pid \in Pid /\ held[Exec].pid < nextPid /\ held[Exec].key = key
      /\ Live(held[Exec].pid) => /\ proc[held[Exec].pid].owner = uid[Exec]
                                 /\ proc[held[Exec].pid].key = key
  BY <1>1 DEF ExecKnows, AdoptedIsOurs, WorkerHasKey
<1>4. FreshPids' /\ OneWorkerPerLoader' /\ IdentityTells' /\ SocketTells'
  BY <1>1, SocketsShrinkIsSafe DEF World, FreshPids, OneWorkerPerLoader, IdentityTells, SocketTells
<1>5. EntryTells'
  BY <1>1, <1>3 DEF World, EntryTells, Typing, TypeOK, Pid, NoPid
<1>6. ExecKnows'
  BY <1>1, <1>2 DEF ExecKnows, StartLabels, TokenCleared, IdentityCleared, WorkerHasKey, NewIsOurs, AdoptedIsOurs, JobIsOurs
<1> QED
  BY <1>4, <1>5, <1>6 DEF World

(* The executor's steps that shrink the world and lead to a label that claims *)
(* something.                                                                 *)
LEMMA ExecCleanupKillStep ==
  ASSUME Typing, Typing', World, ExecKnows, CleanupKill(Exec)
  PROVE  World' /\ ExecKnows'
<1>1. ProcsShrink /\ SocketsShrink /\ EntriesShrink /\ pc'[Exec] = "clean" /\ uid' = uid
      /\ \A p \in Pid : Live(p)' => proc'[p].owner # uid[Exec]
  BY DEF CleanupKill, OfToken, KillToken, KillTokens, Kill, Dead, Typing, TypeOK, Threads, Goto, procVars, fileVars, regVars, threadVars, execVars, apiVars, comfyVars, vars
<1>2. ExecKnows'
  BY <1>1 DEF ExecKnows, StartLabels, TokenCleared, IdentityCleared, WorkerHasKey, NewIsOurs, AdoptedIsOurs, JobIsOurs
<1> QED
  BY <1>1, <1>2, ProcsShrinkIsSafe, SocketsShrinkIsSafe, EntriesShrinkIsSafe DEF World

LEMMA ExecCleanupUnlinkStep ==
  ASSUME Typing, Typing', World, ExecKnows, CleanupUnlink(Exec)
  PROVE  World' /\ ExecKnows'
<1> USE DEF CleanupUnlink, UnlinkSocket, UnlinkIdentity, Typing, TypeOK, Threads, Goto, procVars, fileVars, regVars, threadVars, execVars, apiVars, comfyVars, vars
<1>1. ProcsShrink /\ SocketsShrink /\ EntriesShrink
  OBVIOUS
<1>2. ExecKnows'
  <2>1. CASE mode[Exec] # "evict"
    <3>1. pc[Exec] = "clean" /\ pc'[Exec] = "sweep" /\ uid' = uid /\ proc' = proc
          /\ uid[Exec] \in Loaders /\ ident'[uid[Exec]] = NoKey
      BY <2>1 DEF CallsHaveALoader, BetweenCalls
    <3> QED
      BY <3>1 DEF ExecKnows, StartLabels, TokenCleared, IdentityCleared, WorkerHasKey, NewIsOurs, AdoptedIsOurs, JobIsOurs
  <2>2. CASE mode[Exec] = "evict"
    <3>1. pc'[Exec] \in {"ensure", "prompt"}
      BY <2>2 DEF EvictReturns, NodeDone
    <3> QED
      BY <3>1 DEF ExecKnows, StartLabels, TokenCleared, IdentityCleared, WorkerHasKey, NewIsOurs, AdoptedIsOurs, JobIsOurs
  <2> QED
    BY <2>1, <2>2
<1> HIDE DEF CleanupUnlink, Typing
<1> QED
  BY <1>1, <1>2, ProcsShrinkIsSafe, SocketsShrinkIsSafe, EntriesShrinkIsSafe DEF World

LEMMA SweepStep ==
  ASSUME Typing, Typing', World, ExecKnows, SweepOrphans
  PROVE  World' /\ ExecKnows'
<1>1. ProcsShrink /\ SocketsShrink /\ EntriesShrink
      /\ pc[Exec] = "sweep" /\ pc'[Exec] = "spawn" /\ uid' = uid
      /\ uid[Exec] \in Loaders
  BY DEF SweepOrphans, UnlinkIdentity, KillToken, KillTokens, Kill, Dead, Typing, TypeOK, Threads, Goto,
         CallsHaveALoader, BetweenCalls, procVars, fileVars, regVars, threadVars, execVars, apiVars, comfyVars, vars
<1>2. ExecKnows'
  BY <1>1 DEF ExecKnows, StartLabels, TokenCleared, IdentityCleared, WorkerHasKey, NewIsOurs, AdoptedIsOurs, JobIsOurs
<1> QED
  BY <1>1, <1>2, ProcsShrinkIsSafe, SocketsShrinkIsSafe, EntriesShrinkIsSafe DEF World

LEMMA StartingStep ==
  ASSUME Typing, Typing', World, ExecKnows, RegisterPending \/ WorkerIsReady \/ ClearPending
  PROVE  World' /\ ExecKnows'
<1>1. /\ proc' = proc /\ nextPid' = nextPid /\ sock' = sock /\ workers' = workers /\ ident' = ident
      /\ uid' = uid /\ key' = key /\ new' = new
      /\ pc[Exec] \in StartLabels /\ pc'[Exec] \in StartLabels \ {"identity"}
  BY DEF RegisterPending, WorkerIsReady, ClearPending, StartLabels, Typing, TypeOK, Threads, Goto, procVars, fileVars, regVars, threadVars, execVars, apiVars, comfyVars, vars
<1>2. ExecKnows'
  BY <1>1 DEF ExecKnows, StartLabels, TokenCleared, IdentityCleared, WorkerHasKey, NewIsOurs, AdoptedIsOurs, JobIsOurs
<1> QED
  BY <1>1, <1>2 DEF World, FreshPids, OneWorkerPerLoader, IdentityTells, SocketTells, EntryTells

LEMMA AdoptProbeStep ==
  ASSUME Typing, Typing', World, ExecKnows, AdoptProbe
  PROVE  World' /\ ExecKnows'
<1>1. /\ proc' = proc /\ nextPid' = nextPid /\ sock' = sock /\ workers' = workers /\ ident' = ident
      /\ uid' = uid /\ key' = key
  BY DEF AdoptProbe, procVars, fileVars, regVars, execVars
<1>2. World'
  BY <1>1 DEF World, FreshPids, OneWorkerPerLoader, IdentityTells, SocketTells, EntryTells
<1>3. CASE pc'[Exec] = "kill"
  BY <1>3, <1>2 DEF ExecKnows, StartLabels, TokenCleared, IdentityCleared, WorkerHasKey, NewIsOurs, AdoptedIsOurs, JobIsOurs
<1>4. CASE pc'[Exec] # "kill"
  <2>1. PICK p \in OrphanPids(uid[Exec]) :
          /\ pc'[Exec] = "adopt_register" /\ ident[uid[Exec]] = key
          /\ held'[Exec] = [pid |-> p, key |-> key, adopted |-> TRUE, parked |-> FALSE]
    BY <1>4 DEF AdoptProbe, Goto, Typing, TypeOK, Threads
  <2>2. p \in Pid /\ Live(p) /\ proc[p].owner = uid[Exec] /\ p < nextPid
    BY <2>1 DEF OrphanPids, OfToken, World, FreshPids, Typing, TypeOK, Pid
  <2>3. uid[Exec] \in Loaders /\ key # NoKey
    BY DEF AdoptProbe, Typing, TypeOK, Threads, CallsHaveALoader, BetweenCalls
  <2>4. AdoptedIsOurs'
    BY <1>1, <2>1, <2>2 DEF AdoptedIsOurs
  <2>5. WorkerHasKey'
    BY <1>1, <2>1, <2>3 DEF WorkerHasKey, World, IdentityTells
  <2>6. TokenCleared' /\ IdentityCleared' /\ NewIsOurs' /\ JobIsOurs'
    BY <2>1 DEF StartLabels, TokenCleared, IdentityCleared, NewIsOurs, JobIsOurs
  <2> QED
    BY <1>2, <2>4, <2>5, <2>6 DEF ExecKnows
<1> QED
  BY <1>3, <1>4

LEMMA LookupHitStep ==
  ASSUME Typing, Typing', World, ExecKnows, LookupHit
  PROVE  World' /\ ExecKnows'
<1> DEFINE e == [workers[uid[Exec]] EXCEPT !.parked = FALSE]
<1>1. /\ proc' = proc /\ nextPid' = nextPid /\ sock' = sock /\ ident' = ident
      /\ pc[Exec] = "lookup" /\ uid[Exec] \in Loaders
      /\ workers' = [workers EXCEPT ![uid[Exec]].parked = FALSE]
      /\ EntryHit(uid[Exec], key) /\ Acquired(e)
  BY DEF LookupHit, Typing, TypeOK, Threads, CallsHaveALoader, BetweenCalls, procVars, fileVars, regVars, threadVars, execVars, apiVars, comfyVars, vars
<1>2. pc'[Exec] = "prompt" \/ (pc'[Exec] = "connect" /\ uid' = uid /\ key' = key)
  BY <1>1 DEF Acquired, ModelReturns, NodeDone, Goto, Typing, TypeOK, Threads
<1>3. EntriesShrink
  <2>1. workers \in [Loaders -> Entry] /\ FALSE \in BOOLEAN
    BY DEF Typing, TypeOK
  <2>2. ASSUME NEW l \in Loaders
        PROVE  /\ workers'[l].pid = workers[l].pid /\ workers'[l].key = workers[l].key
               /\ l # uid[Exec] => workers'[l] = workers[l]
    BY ONLY <1>1, <2>1, l \in Loaders, ParkedKeepsTheRest, Zenon
  <2> QED
    BY <1>1, <2>2 DEF EntryHit, EntryAlive
<1>4. World'
  BY <1>1, <1>3, ProcsShrinkIsSafe, SocketsShrinkIsSafe, EntriesShrinkIsSafe DEF World
<1>5. WorkerHasKey'
  <2>1. /\ workers[uid[Exec]].pid \in Pid /\ Live(workers[uid[Exec]].pid)
        /\ proc[workers[uid[Exec]].pid].owner = uid[Exec]
        /\ proc[workers[uid[Exec]].pid].key = key
    BY <1>1 DEF EntryHit, EntryAlive, World, EntryTells, Typing, TypeOK, Entry, Pid, NoPid
  <2> QED
    BY <1>1, <1>2, <2>1 DEF WorkerHasKey, World, OneWorkerPerLoader, StartLabels
<1>6. ExecKnows'
  BY <1>2, <1>5 DEF ExecKnows, StartLabels, TokenCleared, IdentityCleared, WorkerHasKey, NewIsOurs, AdoptedIsOurs, JobIsOurs
<1> QED
  BY <1>4, <1>6

LEMMA RunConnectStep ==
  ASSUME Typing, Typing', World, ExecKnows, RunConnect
  PROVE  World' /\ ExecKnows'
<1>1. /\ proc' = proc /\ nextPid' = nextPid /\ sock' = sock /\ workers' = workers /\ ident' = ident
      /\ uid' = uid /\ key' = key /\ uid[Exec] \in Loaders /\ Listening(uid[Exec])
      /\ pc[Exec] = "connect" /\ pc'[Exec] = "running" /\ job' = sock[uid[Exec]]
  BY DEF RunConnect, Typing, TypeOK, Threads, Goto, CallsHaveALoader, BetweenCalls, procVars, fileVars, regVars, threadVars, execVars, apiVars, comfyVars, vars
<1>2. JobIsOurs'
  BY <1>1 DEF JobIsOurs, Listening, World, SocketTells, Typing, TypeOK
<1>3. ExecKnows'
  BY <1>1, <1>2 DEF ExecKnows, StartLabels, TokenCleared, IdentityCleared, WorkerHasKey, NewIsOurs, AdoptedIsOurs, JobIsOurs
<1> QED
  BY <1>1, <1>3 DEF World, FreshPids, OneWorkerPerLoader, IdentityTells, SocketTells, EntryTells

LEMMA LifecycleStep ==
  ASSUME Typing, World, ExecKnows, [Next]_vars
  PROVE  Typing' /\ World' /\ ExecKnows'
<1>1. Typing'
  BY TypingStep
<1>2. CASE CleanupKill(Exec) \/ CleanupUnlink(Exec)
  BY <1>1, <1>2, ExecCleanupKillStep, ExecCleanupUnlinkStep
<1>3. ASSUME NEW t \in Threads, ThreadStep(t), ~(CleanupKill(Exec) \/ CleanupUnlink(Exec))
      PROVE  World' /\ ExecKnows'
  BY <1>1, <1>3, ThreadStepsAreHarmless, HarmlessIsEnough
<1>4. CASE HarmlessExecStep
  BY <1>1, <1>4, HarmlessExecSteps, HarmlessIsEnough
<1>5. CASE ExecStep /\ ~HarmlessExecStep
  BY <1>1, <1>5, LookupHitStep, AdoptProbeStep, AdoptRegisterStep, SweepStep, SpawnStep,
     WriteIdentityStep, StartingStep, RegisterEntryStep, RunConnectStep
     DEF ExecStep, ModelStep, CreateStep, SampleStep, HarmlessExecStep
<1>6. ASSUME NEW p \in Pid, WorkerReady(p) PROVE World' /\ ExecKnows'
  BY <1>1, <1>6, WorkerReadyStep
<1>7. CASE \/ \E a \in Api : ApiStep(a)
           \/ \E p \in Pid : WorkerStops(p) \/ WorkerDies(p)
           \/ \E l \in Loaders : NeighbourStarts(l)
           \/ Restart
           \/ UNCHANGED vars
  BY <1>1, <1>7, OtherStepsAreHarmless, HarmlessIsEnough
<1> QED
  BY <1>1, <1>2, <1>3, <1>4, <1>5, <1>6, <1>7 DEF Next, WorkerStep

LEMMA LifecycleInit == Init => Typing /\ World /\ ExecKnows
<1> SUFFICES ASSUME Init PROVE World /\ ExecKnows
  BY InitTyping
<1>1. /\ \A p \in Pid : ~Live(p)
      /\ pc[Exec] = "prompt" /\ nextPid = 1
      /\ \A l \in Loaders : sock[l] = NoPid /\ workers[l] = NoEntry
  <2>1. \A p \in Pid : ~Live(p)
    BY DEF Init, NoProc
  <2>2. pc[Exec] = "prompt" /\ nextPid = 1
    BY DEF Init, FirstPc, Threads
  <2>3. \A l \in Loaders : sock[l] = NoPid /\ workers[l] = NoEntry
    BY DEF Init, NoPids, NoEntries
  <2> QED
    BY <2>1, <2>2, <2>3
<1>2. World
  <2>1. FreshPids /\ OneWorkerPerLoader /\ IdentityTells
    BY <1>1 DEF FreshPids, OneWorkerPerLoader, IdentityTells
  <2>2. SocketTells
    BY <1>1 DEF SocketTells, NoPid
  <2>3. EntryTells
    <3>1. NoEntry.pid = NoPid
      BY DEF NoEntry
    <3> QED
      BY <1>1, <3>1 DEF EntryTells, NoPid
  <2> QED
    BY <2>1, <2>2, <2>3 DEF World
<1>3. ExecKnows
  BY <1>1 DEF ExecKnows, StartLabels, TokenCleared, IdentityCleared, WorkerHasKey, NewIsOurs,
       AdoptedIsOurs, JobIsOurs
<1> QED
  BY <1>2, <1>3

LEMMA Invariance == Spec => [](Typing /\ World /\ ExecKnows)
<1>1. (Typing /\ World /\ ExecKnows) /\ [Next]_vars => (Typing /\ World /\ ExecKnows)'
  BY LifecycleStep
<1> QED
  BY LifecycleInit, <1>1, PTL DEF Spec

(* No two live torchrun processes ever carry the same token, whatever the API  *)
(* threads, cancelled starts and crashes do in between.                        *)
THEOREM OneWorker == Spec => []OneWorkerPerLoader
<1>1. Typing /\ World /\ ExecKnows => OneWorkerPerLoader
  BY DEF World
<1> QED
  BY Invariance, <1>1, PTL

(* A job is only ever taken by a live worker that was configured with the      *)
(* cache key of the Sample, of the Sample's own Model node.                    *)
THEOREM RightModel == Spec => []JobMeetsItsModel
<1>1. Typing /\ World /\ ExecKnows => JobMeetsItsModel
  BY DEF ExecKnows, JobIsOurs, WorkerHasKey, JobMeetsItsModel
<1> QED
  BY Invariance, <1>1, PTL

-----------------------------------------------------------------------------
(* What a step of one thread leaves to the others.                           *)

(* The locals of thread s, and of the request it serves. *)
Untouched(s) == pc'[s] = pc[s] /\ uid'[s] = uid[s] /\ mode'[s] = mode[s] /\ held'[s] = held[s]
RequestUntouched(a) == kind'[a] = kind[a] /\ todo'[a] = todo[a] /\ seen'[a] = seen[a]

(* Processes that were there before the step. *)
OldProcsShrink ==
  /\ nextPid <= nextPid'
  /\ nextPid' = nextPid \/ Spawn
  /\ \A p \in Pid : p < nextPid /\ Live(p)' =>
       /\ Live(p)
       /\ proc'[p].owner = proc[p].owner /\ proc'[p].sess = proc[p].sess
       /\ proc'[p].key = proc[p].key

LEMMA ThreadStepIsOwn ==
  ASSUME Typing, NEW t \in Threads, ThreadStep(t), NEW s \in Threads, s # t
  PROVE  Untouched(s) /\ UNCHANGED apiVars /\ UNCHANGED comfyVars /\ new' = new
<1> USE DEF Typing, TypeOK, Threads, Goto, Untouched, apiVars, execVars, comfyVars
<1>1. CASE EvictPending(t) \/ AbortKill(t) \/ AbortUnlink(t) \/ EvictPop(t)
  BY <1>1 DEF EvictPending, AbortKill, AbortUnlink, EvictPop
<1>2. CASE ShutdownSend(t) \/ ShutdownWait(t) \/ ShutdownUnlink(t) \/ CleanupKill(t)
  BY <1>2 DEF ShutdownSend, ShutdownWait, ShutdownUnlink, CleanupKill
<1>3. CASE CleanupUnlink(t)
  BY <1>3 DEF CleanupUnlink, EvictReturns, NodeDone, ForgetLocals
<1> QED
  BY <1>1, <1>2, <1>3 DEF ThreadStep

LEMMA ExecStepIsOwn ==
  ASSUME Typing, ExecStep, NEW s \in Api
  PROVE  Untouched(s) /\ UNCHANGED apiVars /\ UNCHANGED comfyVars
<1> USE DEF Typing, TypeOK, Threads, Goto, Untouched, apiVars, comfyVars, ModelReturns, NodeDone,
            ForgetLocals, PromptFails, Acquired
<1>1. CASE ModelStep
  BY <1>1 DEF ModelStep, BeginModel, DeferWarm, EnsureHit, EnsureOrphan, EnsureMiss
<1>2. CASE LookupHit \/ LookupStale \/ LookupMiss
  BY <1>2 DEF LookupHit, LookupStale, LookupMiss
<1>3. CASE AdoptProbe \/ AdoptRegister
  BY <1>3 DEF AdoptProbe, AdoptRegister
<1>4. CASE SweepOrphans \/ Spawn \/ WriteIdentity \/ RegisterPending
  BY <1>4 DEF SweepOrphans, Spawn, WriteIdentity, RegisterPending
<1>5. CASE WorkerIsReady \/ ClearPending \/ RegisterEntry \/ StartupFails \/ StartupRaises
  BY <1>5 DEF WorkerIsReady, ClearPending, RegisterEntry, StartupFails, StartupRaises
<1>6. CASE \E l \in Loaders : BeginSample(l) \/ RejectSample(l)
  BY <1>6 DEF BeginSample, RejectSample
<1>7. CASE RunConnect \/ RunRefused \/ RunSucceeds \/ RunBroken
  BY <1>7 DEF RunConnect, RunRefused, RunSucceeds, RunBroken
<1>8. CASE RunAborted \/ RunAbortUnlink \/ RunAbortPop
  BY <1>8 DEF RunAborted, RunAbortUnlink, RunAbortPop
<1>9. CASE KeepWorker \/ ReleaseWorker \/ ParkWorker \/ EndPrompt
  BY <1>9 DEF KeepWorker, ReleaseWorker, ParkWorker, EndPrompt, threadVars
<1> QED
  BY <1>1, <1>2, <1>3, <1>4, <1>5, <1>6, <1>7, <1>8, <1>9 DEF ExecStep, CreateStep, SampleStep

LEMMA ApiStepIsOwn ==
  ASSUME Typing, NEW a \in Api, ApiStep(a), ~StopExit(a)
  PROVE  /\ \A s \in Threads : s # a => Untouched(s)
         /\ \A b \in Api : b # a => RequestUntouched(b)
         /\ UNCHANGED <<procVars, fileVars, comfyVars, execVars>>
<1> USE DEF Typing, TypeOK, Threads, Goto, Untouched, RequestUntouched, procVars, fileVars,
            comfyVars, execVars
<1>1. CASE \E l \in Loaders : ClearRequest(a, l)
  BY <1>1 DEF ClearRequest
<1>2. CASE \E l \in Loaders : ClearNext(a, l)
  BY <1>2 DEF ClearNext
<1>3. CASE \E l \in Loaders : StopPending(a, l) \/ StopWorker(a, l)
  BY <1>3 DEF StopPending, StopWorker
<1>4. CASE \E L \in SUBSET Loaders : ReapRequest(a, L)
  BY <1>4 DEF ReapRequest
<1>5. CASE ClearReturns(a) \/ Respond(a)
  BY <1>5 DEF ClearReturns, Respond, apiVars
<1>6. CASE StopRequest(a) \/ StopGrab(a)
  BY <1>6 DEF StopRequest, StopGrab
<1> QED
  BY <1>1, <1>2, <1>3, <1>4, <1>5, <1>6 DEF ApiStep

(* No step brings a process back, or gives it to another loader. *)
LEMMA NobodyRevives ==
  ASSUME Typing, Typing', [Next]_vars
  PROVE  OldProcsShrink
<1> USE DEF OldProcsShrink
<1>1. nextPid \in 1..MaxPid + 1 /\ proc \in [Pid -> Process] /\ proc' \in [Pid -> Process]
  BY DEF Typing, TypeOK
<1>2. ASSUME NEW S, Kill(S), nextPid' = nextPid PROVE OldProcsShrink
  BY <1>1, <1>2 DEF Kill, Dead
<1>3. CASE proc' = proc /\ nextPid' = nextPid
  BY <1>1, <1>3
<1>4. ASSUME NEW t \in Threads, ThreadStep(t) PROVE OldProcsShrink
  BY <1>2, <1>3, <1>4 DEF ThreadStep, EvictPending, AbortKill, AbortUnlink, EvictPop, ShutdownSend,
       ShutdownWait, ShutdownUnlink, CleanupKill, CleanupUnlink, KillToken, KillTokens, procVars
<1>5. CASE Spawn
  BY <1>1, <1>5 DEF Spawn
<1>6. CASE SweepOrphans \/ RunAborted
  BY <1>2, <1>6 DEF SweepOrphans, RunAborted, KillToken, KillTokens
<1>7. CASE ExecStep /\ ~Spawn /\ ~SweepOrphans /\ ~RunAborted
  BY <1>3, <1>7 DEF ExecStep, ModelStep, CreateStep, SampleStep, BeginModel, DeferWarm, EnsureHit,
       EnsureOrphan, EnsureMiss, LookupHit, LookupStale, LookupMiss, AdoptProbe, AdoptRegister,
       WriteIdentity, RegisterPending, WorkerIsReady, ClearPending, RegisterEntry, StartupFails,
       StartupRaises, BeginSample, RejectSample, RunConnect, RunRefused, RunSucceeds, RunBroken,
       RunAbortUnlink, RunAbortPop, KeepWorker, ReleaseWorker, ParkWorker, EndPrompt, procVars
<1>8. ASSUME NEW a \in Api, ApiStep(a) PROVE OldProcsShrink
  <2>1. CASE StopExit(a)
    BY <1>3, <2>1 DEF StopExit, NewComfyUI, procVars
  <2>2. CASE ~StopExit(a)
    BY <1>3, <1>8, <2>2, ApiStepIsOwn DEF procVars
  <2> QED
    BY <2>1, <2>2
<1>9. ASSUME NEW p \in Pid, WorkerReady(p) \/ WorkerStops(p) PROVE OldProcsShrink
  BY <1>1, <1>9 DEF WorkerReady, WorkerStops, Process
<1>10. ASSUME NEW p \in Pid, WorkerDies(p) PROVE OldProcsShrink
  BY <1>2, <1>10 DEF WorkerDies
<1>11. CASE (\E l \in Loaders : NeighbourStarts(l)) \/ Restart \/ UNCHANGED vars
  BY <1>3, <1>11 DEF NeighbourStarts, Restart, NewComfyUI, vars, procVars
<1> QED
  BY <1>4, <1>5, <1>6, <1>7, <1>8, <1>9, <1>10, <1>11 DEF Next, WorkerStep

-----------------------------------------------------------------------------
(* An Unload.                                                                *)

EvictLabels ==
  {"evict", "abort_kill", "abort_unlink", "pop", "send", "wait", "unlink", "kill", "clean"}

(* What an Unload or a reap still has to stop: the workers of the loaders on   *)
(* its list, and of the one it is evicting until it has killed the token.      *)
UnloadKnows(a) ==
  /\ \A p \in seen[a] : p < nextPid
  /\ kind[a] \in {"clear", "reap"} =>
       /\ pc[a] \in EvictLabels \cup {"next", "done"}
       /\ pc[a] \in EvictLabels => mode[a] = "evict"
       /\ pc[a] = "done" => todo[a] = {}
       /\ \A p \in seen[a] : Live(p) =>
            \/ proc[p].owner \in todo[a]
            \/ uid[a] = proc[p].owner /\ pc[a] \in EvictLabels \ {"clean"}

UnloadInv == \A a \in Api : UnloadKnows(a)

LEMMA UnloadWaits ==
  ASSUME Typing, Typing', OldProcsShrink, NEW a \in Api, UnloadKnows(a),
         Untouched(a), RequestUntouched(a)
  PROVE  UnloadKnows(a)'
<1>1. seen[a] \subseteq Pid /\ nextPid \in Nat /\ nextPid' \in Nat
  BY DEF Typing, TypeOK, Pid
<1> QED
  BY <1>1 DEF UnloadKnows, OldProcsShrink, Untouched, RequestUntouched, Pid

(* One step of an eviction on the request's behalf. *)
LEMMA UnloadEvicts ==
  ASSUME Typing, Typing', OldProcsShrink, NEW a \in Api, UnloadKnows(a), ThreadStep(a)
  PROVE  UnloadKnows(a)'
<1> USE DEF UnloadKnows, EvictLabels, Threads
<1>1. /\ seen[a] \subseteq Pid /\ nextPid \in Nat /\ nextPid' \in Nat
      /\ pc \in [Threads -> ThreadLabels] /\ a \in Threads /\ a # Exec
      /\ proc \in [Pid -> Process] /\ mode \in [Threads -> {"none", "evict", "create", "failed", "stop"}]
      /\ uid \in [Threads -> Loaders \cup {NoLoader}]
  BY DEF Typing, TypeOK, Pid
<1>2. \A p \in seen[a] : p < nextPid' /\ (Live(p)' => Live(p) /\ proc'[p].owner = proc[p].owner)
  BY <1>1 DEF OldProcsShrink, Pid
<1>3. UNCHANGED <<kind, todo, seen>>
  BY DEF ThreadStep, EvictPending, AbortKill, AbortUnlink, EvictPop, ShutdownSend, ShutdownWait,
       ShutdownUnlink, CleanupKill, CleanupUnlink, apiVars
<1>4. CASE kind[a] \notin {"clear", "reap"}
  BY <1>2, <1>3, <1>4
<1>5. CASE kind[a] \in {"clear", "reap"} /\ ~CleanupKill(a) /\ ~CleanupUnlink(a)
  <2>1. /\ pc[a] \in EvictLabels \ {"clean"} /\ mode[a] = "evict"
        /\ pc'[a] \in EvictLabels \ {"clean"} /\ uid'[a] = uid[a] /\ mode'[a] = mode[a]
    BY <1>1, <1>5 DEF ThreadStep, EvictPending, AbortKill, AbortUnlink, EvictPop, ShutdownSend,
         ShutdownWait, ShutdownUnlink, Goto, AfterAbort, AfterPop, AfterShutdown
  <2> QED
    BY <1>2, <1>3, <1>5, <2>1
<1>6. CASE kind[a] \in {"clear", "reap"} /\ CleanupKill(a)
  <2>1. /\ pc[a] = "kill" /\ pc'[a] = "clean" /\ uid'[a] = uid[a] /\ mode'[a] = mode[a]
        /\ uid[a] \in Loaders
    BY <1>1, <1>6 DEF CleanupKill, Goto, Typing, CallsHaveALoader, BetweenCalls
  <2>2. \A p \in Pid : Live(p)' => proc'[p].owner # uid[a]
    BY <1>1, <1>6, <2>1 DEF CleanupKill, KillToken, KillTokens, Kill, Dead, OfToken
  <2> QED
    BY <1>1, <1>2, <1>3, <1>6, <2>1, <2>2
<1>7. CASE kind[a] \in {"clear", "reap"} /\ CleanupUnlink(a)
  <2>1. pc[a] = "clean" /\ mode[a] = "evict"
    BY <1>7 DEF CleanupUnlink
  <2>2. pc'[a] = "next"
    BY <1>1, <1>7, <2>1 DEF CleanupUnlink, EvictReturns, Goto
  <2> QED
    BY <1>2, <1>3, <1>7, <2>1, <2>2
<1> QED
  BY <1>4, <1>5, <1>6, <1>7

(* The request itself. *)
LEMMA UnloadServes ==
  ASSUME Typing, Typing', World, OldProcsShrink, NEW a \in Api, UnloadKnows(a), ApiStep(a)
  PROVE  UnloadKnows(a)'
<1> USE DEF UnloadKnows, EvictLabels, Threads, Typing, TypeOK, Goto, procVars
<1>1. CASE StopExit(a)
  BY <1>1 DEF StopExit, NewComfyUI
<1>2. ASSUME NEW l \in Loaders, ClearRequest(a, l) PROVE UnloadKnows(a)'
  BY <1>2 DEF ClearRequest, LiveOf, OfToken, World, FreshPids, Pid
<1>3. ASSUME NEW L \in SUBSET Loaders, ReapRequest(a, L) PROVE UnloadKnows(a)'
  BY <1>3 DEF ReapRequest, LiveOf, OfToken, World, FreshPids, Pid
<1>4. ASSUME NEW l \in Loaders, ClearNext(a, l) PROVE UnloadKnows(a)'
  BY <1>4 DEF ClearNext
<1>5. CASE ClearReturns(a) \/ Respond(a)
  BY <1>5 DEF ClearReturns, Respond, apiVars
<1>6. CASE StopRequest(a)
  BY <1>6 DEF StopRequest, Tabled, World, FreshPids, Pid
<1>7. CASE StopGrab(a) \/ \E l \in Loaders : StopPending(a, l) \/ StopWorker(a, l)
  BY <1>7 DEF StopGrab, StopPending, StopWorker
<1> QED
  BY <1>1, <1>2, <1>3, <1>4, <1>5, <1>6, <1>7 DEF ApiStep

LEMMA UnloadStep ==
  ASSUME Typing, Typing', World, UnloadInv, [Next]_vars
  PROVE  UnloadInv'
<1>1. OldProcsShrink
  BY NobodyRevives
<1> SUFFICES ASSUME NEW a \in Api PROVE UnloadKnows(a)'
  BY DEF UnloadInv
<1>2. UnloadKnows(a) /\ a \in Threads /\ a # Exec
  BY DEF UnloadInv, Threads
<1>3. ASSUME UNCHANGED apiVars, Untouched(a) PROVE UnloadKnows(a)'
  BY <1>1, <1>2, <1>3, UnloadWaits DEF RequestUntouched, apiVars
<1>4. ASSUME NEW t \in Threads, ThreadStep(t) PROVE UnloadKnows(a)'
  BY <1>1, <1>2, <1>3, <1>4, UnloadEvicts, ThreadStepIsOwn
<1>5. CASE ExecStep
  BY <1>3, <1>5, ExecStepIsOwn
<1>6. ASSUME NEW b \in Api, ApiStep(b), b # a, ~StopExit(b) PROVE UnloadKnows(a)'
  BY <1>1, <1>2, <1>6, UnloadWaits, ApiStepIsOwn
<1>7. CASE ApiStep(a)
  BY <1>1, <1>2, <1>7, UnloadServes
<1>8. CASE NewComfyUI
  BY <1>8 DEF NewComfyUI, UnloadKnows
<1>9. CASE WorkerStep \/ (\E l \in Loaders : NeighbourStarts(l)) \/ UNCHANGED vars
  BY <1>3, <1>9 DEF WorkerStep, WorkerReady, WorkerStops, WorkerDies, NeighbourStarts, Untouched,
       vars, threadVars
<1> QED
  BY <1>4, <1>5, <1>6, <1>7, <1>8, <1>9 DEF Next, StopExit, Restart

(* When an Unload or a reap answers, the workers it was to stop are dead,      *)
(* whatever the executor has started, adopted or registered in the meantime.   *)
THEOREM UnloadFrees == Spec => []UnloadFreesTheGpu
<1>1. Init => UnloadInv
  BY DEF Init, UnloadInv, UnloadKnows
<1>2. Typing /\ Typing' /\ World /\ UnloadInv /\ [Next]_vars => UnloadInv'
  BY UnloadStep
<1>3. Typing /\ UnloadInv => UnloadFreesTheGpu
  BY DEF UnloadInv, UnloadKnows, UnloadFreesTheGpu, EvictLabels, Typing, TypeOK
<1> QED
  BY <1>1, <1>2, <1>3, Invariance, PTL DEF Spec

-----------------------------------------------------------------------------
(* The pending table and the orphan sweep.                                   *)

(* What a step does to the pending table when it starts nothing. *)
PendingShrinks == \A l \in Loaders : pending'[l] \in {pending[l], NoPid}

LEMMA PendingThreadStep ==
  ASSUME Typing, NEW t \in Threads, ThreadStep(t)
  PROVE  PendingShrinks /\ (t = Exec => pc[Exec] \notin {"wait_ready", "clear_pending"})
<1> USE DEF Typing, TypeOK, PendingShrinks
<1>1. CASE EvictPending(t)
  BY <1>1 DEF EvictPending
<1>2. CASE ~EvictPending(t)
  BY <1>2 DEF ThreadStep, AbortKill, AbortUnlink, EvictPop, ShutdownSend, ShutdownWait,
       ShutdownUnlink, CleanupKill, CleanupUnlink, regVars
<1> QED
  BY <1>1, <1>2

LEMMA PendingApiStep ==
  ASSUME Typing, NEW a \in Api, ApiStep(a), ~StopExit(a)
  PROVE  PendingShrinks
<1> USE DEF Typing, TypeOK, PendingShrinks
<1>1. CASE StopRequest(a)
  BY <1>1 DEF StopRequest
<1>2. CASE ~StopRequest(a)
  BY <1>2 DEF ApiStep, ClearRequest, ClearNext, StopPending, StopWorker, ReapRequest, ClearReturns,
       Respond, StopGrab, regVars
<1> QED
  BY <1>1, <1>2

(* Only these steps of the executor touch the pending table, or go from one    *)
(* label of a start to the next.                                               *)
StartStep == RegisterPending \/ WorkerIsReady \/ ClearPending \/ StartupFails

LEMMA PendingExecStep ==
  ASSUME Typing, PendingOnlyWhileStarting, ExecStep
  PROVE  PendingOnlyWhileStarting'
<1> USE DEF Typing, TypeOK, Threads, Goto, PendingOnlyWhileStarting
<1>1. CASE RegisterPending
  BY <1>1 DEF RegisterPending, execVars
<1>2. CASE WorkerIsReady
  BY <1>2 DEF WorkerIsReady, regVars, execVars
<1>3. CASE ClearPending
  BY <1>3 DEF ClearPending
<1>4. CASE StartupFails
  BY <1>4 DEF StartupFails
<1>5. CASE ~StartStep
  <2>1. pc[Exec] \notin {"wait_ready", "clear_pending"} /\ pending' = pending
    BY <1>5 DEF StartStep, ExecStep, ModelStep, CreateStep, SampleStep, BeginModel, DeferWarm,
         EnsureHit, EnsureOrphan, EnsureMiss, LookupHit, LookupStale, LookupMiss, AdoptProbe,
         AdoptRegister, SweepOrphans, Spawn, WriteIdentity, RegisterEntry, StartupRaises,
         BeginSample, RejectSample, RunConnect, RunRefused, RunSucceeds, RunBroken, RunAborted,
         RunAbortUnlink, RunAbortPop, KeepWorker, ReleaseWorker, ParkWorker, EndPrompt, regVars
  <2> QED
    BY <2>1
<1> QED
  BY <1>1, <1>2, <1>3, <1>4, <1>5 DEF StartStep

LEMMA PendingStep ==
  ASSUME Typing, PendingOnlyWhileStarting, [Next]_vars
  PROVE  PendingOnlyWhileStarting'
<1> USE DEF PendingOnlyWhileStarting
<1>1. ASSUME PendingShrinks, Untouched(Exec), new' = new PROVE PendingOnlyWhileStarting'
  BY <1>1 DEF PendingShrinks, Untouched
<1>2. ASSUME NEW t \in Threads, ThreadStep(t) PROVE PendingOnlyWhileStarting'
  <2>1. CASE t = Exec
    BY <1>2, <2>1, PendingThreadStep DEF PendingShrinks
  <2>2. CASE t # Exec
    BY <1>1, <1>2, <2>2, PendingThreadStep, ThreadStepIsOwn DEF Threads
  <2> QED
    BY <2>1, <2>2
<1>3. ASSUME NEW a \in Api, ApiStep(a), ~StopExit(a) PROVE PendingOnlyWhileStarting'
  BY <1>1, <1>3, PendingApiStep, ApiStepIsOwn, LifecycleAssumption DEF Threads, execVars
<1>4. CASE NewComfyUI
  BY <1>4 DEF NewComfyUI, NoPids
<1>5. CASE WorkerStep \/ (\E l \in Loaders : NeighbourStarts(l)) \/ UNCHANGED vars
  BY <1>5 DEF WorkerStep, WorkerReady, WorkerStops, WorkerDies, NeighbourStarts, vars, regVars,
       threadVars, execVars
<1> QED
  BY <1>2, <1>3, <1>4, <1>5, PendingExecStep DEF Next, StopExit, Restart

(* A pending entry is always the worker the executor is starting at this       *)
(* moment, so an eviction never acts on one that a cancel or a failure left.   *)
THEOREM PendingIsStarting == Spec => []PendingOnlyWhileStarting
<1>1. Init => PendingOnlyWhileStarting
  BY DEF Init, NoPids, PendingOnlyWhileStarting
<1>2. Typing /\ PendingOnlyWhileStarting /\ [Next]_vars => PendingOnlyWhileStarting'
  BY PendingStep
<1> QED
  BY <1>1, <1>2, Invariance, PTL DEF Spec

-----------------------------------------------------------------------------
(* On whose behalf a thread is where it is.                                  *)

StopLabels ==
  {"stop_pending", "abort_kill", "abort_unlink", "stop_workers", "send", "wait", "unlink"}

ModeKnows(t) ==
  /\ pc[t] \in {"evict", "pop"} => mode[t] = "evict"
  /\ pc[t] \in {"ensure", "lookup"} => mode[t] = "create"
  /\ pc[t] \in {"abort_kill", "abort_unlink"} => mode[t] \in {"evict", "failed", "stop"}
  /\ pc[t] \in {"send", "wait", "unlink"} => mode[t] \in {"evict", "create", "stop"}
  /\ pc[t] \in {"stop_pending", "stop_workers"} => mode[t] = "stop"
  /\ mode[t] \in {"create", "failed"} => t = Exec
  /\ mode[t] = "stop" => t \in Api /\ pc[t] \in StopLabels

(* One shutdown at a time. *)
StopIsAlone ==
  /\ \A a \in Api : kind[a] = "stop" <=> mode[a] = "stop"
  /\ \A a, b \in Api : kind[a] = "stop" /\ kind[b] = "stop" => a = b

ModeInv == (\A t \in Threads : ModeKnows(t)) /\ StopIsAlone

LEMMA ModeThreadStep ==
  ASSUME Typing, NEW t \in Threads, ModeKnows(t), ThreadStep(t)
  PROVE  ModeKnows(t)' /\ (mode'[t] = "stop" <=> mode[t] = "stop")
<1> USE DEF Typing, TypeOK, Threads, Goto, ModeKnows, StopLabels
<1>1. CASE EvictPending(t)
  BY <1>1 DEF EvictPending
<1>2. CASE AbortKill(t)
  BY <1>2 DEF AbortKill
<1>3. CASE AbortUnlink(t)
  BY <1>3 DEF AbortUnlink, AfterAbort
<1>4. CASE EvictPop(t)
  BY <1>4 DEF EvictPop, AfterPop
<1>5. CASE ShutdownSend(t) \/ ShutdownWait(t)
  BY <1>5 DEF ShutdownSend, ShutdownWait
<1>6. CASE ShutdownUnlink(t)
  BY <1>6 DEF ShutdownUnlink, AfterShutdown
<1>7. CASE CleanupKill(t)
  BY <1>7 DEF CleanupKill
<1>8. CASE CleanupUnlink(t)
  BY <1>8 DEF CleanupUnlink, EvictReturns, NodeDone, ForgetLocals
<1> QED
  BY <1>1, <1>2, <1>3, <1>4, <1>5, <1>6, <1>7, <1>8 DEF ThreadStep

LEMMA ModeExecStep ==
  ASSUME Typing, ModeKnows(Exec), ExecStep
  PROVE  ModeKnows(Exec)'
<1> USE DEF Typing, TypeOK, Threads, Goto, ModeKnows, StopLabels, ModelReturns, NodeDone,
            ForgetLocals, PromptFails, Acquired
<1>1. CASE ModelStep
  BY <1>1 DEF ModelStep, BeginModel, DeferWarm, EnsureHit, EnsureOrphan, EnsureMiss
<1>2. CASE LookupHit \/ LookupStale \/ LookupMiss
  BY <1>2 DEF LookupHit, LookupStale, LookupMiss, AfterStale
<1>3. CASE AdoptProbe \/ AdoptRegister
  BY <1>3 DEF AdoptProbe, AdoptRegister
<1>4. CASE SweepOrphans \/ Spawn \/ WriteIdentity \/ RegisterPending
  BY <1>4 DEF SweepOrphans, Spawn, WriteIdentity, RegisterPending
<1>5. CASE WorkerIsReady \/ ClearPending \/ RegisterEntry \/ StartupFails \/ StartupRaises
  BY <1>5 DEF WorkerIsReady, ClearPending, RegisterEntry, StartupFails, StartupRaises
<1>6. CASE \E l \in Loaders : BeginSample(l) \/ RejectSample(l)
  BY <1>6 DEF BeginSample, RejectSample
<1>7. CASE RunConnect \/ RunRefused \/ RunSucceeds \/ RunBroken
  BY <1>7 DEF RunConnect, RunRefused, RunSucceeds, RunBroken
<1>8. CASE RunAborted \/ RunAbortUnlink \/ RunAbortPop
  BY <1>8 DEF RunAborted, RunAbortUnlink, RunAbortPop
<1>9. CASE KeepWorker \/ ReleaseWorker \/ ParkWorker \/ EndPrompt
  BY <1>9 DEF KeepWorker, ReleaseWorker, ParkWorker, EndPrompt, threadVars
<1> QED
  BY <1>1, <1>2, <1>3, <1>4, <1>5, <1>6, <1>7, <1>8, <1>9 DEF ExecStep, CreateStep, SampleStep

LEMMA ModeApiStep ==
  ASSUME Typing, ModeInv, NEW a \in Api, ApiStep(a), ~StopExit(a)
  PROVE  ModeKnows(a)' /\ StopIsAlone'
<1> USE DEF Typing, TypeOK, Threads, Goto, ModeInv, ModeKnows, StopLabels, StopIsAlone
<1>1. CASE \E l \in Loaders : ClearRequest(a, l)
  BY <1>1 DEF ClearRequest
<1>2. CASE \E l \in Loaders : ClearNext(a, l)
  BY <1>2 DEF ClearNext
<1>3. CASE \E l \in Loaders : StopPending(a, l) \/ StopWorker(a, l)
  BY <1>3 DEF StopPending, StopWorker
<1>4. CASE \E L \in SUBSET Loaders : ReapRequest(a, L)
  BY <1>4 DEF ReapRequest
<1>5. CASE ClearReturns(a) \/ Respond(a)
  BY <1>5 DEF ClearReturns, Respond, apiVars
<1>6. CASE StopRequest(a)
  BY <1>6 DEF StopRequest
<1>7. CASE StopGrab(a)
  BY <1>7 DEF StopGrab
<1> QED
  BY <1>1, <1>2, <1>3, <1>4, <1>5, <1>6, <1>7 DEF ApiStep

LEMMA ModeStep ==
  ASSUME Typing, Typing', ModeInv, [Next]_vars
  PROVE  ModeInv'
<1> USE DEF ModeInv
<1>1. ASSUME NEW t \in Threads, ThreadStep(t) PROVE ModeInv'
  <2>1. \A s \in Threads : ModeKnows(s)'
    BY <1>1, ModeThreadStep, ThreadStepIsOwn DEF Untouched, ModeKnows
  <2>2. \A s \in Threads : mode'[s] = "stop" <=> mode[s] = "stop"
    BY <1>1, ModeThreadStep, ThreadStepIsOwn DEF Untouched
  <2>3. kind' = kind
    BY <1>1 DEF ThreadStep, EvictPending, AbortKill, AbortUnlink, EvictPop, ShutdownSend,
         ShutdownWait, ShutdownUnlink, CleanupKill, CleanupUnlink, apiVars
  <2> QED
    BY <2>1, <2>2, <2>3 DEF StopIsAlone, Threads
<1>2. CASE ExecStep
  <2>1. \A s \in Api : Untouched(s) /\ kind'[s] = kind[s]
    BY <1>2, ExecStepIsOwn DEF apiVars
  <2> QED
    BY <1>2, <2>1, ModeExecStep DEF Untouched, ModeKnows, StopIsAlone, Threads
<1>3. ASSUME NEW a \in Api, ApiStep(a), ~StopExit(a) PROVE ModeInv'
  <2>1. \A s \in Threads : s # a => ModeKnows(s)'
    BY <1>3, ApiStepIsOwn DEF Untouched, ModeKnows
  <2> QED
    BY <1>3, <2>1, ModeApiStep
<1>4. CASE NewComfyUI
  BY <1>4 DEF NewComfyUI, NoModes, FirstPc, ModeKnows, StopIsAlone, Threads
<1>5. CASE WorkerStep \/ (\E l \in Loaders : NeighbourStarts(l)) \/ UNCHANGED vars
  BY <1>5 DEF WorkerStep, WorkerReady, WorkerStops, WorkerDies, NeighbourStarts, vars, threadVars,
       apiVars, ModeKnows, StopIsAlone
<1> QED
  BY <1>1, <1>2, <1>3, <1>4, <1>5 DEF Next, StopExit, Restart

-----------------------------------------------------------------------------
(* What else the executor knows of the worker at hand.                       *)

(* No process is born in the step. *)
ProcsStay ==
  \A p \in Pid : Live(p)' =>
    /\ Live(p)
    /\ proc'[p].owner = proc[p].owner /\ proc'[p].sess = proc[p].sess
    /\ proc'[p].key = proc[p].key

LEMMA NoBirth ==
  ASSUME Typing, Typing', World', OldProcsShrink, ~Spawn
  PROVE  ProcsStay
<1>1. nextPid' = nextPid /\ nextPid \in Nat
  BY DEF OldProcsShrink, Typing, TypeOK
<1>2. \A p \in Pid : Live(p)' => p < nextPid
  BY <1>1 DEF World, FreshPids, Pid
<1> QED
  BY <1>2 DEF OldProcsShrink, ProcsStay

(* The worker being started is of the loader at hand, and dead once its start  *)
(* has been aborted; ...                                                       *)
NewIsWatched ==
  \A p \in Pid : Live(p) /\ p = new =>
    /\ proc[p].owner = uid[Exec]
    /\ pc[Exec] \in StartLabels \/ (pc[Exec] = "abort_kill" /\ mode[Exec] = "failed")

(* ... it, or the one being adopted, is the only one of that loader; ...       *)
OnlyNew ==
  pc[Exec] \in StartLabels =>
    \A p \in Pid : Live(p) /\ proc[p].owner = uid[Exec] => p = new

OnlyAdopted ==
  pc[Exec] = "adopt_register" =>
    \A p \in Pid : Live(p) /\ proc[p].owner = uid[Exec] => p = held[Exec].pid

(* ... and the one a Sample uses is dead once the run has been aborted.        *)
RunLabels == {"connect", "running", "abort_run_unlink", "abort_run_pop"}

HeldIsRun ==
  pc[Exec] \in RunLabels =>
    \A p \in Pid : Live(p) /\ p = held[Exec].pid =>
      proc[p].owner = uid[Exec] /\ pc[Exec] \in {"connect", "running"}

ExecHolds == NewIsWatched /\ OnlyNew /\ OnlyAdopted /\ HeldIsRun

Claims == StartLabels \cup {"adopt_register"} \cup RunLabels

LEMMA QuietKeepsExecHolds ==
  ASSUME ProcsStay, ExecHolds, Untouched(Exec), new' = new
  PROVE  ExecHolds'
<1> USE DEF ExecHolds, ProcsStay, Untouched
<1>1. NewIsWatched' /\ OnlyNew'
  BY DEF NewIsWatched, OnlyNew
<1>2. OnlyAdopted' /\ HeldIsRun'
  BY DEF OnlyAdopted, HeldIsRun
<1> QED
  BY <1>1, <1>2

(* A step between labels that claim nothing. *)
LEMMA NoClaim ==
  ASSUME ProcsStay, ExecHolds, pc[Exec] \notin StartLabels \cup {"abort_kill"},
         pc'[Exec] \notin Claims, new' \in {new, NoPid}
  PROVE  ExecHolds'
<1> USE DEF ExecHolds, ProcsStay, Claims
<1>1. NewIsWatched'
  BY DEF NewIsWatched, Pid, NoPid
<1>2. OnlyNew' /\ OnlyAdopted' /\ HeldIsRun'
  BY DEF OnlyNew, OnlyAdopted, HeldIsRun
<1> QED
  BY <1>1, <1>2

LEMMA ExecHoldsThreadStep ==
  ASSUME Typing, World, World', ExecHolds, ProcsStay, ThreadStep(Exec)
  PROVE  ExecHolds'
<1> USE DEF Typing, TypeOK, Threads, Goto
<1>1. pc'[Exec] \notin Claims /\ new' = new
  BY DEF Claims, StartLabels, RunLabels, ThreadStep, EvictPending, AbortKill, AbortUnlink, AfterAbort,
       EvictPop, AfterPop, ShutdownSend, ShutdownWait, ShutdownUnlink, AfterShutdown, CleanupKill,
       CleanupUnlink, EvictReturns, NodeDone, execVars
<1>2. CASE AbortKill(Exec)
  <2>1. \A p \in Pid : Live(p)' => Live(p) /\ proc[p].owner # uid[Exec]
    BY <1>2 DEF AbortKill, KillToken, KillTokens, Kill, Dead, OfToken, CallsHaveALoader, BetweenCalls
  <2>2. NewIsWatched'
    BY <1>1, <2>1 DEF ExecHolds, NewIsWatched
  <2> QED
    BY <1>1, <2>2 DEF ExecHolds, OnlyNew, OnlyAdopted, HeldIsRun, Claims
<1>3. CASE ~AbortKill(Exec)
  <2>1. pc[Exec] \notin StartLabels \cup {"abort_kill"}
    BY <1>3 DEF StartLabels, ThreadStep, EvictPending, AbortUnlink, EvictPop, ShutdownSend,
         ShutdownWait, ShutdownUnlink, CleanupKill, CleanupUnlink
  <2> QED
    BY <1>1, <2>1, NoClaim
<1> QED
  BY <1>2, <1>3

(* A start, up to its registration or failure. *)
LEMMA ExecHoldsStartStep ==
  ASSUME Typing, World, ExecKnows, ExecHolds,
         Spawn \/ WriteIdentity \/ StartStep \/ RegisterEntry
  PROVE  ExecHolds'
<1> USE DEF Typing, TypeOK, Threads, Goto, ExecHolds
<1>1. CASE Spawn
  <2>1. /\ \A q \in Pid : q # nextPid => proc'[q] = proc[q]
        /\ proc'[nextPid].owner = uid[Exec] /\ nextPid \in Pid
        /\ uid' = uid /\ pc'[Exec] = "identity" /\ new' = nextPid /\ pc[Exec] = "spawn"
    BY <1>1 DEF Spawn, Pid
  <2>2. \A q \in Pid : Live(q) => proc[q].owner # uid[Exec]
    BY <2>1 DEF ExecKnows, TokenCleared
  <2>3. NewIsWatched' /\ OnlyNew'
    BY <2>1, <2>2 DEF NewIsWatched, OnlyNew, StartLabels
  <2> QED
    BY <2>1, <2>3 DEF OnlyAdopted, HeldIsRun, RunLabels
<1>2. CASE WriteIdentity \/ RegisterPending \/ WorkerIsReady \/ ClearPending
  <2>1. /\ proc' = proc /\ uid' = uid /\ new' = new
        /\ pc[Exec] \in StartLabels /\ pc'[Exec] \in StartLabels
    BY <1>2 DEF WriteIdentity, RegisterPending, WorkerIsReady, ClearPending, StartLabels, procVars,
         execVars
  <2>2. NewIsWatched' /\ OnlyNew'
    BY <2>1 DEF NewIsWatched, OnlyNew
  <2> QED
    BY <2>1, <2>2 DEF OnlyAdopted, HeldIsRun, RunLabels, StartLabels
<1>3. CASE StartupFails
  <2>1. /\ proc' = proc /\ uid' = uid /\ new' = new /\ pc[Exec] = "wait_ready"
        /\ pc'[Exec] = "abort_kill" /\ mode'[Exec] = "failed"
    BY <1>3 DEF StartupFails, procVars, execVars
  <2>2. NewIsWatched'
    BY <2>1 DEF NewIsWatched
  <2> QED
    BY <2>1, <2>2 DEF OnlyNew, OnlyAdopted, HeldIsRun, RunLabels, StartLabels
<1>4. CASE RegisterEntry
  <2>1. /\ proc' = proc /\ new' = NoPid /\ pc[Exec] = "register_entry" /\ Acquired(NewEntry)
    BY <1>4 DEF RegisterEntry, procVars
  <2>2. \/ pc'[Exec] = "prompt"
        \/ pc'[Exec] = "connect" /\ uid' = uid /\ held'[Exec] = NewEntry
    BY <2>1 DEF Acquired, ModelReturns, NodeDone
  <2>3. \A p \in Pid : Live(p) /\ p = NewEntry.pid => proc[p].owner = uid[Exec]
    BY <2>1 DEF NewEntry, NewIsWatched
  <2>4. HeldIsRun'
    BY <2>1, <2>2, <2>3 DEF HeldIsRun, RunLabels
  <2>5. NewIsWatched'
    BY <2>1 DEF NewIsWatched, Pid, NoPid
  <2> QED
    BY <2>2, <2>4, <2>5 DEF OnlyNew, OnlyAdopted, StartLabels
<1> QED
  BY <1>1, <1>2, <1>3, <1>4 DEF StartStep

(* An entry found or adopted, and the run on it. *)
AcquireStep == LookupHit \/ AdoptProbe \/ AdoptRegister
RunStep == RunConnect \/ RunAborted \/ RunAbortUnlink

LEMMA HitIsOurs ==
  ASSUME Typing, World, NEW l \in Loaders, EntryAlive(l)
  PROVE  [workers[l] EXCEPT !.parked = FALSE].pid \in Pid
         /\ proc[[workers[l] EXCEPT !.parked = FALSE].pid].owner = l
<1>1. workers[l] \in Entry
  BY DEF Typing, TypeOK
<1>2. [workers[l] EXCEPT !.parked = FALSE].pid = workers[l].pid
  BY <1>1 DEF Entry
<1>3. workers[l].pid \in Pid /\ Live(workers[l].pid)
  BY <1>1 DEF EntryAlive, World, EntryTells, Entry, Pid, NoPid
<1> QED
  BY <1>2, <1>3 DEF World, EntryTells, Pid, NoPid

LEMMA ExecHoldsAcquireStep ==
  ASSUME Typing, World, ExecKnows, ExecHolds, AcquireStep
  PROVE  ExecHolds'
<1> USE DEF Typing, TypeOK, Threads, Goto, ExecHolds
<1>1. /\ proc' = proc /\ new' = new
      /\ pc[Exec] \in {"lookup", "adopt", "adopt_register"} /\ uid[Exec] \in Loaders
  BY DEF AcquireStep, LookupHit, AdoptProbe, AdoptRegister, procVars, execVars, Acquired, ModelReturns,
       NodeDone, CallsHaveALoader, BetweenCalls
<1>2. pc'[Exec] \notin StartLabels
  BY DEF AcquireStep, LookupHit, AdoptProbe, AdoptRegister, Acquired, ModelReturns, NodeDone,
       StartLabels
<1>3. NewIsWatched' /\ OnlyNew'
  BY <1>1, <1>2 DEF NewIsWatched, OnlyNew, StartLabels
<1>4. CASE AdoptProbe
  <2>1. pc'[Exec] = "adopt_register" => \E p \in OrphanPids(uid[Exec]) : held'[Exec].pid = p
    BY <1>4 DEF AdoptProbe
  <2>2. OnlyAdopted'
    BY <1>1, <1>4, <2>1 DEF AdoptProbe, OnlyAdopted, OrphanPids, OfToken, World, OneWorkerPerLoader
  <2>3. pc'[Exec] \notin RunLabels
    BY <1>4 DEF AdoptProbe, RunLabels
  <2> QED
    BY <1>3, <2>2, <2>3 DEF HeldIsRun
<1>5. ASSUME NEW e, Acquired(e),
             \A p \in Pid : Live(p) /\ p = e.pid => proc[p].owner = uid[Exec]
      PROVE  ExecHolds'
  <2>1. \/ pc'[Exec] = "prompt"
        \/ pc'[Exec] = "connect" /\ uid' = uid /\ held'[Exec] = e
    BY <1>5 DEF Acquired, ModelReturns, NodeDone
  <2>2. HeldIsRun'
    BY <1>1, <1>5, <2>1 DEF HeldIsRun, RunLabels
  <2> QED
    BY <1>3, <2>1, <2>2 DEF OnlyAdopted
<1>6. CASE LookupHit
  <2>1. EntryAlive(uid[Exec]) /\ Acquired([workers[uid[Exec]] EXCEPT !.parked = FALSE])
    BY <1>6 DEF LookupHit, EntryHit
  <2> QED
    BY <1>1, <1>5, <2>1, HitIsOurs
<1>7. CASE AdoptRegister
  BY <1>5, <1>7 DEF AdoptRegister, ExecKnows, AdoptedIsOurs
<1> QED
  BY <1>4, <1>6, <1>7 DEF AcquireStep

LEMMA ExecHoldsRunStep ==
  ASSUME Typing, ExecHolds, ProcsStay, RunStep
  PROVE  ExecHolds'
<1> USE DEF Typing, TypeOK, Threads, Goto, ExecHolds, ProcsStay
<1>1. /\ uid' = uid /\ held' = held /\ new' = new
      /\ pc[Exec] \in RunLabels /\ pc'[Exec] \in RunLabels
  BY DEF RunStep, RunConnect, RunAborted, RunAbortUnlink, RunLabels, execVars
<1>2. NewIsWatched' /\ OnlyNew' /\ OnlyAdopted'
  BY <1>1 DEF NewIsWatched, OnlyNew, OnlyAdopted, StartLabels, RunLabels
<1>3. HeldIsRun'
  <2>1. CASE RunConnect \/ RunAbortUnlink
    BY <1>1, <2>1 DEF RunConnect, RunAbortUnlink, HeldIsRun, RunLabels
  <2>2. CASE RunAborted
    <3>1. uid[Exec] \in Loaders /\ pc[Exec] = "running"
      BY <2>2 DEF RunAborted, CallsHaveALoader, BetweenCalls
    <3>2. \A p \in Pid : Live(p)' => p # held[Exec].pid
      BY <2>2, <3>1 DEF RunAborted, KillToken, KillTokens, Kill, Dead, OfToken, HeldIsRun, RunLabels
    <3> QED
      BY <1>1, <3>2 DEF HeldIsRun
  <2> QED
    BY <2>1, <2>2 DEF RunStep
<1> QED
  BY <1>2, <1>3

OtherExecStep ==
  ExecStep /\ ~(Spawn \/ WriteIdentity \/ StartStep \/ RegisterEntry \/ AcquireStep \/ RunStep)

LEMMA OtherExecStepClaimsNothing ==
  ASSUME Typing, ExecHolds, ProcsStay, OtherExecStep
  PROVE  ExecHolds'
<1> USE DEF Typing, TypeOK, Threads, Goto, ModelReturns, NodeDone, PromptFails
<1> USE DEF StartLabels, RunLabels, Claims
<1>1. CASE ModelStep
  BY <1>1, NoClaim DEF ModelStep, BeginModel, DeferWarm, EnsureHit, EnsureOrphan, EnsureMiss, execVars
<1>2. CASE LookupStale \/ LookupMiss \/ SweepOrphans \/ StartupRaises
  BY <1>2, NoClaim DEF LookupStale, AfterStale, LookupMiss, SweepOrphans, StartupRaises, execVars
<1>3. CASE \E l \in Loaders : BeginSample(l) \/ RejectSample(l)
  BY <1>3, NoClaim DEF BeginSample, RejectSample
<1>4. CASE RunRefused \/ RunSucceeds \/ RunBroken \/ RunAbortPop
  BY <1>4, NoClaim DEF RunRefused, RunSucceeds, RunBroken, RunAbortPop
<1>5. CASE KeepWorker \/ ReleaseWorker \/ ParkWorker \/ EndPrompt
  BY <1>5, NoClaim DEF KeepWorker, ReleaseWorker, ParkWorker, EndPrompt, threadVars, execVars
<1> QED
  BY <1>1, <1>2, <1>3, <1>4, <1>5 DEF OtherExecStep, ExecStep, CreateStep, SampleStep, StartStep,
     AcquireStep, RunStep


(* Until ComfyUI is gone. *)
LEMMA ExecHoldsStep ==
  ASSUME Typing, Typing', World, World', ExecKnows, ExecHolds, OldProcsShrink, [Next]_vars
  PROVE  ExecHolds'
<1>1. ~Spawn => ProcsStay
  BY NoBirth
<1>2. ASSUME NEW t \in Threads, ThreadStep(t) PROVE ExecHolds'
  <2>1. ~Spawn
    <3>1. nextPid' = nextPid
      BY <1>2 DEF ThreadStep, EvictPending, AbortKill, AbortUnlink, EvictPop, ShutdownSend,
           ShutdownWait, ShutdownUnlink, CleanupKill, CleanupUnlink, procVars
    <3> QED
      BY <3>1 DEF Spawn, Typing, TypeOK
  <2>2. CASE t = Exec
    BY <1>1, <1>2, <2>1, <2>2, ExecHoldsThreadStep
  <2>3. CASE t # Exec
    BY <1>1, <1>2, <2>1, <2>3, ThreadStepIsOwn, QuietKeepsExecHolds DEF Threads
  <2> QED
    BY <2>2, <2>3
<1>3. CASE ExecStep
  <2>1. CASE Spawn \/ WriteIdentity \/ StartStep \/ RegisterEntry
    BY <2>1, ExecHoldsStartStep
  <2>2. CASE AcquireStep
    BY <2>2, ExecHoldsAcquireStep
  <2>3. CASE RunStep
    <3>1. ~Spawn
      BY <2>3 DEF RunStep, RunConnect, RunAborted, RunAbortUnlink, Spawn
    <3> QED
      BY <1>1, <2>3, <3>1, ExecHoldsRunStep
  <2>4. CASE OtherExecStep
    <3>1. ~Spawn
      BY <2>4 DEF OtherExecStep
    <3> QED
      BY <1>1, <2>4, <3>1, OtherExecStepClaimsNothing
  <2> QED
    BY <1>3, <2>1, <2>2, <2>3, <2>4 DEF OtherExecStep
<1>4. ASSUME ProcsStay, Untouched(Exec), new' = new PROVE ExecHolds'
  BY <1>4, QuietKeepsExecHolds
<1>5. ASSUME NEW a \in Api, ApiStep(a), ~StopExit(a) PROVE ExecHolds'
  <2>1. Untouched(Exec) /\ UNCHANGED execVars /\ UNCHANGED procVars
    BY <1>5, ApiStepIsOwn DEF Threads
  <2> QED
    BY <1>4, <2>1 DEF execVars, procVars, ProcsStay
<1>6. CASE NewComfyUI
  BY <1>6 DEF NewComfyUI, FirstPc, ExecHolds, NewIsWatched, OnlyNew, OnlyAdopted, HeldIsRun, RunLabels,
       StartLabels, Threads, Pid, NoPid
<1>7. CASE WorkerStep \/ (\E l \in Loaders : NeighbourStarts(l)) \/ UNCHANGED vars
  <2>1. Untouched(Exec) /\ new' = new /\ nextPid' = nextPid
    BY <1>7 DEF WorkerStep, WorkerReady, WorkerStops, WorkerDies, NeighbourStarts, Untouched, vars,
         threadVars, execVars, procVars
  <2>2. ~Spawn
    BY <2>1 DEF Spawn, Typing, TypeOK
  <2> QED
    BY <1>1, <1>4, <2>1, <2>2
<1> QED
  BY <1>2, <1>3, <1>5, <1>6, <1>7 DEF Next, StopExit, Restart

LEMMA WatchInvariance == Spec => [](ModeInv /\ ExecHolds)
<1>1. Init => ModeInv /\ ExecHolds
  BY DEF Init, ModeInv, ModeKnows, StopIsAlone, ExecHolds, NewIsWatched, OnlyNew, OnlyAdopted,
       HeldIsRun, RunLabels, StartLabels, FirstPc, NoModes, Threads, Pid, NoPid
<1>2. /\ Typing /\ World /\ ExecKnows /\ Typing' /\ World' /\ ModeInv /\ ExecHolds /\ [Next]_vars
      => ModeInv' /\ ExecHolds'
  BY NobodyRevives, ModeStep, ExecHoldsStep
<1> QED
  BY <1>1, <1>2, Invariance, PTL DEF Spec

-----------------------------------------------------------------------------
(* Who will stop a worker.                                                   *)

Registered(p) == workers[proc[p].owner].pid = p

(* Somebody who does not act for a shutdown is on the way to stop p. *)
OthersKill(p) == \E t \in Threads : mode[t] # "stop" /\ OnItsWayToKill(t, p)

(* p lives on, for the same loader. *)
LivesOn(p) == Live(p) /\ Live(p)' /\ proc'[p].owner = proc[p].owner

(* A thread that is on its way to stop p stays on it until p is dead. *)
LEMMA OwnWayThreadStep ==
  ASSUME Typing, NEW t \in Threads, ThreadStep(t), ModeKnows(t), NEW p \in Pid, LivesOn(p),
         OnItsWayToKill(t, p)
  PROVE  OnItsWayToKill(t, p)' /\ mode'[t] = mode[t]
<1> USE DEF Typing, TypeOK, Threads, Goto, LivesOn, OnItsWayToKill, ModeKnows
<1>1. CASE EvictPending(t)
  BY <1>1 DEF EvictPending, procVars
<1>2. CASE AbortKill(t)
  BY <1>2 DEF AbortKill, KillToken, KillTokens, Kill, Dead, OfToken, CallsHaveALoader, BetweenCalls
<1>3. CASE AbortUnlink(t)
  BY <1>3 DEF AbortUnlink
<1>4. CASE EvictPop(t)
  BY <1>4 DEF EvictPop, AfterPop
<1>5. CASE ShutdownSend(t)
  BY <1>5 DEF ShutdownSend
<1>6. CASE ShutdownWait(t)
  BY <1>6 DEF ShutdownWait, Kill, Dead
<1>7. CASE ShutdownUnlink(t)
  BY <1>7 DEF ShutdownUnlink, AfterShutdown
<1>8. CASE CleanupKill(t)
  BY <1>8 DEF CleanupKill, KillToken, KillTokens, Kill, Dead, OfToken, CallsHaveALoader, BetweenCalls
<1>9. CASE CleanupUnlink(t)
  BY <1>9 DEF CleanupUnlink
<1> QED
  BY <1>1, <1>2, <1>3, <1>4, <1>5, <1>6, <1>7, <1>8, <1>9 DEF ThreadStep

EvictingLabels == {"evict", "abort_kill", "pop", "send", "wait", "unlink", "kill"}

LEMMA ExecStepIsElsewhere == ASSUME ExecStep PROVE pc[Exec] \notin EvictingLabels
  BY DEF EvictingLabels, ExecStep, ModelStep, CreateStep, SampleStep, BeginModel, DeferWarm,
         EnsureHit, EnsureOrphan, EnsureMiss, LookupHit, LookupStale, LookupMiss, AdoptProbe,
         AdoptRegister, SweepOrphans, Spawn, WriteIdentity, RegisterPending, WorkerIsReady,
         ClearPending, RegisterEntry, StartupFails, StartupRaises, BeginSample, RejectSample,
         RunConnect, RunRefused, RunSucceeds, RunBroken, RunAborted, RunAbortUnlink, RunAbortPop,
         KeepWorker, ReleaseWorker, ParkWorker, EndPrompt

LEMMA ApiStepIsElsewhere ==
  ASSUME NEW a \in Api, ApiStep(a) PROVE pc[a] \notin EvictingLabels
  BY DEF EvictingLabels, ApiStep, ClearRequest, ClearNext, StopPending, StopWorker, ReapRequest,
         ClearReturns, Respond, StopRequest, StopGrab, StopExit

(* The ComfyUI process ends, or a new one starts. *)
Renewal == (\E a \in Api : StopExit(a)) \/ Restart

LEMMA OnItsWayStep ==
  ASSUME Typing, ModeInv, [Next]_vars, ~Renewal, NEW t \in Threads, NEW p \in Pid, LivesOn(p),
         OnItsWayToKill(t, p)
  PROVE  OnItsWayToKill(t, p)' /\ mode'[t] = mode[t]
<1>1. ASSUME Untouched(t) PROVE OnItsWayToKill(t, p)' /\ mode'[t] = mode[t]
  BY <1>1 DEF Untouched, OnItsWayToKill, LivesOn
<1>2. pc[t] \in EvictingLabels
  BY DEF OnItsWayToKill, EvictingLabels
<1>3. ASSUME NEW s \in Threads, ThreadStep(s) PROVE OnItsWayToKill(t, p)' /\ mode'[t] = mode[t]
  BY <1>1, <1>3, OwnWayThreadStep, ThreadStepIsOwn DEF ModeInv
<1>4. CASE ExecStep
  BY <1>1, <1>2, <1>4, ExecStepIsElsewhere, ExecStepIsOwn DEF Threads
<1>5. ASSUME NEW a \in Api, ApiStep(a) PROVE OnItsWayToKill(t, p)' /\ mode'[t] = mode[t]
  BY <1>1, <1>2, <1>5, ApiStepIsElsewhere, ApiStepIsOwn DEF Renewal
<1>6. CASE WorkerStep \/ (\E l \in Loaders : NeighbourStarts(l)) \/ UNCHANGED vars
  BY <1>1, <1>6 DEF WorkerStep, WorkerReady, WorkerStops, WorkerDies, NeighbourStarts, Untouched,
       vars, threadVars
<1> QED
  BY <1>3, <1>4, <1>5, <1>6 DEF Next, Renewal


(* Live workers are of a Model node, and of this ComfyUI or an earlier one. *)
WorkersAreOurs == \A p \in Pid : Live(p) => proc[p].owner \in Loaders /\ proc[p].sess <= session

LEMMA Birth ==
  ASSUME Typing, Typing', World', OldProcsShrink, NEW p \in Pid, Live(p)'
  PROVE  \/ LivesOn(p) /\ proc'[p].sess = proc[p].sess
         \/ Spawn /\ p = new' /\ proc'[p].owner = uid[Exec] /\ proc'[p].sess = session
<1>1. CASE ~Spawn
  BY <1>1, NoBirth DEF ProcsStay, LivesOn
<1>2. CASE Spawn
  BY <1>2 DEF Spawn, LivesOn, Typing, TypeOK
<1> QED
  BY <1>1, <1>2

LEMMA SameComfyUI ==
  ASSUME [Next]_vars, ~Renewal
  PROVE  UNCHANGED comfyVars
<1>1. ASSUME NEW t \in Threads, ThreadStep(t) PROVE UNCHANGED comfyVars
  BY <1>1 DEF ThreadStep, EvictPending, AbortKill, AbortUnlink, EvictPop, ShutdownSend,
       ShutdownWait, ShutdownUnlink, CleanupKill, CleanupUnlink
<1>2. CASE ExecStep
  BY <1>2 DEF ExecStep, ModelStep, CreateStep, SampleStep, BeginModel, DeferWarm, EnsureHit,
       EnsureOrphan, EnsureMiss, LookupHit, LookupStale, LookupMiss, AdoptProbe, AdoptRegister,
       SweepOrphans, Spawn, WriteIdentity, RegisterPending, WorkerIsReady, ClearPending,
       RegisterEntry, StartupFails, StartupRaises, BeginSample, RejectSample, RunConnect,
       RunRefused, RunSucceeds, RunBroken, RunAborted, RunAbortUnlink, RunAbortPop, KeepWorker,
       ReleaseWorker, ParkWorker, EndPrompt
<1>3. ASSUME NEW a \in Api, ApiStep(a) PROVE UNCHANGED comfyVars
  BY <1>3 DEF Renewal, ApiStep, ClearRequest, ClearNext, StopPending, StopWorker, ReapRequest,
       ClearReturns, Respond, StopRequest, StopGrab
<1>4. CASE WorkerStep \/ (\E l \in Loaders : NeighbourStarts(l)) \/ UNCHANGED vars
  BY <1>4 DEF WorkerStep, WorkerReady, WorkerStops, WorkerDies, NeighbourStarts, vars
<1> QED
  BY <1>1, <1>2, <1>3, <1>4 DEF Next, Renewal

LEMMA Renewed ==
  ASSUME Renewal
  PROVE  NewComfyUI /\ (up' => session' = session + 1) /\ session' \in {session, session + 1}
  BY DEF Renewal, StopExit, Restart

LEMMA WorkersAreOursStep ==
  ASSUME Typing, Typing', World', OldProcsShrink, WorkersAreOurs, [Next]_vars
  PROVE  WorkersAreOurs'
<1> SUFFICES ASSUME NEW p \in Pid, Live(p)'
             PROVE  proc'[p].owner \in Loaders /\ proc'[p].sess <= session'
  BY DEF WorkersAreOurs
<1>1. session \in Nat /\ session <= session'
  <2>1. session \in Nat
    BY DEF Typing, TypeOK
  <2> QED
    BY <2>1, SameComfyUI, Renewed DEF comfyVars
<1>2. CASE LivesOn(p) /\ proc'[p].sess = proc[p].sess
  <2>1. proc[p].sess \in Nat /\ proc[p].sess <= session /\ session' \in Nat
    BY <1>2 DEF WorkersAreOurs, LivesOn, Typing, TypeOK, Process
  <2> QED
    BY <1>1, <1>2, <2>1 DEF WorkersAreOurs, LivesOn
<1>3. CASE Spawn /\ proc'[p].owner = uid[Exec] /\ proc'[p].sess = session
  BY <1>1, <1>3 DEF Spawn, Typing, TypeOK, CallsHaveALoader, BetweenCalls, Threads
<1> QED
  BY <1>2, <1>3, Birth

(* An entry only leaves the registry in the hands of a thread that goes on to  *)
(* stop its worker, or of a shutdown.                                          *)
LEMMA RegisteredThreadStep ==
  ASSUME Typing, ModeInv, NEW t \in Threads, ThreadStep(t), NEW p \in Pid, LivesOn(p),
         proc[p].owner \in Loaders, Registered(p)
  PROVE  Registered(p)' \/ OthersKill(p)'
<1> USE DEF Typing, TypeOK, Goto, LivesOn, Registered
<1>1. CASE EvictPop(t) /\ uid[t] = proc[p].owner
  <2>1. workers[uid[t]] # NoEntry
    BY <1>1 DEF NoEntry, NoPid, Pid
  <2>2. /\ pc'[t] = "send" /\ uid'[t] = proc'[p].owner /\ held'[t].pid = p
        /\ mode[t] = "evict" /\ mode'[t] = mode[t]
    BY <1>1, <2>1 DEF EvictPop, AfterPop, ModeInv, ModeKnows
  <2> QED
    BY <2>2 DEF OthersKill, OnItsWayToKill
<1>2. CASE EvictPop(t) /\ uid[t] # proc[p].owner
  BY <1>2 DEF EvictPop
<1>3. CASE ~EvictPop(t)
  BY <1>3 DEF ThreadStep, EvictPending, AbortKill, AbortUnlink, ShutdownSend, ShutdownWait,
       ShutdownUnlink, CleanupKill, CleanupUnlink, regVars
<1> QED
  BY <1>1, <1>2, <1>3

LEMMA RegisteredExecStep ==
  ASSUME Typing, ModeInv, ExecKnows, ExecHolds, ExecStep, NEW p \in Pid, LivesOn(p),
         proc[p].owner \in Loaders, Registered(p)
  PROVE  Registered(p)' \/ OthersKill(p)'
<1> DEFINE l == proc[p].owner
<1> USE DEF LivesOn, Registered
<1>1. /\ workers \in [Loaders -> Entry] /\ l \in Loaders /\ FALSE \in BOOLEAN /\ TRUE \in BOOLEAN
      /\ pc \in [Threads -> ThreadLabels] /\ held \in [Threads -> Entry] /\ Exec \in Threads
  BY DEF Typing, TypeOK, Threads
<1> HIDE DEF l
<1>2. ASSUME NEW b \in BOOLEAN, workers' = [workers EXCEPT ![uid[Exec]].parked = b],
             NEW m \in Loaders
      PROVE  workers'[m].pid = workers[m].pid
  <2>1. workers \in [Loaders -> Entry]
    BY <1>1
  <2> QED
    BY <2>1, <1>2 DEF Entry
<1>3. CASE EnsureHit \/ LookupHit \/ ParkWorker
  <2>1. workers'[l].pid = workers[l].pid
    BY <1>1, <1>2, <1>3 DEF EnsureHit, LookupHit, ParkWorker
  <2> QED
    BY <2>1 DEF l
<1>4. CASE LookupStale
  <2>1. CASE uid[Exec] = l
    <3>1. /\ pc'[Exec] = "send" /\ uid'[Exec] = l /\ held'[Exec].pid = p
          /\ mode[Exec] = "create" /\ mode'[Exec] = mode[Exec]
      BY <1>1, <1>4, <2>1 DEF LookupStale, AfterStale, Goto, ModeInv, ModeKnows, l
    <3> QED
      BY <1>1, <3>1 DEF OthersKill, OnItsWayToKill, l
  <2>2. CASE uid[Exec] # l
    BY <1>1, <1>4, <2>2 DEF LookupStale, l
  <2> QED
    BY <2>1, <2>2
<1>5. CASE AdoptRegister
  BY <1>1, <1>5 DEF AdoptRegister, ExecHolds, OnlyAdopted, l
<1>6. CASE RegisterEntry
  BY <1>1, <1>6 DEF RegisterEntry, NewEntry, ExecHolds, OnlyNew, StartLabels, l
<1>7. CASE RunAbortPop
  <2>1. p # held[Exec].pid
    BY <1>7 DEF RunAbortPop, ExecHolds, HeldIsRun, RunLabels
  <2> QED
    BY <1>1, <1>7, <2>1 DEF RunAbortPop, l
<1>8. CASE ~(EnsureHit \/ LookupHit \/ ParkWorker \/ LookupStale \/ AdoptRegister \/ RegisterEntry
             \/ RunAbortPop)
  BY <1>8 DEF ExecStep, ModelStep, CreateStep, SampleStep, BeginModel, DeferWarm, EnsureOrphan,
       EnsureMiss, LookupMiss, AdoptProbe, SweepOrphans, Spawn, WriteIdentity, RegisterPending,
       WorkerIsReady, ClearPending, StartupFails, StartupRaises, BeginSample, RejectSample,
       RunConnect, RunRefused, RunSucceeds, RunBroken, RunAborted, RunAbortUnlink, KeepWorker,
       ReleaseWorker, EndPrompt, regVars
<1> QED
  BY <1>3, <1>4, <1>5, <1>6, <1>7, <1>8

LEMMA RegisteredStep ==
  ASSUME Typing, ModeInv, ExecKnows, ExecHolds, WorkersAreOurs, [Next]_vars, ~Renewal,
         \A a \in Api : ~StopGrab(a), NEW p \in Pid, LivesOn(p), Registered(p)
  PROVE  Registered(p)' \/ OthersKill(p)'
<1>1. proc[p].owner \in Loaders
  BY DEF WorkersAreOurs, LivesOn
<1>2. CASE workers' = workers
  BY <1>2 DEF LivesOn, Registered
<1>3. ASSUME NEW a \in Api, ApiStep(a) PROVE workers' = workers
  BY <1>3 DEF Renewal, ApiStep, ClearRequest, ClearNext, StopPending, StopWorker, ReapRequest,
       ClearReturns, Respond, StopRequest, regVars
<1>4. CASE WorkerStep \/ (\E l \in Loaders : NeighbourStarts(l)) \/ UNCHANGED vars
  BY <1>2, <1>4 DEF WorkerStep, WorkerReady, WorkerStops, WorkerDies, NeighbourStarts, vars, regVars
<1> QED
  BY <1>1, <1>2, <1>3, <1>4, RegisteredThreadStep, RegisteredExecStep DEF Next, Renewal


-----------------------------------------------------------------------------
(* Every worker of this ComfyUI is accounted for.                            *)

(* A shutdown has p on the list it works through. *)
OnTheList(a, p) == /\ pc[a] \in {"stop_workers", "send", "wait", "unlink"}
                   /\ mode[a] = "stop" /\ grabbed[proc[p].owner].pid = p

LEMMA OnTheListStep ==
  ASSUME Typing, ModeInv, [Next]_vars, ~Renewal, NEW a \in Api, NEW p \in Pid, LivesOn(p),
         OnTheList(a, p)
  PROVE  OnTheList(a, p)'
<1>1. a \in Threads /\ a # Exec /\ ModeKnows(a) /\ kind[a] = "stop" /\ pc[a] # "stop_pending"
  BY DEF Threads, ModeInv, StopIsAlone, OnTheList
<1>2. ASSUME Untouched(a), grabbed' = grabbed PROVE OnTheList(a, p)'
  BY <1>2 DEF Untouched, OnTheList, LivesOn
<1>3. ASSUME NEW t \in Threads, ThreadStep(t) PROVE OnTheList(a, p)'
  <2>1. grabbed' = grabbed
    BY <1>3 DEF ThreadStep, EvictPending, AbortKill, AbortUnlink, EvictPop, ShutdownSend,
         ShutdownWait, ShutdownUnlink, CleanupKill, CleanupUnlink, apiVars
  <2>2. CASE t = a
    <3>1. pc'[a] \in {"stop_workers", "send", "wait", "unlink"} /\ mode' = mode
      BY <1>1, <1>3, <2>2 DEF OnTheList, ThreadStep, EvictPending, AbortKill, AbortUnlink, EvictPop,
           ShutdownSend, ShutdownWait, ShutdownUnlink, AfterShutdown, CleanupKill, CleanupUnlink,
           Goto, Typing, TypeOK
    <3> QED
      BY <2>1, <3>1 DEF OnTheList, LivesOn
  <2> QED
    BY <1>1, <1>2, <1>3, <2>1, <2>2, ThreadStepIsOwn
<1>4. CASE ExecStep
  BY <1>2, <1>4, ExecStepIsOwn DEF apiVars
<1>5. ASSUME NEW b \in Api, ApiStep(b) PROVE OnTheList(a, p)'
  <2>1. ~StopGrab(b)
    <3>1. StopGrab(b) => mode[b] = "stop" /\ pc[b] = "stop_pending"
      BY DEF StopGrab, ModeInv, ModeKnows, Threads
    <3> QED
      BY <1>1, <3>1 DEF ModeInv, StopIsAlone
  <2>2. grabbed' = grabbed
    BY <1>5, <2>1 DEF Renewal, ApiStep, ClearRequest, ClearNext, StopPending, StopWorker,
         ReapRequest, ClearReturns, Respond, StopRequest, apiVars
  <2>3. CASE b # a
    BY <1>1, <1>2, <1>5, <2>2, <2>3, ApiStepIsOwn DEF Renewal
  <2>4. CASE b = a
    <3>1. pc'[a] \in {"stop_workers", "send"} /\ mode' = mode
      BY <1>1, <1>5, <2>1, <2>4 DEF OnTheList, Renewal, ApiStep, ClearRequest, ClearNext,
           StopPending, StopWorker, ReapRequest, ClearReturns, Respond, StopRequest, Goto, Typing,
           TypeOK
    <3> QED
      BY <2>2, <3>1 DEF OnTheList, LivesOn
  <2> QED
    BY <2>3, <2>4
<1>6. CASE WorkerStep \/ (\E l \in Loaders : NeighbourStarts(l)) \/ UNCHANGED vars
  BY <1>2, <1>6 DEF WorkerStep, WorkerReady, WorkerStops, WorkerDies, NeighbourStarts, Untouched,
       vars, threadVars, apiVars
<1> QED
  BY <1>3, <1>4, <1>5, <1>6 DEF Next, Renewal

(* The worker the executor has started stays in its hands until it is          *)
(* registered or dead.                                                         *)
LEMMA NewStep ==
  ASSUME Typing, ExecHolds, WorkersAreOurs, [Next]_vars, ~Renewal, NEW p \in Pid, LivesOn(p),
         p = new
  PROVE  new' = p \/ Registered(p)'
<1>1. /\ proc[p].owner = uid[Exec] /\ uid[Exec] \in Loaders
      /\ pc[Exec] \in StartLabels \cup {"abort_kill"}
  BY DEF LivesOn, ExecHolds, NewIsWatched, WorkersAreOurs
<1>2. ASSUME NEW t \in Threads, ThreadStep(t) PROVE new' = new
  BY <1>2 DEF ThreadStep, EvictPending, AbortKill, AbortUnlink, EvictPop, ShutdownSend,
       ShutdownWait, ShutdownUnlink, CleanupKill, CleanupUnlink, execVars
<1>3. CASE RegisterEntry
  BY <1>1, <1>3 DEF RegisterEntry, NewEntry, Registered, LivesOn, Typing, TypeOK
<1>4. CASE Spawn \/ StartupRaises
  BY <1>1, <1>4 DEF Spawn, StartupRaises, StartLabels
<1>5. CASE ExecStep /\ ~(Spawn \/ StartupRaises \/ RegisterEntry)
  BY <1>5 DEF ExecStep, ModelStep, CreateStep, SampleStep, BeginModel, DeferWarm, EnsureHit,
       EnsureOrphan, EnsureMiss, LookupHit, LookupStale, LookupMiss, AdoptProbe, AdoptRegister,
       SweepOrphans, WriteIdentity, RegisterPending, WorkerIsReady, ClearPending, StartupFails,
       BeginSample, RejectSample, RunConnect, RunRefused, RunSucceeds, RunBroken, RunAborted,
       RunAbortUnlink, RunAbortPop, KeepWorker, ReleaseWorker, ParkWorker, EndPrompt, execVars
<1>6. ASSUME NEW a \in Api, ApiStep(a) PROVE new' = new
  BY <1>6, ApiStepIsOwn DEF Renewal, execVars
<1>7. CASE WorkerStep \/ (\E l \in Loaders : NeighbourStarts(l)) \/ UNCHANGED vars
  BY <1>7 DEF WorkerStep, WorkerReady, WorkerStops, WorkerDies, NeighbourStarts, vars, execVars
<1> QED
  BY <1>2, <1>3, <1>4, <1>5, <1>6, <1>7 DEF Next, Renewal

(* Who has p: WorkersAreAccountedFor without the pending table, which only     *)
(* ever names `new`.                                                           *)
Has(p) == \/ Registered(p)
          \/ new = p
          \/ \E t \in Threads : OnItsWayToKill(t, p)
          \/ \E a \in Api : OnTheList(a, p)

Accounted == \A p \in Pid : up /\ Live(p) /\ proc[p].sess = session => Has(p)

LEMMA HasStep ==
  ASSUME Typing, ModeInv, ExecKnows, ExecHolds, WorkersAreOurs, [Next]_vars, ~Renewal,
         NEW p \in Pid, LivesOn(p), Has(p)
  PROVE  Has(p)'
<1>1. CASE new = p
  BY <1>1, NewStep DEF Has
<1>2. ASSUME NEW t \in Threads, OnItsWayToKill(t, p) PROVE Has(p)'
  BY <1>2, OnItsWayStep DEF Has
<1>3. ASSUME NEW a \in Api, OnTheList(a, p) PROVE Has(p)'
  BY <1>3, OnTheListStep DEF Has
<1>4. CASE Registered(p)
  <2>1. ASSUME NEW a \in Api, StopGrab(a) PROVE OnTheList(a, p)'
    <3>1. mode[a] = "stop" /\ a \in Threads
      BY <2>1 DEF StopGrab, ModeInv, ModeKnows, Threads
    <3>2. pc'[a] = "stop_workers" /\ mode' = mode /\ grabbed' = workers
      BY <2>1, <3>1 DEF StopGrab, Goto, Typing, TypeOK
    <3> QED
      BY <1>4, <3>1, <3>2 DEF OnTheList, Registered, LivesOn
  <2>2. CASE \A a \in Api : ~StopGrab(a)
    BY <1>4, <2>2, RegisteredStep DEF Has, OthersKill
  <2> QED
    BY <2>1, <2>2 DEF Has
<1> QED
  BY <1>1, <1>2, <1>3, <1>4 DEF Has

LEMMA AccountedStep ==
  ASSUME Typing, Typing', World', ModeInv, ExecKnows, ExecHolds, WorkersAreOurs, Accounted,
         OldProcsShrink, [Next]_vars
  PROVE  Accounted'
<1> SUFFICES ASSUME NEW p \in Pid, up', Live(p)', proc'[p].sess = session' PROVE Has(p)'
  BY DEF Accounted
<1>1. CASE Renewal
  <2>1. proc' = proc /\ session' = session + 1
    BY <1>1, Renewed DEF NewComfyUI, procVars
  <2>2. proc[p].sess <= session /\ proc[p].sess = session + 1 /\ session \in Nat
    BY <2>1 DEF WorkersAreOurs, Typing, TypeOK
  <2> QED
    BY <2>2
<1>2. CASE ~Renewal
  <2>1. up /\ session' = session
    BY <1>2, SameComfyUI DEF comfyVars
  <2>2. CASE LivesOn(p) /\ proc'[p].sess = proc[p].sess
    BY <1>2, <2>1, <2>2, HasStep DEF Accounted, LivesOn
  <2>3. CASE p = new'
    BY <2>3 DEF Has
  <2> QED
    BY <2>2, <2>3, Birth
<1> QED
  BY <1>1, <1>2

(* No worker this ComfyUI has started is ever out of everybody's sight: it is  *)
(* registered, or being started, or on a list or under way of being stopped.   *)
THEOREM AllWorkersAccounted == Spec => []WorkersAreAccountedFor
<1>1. Init => WorkersAreOurs /\ Accounted
  BY DEF Init, WorkersAreOurs, Accounted, NoProc
<1>2. /\ Typing /\ Typing' /\ World' /\ ExecKnows /\ ModeInv /\ ExecHolds /\ WorkersAreOurs
      /\ Accounted /\ [Next]_vars
      => WorkersAreOurs' /\ Accounted'
  BY NobodyRevives, WorkersAreOursStep, AccountedStep
<1>3. Accounted => WorkersAreAccountedFor
  BY DEF Accounted, Has, Registered, OnTheList, WorkersAreAccountedFor, InHand
<1> QED
  BY <1>1, <1>2, <1>3, Invariance, WatchInvariance, PTL DEF Spec


-----------------------------------------------------------------------------
(* The workers of an earlier ComfyUI.                                        *)

(* An entry, live or dead, is of the only such worker its token can have. *)
EntryNamesTheOrphan ==
  \A l \in Loaders : workers[l].pid # NoPid =>
    \A p \in Pid : Live(p) /\ proc[p].owner = l /\ proc[p].sess < session => p = workers[l].pid

LEMMA LookupHitKeepsEntries ==
  ASSUME Typing, LookupHit
  PROVE  EntriesShrink
<1>1. /\ workers' = [workers EXCEPT ![uid[Exec]].parked = FALSE]
      /\ EntryHit(uid[Exec], key) /\ workers \in [Loaders -> Entry] /\ FALSE \in BOOLEAN
  BY DEF LookupHit, Typing, TypeOK
<1>2. ASSUME NEW l \in Loaders
      PROVE  /\ workers'[l].pid = workers[l].pid /\ workers'[l].key = workers[l].key
             /\ l # uid[Exec] => workers'[l] = workers[l]
  BY ONLY <1>1, l \in Loaders, ParkedKeepsTheRest, Zenon
<1> QED
  BY <1>1, <1>2 DEF EntryHit, EntryAlive

(* Only two steps put a worker into the registry. *)
LEMMA RegistryGrows ==
  ASSUME Typing, Typing', [Next]_vars
  PROVE  EntriesShrink \/ AdoptRegister \/ RegisterEntry
<1>1. CASE workers' = workers
  BY <1>1
<1>2. ASSUME NEW t \in Threads, ThreadStep(t) PROVE EntriesShrink
  BY <1>1, <1>2, ThreadStepsAreHarmless DEF Harmless, Shrinks, CleanupKill, CleanupUnlink, regVars
<1>3. CASE HarmlessExecStep
  BY <1>3, HarmlessExecSteps DEF Harmless, Shrinks
<1>4. CASE ExecStep /\ ~HarmlessExecStep /\ ~AdoptRegister /\ ~RegisterEntry
  BY <1>1, <1>4, LookupHitKeepsEntries DEF ExecStep, ModelStep, CreateStep, SampleStep,
       HarmlessExecStep, AdoptProbe, SweepOrphans, Spawn, WriteIdentity, RegisterPending,
       WorkerIsReady, ClearPending, RunConnect, regVars
<1>5. ASSUME NEW p \in Pid, WorkerReady(p) PROVE workers' = workers
  BY <1>5 DEF WorkerReady, regVars
<1>6. CASE \/ \E a \in Api : ApiStep(a)
           \/ \E p \in Pid : WorkerStops(p) \/ WorkerDies(p)
           \/ \E l \in Loaders : NeighbourStarts(l)
           \/ Restart
           \/ UNCHANGED vars
  BY <1>6, OtherStepsAreHarmless DEF Harmless, Shrinks
<1> QED
  BY <1>1, <1>2, <1>3, <1>4, <1>5, <1>6 DEF Next, WorkerStep

LEMMA EntryNamesTheOrphanStep ==
  ASSUME Typing, Typing', World', ExecHolds, WorkersAreOurs, OldProcsShrink,
         EntryNamesTheOrphan, [Next]_vars
  PROVE  EntryNamesTheOrphan'
<1> SUFFICES ASSUME NEW l \in Loaders, workers'[l].pid # NoPid, NEW p \in Pid, Live(p)',
                    proc'[p].owner = l, proc'[p].sess < session'
             PROVE  p = workers'[l].pid
  BY DEF EntryNamesTheOrphan
<1>1. ~Renewal
  BY Renewed DEF NewComfyUI, NoEntries, NoEntry
<1>2. session' = session /\ session \in Nat
  BY <1>1, SameComfyUI DEF comfyVars, Typing, TypeOK
<1>3. Live(p) /\ proc[p].owner = l /\ proc[p].sess < session
  BY <1>2, Birth DEF LivesOn
<1>4. CASE EntriesShrink
  BY <1>3, <1>4 DEF EntryNamesTheOrphan, NoEntry
<1>5. CASE (AdoptRegister \/ RegisterEntry) /\ l # uid[Exec]
  BY <1>3, <1>5 DEF EntryNamesTheOrphan, AdoptRegister, RegisterEntry, Typing, TypeOK
<1>6. CASE AdoptRegister /\ l = uid[Exec]
  BY <1>3, <1>6 DEF AdoptRegister, ExecHolds, OnlyAdopted, Typing, TypeOK
<1>7. CASE RegisterEntry /\ l = uid[Exec]
  BY <1>3, <1>7 DEF RegisterEntry, NewEntry, ExecHolds, OnlyNew, StartLabels, Typing, TypeOK
<1> QED
  BY <1>4, <1>5, <1>6, <1>7, RegistryGrows

(* The executor comes to its Popen by way of the sweep. *)
LEMMA SpawnFollowsSweep ==
  ASSUME Typing, Typing', [Next]_vars, pc[Exec] # "spawn", pc'[Exec] = "spawn"
  PROVE  SweepOrphans
<1> USE DEF Goto, Typing, TypeOK, Threads
<1>1. ~Harmless
  BY DEF Harmless, ExecQuiet, Known
<1>2. ASSUME NEW t \in Threads, ThreadStep(t) PROVE FALSE
  <2>1. CASE CleanupKill(Exec)
    BY <2>1 DEF CleanupKill
  <2>2. CASE CleanupUnlink(Exec)
    BY <2>2 DEF CleanupUnlink, EvictReturns, NodeDone
  <2> HIDE DEF Typing, TypeOK
  <2> QED
    BY <1>1, <1>2, <2>1, <2>2, ThreadStepsAreHarmless
<1>3. CASE LookupHit \/ AdoptProbe \/ AdoptRegister \/ RegisterEntry
  BY <1>3 DEF LookupHit, AdoptProbe, AdoptRegister, RegisterEntry, Acquired, ModelReturns, NodeDone
<1>4. CASE Spawn \/ WriteIdentity \/ RegisterPending \/ WorkerIsReady \/ ClearPending \/ RunConnect
  BY <1>4 DEF Spawn, WriteIdentity, RegisterPending, WorkerIsReady, ClearPending, RunConnect
<1>5. ASSUME NEW p \in Pid, WorkerReady(p) PROVE FALSE
  BY <1>5 DEF WorkerReady, threadVars
<1> HIDE DEF Typing, TypeOK
<1> QED
  BY <1>1, <1>2, <1>3, <1>4, <1>5, HarmlessExecSteps, OtherStepsAreHarmless
     DEF Next, ExecStep, ModelStep, CreateStep, SampleStep, HarmlessExecStep, WorkerStep

(* What survives the sweep is registered: the token about to be started has no *)
(* worker any more, and nothing is pending.                                    *)
LEMMA SweepLeavesRegistered ==
  ASSUME Typing, World, ExecKnows, WorkersAreOurs, PendingOnlyWhileStarting, EntryNamesTheOrphan,
         SweepOrphans, NEW p \in Pid, LivesOn(p), proc[p].sess < session
  PROVE  Registered(p)'
<1> DEFINE l == proc[p].owner
<1>1. l \in Loaders /\ p \in OfToken(l)
  BY DEF WorkersAreOurs, LivesOn, OfToken
<1>2. l # uid[Exec]
  BY DEF SweepOrphans, ExecKnows, TokenCleared, LivesOn
<1>3. pending[l] = NoPid
  BY <1>1 DEF SweepOrphans, PendingOnlyWhileStarting
<1>4. l \notin SweepTokens
  BY <1>1 DEF SweepOrphans, KillTokens, Kill, Dead, LivesOn
<1>5. workers[l] # NoEntry
  BY <1>1, <1>2, <1>3, <1>4 DEF SweepTokens
<1>6. p = workers[l].pid
  BY <1>1, <1>5 DEF World, EntryTells, EntryNamesTheOrphan, LivesOn
<1> QED
  BY <1>6 DEF SweepOrphans, regVars, Registered, LivesOn

Reclaimed == NeedsGpus => \A p \in Pid : Live(p) /\ proc[p].sess < session => Has(p)

LEMMA ReclaimedStep ==
  ASSUME Typing, Typing', World, World', ModeInv, ExecKnows, ExecHolds, WorkersAreOurs,
         PendingOnlyWhileStarting, EntryNamesTheOrphan, Reclaimed, OldProcsShrink, [Next]_vars
  PROVE  Reclaimed'
<1> SUFFICES ASSUME NeedsGpus', NEW p \in Pid, Live(p)', proc'[p].sess < session' PROVE Has(p)'
  BY DEF Reclaimed
<1>1. ~Renewal
  <2> SUFFICES ASSUME Renewal PROVE FALSE
    OBVIOUS
  <2>1. /\ proc' = proc /\ session' = session + 1 /\ session \in Nat
        /\ pc'[Exec] = "prompt"
    BY Renewed DEF NeedsGpus, NewComfyUI, procVars, FirstPc, Threads, Typing, TypeOK
  <2>2. \A q \in Pid : Live(q) => proc[q].sess \in Nat /\ proc[q].sess <= session
    BY DEF WorkersAreOurs, Typing, TypeOK, Process
  <2> QED
    BY <2>1, <2>2 DEF NeedsGpus
<1>2. up /\ session' = session /\ session \in Nat
  <2>1. up' = up /\ session' = session
    BY <1>1, SameComfyUI DEF comfyVars
  <2>2. up' /\ session \in Nat
    BY DEF NeedsGpus, Typing, TypeOK
  <2> QED
    BY <2>1, <2>2
<1>3. LivesOn(p) /\ proc[p].sess < session
  BY <1>2, Birth
<1>4. CASE NeedsGpus
  BY <1>1, <1>3, <1>4, HasStep DEF Reclaimed, LivesOn
<1>5. CASE ~NeedsGpus
  <2>1. pc'[Exec] = "spawn"
    BY <1>2, <1>5, Birth DEF NeedsGpus, LivesOn, Spawn
  <2> QED
    BY <1>2, <1>3, <1>5, <2>1, SpawnFollowsSweep, SweepLeavesRegistered DEF NeedsGpus, Has
<1> QED
  BY <1>4, <1>5

(* From a sweep on, and for as long as this ComfyUI has a worker of its own, no *)
(* worker that an earlier one left behind is out of its hands.                  *)
THEOREM OrphansReclaimed == Spec => []OrphansAreReclaimed
<1>1. Init => WorkersAreOurs /\ EntryNamesTheOrphan /\ Reclaimed
  BY DEF Init, WorkersAreOurs, EntryNamesTheOrphan, Reclaimed, NoProc
<1>2. /\ Typing /\ Typing' /\ World /\ World' /\ ExecKnows /\ ModeInv /\ ExecHolds
      /\ WorkersAreOurs /\ PendingOnlyWhileStarting /\ EntryNamesTheOrphan /\ Reclaimed
      /\ [Next]_vars
      => WorkersAreOurs' /\ EntryNamesTheOrphan' /\ Reclaimed'
  BY NobodyRevives, WorkersAreOursStep, EntryNamesTheOrphanStep, ReclaimedStep
<1>3. Reclaimed => OrphansAreReclaimed
  BY DEF Reclaimed, Has, Registered, OnTheList, OrphansAreReclaimed, InHand
<1> QED
  BY <1>1, <1>2, <1>3, Invariance, WatchInvariance, PendingIsStarting, PTL DEF Spec

-----------------------------------------------------------------------------
(* A shutdown.                                                               *)

(* Before it takes the registry: p is registered, or of a loader whose start   *)
(* it has still to abort, or is aborting.                                      *)
WillGrab(a, p) ==
  /\ pc[a] \in {"stop_pending", "abort_kill", "abort_unlink"}
  /\ \/ Registered(p)
     \/ proc[p].owner \in todo[a]
     \/ pc[a] = "abort_kill" /\ uid[a] = proc[p].owner

(* Afterwards: p is the entry of a loader on its list, or of the one it is     *)
(* stopping.                                                                   *)
WillStop(a, p) ==
  /\ pc[a] \in {"stop_workers", "send", "wait", "unlink"}
  /\ \/ proc[p].owner \in todo[a] /\ grabbed[proc[p].owner].pid = p
     \/ pc[a] \in {"send", "wait"} /\ uid[a] = proc[p].owner /\ held[a].pid = p

StopKnows(a) ==
  mode[a] = "stop" =>
    \A p \in seen[a] : Live(p) => OthersKill(p) \/ WillGrab(a, p) \/ WillStop(a, p)

StopInv == \A a \in Api : StopKnows(a)

LEMMA OthersKillStep ==
  ASSUME Typing, ModeInv, [Next]_vars, ~Renewal, NEW p \in Pid, LivesOn(p), OthersKill(p)
  PROVE  OthersKill(p)'
  BY OnItsWayStep DEF OthersKill

(* Only the shutdown itself takes the registry. *)
LEMMA OneGrabs ==
  ASSUME ModeInv, NEW a \in Api, NEW b \in Api, StopGrab(b), mode[a] = "stop"
  PROVE  a = b
<1>1. mode[b] = "stop"
  BY DEF StopGrab, ModeInv, ModeKnows, Threads
<1> QED
  BY <1>1 DEF ModeInv, StopIsAlone

LEMMA GrabbedStays ==
  ASSUME [Next]_vars, ~Renewal, \A b \in Api : ~StopGrab(b)
  PROVE  grabbed' = grabbed
<1>1. ASSUME NEW t \in Threads, ThreadStep(t) PROVE grabbed' = grabbed
  BY <1>1 DEF ThreadStep, EvictPending, AbortKill, AbortUnlink, EvictPop, ShutdownSend,
       ShutdownWait, ShutdownUnlink, CleanupKill, CleanupUnlink, apiVars
<1>2. CASE ExecStep
  BY <1>2 DEF ExecStep, ModelStep, CreateStep, SampleStep, BeginModel, DeferWarm, EnsureHit,
       EnsureOrphan, EnsureMiss, LookupHit, LookupStale, LookupMiss, AdoptProbe, AdoptRegister,
       SweepOrphans, Spawn, WriteIdentity, RegisterPending, WorkerIsReady, ClearPending,
       RegisterEntry, StartupFails, StartupRaises, BeginSample, RejectSample, RunConnect,
       RunRefused, RunSucceeds, RunBroken, RunAborted, RunAbortUnlink, RunAbortPop, KeepWorker,
       ReleaseWorker, ParkWorker, EndPrompt, apiVars
<1>3. ASSUME NEW a \in Api, ApiStep(a) PROVE grabbed' = grabbed
  BY <1>3 DEF Renewal, ApiStep, ClearRequest, ClearNext, StopPending, StopWorker, ReapRequest,
       ClearReturns, Respond, StopRequest, apiVars
<1>4. CASE WorkerStep \/ (\E l \in Loaders : NeighbourStarts(l)) \/ UNCHANGED vars
  BY <1>4 DEF WorkerStep, WorkerReady, WorkerStops, WorkerDies, NeighbourStarts, vars, apiVars
<1> QED
  BY <1>1, <1>2, <1>3, <1>4 DEF Next, Renewal

(* A step of somebody else. *)
LEMMA StopWaits ==
  ASSUME Typing, ModeInv, ExecKnows, ExecHolds, WorkersAreOurs, [Next]_vars, ~Renewal,
         NEW a \in Api, mode[a] = "stop", NEW p \in Pid, LivesOn(p),
         \A b \in Api : ~StopGrab(b), Untouched(a), RequestUntouched(a),
         OthersKill(p) \/ WillGrab(a, p) \/ WillStop(a, p)
  PROVE  OthersKill(p)' \/ WillGrab(a, p)' \/ WillStop(a, p)'
<1> USE DEF Untouched, RequestUntouched, LivesOn
<1>1. CASE OthersKill(p)
  BY <1>1, OthersKillStep
<1>2. CASE WillGrab(a, p)
  <2>1. CASE Registered(p)
    BY <1>2, <2>1, RegisteredStep DEF WillGrab
  <2>2. CASE ~Registered(p)
    BY <1>2, <2>2 DEF WillGrab
  <2> QED
    BY <2>1, <2>2
<1>3. CASE WillStop(a, p)
  BY <1>3, GrabbedStays DEF WillStop
<1> QED
  BY <1>1, <1>2, <1>3

(* A step of the shutdown in a call it makes. *)
LEMMA StopThreadStep ==
  ASSUME Typing, ModeInv, ExecKnows, ExecHolds, WorkersAreOurs, [Next]_vars, ~Renewal,
         NEW a \in Api, mode[a] = "stop", NEW p \in Pid, LivesOn(p), ThreadStep(a),
         OthersKill(p) \/ WillGrab(a, p) \/ WillStop(a, p)
  PROVE  OthersKill(p)' \/ WillGrab(a, p)' \/ WillStop(a, p)'
<1>1. /\ a \in Threads /\ ModeKnows(a) /\ pc \in [Threads -> ThreadLabels]
      /\ held \in [Threads -> Entry] /\ uid[a] \in Loaders /\ proc[p].owner \in Loaders
  <2>1. a \in Threads /\ pc[a] \notin BetweenCalls
    BY DEF Threads, ThreadStep, EvictPending, AbortKill, AbortUnlink, EvictPop, ShutdownSend,
         ShutdownWait, ShutdownUnlink, CleanupKill, CleanupUnlink, BetweenCalls
  <2> QED
    BY <2>1 DEF ModeInv, Typing, TypeOK, CallsHaveALoader, WorkersAreOurs, LivesOn
<1>2. todo' = todo /\ grabbed' = grabbed /\ mode[a] # "evict"
  BY DEF ThreadStep, EvictPending, AbortKill, AbortUnlink, EvictPop, ShutdownSend, ShutdownWait,
     ShutdownUnlink, CleanupKill, CleanupUnlink, apiVars
<1>3. CASE OthersKill(p)
  BY <1>3, OthersKillStep
<1>4. CASE WillGrab(a, p)
  <2>1. Registered(p) => Registered(p)' \/ OthersKill(p)'
    BY <1>1, RegisteredThreadStep
  <2>2. CASE AbortKill(a)
    <3>1. proc[p].owner # uid[a] /\ pc'[a] = "abort_unlink"
      BY <1>1, <2>2 DEF AbortKill, KillToken, KillTokens, Kill, Dead, OfToken, Goto, LivesOn
    <3> QED
      BY <1>2, <1>4, <2>1, <3>1 DEF WillGrab, LivesOn
  <2>3. CASE AbortUnlink(a)
    <3>1. pc[a] = "abort_unlink" /\ pc'[a] = "stop_pending"
      BY <1>1, <2>3 DEF AbortUnlink, AfterAbort, Goto, ModeKnows
    <3> QED
      BY <1>2, <1>4, <2>1, <3>1 DEF WillGrab, LivesOn
  <2> QED
    BY <1>4, <2>2, <2>3 DEF WillGrab, ThreadStep, EvictPending, EvictPop, ShutdownSend,
       ShutdownWait, ShutdownUnlink, CleanupKill, CleanupUnlink
<1>5. CASE WillStop(a, p)
  <2>1. CASE ShutdownSend(a)
    BY <1>1, <1>2, <1>5, <2>1 DEF ShutdownSend, WillStop, Goto, LivesOn
  <2>2. CASE ShutdownWait(a)
    BY <1>1, <1>2, <1>5, <2>2 DEF ShutdownWait, WillStop, Goto, LivesOn, Kill, Dead
  <2>3. CASE ShutdownUnlink(a)
    <3>1. pc[a] = "unlink" /\ pc'[a] = "stop_workers"
      BY <1>1, <2>3 DEF ShutdownUnlink, AfterShutdown, Goto, ModeKnows
    <3> QED
      BY <1>2, <1>5, <3>1 DEF WillStop, LivesOn
  <2> QED
    BY <1>5, <2>1, <2>2, <2>3 DEF WillStop, ThreadStep, EvictPending, EvictPop, AbortKill,
       AbortUnlink, CleanupKill, CleanupUnlink
<1> QED
  BY <1>3, <1>4, <1>5

(* A step of the hook itself. *)
LEMMA StopServes ==
  ASSUME Typing, Typing', ModeInv, WorkersAreOurs, StopInv, NEW a \in Api, ApiStep(a), [Next]_vars,
         ~Renewal
  PROVE  StopKnows(a)'
<1> USE DEF Typing, TypeOK, Goto
<1>1. a \in Threads /\ ModeKnows(a) /\ StopKnows(a) /\ proc' = proc
  BY ApiStepIsOwn DEF Threads, ModeInv, StopInv, Renewal, procVars
<1>2. \A p \in Pid : LivesOn(p) <=> Live(p)
  BY <1>1 DEF LivesOn
<1>3. \A p \in Pid : Live(p) /\ OthersKill(p) => OthersKill(p)'
  BY <1>2, OthersKillStep
<1>4. seen[a] \subseteq Pid /\ \A p \in Pid : Live(p)' => Live(p) /\ proc[p].owner \in Loaders
  BY <1>1 DEF WorkersAreOurs
<1>5. ASSUME NEW l \in Loaders, ClearRequest(a, l) \/ ClearNext(a, l) PROVE StopKnows(a)'
  BY <1>1, <1>5 DEF ClearRequest, ClearNext, StopKnows, ModeKnows, StopLabels
<1>6. CASE (\E L \in SUBSET Loaders : ReapRequest(a, L)) \/ ClearReturns(a) \/ Respond(a)
  BY <1>1, <1>6 DEF ReapRequest, ClearReturns, Respond, StopKnows, ModeKnows, StopLabels
<1>7. CASE StopRequest(a)
  <2>1. /\ pc'[a] = "stop_pending" /\ workers' = workers /\ seen'[a] = Tabled
        /\ todo'[a] = {l \in Loaders : pending[l] # NoPid}
    BY <1>1, <1>7 DEF StopRequest
  <2>2. \A p \in Tabled : Registered(p) \/ proc[p].owner \in todo'[a]
    BY <1>1, <1>4, <2>1 DEF Tabled, Registered, Pid, NoPid
  <2> QED
    BY <1>1, <2>1, <2>2 DEF StopKnows, WillGrab, Registered
<1>8. ASSUME NEW l \in Loaders, StopPending(a, l) PROVE StopKnows(a)'
  <2>1. /\ pc[a] = "stop_pending" /\ pc'[a] = "abort_kill" /\ uid'[a] = l /\ mode' = mode
        /\ todo'[a] = todo[a] \ {l} /\ workers' = workers /\ seen' = seen
    BY <1>1, <1>8 DEF StopPending, regVars
  <2> QED
    BY <1>1, <1>3, <1>4, <2>1 DEF StopKnows, WillGrab, WillStop, Registered
<1>9. CASE StopGrab(a)
  <2>1. /\ pc[a] = "stop_pending" /\ pc'[a] = "stop_workers" /\ todo[a] = {} /\ mode' = mode
        /\ todo'[a] = Entries /\ grabbed' = workers /\ seen' = seen
    BY <1>1, <1>9 DEF StopGrab
  <2>2. \A p \in Pid : Live(p) /\ Registered(p) => proc[p].owner \in Entries
    BY <1>1, <1>4 DEF Entries, Registered, NoEntry, NoPid, Pid
  <2> QED
    BY <1>1, <1>3, <1>4, <2>1, <2>2 DEF StopKnows, WillGrab, WillStop, Registered
<1>10. ASSUME NEW l \in Loaders, StopWorker(a, l) PROVE StopKnows(a)'
  <2>1. /\ pc[a] = "stop_workers" /\ pc'[a] = "send" /\ uid'[a] = l /\ held'[a] = grabbed[l]
        /\ todo'[a] = todo[a] \ {l} /\ mode' = mode /\ grabbed' = grabbed /\ seen' = seen
    BY <1>1, <1>10 DEF StopWorker
  <2> QED
    BY <1>1, <1>3, <1>4, <2>1 DEF StopKnows, WillGrab, WillStop
<1> QED
  BY <1>5, <1>6, <1>7, <1>8, <1>9, <1>10 DEF ApiStep, Renewal

LEMMA StopStep ==
  ASSUME Typing, Typing', World', ModeInv, ExecKnows, ExecHolds, WorkersAreOurs, OldProcsShrink,
         UnloadInv, StopInv, [Next]_vars
  PROVE  StopInv'
<1> SUFFICES ASSUME NEW a \in Api PROVE StopKnows(a)'
  BY DEF StopInv
<1>1. a \in Threads /\ a # Exec /\ StopKnows(a)
  BY DEF Threads, StopInv
<1>2. CASE Renewal
  BY <1>2, Renewed DEF NewComfyUI, StopKnows
<1>3. ASSUME NEW p \in seen[a], Live(p)' PROVE p \in Pid /\ LivesOn(p)
  BY <1>3 DEF UnloadInv, UnloadKnows, OldProcsShrink, LivesOn, Typing, TypeOK
<1>4. ASSUME ~Renewal, Untouched(a), RequestUntouched(a), \A b \in Api : ~StopGrab(b)
      PROVE  StopKnows(a)'
  BY <1>1, <1>3, <1>4, StopWaits DEF StopKnows, Untouched, RequestUntouched, LivesOn
<1>5. ASSUME NEW b \in Api, StopGrab(b), ~Renewal PROVE StopKnows(a)'
  <2>1. ApiStep(b) /\ ~StopExit(b)
    BY <1>5 DEF ApiStep, Renewal
  <2>2. CASE b = a
    BY <1>5, <2>1, <2>2, StopServes
  <2>3. CASE b # a
    <3>1. mode'[a] = mode[a] /\ mode[a] # "stop"
      BY <1>1, <1>5, <2>1, <2>3, ApiStepIsOwn, OneGrabs DEF Untouched
    <3> QED
      BY <3>1 DEF StopKnows
  <2> QED
    BY <2>2, <2>3
<1> DEFINE Calm == ~Renewal /\ \A b \in Api : ~StopGrab(b)
<1>6. ASSUME NEW t \in Threads, ThreadStep(t), Calm PROVE StopKnows(a)'
  <2>1. CASE t = a
    <3>1. mode'[a] = "stop" <=> mode[a] = "stop"
      BY <1>1, <1>6, <2>1, ModeThreadStep DEF ModeInv
    <3>2. seen' = seen
      BY <1>6, <2>1 DEF ThreadStep, EvictPending, AbortKill, AbortUnlink, EvictPop, ShutdownSend,
           ShutdownWait, ShutdownUnlink, CleanupKill, CleanupUnlink, apiVars
    <3> QED
      BY <1>1, <1>3, <1>6, <2>1, <3>1, <3>2, StopThreadStep DEF StopKnows, LivesOn
  <2>2. CASE t # a
    BY <1>1, <1>4, <1>6, <2>2, ThreadStepIsOwn DEF RequestUntouched, apiVars
  <2> QED
    BY <2>1, <2>2
<1>7. CASE ExecStep /\ Calm
  BY <1>4, <1>7, ExecStepIsOwn DEF RequestUntouched, apiVars
<1>8. ASSUME NEW b \in Api, ApiStep(b), Calm PROVE StopKnows(a)'
  <2>1. CASE b = a
    BY <1>8, <2>1, StopServes
  <2>2. CASE b # a
    BY <1>1, <1>4, <1>8, <2>2, ApiStepIsOwn DEF Renewal
  <2> QED
    BY <2>1, <2>2
<1>9. CASE (WorkerStep \/ (\E l \in Loaders : NeighbourStarts(l)) \/ UNCHANGED vars) /\ Calm
  BY <1>4, <1>9 DEF WorkerStep, WorkerReady, WorkerStops, WorkerDies, NeighbourStarts, Untouched,
       RequestUntouched, vars, threadVars, apiVars
<1> QED
  BY <1>2, <1>5, <1>6, <1>7, <1>8, <1>9 DEF Next, Renewal

(* When the shutdown hook returns, the workers it found registered or pending  *)
(* are dead, or another thread has them and is on its way to stop them.        *)
THEOREM ShutdownFrees == Spec => []ShutdownFreesTheGpus
<1>1. Init => WorkersAreOurs /\ UnloadInv /\ StopInv
  BY DEF Init, WorkersAreOurs, NoProc, UnloadInv, UnloadKnows, StopInv, StopKnows
<1>2. /\ Typing /\ Typing' /\ World /\ World' /\ ExecKnows /\ ModeInv /\ ExecHolds
      /\ WorkersAreOurs /\ UnloadInv /\ StopInv /\ [Next]_vars
      => WorkersAreOurs' /\ UnloadInv' /\ StopInv'
  BY NobodyRevives, WorkersAreOursStep, UnloadStep, StopStep
<1>3. Typing /\ ModeInv /\ StopInv => ShutdownFreesTheGpus
  <2> SUFFICES ASSUME Typing, ModeInv, StopInv, NEW a \in Api, pc[a] = "stop_workers", todo[a] = {},
                      NEW p \in Pid, p \in seen[a], Live(p)
               PROVE  \E t \in Threads \ {a} : OnItsWayToKill(t, p)
    BY DEF ShutdownFreesTheGpus, Typing, TypeOK
  <2>1. mode[a] = "stop"
    BY DEF ModeInv, ModeKnows, Threads
  <2>2. OthersKill(p)
    BY <2>1 DEF StopInv, StopKnows, WillGrab, WillStop
  <2> QED
    BY <2>1, <2>2 DEF OthersKill
<1> QED
  BY <1>1, <1>2, <1>3, Invariance, WatchInvariance, PTL DEF Spec

-----------------------------------------------------------------------------
(* All of it is one pool of workers.                                         *)

LEMMA AliveTells ==
  ASSUME NEW w \in Alive
  PROVE  w.id \in Pid /\ Live(w.id) /\ w = Configured(w.id)
  BY DEF Alive, Configured

(* A step that starts nobody can only take workers away. *)
LEMMA AliveShrinks ==
  ASSUME ProcsStay
  PROVE  Alive' = Alive \ (Alive \ Alive')
<1>1. ASSUME NEW p \in Pid, Live(p)' PROVE Configured(p)' \in Alive
  <2>1. Live(p) /\ Configured(p)' = Configured(p)
    BY <1>1 DEF ProcsStay, Configured
  <2> QED
    BY <2>1 DEF Alive
<1>2. Alive' \subseteq Alive
  BY <1>1 DEF Alive
<1> QED
  BY <1>2

(* The Sample under way stays as it is, and so does what an Unload has found. *)
LEMMA PoolStays ==
  ASSUME ProcsStay, nextPid' = nextPid, Given' = Given, Owed' = Owed
  PROVE  Pool!Next
<1>1. Pool!End(Alive \ Alive')
  BY AliveShrinks DEF Pool!End
<1> QED
  BY <1>1 DEF Pool!Next

LEMMA QuietGiven ==
  ASSUME ExecQuiet \/ (pc[Exec] # "running" /\ pc'[Exec] # "running")
  PROVE  Given' = Given
  BY DEF ExecQuiet, Given, Asked

LEMMA SameOwed ==
  ASSUME UNCHANGED <<kind, seen>>
  PROVE  Owed' = Owed
  BY DEF Owed

LEMMA PoolSpawn ==
  ASSUME Typing, World, ExecKnows, Spawn
  PROVE  Pool!Next
<1>a. /\ pc[Exec] = "spawn" /\ pc'[Exec] = "identity" /\ nextPid' = nextPid + 1
      /\ uid[Exec] \in Loaders /\ key \in Keys /\ UNCHANGED <<kind, seen>>
  BY DEF Spawn, Typing, TypeOK, Threads, Goto, CallsHaveALoader, BetweenCalls, apiVars
<1>b. PICK n \in Pid : n = nextPid
  BY DEF Spawn, Typing, TypeOK, Pid
<1>1. /\ ~Live(n) /\ Live(n)' /\ proc'[n].owner = uid[Exec] /\ proc'[n].key = key
      /\ \A p \in Pid : p # n => proc'[p] = proc[p]
  <2>1. n \in Nat /\ ~Live(n)
    BY <1>b DEF World, FreshPids, Pid
  <2> QED
    BY <1>b, <2>1 DEF Spawn, Typing, TypeOK
<1>2. \A p \in Pid : Live(p) => proc[p].owner # uid[Exec]
  BY <1>a DEF ExecKnows, TokenCleared
<1>3. Given = {} /\ Given' = {} /\ Owed' = Owed
  BY <1>a, SameOwed DEF Given
<1>4. Pool!WorkersOf(uid[Exec]) = {}
  <2>1. ASSUME NEW w \in Alive PROVE w.loader # uid[Exec]
    BY <1>2, AliveTells DEF Configured
  <2> QED
    BY <2>1 DEF Pool!WorkersOf
<1>5. Alive' = Alive \cup {Pool!Worker(n, uid[Exec], key)}
  <2>1. Configured(n)' = Pool!Worker(n, uid[Exec], key)
    BY <1>1 DEF Configured, Pool!Worker
  <2>2. ASSUME NEW p \in Pid, p # n
        PROVE  (Live(p)' <=> Live(p)) /\ Configured(p)' = Configured(p)
    BY <1>1, <2>2 DEF Configured
  <2>3. ASSUME NEW p \in Pid, Live(p)' PROVE Configured(p)' \in Alive \cup {Pool!Worker(n, uid[Exec], key)}
    BY <1>1, <2>1, <2>2, <2>3 DEF Alive
  <2>4. ASSUME NEW p \in Pid, Live(p) PROVE Configured(p) \in Alive'
    <3>1. Live(p)' /\ Configured(p)' = Configured(p)
      BY <1>1, <2>2, <2>4
    <3> QED
      BY <3>1 DEF Alive
  <2>5. Pool!Worker(n, uid[Exec], key) \in Alive'
    BY <1>1, <2>1 DEF Alive
  <2>6. Alive' \subseteq Alive \cup {Pool!Worker(n, uid[Exec], key)}
    BY <2>3 DEF Alive
  <2>7. Alive \subseteq Alive'
    BY <2>4 DEF Alive
  <2> QED
    BY <2>5, <2>6, <2>7
<1>6. n \notin 1..nextPid - 1 /\ 1..nextPid' - 1 = (1..nextPid - 1) \cup {n}
  BY <1>a, <1>b DEF Pid
<1>7. Pool!Start(n, uid[Exec], key)
  BY <1>3, <1>4, <1>5, <1>6 DEF Pool!Start
<1> QED
  BY <1>a, <1>7 DEF Pool!Next

LEMMA PoolRun ==
  ASSUME Typing, Typing', World, World', ExecKnows, ExecHolds, OldProcsShrink,
         RunConnect \/ RunSucceeds \/ RunBroken \/ RunAborted
  PROVE  Pool!Next
<1>1. Owed' = Owed /\ nextPid' = nextPid
  BY SameOwed DEF RunConnect, RunSucceeds, RunBroken, RunAborted, apiVars, procVars
<1>2. ProcsStay
  <2>1. ~Spawn
    BY <1>1 DEF Spawn, Typing, TypeOK
  <2> QED
    BY <2>1, NoBirth
<1>3. CASE RunConnect
  <2>1. /\ pc[Exec] = "connect" /\ pc'[Exec] = "running" /\ Alive' = Alive
        /\ job' = sock[uid[Exec]] /\ uid' = uid /\ key' = key /\ uid[Exec] \in Loaders
        /\ Listening(uid[Exec]) /\ sock[uid[Exec]] \in Pid \cup {NoPid}
    BY <1>3 DEF RunConnect, Typing, TypeOK, Threads, Goto, CallsHaveALoader, BetweenCalls, procVars, Alive, Configured
  <2>2. job' \in Pid /\ Live(job') /\ proc[job'].owner = uid[Exec] /\ proc[job'].key = key
    BY <2>1 DEF Listening, World, SocketTells, ExecKnows, WorkerHasKey, NoPid
  <2>3. Asked' \in Alive
    <3>1. Asked' = Configured(job')
      BY <2>1, <2>2 DEF Asked, Configured
    <3> QED
      BY <2>2, <3>1 DEF Alive
  <2>4. Given = {} /\ Given' = {Asked'}
    BY <2>1 DEF Given
  <2>5. Pool!Give(Asked')
    BY <1>1, <2>1, <2>4 DEF Pool!Give
  <2> QED
    BY <2>3, <2>5 DEF Pool!Next
<1>4. CASE RunSucceeds \/ RunBroken \/ RunAborted
  <2>1. Given = {Asked} /\ Given' = {} /\ pc[Exec] = "running" /\ uid[Exec] \in Loaders
    BY <1>4 DEF RunSucceeds, RunBroken, RunAborted, PromptFails, NodeDone, Typing, TypeOK, Threads, Goto,
         CallsHaveALoader, BetweenCalls, Given
  <2>2. ASSUME NEW p \in Pid, Live(p), ~Live(p)' PROVE proc[p].owner = uid[Exec]
    <3>1. CASE RunSucceeds \/ RunBroken
      BY <2>2, <3>1 DEF RunSucceeds, RunBroken, procVars
    <3>2. CASE RunAborted
      BY <2>1, <2>2, <3>2 DEF RunAborted, KillToken, KillTokens, Kill, OfToken, ExecHolds, HeldIsRun, RunLabels
    <3> QED
      BY <1>4, <3>1, <3>2
  <2>3. Alive \ Alive' \subseteq Pool!WorkersOf(Asked.loader)
    <3> SUFFICES ASSUME NEW w \in Alive, w \notin Alive' PROVE w.loader = uid[Exec]
      BY DEF Pool!WorkersOf, Asked
    <3>1. w.id \in Pid /\ Live(w.id) /\ w = Configured(w.id)
      BY AliveTells
    <3>2. ~Live(w.id)'
      <4> SUFFICES ASSUME Live(w.id)' PROVE FALSE
        OBVIOUS
      <4>1. Configured(w.id)' = w
        BY <1>2, <3>1 DEF ProcsStay, Configured
      <4>2. w \in Alive'
        BY <3>1, <4>1 DEF Alive
      <4> QED
        BY <4>2
    <3> QED
      BY <2>2, <3>1, <3>2 DEF Configured
  <2>4. Pool!Finish(Asked, Alive \ Alive')
    BY <1>1, <1>2, <2>1, AliveShrinks DEF Pool!Finish
  <2> QED
    BY <2>1, <2>3, <2>4 DEF Pool!Next
<1> QED
  BY <1>3, <1>4

(* The other steps of the executor and of evictions give and take no job. *)
LEMMA PoolThreads ==
  ASSUME Typing, Typing', World', OldProcsShrink,
         \/ \E t \in Threads : ThreadStep(t)
         \/ ExecStep /\ ~(Spawn \/ RunConnect \/ RunSucceeds \/ RunBroken \/ RunAborted)
  PROVE  Pool!Next
<1>1. ASSUME Given' = Given, UNCHANGED <<kind, seen>>, ~Spawn PROVE Pool!Next
  <2>1. ProcsStay /\ nextPid' = nextPid
    BY <1>1, NoBirth DEF OldProcsShrink
  <2> QED
    BY <1>1, <2>1, PoolStays, SameOwed
<1>2. ASSUME NEW t \in Threads, ThreadStep(t) PROVE Pool!Next
  <2>1. UNCHANGED <<kind, seen>> /\ nextPid' = nextPid
    BY <1>2 DEF ThreadStep, EvictPending, AbortKill, AbortUnlink, EvictPop, ShutdownSend,
       ShutdownWait, ShutdownUnlink, CleanupKill, CleanupUnlink, apiVars, procVars
  <2>2. ~Spawn
    BY <2>1 DEF Spawn, Typing, TypeOK
  <2>3. CASE t = Exec
    <3>1. pc[Exec] # "running" /\ pc'[Exec] # "running"
      BY <1>2, <2>3 DEF ThreadStep, EvictPending, AbortKill, AbortUnlink, AfterAbort, EvictPop, AfterPop,
         ShutdownSend, ShutdownWait, ShutdownUnlink, AfterShutdown, CleanupKill, CleanupUnlink,
         EvictReturns, NodeDone, Goto, Typing, TypeOK, Threads
    <3> QED
      BY <1>1, <2>1, <2>2, <3>1, QuietGiven
  <2>4. CASE t # Exec
    <3>1. Harmless /\ Untouched(Exec)
      BY <1>2, <2>4, ThreadStepsAreHarmless, ThreadStepIsOwn DEF Threads
    <3>2. ExecQuiet \/ (pc[Exec] # "running" /\ pc'[Exec] # "running")
      BY <3>1 DEF Harmless, Untouched, Known
    <3> QED
      BY <1>1, <2>1, <2>2, <3>2, QuietGiven
  <2> QED
    BY <2>3, <2>4
<1>3. CASE ExecStep /\ ~(Spawn \/ RunConnect \/ RunSucceeds \/ RunBroken \/ RunAborted)
  <2> USE DEF Typing, TypeOK, Threads, Goto, ModelReturns, NodeDone, PromptFails, Acquired, apiVars
  <2>1. CASE ModelStep
    BY <1>1, <1>3, <2>1, QuietGiven DEF ModelStep, BeginModel, DeferWarm, EnsureHit, EnsureOrphan, EnsureMiss
  <2>2. CASE LookupHit \/ LookupStale \/ LookupMiss \/ AdoptProbe \/ AdoptRegister
    BY <1>1, <1>3, <2>2, QuietGiven DEF LookupHit, LookupStale, AfterStale, LookupMiss, AdoptProbe, AdoptRegister
  <2>3. CASE SweepOrphans \/ WriteIdentity \/ RegisterPending \/ WorkerIsReady
    BY <1>1, <1>3, <2>3, QuietGiven DEF SweepOrphans, WriteIdentity, RegisterPending, WorkerIsReady
  <2>4. CASE ClearPending \/ RegisterEntry \/ StartupFails \/ StartupRaises
    BY <1>1, <1>3, <2>4, QuietGiven DEF ClearPending, RegisterEntry, StartupFails, StartupRaises
  <2>5. CASE \E l \in Loaders : BeginSample(l) \/ RejectSample(l)
    BY <1>1, <1>3, <2>5, QuietGiven DEF BeginSample, RejectSample
  <2>6. CASE RunRefused \/ RunAbortUnlink \/ RunAbortPop
    BY <1>1, <1>3, <2>6, QuietGiven DEF RunRefused, RunAbortUnlink, RunAbortPop
  <2>7. CASE KeepWorker \/ ReleaseWorker \/ ParkWorker \/ EndPrompt
    BY <1>1, <1>3, <2>7, QuietGiven DEF KeepWorker, ReleaseWorker, ParkWorker, EndPrompt, threadVars
  <2> QED
    BY <1>3, <2>1, <2>2, <2>3, <2>4, <2>5, <2>6, <2>7 DEF ExecStep, CreateStep, SampleStep
<1> QED
  BY <1>2, <1>3

(* What a request finds, by the ids of the workers. *)
LEMMA FoundIds ==
  ASSUME NEW L \in SUBSET Loaders
  PROVE  LiveOf(L) = {w.id : w \in UNION {Pool!WorkersOf(l) : l \in L}}
<1> DEFINE Found == UNION {Pool!WorkersOf(l) : l \in L}
<1>1. ASSUME NEW p \in LiveOf(L) PROVE Configured(p) \in Found /\ Configured(p).id = p
  <2>1. PICK l \in L : p \in OfToken(l)
    BY DEF LiveOf
  <2>2. Configured(p) \in Alive /\ Configured(p).loader = l /\ Configured(p).id = p
    BY <2>1 DEF OfToken, Alive, Configured
  <2> QED
    BY <2>2 DEF Pool!WorkersOf
<1>2. ASSUME NEW w \in Found PROVE w.id \in LiveOf(L)
  <2>1. PICK l \in L : w \in Alive /\ w.loader = l
    BY DEF Pool!WorkersOf
  <2>2. w.id \in OfToken(l)
    BY <2>1, AliveTells DEF OfToken, Configured
  <2> QED
    BY <2>2 DEF LiveOf
<1>3. LiveOf(L) \subseteq {w.id : w \in Found}
  BY <1>1
<1> QED
  BY <1>2, <1>3

LEMMA PoolApi ==
  ASSUME Typing, Typing', World', OldProcsShrink, UnloadInv, NEW a \in Api, ApiStep(a), ~StopExit(a)
  PROVE  Pool!Next
<1>1. Given' = Given /\ Alive' = Alive /\ nextPid' = nextPid
  <2>1. UNCHANGED <<pc[Exec], uid[Exec], job, key, proc, nextPid>>
    BY ApiStepIsOwn DEF Untouched, Threads, procVars, execVars
  <2> QED
    BY <2>1 DEF Given, Asked, Alive, Configured
<1>2. pc[a] = "idle" => Owed[a] = {}
  BY DEF UnloadInv, UnloadKnows, EvictLabels, Owed
<1>3. ASSUME NEW L \in SUBSET Loaders, pc[a] = "idle", seen' = [seen EXCEPT ![a] = LiveOf(L)],
             kind' = [kind EXCEPT ![a] = "clear"] \/ kind' = [kind EXCEPT ![a] = "reap"]
      PROVE  Pool!Next
  <2>1. Owed' = [Owed EXCEPT ![a] = LiveOf(L)]
    BY <1>3 DEF Owed, Typing, TypeOK
  <2>2. Pool!Unload(a, L)
    BY <1>1, <1>2, <1>3, <2>1, FoundIds DEF Pool!Unload
  <2> QED
    BY <2>2 DEF Pool!Next
<1>4. ASSUME Owed' = Owed PROVE Pool!Next
  <2>1. Pool!End({})
    BY <1>1, <1>4 DEF Pool!End
  <2> QED
    BY <2>1 DEF Pool!Next
<1>5. CASE \E l \in Loaders : ClearRequest(a, l)
  <2>1. PICK l \in Loaders : ClearRequest(a, l)
    BY <1>5
  <2>2. {l} \in SUBSET Loaders
    OBVIOUS
  <2> QED
    BY <1>3, <2>1, <2>2 DEF ClearRequest
<1>6. CASE \E L \in SUBSET Loaders : ReapRequest(a, L)
  <2>1. PICK L \in SUBSET Loaders : ReapRequest(a, L)
    BY <1>6
  <2> QED
    BY <1>3, <2>1 DEF ReapRequest
<1>7. CASE \E l \in Loaders : ClearNext(a, l) \/ StopPending(a, l) \/ StopWorker(a, l)
  BY <1>4, <1>7, SameOwed DEF ClearNext, StopPending, StopWorker
<1>8. CASE ClearReturns(a) \/ StopGrab(a)
  BY <1>4, <1>8, SameOwed DEF ClearReturns, StopGrab, apiVars
<1>9. CASE StopRequest(a)
  <2>1. Owed' = Owed
    <3>1. ASSUME NEW b \in Api PROVE Owed'[b] = Owed[b]
      BY <1>2, <1>9 DEF StopRequest, Owed, Typing, TypeOK
    <3> QED
      BY <3>1 DEF Owed
  <2> QED
    BY <1>4, <2>1
<1>10. CASE Respond(a)
  <2>1. Owed' = [Owed EXCEPT ![a] = {}]
    BY <1>10 DEF Respond, Owed, Typing, TypeOK
  <2>2. ASSUME NEW w \in Alive PROVE w.id \notin Owed[a]
    BY <1>10, <2>2, AliveTells DEF Respond, UnloadInv, UnloadKnows, EvictLabels, Owed
  <2>3. Pool!Answer(a)
    BY <1>1, <2>1, <2>2 DEF Pool!Answer
  <2> QED
    BY <2>3 DEF Pool!Next
<1> QED
  BY <1>5, <1>6, <1>7, <1>8, <1>9, <1>10 DEF ApiStep

LEMMA PoolStep ==
  ASSUME Typing, Typing', World, World', ExecKnows, ExecHolds, UnloadInv, [Next]_vars
  PROVE  [Pool!Next]_(Pool!vars)
<1>1. OldProcsShrink
  BY NobodyRevives
<1>2. CASE Spawn
  BY <1>2, PoolSpawn
<1>3. CASE RunConnect \/ RunSucceeds \/ RunBroken \/ RunAborted
  BY <1>1, <1>3, PoolRun
<1>4. CASE (\E t \in Threads : ThreadStep(t)) \/ ExecStep
  BY <1>1, <1>2, <1>3, <1>4, PoolThreads
<1>5. ASSUME NEW a \in Api, ApiStep(a), ~StopExit(a) PROVE Pool!Next
  BY <1>1, <1>5, PoolApi
<1>6. CASE NewComfyUI
  <2>1. Given' = {} /\ Owed' = [a \in Api |-> {}] /\ UNCHANGED <<proc, nextPid>>
    BY <1>6 DEF NewComfyUI, FirstPc, Threads, Given, Owed, procVars
  <2>2. Alive' = Alive
    BY <2>1 DEF Alive, Configured
  <2>3. Pool!ComfyUIEnds
    BY <2>1, <2>2 DEF Pool!ComfyUIEnds
  <2> QED
    BY <2>3 DEF Pool!Next
<1>7. CASE WorkerStep \/ (\E l \in Loaders : NeighbourStarts(l)) \/ UNCHANGED vars
  <2>1. UNCHANGED <<pc, uid, job, key, kind, seen, nextPid>>
    BY <1>7 DEF WorkerStep, WorkerReady, WorkerStops, WorkerDies, NeighbourStarts, vars,
         threadVars, execVars, apiVars, procVars
  <2>2. ProcsStay
    <3>1. ~Spawn
      BY <2>1 DEF Spawn, Typing, TypeOK
    <3> QED
      BY <1>1, <3>1, NoBirth
  <2>3. Given' = Given
    BY <2>1 DEF Given, Asked
  <2> QED
    BY <2>1, <2>2, <2>3, PoolStays, SameOwed
<1> QED
  BY <1>2, <1>3, <1>4, <1>5, <1>6, <1>7 DEF Next, StopExit, Restart

(* Registry, files, process table and threads are together one pool of workers, for
   every number of Model nodes, API threads, workers and ComfyUI processes. *)
THEOREM WorkersAreOnePool == Spec => OnePool
<1>1. Init => Pool!Init
  <2> SUFFICES ASSUME Init PROVE Pool!Init
    OBVIOUS
  <2>1. Alive = {}
    BY DEF Init, NoProc, Alive
  <2>2. 1..nextPid - 1 = {}
    BY DEF Init
  <2>3. Given = {} /\ Owed = [a \in Api |-> {}]
    BY DEF Init, FirstPc, Threads, Given, Owed
  <2> QED
    BY <2>1, <2>2, <2>3 DEF Pool!Init
<1>2. Init => UnloadInv
  BY DEF Init, UnloadInv, UnloadKnows
<1>3. Typing /\ Typing' /\ World /\ UnloadInv /\ [Next]_vars => UnloadInv'
  BY UnloadStep
<1>4. /\ Typing /\ Typing' /\ World /\ World' /\ ExecKnows /\ ExecHolds /\ UnloadInv /\ [Next]_vars
      => [Pool!Next]_(Pool!vars)
  BY PoolStep
<1> QED
  BY <1>1, <1>2, <1>3, <1>4, Invariance, WatchInvariance, PTL DEF Spec, OnePool, Pool!Spec
=============================================================================
