------------------------ MODULE LoaderResidencyProofs ------------------------
(* What LoaderResidency does for any number of Model nodes, Samples and       *)
(* queued prompts.                                                            *)
EXTENDS LoaderResidency, SequenceTheorems, TLAPS

USE ResidencyAssumption

(* The executor is inside a Sample only while its prompt runs, and that Sample *)
(* still counts among those to run.                                            *)
PlaceOK ==
  /\ started => queue # <<>>
  /\ at # "idle" => started /\ cur \in Loaders /\ Head1.samples[cur] > 0
  /\ at = "idle" => cur = NoLoader

Typing == TypeOK /\ PlaceOK

-----------------------------------------------------------------------------
(* What the operations on the queue leave of it. *)
LEMMA PromptFields ==
  ASSUME NEW p \in Prompt
  PROVE  /\ p.samples \in [Loaders -> 0..MaxSamples]
         /\ p.unreached \in [Loaders -> 0..MaxSamples]
         /\ p.policy \in [Loaders -> Policies]
         /\ [p EXCEPT !.alone = FALSE] \in Prompt
         /\ [p EXCEPT !.alone = FALSE].samples = p.samples
         /\ [p EXCEPT !.alone = FALSE].policy = p.policy
         /\ [p EXCEPT !.alone = FALSE].alone = FALSE
  BY DEF Prompt

LEMMA NotAloneQueue ==
  ASSUME queue \in Seq(Prompt)
  PROVE  /\ NotAlone \in Seq(Prompt)
         /\ Len(NotAlone) = Len(queue)
         /\ \A i \in 1..Len(queue) : /\ NotAlone[i].samples = queue[i].samples
                                     /\ NotAlone[i].policy = queue[i].policy
                                     /\ ~NotAlone[i].alone
<1>1. Len(queue) \in Nat /\ DOMAIN queue = 1..Len(queue)
  BY LenProperties
<1>2. ASSUME NEW i \in 1..Len(queue)
      PROVE  /\ [queue[i] EXCEPT !.alone = FALSE] \in Prompt
             /\ [queue[i] EXCEPT !.alone = FALSE].samples = queue[i].samples
             /\ [queue[i] EXCEPT !.alone = FALSE].policy = queue[i].policy
             /\ [queue[i] EXCEPT !.alone = FALSE].alone = FALSE
  BY ElementOfSeq, PromptFields
<1>3. NotAlone \in [1..Len(queue) -> Prompt]
  BY <1>1, <1>2 DEF NotAlone
<1>4. NotAlone \in Seq(Prompt) /\ Len(NotAlone) = Len(queue)
  BY <1>1, <1>3
<1> QED
  BY <1>1, <1>2, <1>4 DEF NotAlone

LEMMA PostedQueue ==
  ASSUME queue \in Seq(Prompt), NEW p \in Prompt
  PROVE  /\ Append(NotAlone, p) \in Seq(Prompt)
         /\ Len(Append(NotAlone, p)) = Len(queue) + 1
         /\ Append(NotAlone, p)[Len(queue) + 1] = p
         /\ \A i \in 1..Len(queue) : /\ Append(NotAlone, p)[i].samples = queue[i].samples
                                     /\ Append(NotAlone, p)[i].policy = queue[i].policy
                                     /\ ~Append(NotAlone, p)[i].alone
  BY NotAloneQueue

LEMMA ShorterQueue ==
  ASSUME queue \in Seq(Prompt), NEW i \in 1..Len(queue),
         NEW q, q = [j \in 1..Len(queue) - 1 |-> queue[IF j < i THEN j ELSE j + 1]]
  PROVE  /\ q \in Seq(Prompt) /\ Len(q) = Len(queue) - 1
         /\ i > 1 => q # <<>> /\ q[1] = queue[1]
<1>1. Len(queue) \in Nat
  BY LenProperties
<1>2. ASSUME NEW j \in 1..Len(queue) - 1 PROVE queue[IF j < i THEN j ELSE j + 1] \in Prompt
  BY <1>1, ElementOfSeq
<1>3. q \in [1..Len(queue) - 1 -> Prompt]
  BY <1>2
<1>4. q \in Seq(Prompt) /\ Len(q) = Len(queue) - 1
  BY <1>1, <1>3
<1>5. ASSUME i > 1 PROVE q # <<>> /\ q[1] = queue[1]
  <2>1. 1 \in 1..Len(queue) - 1
    BY <1>1, <1>5
  <2>2. q[1] = queue[1]
    BY <2>1, <1>5
  <2>3. Len(q) # 0
    BY <1>1, <1>4, <1>5
  <2> QED
    BY <2>2, <2>3, EmptySeq
<1> QED
  BY <1>4, <1>5

LEMMA SampleGone ==
  ASSUME queue \in Seq(Prompt), queue # <<>>, cur \in Loaders, queue[1].samples[cur] > 0,
         NEW q, q = [queue EXCEPT ![1].samples[cur] = @ - 1]
  PROVE  /\ q \in Seq(Prompt) /\ Len(q) = Len(queue)
         /\ \A i \in 1..Len(queue) : i # 1 => q[i] = queue[i]
         /\ q[1].policy = queue[1].policy /\ q[1].alone = queue[1].alone
         /\ q[1].samples = [queue[1].samples EXCEPT ![cur] = @ - 1]
<1> DEFINE e == [queue[1] EXCEPT !.samples[cur] = @ - 1]
<1>1. 1 \in 1..Len(queue) /\ Len(queue) \in Nat
  BY EmptySeq, LenProperties
<1>2. queue[1] \in Prompt
  BY <1>1, ElementOfSeq
<1>3. /\ e \in Prompt /\ e.policy = queue[1].policy /\ e.alone = queue[1].alone
      /\ e.samples = [queue[1].samples EXCEPT ![cur] = @ - 1]
  <2>1. /\ queue[1].samples \in [Loaders -> 0..MaxSamples]
        /\ queue[1].samples[cur] - 1 \in 0..MaxSamples
    BY <1>2 DEF Prompt
  <2>2. [queue[1].samples EXCEPT ![cur] = @ - 1] \in [Loaders -> 0..MaxSamples]
    BY <2>1
  <2>3. e = [queue[1] EXCEPT !.samples = [queue[1].samples EXCEPT ![cur] = @ - 1]]
    OBVIOUS
  <2> QED
    BY <1>2, <2>2, <2>3 DEF Prompt
<1>4. q = [queue EXCEPT ![1] = e]
  OBVIOUS
<1> HIDE DEF e
<1>5. /\ q \in Seq(Prompt) /\ Len(q) = Len(queue)
      /\ \A j \in 1..Len(queue) : q[j] = IF j = 1 THEN e ELSE queue[j]
  BY <1>1, <1>3, <1>4, ExceptSeq
<1> QED
  BY <1>1, <1>3, <1>5

-----------------------------------------------------------------------------
LEMMA LeavesQueue ==
  ASSUME queue \in Seq(Prompt), queue # <<>>, LeaveQueue
  PROVE  /\ queue' \in Seq(Prompt) /\ Len(queue') = Len(queue) - 1
         /\ \A i \in 1..Len(queue) - 1 : queue'[i] = queue[i + 1]
         /\ ~started' /\ models' = {}
<1>1. /\ Tail(queue) \in Seq(Prompt) /\ Len(Tail(queue)) = Len(queue) - 1
      /\ \A i \in 1..Len(Tail(queue)) : Tail(queue)[i] = queue[i + 1]
  BY HeadTailProperties
<1> QED
  BY <1>1 DEF LeaveQueue

QueueOK == queue \in Seq(Prompt) /\ Len(queue) <= MaxQueue
RestOK ==
  /\ started \in BOOLEAN
  /\ models \in SUBSET Loaders
  /\ consumers \in [Loaders -> 0..MaxSamples + MaxSamples]
  /\ worker \in [Loaders -> {"none", "warm", "parked"}]
  /\ stats \in [Loaders -> BOOLEAN]
  /\ at \in {"idle", "run", "record", "demote", "drop"}
  /\ cur \in Loaders \cup {NoLoader}
  /\ failed \in BOOLEAN
  /\ unloading \in Loaders \cup {NoLoader}
  /\ lastPolicy \in [Loaders -> Policies \cup {"none"}]
  /\ quiet \in BOOLEAN

LEMMA TypingParts == Typing <=> QueueOK /\ RestOK /\ PlaceOK
  BY DEF Typing, TypeOK, QueueOK, RestOK

LEMMA InitTyping == Init => Typing
<1> SUFFICES ASSUME Init PROVE Typing
  OBVIOUS
<1>1. QueueOK
  BY EmptySeq DEF Init, QueueOK
<1>2. RestOK
  <2>1. consumers \in [Loaders -> 0..MaxSamples + MaxSamples]
    BY DEF Init
  <2> QED
    BY <2>1 DEF Init, RestOK
<1>3. PlaceOK
  BY DEF Init, PlaceOK
<1> QED
  BY <1>1, <1>2, <1>3, TypingParts

LEMMA SampleDoneTyping ==
  ASSUME QueueOK, RestOK, PlaceOK, at # "idle", SampleDone
  PROVE  /\ QueueOK'
         /\ started' \in BOOLEAN /\ models' \in SUBSET Loaders
         /\ cur' = NoLoader /\ failed' \in BOOLEAN
         /\ started' => queue' # <<>>
<1>1. queue \in Seq(Prompt) /\ queue # <<>> /\ Len(queue) <= MaxQueue /\ Len(queue) \in Nat \ {0}
  BY EmptySeq DEF QueueOK, PlaceOK
<1>2. CASE failed /\ LeaveQueue
  <2>1. queue' \in Seq(Prompt) /\ Len(queue') = Len(queue) - 1 /\ ~started' /\ models' = {}
    BY <1>1, <1>2, LeavesQueue
  <2>2. QueueOK'
    BY <1>1, <2>1 DEF QueueOK
  <2>3. cur' = NoLoader /\ failed' = FALSE
    BY DEF SampleDone
  <2> QED
    BY <1>2, <2>1, <2>2, <2>3 DEF LeaveQueue
<1>3. CASE /\ queue' = [queue EXCEPT ![1].samples[cur] = @ - 1]
           /\ UNCHANGED <<started, models>>
  <2>1. queue' \in Seq(Prompt) /\ Len(queue') = Len(queue)
    BY <1>1, <1>3, SampleGone DEF PlaceOK, Head1
  <2>2. queue' # <<>>
    BY <1>1, <2>1
  <2> QED
    BY <1>1, <1>3, <2>1, <2>2 DEF SampleDone, QueueOK, RestOK
<1> QED
  BY <1>2, <1>3 DEF SampleDone

(* No step makes a count larger than the Samples of one prompt. *)
LEMMA CountsTyping ==
  ASSUME NEW p \in Prompt
  PROVE  Counts(p) \in [Loaders -> 0..MaxSamples + MaxSamples]
<1>1. ASSUME NEW l \in Loaders
      PROVE  p.samples[l] + p.unreached[l] \in 0..MaxSamples + MaxSamples
  <2>1. p.samples \in [Loaders -> 0..MaxSamples] /\ p.unreached \in [Loaders -> 0..MaxSamples]
    BY PromptFields
  <2>2. p.samples[l] \in 0..MaxSamples /\ p.unreached[l] \in 0..MaxSamples
    BY <2>1
  <2> QED
    BY <2>2
<1> QED
  BY <1>1 DEF Counts

LEMMA PartsStep ==
  ASSUME QueueOK, RestOK, PlaceOK, [Next]_vars
  PROVE  QueueOK' /\ RestOK' /\ PlaceOK'
<1>0. /\ Len(queue) \in Nat /\ (queue # <<>> => Len(queue) # 0)
      /\ queue # <<>> => queue[1] \in Prompt
  <2>1. Len(queue) \in Nat /\ (queue # <<>> => Len(queue) # 0)
    BY EmptySeq, LenProperties DEF QueueOK
  <2>2. ASSUME queue # <<>> PROVE queue[1] \in Prompt
    <3>1. 1 \in 1..Len(queue)
      BY <2>1, <2>2
    <3> QED
      BY <3>1, ElementOfSeq DEF QueueOK
  <2> QED
    BY <2>1, <2>2
<1>1. ASSUME NEW p \in Prompt, PostPrompt(p) PROVE QueueOK' /\ RestOK' /\ PlaceOK'
  <2>1. /\ queue' \in Seq(Prompt) /\ Len(queue') = Len(queue) + 1
        /\ queue # <<>> => queue'[1].samples = queue[1].samples
    BY <1>0, <1>1, PostedQueue DEF PostPrompt, QueueOK
  <2>2. QueueOK' /\ queue' # <<>>
    BY <1>0, <1>1, <2>1 DEF PostPrompt, QueueOK
  <2>3. RestOK'
    BY <1>1, CountsTyping DEF PostPrompt, execVars, RestOK
  <2> QED
    BY <1>1, <2>1, <2>2, <2>3 DEF PostPrompt, execVars, PlaceOK, Head1
<1>2. ASSUME NEW p \in Prompt, PostRejected(p) PROVE QueueOK' /\ RestOK' /\ PlaceOK'
  <2>1. /\ queue' \in Seq(Prompt) /\ Len(queue') = Len(queue)
        /\ queue # <<>> => queue'[1].samples = queue[1].samples
    BY <1>0, <1>2, NotAloneQueue DEF PostRejected, QueueOK
  <2>2. QueueOK' /\ (queue # <<>> => queue' # <<>>)
    BY <1>0, <2>1 DEF QueueOK
  <2>3. RestOK'
    BY <1>2, CountsTyping DEF PostRejected, execVars, RestOK
  <2> QED
    BY <1>2, <2>1, <2>2, <2>3 DEF PostRejected, execVars, PlaceOK, Head1
<1>3. ASSUME NEW i \in DOMAIN queue, DropPrompt(i) PROVE QueueOK' /\ RestOK' /\ PlaceOK'
  <2>1. i \in 1..Len(queue)
    BY LenProperties DEF QueueOK
  <2>2. /\ queue' \in Seq(Prompt) /\ Len(queue') = Len(queue) - 1
        /\ i > 1 => queue' # <<>> /\ queue'[1] = queue[1]
    BY <1>3, <2>1, ShorterQueue DEF DropPrompt, QueueOK
  <2>3. QueueOK'
    BY <1>0, <2>2 DEF QueueOK
  <2>4. RestOK'
    BY <1>3 DEF DropPrompt, execVars, RestOK
  <2> QED
    BY <1>3, <2>2, <2>3, <2>4 DEF DropPrompt, execVars, PlaceOK, Head1
<1>4. ASSUME LeaveQueue, queue # <<>>, at = "idle", UNCHANGED <<at, cur, failed, consumers, worker, stats, unloading, lastPolicy>>,
             quiet' = quiet \/ quiet' = FALSE
      PROVE  QueueOK' /\ RestOK' /\ PlaceOK'
  <2>1. queue' \in Seq(Prompt) /\ Len(queue') = Len(queue) - 1 /\ ~started' /\ models' = {}
    BY <1>4, LeavesQueue DEF QueueOK
  <2>2. QueueOK'
    BY <1>0, <2>1 DEF QueueOK
  <2>3. RestOK' /\ PlaceOK'
    BY <1>4, <2>1 DEF LeaveQueue, RestOK, PlaceOK
  <2> QED
    BY <2>2, <2>3
<1>5. CASE EndPrompt
  BY <1>4, <1>5 DEF EndPrompt, PlaceOK
<1>6. ASSUME NEW l \in Loaders, FailModel(l) PROVE QueueOK' /\ RestOK' /\ PlaceOK'
  BY <1>4, <1>6 DEF FailModel, PlaceOK
<1>7. ASSUME NEW l \in Loaders, StartSample(l) PROVE QueueOK' /\ RestOK' /\ PlaceOK'
  <2>1. Head1.policy[l] \in Policies
    BY <1>0, <1>7, PromptFields DEF StartSample, PlaceOK, Head1
  <2>2. QueueOK' /\ PlaceOK'
    BY <1>7 DEF StartSample, QueueOK, PlaceOK, Head1
  <2>3. RestOK'
    BY <1>7, <2>1 DEF StartSample, RestOK
  <2> QED
    BY <2>2, <2>3
<1>8. CASE DemoteLater
  <2>0. Remaining \in 0..MaxSamples + MaxSamples
    BY <1>8 DEF DemoteLater, Remaining, RestOK, PlaceOK
  <2>1. consumers' \in [Loaders -> 0..MaxSamples + MaxSamples]
    BY <1>8, <2>0 DEF DemoteLater, RestOK
  <2>2. at # "idle" /\ SampleDone
    BY <1>8 DEF DemoteLater
  <2> QED
    BY <1>8, <2>1, <2>2, SampleDoneTyping DEF DemoteLater, RestOK, PlaceOK
<1>9. CASE DemoteKeep \/ DemotePark \/ DropStats
  <2>0. 0 \in 0..MaxSamples + MaxSamples
    OBVIOUS
  <2>1. /\ consumers' \in [Loaders -> 0..MaxSamples + MaxSamples]
        /\ worker' \in [Loaders -> {"none", "warm", "parked"}]
        /\ stats' \in [Loaders -> BOOLEAN]
    BY <1>9, <2>0 DEF DemoteKeep, DemotePark, DropStats, WithoutStats, RestOK
  <2>2. at # "idle" /\ SampleDone /\ at' = "idle" /\ UNCHANGED <<unloading, lastPolicy, quiet>>
    BY <1>9 DEF DemoteKeep, DemotePark, DropStats
  <2>3. QueueOK' /\ RestOK'
    BY <2>1, <2>2, SampleDoneTyping DEF RestOK
  <2>4. PlaceOK'
    BY <2>2, SampleDoneTyping DEF PlaceOK
  <2> QED
    BY <2>3, <2>4
<1>10. ASSUME \/ BeginPrompt \/ SampleSucceeds \/ SampleFails \/ RecordStats \/ DemoteRelease
              \/ UnloadDrops \/ UNCHANGED vars
              \/ \E l \in Loaders : RunModel(l) \/ UnloadStops(l)
       PROVE  QueueOK' /\ RestOK' /\ PlaceOK'
  <2> USE DEF BeginPrompt, SampleSucceeds, SampleFails, RecordStats, DemoteRelease, UnloadDrops,
              WithoutStats, RunModel, UnloadStops, execVars, vars
  <2>1. QueueOK' /\ PlaceOK'
    BY <1>10 DEF QueueOK, PlaceOK, Head1
  <2>2. consumers' \in [Loaders -> 0..MaxSamples + MaxSamples]
    <3>1. 0 \in 0..MaxSamples + MaxSamples
      OBVIOUS
    <3> QED
      BY <1>10, <3>1 DEF RestOK
  <2>3. /\ worker' \in [Loaders -> {"none", "warm", "parked"}]
        /\ stats' \in [Loaders -> BOOLEAN]
    BY <1>10 DEF RestOK
  <2>4. RestOK'
    BY <1>10, <2>2, <2>3 DEF RestOK
  <2> QED
    BY <2>1, <2>4
<1> QED
  BY <1>1, <1>2, <1>3, <1>5, <1>6, <1>7, <1>8, <1>9, <1>10 DEF Next, SampleStep

LEMMA TypingStep == Typing /\ [Next]_vars => Typing'
<1>1. Typing => QueueOK /\ RestOK /\ PlaceOK
  BY TypingParts
<1>2. QueueOK' /\ RestOK' /\ PlaceOK' => Typing'
  BY DEF Typing, TypeOK, QueueOK, RestOK
<1> QED
  BY <1>1, <1>2, PartsStep

(* Every variable keeps its type, and no count of Samples runs out of bounds,  *)
(* whatever prompts are queued, refused, dropped or fail.                      *)
THEOREM ResidencyTypeCorrect == Spec => []TypeOK
<1>1. Typing => TypeOK
  BY DEF Typing
<1> QED
  BY <1>1, InitTyping, TypingStep, PTL DEF Spec

-----------------------------------------------------------------------------
(* While it is quiet, what is left of the counts and of the workers to release  *)
(* is owed to the prompts that are queued.                                      *)
Last == queue[Len(queue)]

SampleGoesWell ==
  /\ ~failed
  /\ at \in {"run", "record", "demote"} => worker[cur] # "none"
  /\ at # "idle" => lastPolicy[cur] = Head1.policy[cur]
  /\ at = "drop" => worker[cur] = "none" /\ (Len(queue) = 1 => consumers[cur] = 0)

(* A count is covered by the Samples of the prompt posted last, or left over    *)
(* from Samples with keep_gpu, which count nothing down.                        *)
CountsOwed ==
  queue # <<>> =>
    \A l \in Loaders :
      consumers[l] > 0 => \/ consumers[l] <= Last.samples[l]
                          \/ Len(queue) = 1 /\ started /\ Head1.policy[l] = "keep_gpu"

(* A worker to be released has a Sample in the queue that will do it.           *)
ReleaseOwed ==
  \A l \in Loaders :
    lastPolicy[l] = "release" /\ worker[l] # "none" =>
      \E i \in 1..Len(queue) : queue[i].samples[l] > 0

ReleaseInv == SampleGoesWell /\ CountsOwed /\ ReleaseOwed

(* What every leaf needs of the types. *)
LEMMA QueueFacts ==
  ASSUME QueueOK
  PROVE  /\ Len(queue) \in Nat /\ (queue # <<>> <=> Len(queue) > 0)
         /\ \A i \in 1..Len(queue) :
              /\ queue[i] \in Prompt
              /\ \A l \in Loaders : queue[i].samples[l] \in 0..MaxSamples
<1>1. Len(queue) \in Nat /\ (queue # <<>> <=> Len(queue) > 0)
  BY EmptySeq, LenProperties DEF QueueOK
<1>2. ASSUME NEW i \in 1..Len(queue) PROVE queue[i] \in Prompt
  BY <1>2, ElementOfSeq DEF QueueOK
<1>3. ASSUME NEW i \in 1..Len(queue), NEW l \in Loaders
      PROVE  queue[i].samples[l] \in 0..MaxSamples
  <2>1. queue[i].samples \in [Loaders -> 0..MaxSamples]
    BY <1>2, <1>3, PromptFields
  <2> QED
    BY <2>1
<1> QED
  BY <1>1, <1>2, <1>3

(* Posting a prompt replaces the counts by those of the prompt now last. *)
LEMMA PostReleaseInv ==
  ASSUME QueueOK, RestOK, PlaceOK, ReleaseInv, quiet',
         NEW p \in Prompt, PostPrompt(p)
  PROVE  ReleaseInv'
<1>1. /\ queue' \in Seq(Prompt) /\ Len(queue') = Len(queue) + 1
      /\ queue'[Len(queue) + 1] = p
      /\ \A i \in 1..Len(queue) : /\ queue'[i].samples = queue[i].samples
                                  /\ queue'[i].policy = queue[i].policy
  BY PostedQueue DEF PostPrompt, QueueOK
<1>2. Len(queue) \in Nat /\ (queue # <<>> <=> Len(queue) > 0)
  BY QueueFacts
<1>3. SampleGoesWell'
  <2>1. at # "idle" => Head1'.policy = Head1.policy /\ Len(queue') # 1
    BY <1>1, <1>2 DEF PostPrompt, execVars, PlaceOK, Head1
  <2> QED
    BY <2>1 DEF PostPrompt, execVars, ReleaseInv, SampleGoesWell
<1>4. ASSUME NEW l \in Loaders PROVE consumers'[l] <= p.samples[l]
  <2>1. p.unreached[l] = 0 /\ p.samples \in [Loaders -> 0..MaxSamples]
    <3>1. p.unreached = NothingUnreached
      BY DEF PostPrompt
    <3>2. p.samples \in [Loaders -> 0..MaxSamples]
      BY PromptFields
    <3> QED
      BY <3>1, <3>2 DEF NothingUnreached
  <2>2. p.samples[l] \in 0..MaxSamples
    BY <2>1
  <2>3. consumers'[l] = p.samples[l] + p.unreached[l]
    BY DEF PostPrompt, Counts
  <2> QED
    BY <2>1, <2>2, <2>3
<1>5. CountsOwed'
  BY <1>1, <1>4 DEF CountsOwed, Last
<1>6. ReleaseOwed'
  BY <1>1, <1>2 DEF PostPrompt, ReleaseInv, ReleaseOwed
<1> QED
  BY <1>3, <1>5, <1>6 DEF ReleaseInv

(* A prompt whose Samples have all run owes nothing. *)
LEMMA EndReleaseInv ==
  ASSUME QueueOK, RestOK, PlaceOK, ReleaseInv, EndPrompt
  PROVE  ReleaseInv'
<1>1. /\ queue # <<>> /\ Len(queue) \in Nat /\ Len(queue) > 0
      /\ \A l \in Loaders : queue[1].samples[l] = 0
  BY QueueFacts DEF EndPrompt, PlaceOK, Head1
<1>2. /\ queue' \in Seq(Prompt) /\ Len(queue') = Len(queue) - 1
      /\ \A i \in 1..Len(queue) - 1 : queue'[i] = queue[i + 1]
  BY <1>1, LeavesQueue DEF EndPrompt, QueueOK
<1>3. SampleGoesWell'
  BY DEF EndPrompt, ReleaseInv, SampleGoesWell
<1>4. CountsOwed'
  <2> SUFFICES ASSUME queue' # <<>>, NEW l \in Loaders, consumers'[l] > 0
               PROVE  consumers'[l] <= Last'.samples[l]
    BY DEF CountsOwed
  <2>1. Len(queue') # 0
    BY <1>2, EmptySeq
  <2>2. Last' = Last
    BY <1>1, <1>2, <2>1 DEF Last
  <2> QED
    BY <1>1, <1>2, <2>1, <2>2 DEF EndPrompt, ReleaseInv, CountsOwed
<1>5. ReleaseOwed'
  <2> SUFFICES ASSUME NEW l \in Loaders, lastPolicy[l] = "release", worker[l] # "none"
               PROVE  \E i \in 1..Len(queue') : queue'[i].samples[l] > 0
    BY DEF EndPrompt, ReleaseOwed
  <2>1. PICK i \in 1..Len(queue) : queue[i].samples[l] > 0
    BY DEF ReleaseInv, ReleaseOwed
  <2>2. i # 1
    BY <1>1, <2>1
  <2>3. i - 1 \in 1..Len(queue') /\ queue'[i - 1] = queue[i]
    BY <1>1, <1>2, <2>1, <2>2
  <2> QED
    BY <2>1, <2>3
<1> QED
  BY <1>3, <1>4, <1>5 DEF ReleaseInv

(* A Sample that has run, counted down unless its policy is keep_gpu. *)
LEMMA DoneReleaseInv ==
  ASSUME QueueOK, RestOK, PlaceOK, ReleaseInv, at # "idle", SampleDone, at' = "idle",
         UNCHANGED lastPolicy,
         \A l \in Loaders : l # cur => consumers'[l] = consumers[l] /\ worker'[l] = worker[l],
         \/ (Head1.policy[cur] = "keep_gpu" \/ Len(queue) # 1) /\ consumers' = consumers
         \/ consumers'[cur] = 0
         \/ consumers'[cur] > 0 /\ consumers'[cur] = consumers[cur] - 1
              /\ Head1.policy[cur] # "keep_gpu",
         \/ lastPolicy[cur] # "release" \/ worker'[cur] = "none"
         \/ consumers'[cur] > 0 /\ consumers'[cur] = consumers[cur] - 1
              /\ Head1.policy[cur] # "keep_gpu"
  PROVE  ReleaseInv'
<1> DEFINE n == Len(queue)
<1>1. /\ queue # <<>> /\ n \in Nat /\ n > 0 /\ cur \in Loaders /\ started
      /\ queue \in Seq(Prompt) /\ queue[1].samples[cur] > 0 /\ ~failed
      /\ \A i \in 1..n : queue[i] \in Prompt
                         /\ \A l \in Loaders : queue[i].samples[l] \in 0..MaxSamples
  BY QueueFacts DEF PlaceOK, Head1, ReleaseInv, SampleGoesWell, QueueOK
<1>2. queue' = [queue EXCEPT ![1].samples[cur] = @ - 1] /\ started' /\ failed' = FALSE
  BY <1>1 DEF SampleDone
<1>3. /\ queue' \in Seq(Prompt) /\ Len(queue') = n
      /\ \A i \in 1..n : i # 1 => queue'[i] = queue[i]
      /\ queue'[1].policy = queue[1].policy
      /\ queue'[1].samples = [queue[1].samples EXCEPT ![cur] = @ - 1]
  BY <1>1, <1>2, SampleGone
<1>4. queue[1].samples \in [Loaders -> 0..MaxSamples]
  <2>1. queue[1] \in Prompt
    BY <1>1
  <2> QED
    BY <2>1 DEF Prompt
<1>5. \A l \in Loaders :
        queue'[1].samples[l] = IF l = cur THEN queue[1].samples[l] - 1 ELSE queue[1].samples[l]
  BY <1>3, <1>4
<1>6. SampleGoesWell'
  BY <1>2 DEF SampleGoesWell
<1>7. CountsOwed'
  <2> SUFFICES ASSUME NEW l \in Loaders, consumers'[l] > 0
               PROVE  \/ consumers'[l] <= queue'[n].samples[l]
                      \/ n = 1 /\ queue'[1].policy[l] = "keep_gpu"
    BY <1>2, <1>3 DEF CountsOwed, Last, Head1
  <2>1. consumers[l] > 0 /\ consumers'[l] \in Nat /\ consumers[l] \in Nat
        /\ consumers'[l] <= consumers[l]
    BY DEF RestOK
  <2>2. \/ consumers[l] <= queue[n].samples[l]
        \/ n = 1 /\ queue[1].policy[l] = "keep_gpu"
    BY <1>1, <2>1 DEF ReleaseInv, CountsOwed, Last, Head1
  <2>3. CASE n = 1 /\ queue[1].policy[l] = "keep_gpu"
    BY <1>3, <2>3
  <2>4. CASE consumers[l] <= queue[n].samples[l] /\ n # 1
    BY <1>1, <1>3, <2>1, <2>4
  <2>5. CASE consumers[l] <= queue[n].samples[l] /\ n = 1 /\ queue[1].policy[l] # "keep_gpu"
    <3>1. l = cur => consumers'[l] = consumers[l] - 1
      BY <2>5 DEF Head1
    <3> QED
      BY <1>1, <1>5, <2>1, <2>5, <3>1
  <2> QED
    BY <2>2, <2>3, <2>4, <2>5
<1>8. ReleaseOwed'
  <2> SUFFICES ASSUME NEW l \in Loaders, lastPolicy[l] = "release", worker'[l] # "none"
               PROVE  \E i \in 1..n : queue'[i].samples[l] > 0
    BY <1>3 DEF ReleaseOwed
  <2>1. CASE l # cur
    <3>1. PICK i \in 1..n : queue[i].samples[l] > 0
      BY <2>1 DEF ReleaseInv, ReleaseOwed
    <3> QED
      BY <1>3, <1>5, <2>1, <3>1
  <2>2. CASE l = cur
    <3>1. consumers'[cur] > 0 /\ Head1.policy[cur] # "keep_gpu" /\ consumers[cur] \in Nat
          /\ consumers'[cur] = consumers[cur] - 1 /\ consumers[cur] > 1
      BY <1>1, <2>2 DEF RestOK
    <3>2. queue[n].samples[cur] > 1 /\ n \in 1..n
      BY <1>1, <3>1 DEF ReleaseInv, CountsOwed, Last, Head1
    <3>3. queue'[n].samples[cur] > 0
      BY <1>1, <1>3, <1>5, <3>2
    <3> QED
      BY <2>2, <3>2, <3>3
  <2> QED
    BY <2>1, <2>2
<1> QED
  BY <1>6, <1>7, <1>8 DEF ReleaseInv

(* The steps that leave the queue as it is. *)
LEMMA SameQueueReleaseInv ==
  ASSUME QueueOK, RestOK, PlaceOK, ReleaseInv,
         \/ BeginPrompt \/ SampleSucceeds \/ RecordStats \/ DemoteRelease \/ UnloadDrops
         \/ UNCHANGED vars
         \/ \E l \in Loaders : RunModel(l) \/ StartSample(l)
  PROVE  ReleaseInv'
<1> USE DEF BeginPrompt, SampleSucceeds, RecordStats, DemoteRelease, UnloadDrops,
            RunModel, StartSample, execVars, vars, ReleaseInv
<1>1. /\ queue' = queue /\ Len(queue) \in Nat /\ (queue # <<>> <=> Len(queue) > 0)
      /\ started => started' /\ queue # <<>>
  BY QueueFacts DEF PlaceOK
<1>2. SampleGoesWell'
  <2>1. ~failed'
    BY DEF SampleGoesWell
  <2>2. at' \in {"run", "record", "demote"} => worker'[cur'] # "none"
    BY DEF SampleGoesWell, RestOK, PlaceOK
  <2>3. at' # "idle" => lastPolicy'[cur'] = Head1'.policy[cur']
    BY DEF SampleGoesWell, RestOK, Head1
  <2>4. at' = "drop" => worker'[cur'] = "none" /\ (Len(queue') = 1 => consumers'[cur'] = 0)
    <3>1. CASE DemoteRelease
      BY <3>1 DEF RestOK, PlaceOK
    <3>2. CASE ~DemoteRelease
      BY <3>2 DEF SampleGoesWell
    <3> QED
      BY <3>1, <3>2
  <2> QED
    BY <2>1, <2>2, <2>3, <2>4 DEF SampleGoesWell
<1>3. CountsOwed'
  <2>1. \A l \in Loaders : consumers'[l] > 0 => consumers'[l] = consumers[l]
    BY DEF RestOK
  <2> QED
    BY <1>1, <2>1 DEF CountsOwed, Last, Head1
<1>4. ReleaseOwed'
  <2> SUFFICES ASSUME NEW l \in Loaders, lastPolicy'[l] = "release", worker'[l] # "none"
               PROVE  \E i \in 1..Len(queue) : queue[i].samples[l] > 0
    BY <1>1 DEF ReleaseOwed
  <2>1. CASE lastPolicy[l] = "release" /\ worker[l] # "none"
    BY <2>1 DEF ReleaseOwed
  <2>2. CASE ~(lastPolicy[l] = "release" /\ worker[l] # "none")
    <3>1. Head1.samples[l] > 0 /\ queue # <<>>
      BY <2>2, <1>1 DEF RestOK
    <3> QED
      BY <3>1, <1>1 DEF Head1
  <2> QED
    BY <2>1, <2>2
<1> QED
  BY <1>2, <1>3, <1>4

(* An Unload of a loader whose Sample is not under way takes a worker away, and  *)
(* that is all.                                                                  *)
LEMMA UnloadReleaseInv ==
  ASSUME QueueOK, RestOK, PlaceOK, ReleaseInv, quiet', NEW l \in Loaders, UnloadStops(l)
  PROVE  ReleaseInv'
<1>1. cur # l
  BY Zenon DEF UnloadStops
<1>2. /\ worker' = [worker EXCEPT ![l] = "none"]
      /\ UNCHANGED <<queue, started, models, at, cur, failed, consumers, stats, lastPolicy>>
  BY DEF UnloadStops, execVars
<1>3. SampleGoesWell'
  BY <1>1, <1>2 DEF ReleaseInv, SampleGoesWell, RestOK, PlaceOK, Head1
<1>4. CountsOwed'
  BY <1>2 DEF ReleaseInv, CountsOwed, Last, Head1
<1>5. ReleaseOwed'
  BY <1>2 DEF ReleaseInv, ReleaseOwed, RestOK
<1> QED
  BY <1>3, <1>4, <1>5 DEF ReleaseInv

LEMMA ReleaseStep ==
  ASSUME QueueOK, RestOK, PlaceOK, ReleaseInv, quiet', [Next]_vars
  PROVE  ReleaseInv'
<1>1. ASSUME NEW p \in Prompt, PostPrompt(p) \/ PostRejected(p) PROVE ReleaseInv'
  BY <1>1, PostReleaseInv DEF PostRejected
<1>2. CASE EndPrompt
  BY <1>2, EndReleaseInv
<1>3. CASE \/ BeginPrompt \/ SampleSucceeds \/ RecordStats \/ DemoteRelease \/ UnloadDrops
           \/ UNCHANGED vars
           \/ \E l \in Loaders : RunModel(l) \/ StartSample(l)
  BY <1>3, SameQueueReleaseInv
<1>10. CASE \E l \in Loaders : UnloadStops(l)
  BY <1>10, UnloadReleaseInv
<1>4. ~SampleFails
  BY DEF SampleFails
<1>5. at # "idle" => cur \in Loaders /\ lastPolicy[cur] = Head1.policy[cur]
  BY DEF PlaceOK, ReleaseInv, SampleGoesWell
<1>6. CASE DemoteKeep
  BY <1>5, <1>6, DoneReleaseInv DEF DemoteKeep
<1>7. CASE DemoteLater
  <2>1. consumers[cur] \in Nat /\ Remaining > 0 /\ Remaining = consumers[cur] - 1
    BY <1>5, <1>7 DEF DemoteLater, Remaining, RestOK
  <2>2. consumers'[cur] = Remaining /\ \A l \in Loaders : l # cur => consumers'[l] = consumers[l]
    BY <1>5, <1>7 DEF DemoteLater, RestOK
  <2> QED
    BY <1>5, <1>7, <2>1, <2>2, DoneReleaseInv DEF DemoteLater
<1>8. CASE DemotePark
  <2>1. /\ consumers'[cur] = 0
        /\ \A l \in Loaders : l # cur => consumers'[l] = consumers[l] /\ worker'[l] = worker[l]
    BY <1>5, <1>8 DEF DemotePark, RestOK
  <2> QED
    BY <1>5, <1>8, <2>1, DoneReleaseInv DEF DemotePark
<1>9. CASE DropStats
  <2>1. worker[cur] = "none" /\ consumers[cur] \in Nat
    BY <1>5, <1>9 DEF DropStats, ReleaseInv, SampleGoesWell, RestOK
  <2>2. Len(queue) = 1 => consumers'[cur] = 0
    BY <1>5, <1>9 DEF DropStats, ReleaseInv, SampleGoesWell
  <2> QED
    BY <1>5, <1>9, <2>1, <2>2, DoneReleaseInv DEF DropStats
<1> QED
  BY <1>1, <1>2, <1>3, <1>4, <1>6, <1>7, <1>8, <1>9, <1>10
     DEF Next, SampleStep, DropPrompt, FailModel

LEMMA QuietBefore == [Next]_vars /\ quiet' => quiet
  BY DEF Next, SampleStep, PostPrompt, PostRejected, DropPrompt, BeginPrompt, EndPrompt, RunModel,
         FailModel, StartSample, SampleSucceeds, SampleFails, RecordStats, DemoteKeep, DemoteLater,
         DemotePark, DemoteRelease, DropStats, UnloadStops, UnloadDrops, vars

QuietInv == Typing /\ (quiet => ReleaseInv)

LEMMA InitQuietInv == Init => QuietInv
  BY InitTyping DEF QuietInv, Init, ReleaseInv, SampleGoesWell, CountsOwed, ReleaseOwed

LEMMA QuietStep == QuietInv /\ [Next]_vars => QuietInv'
<1>1. Typing /\ (quiet => ReleaseInv) /\ [Next]_vars /\ quiet' => ReleaseInv'
  BY ReleaseStep, QuietBefore, TypingParts
<1> QED
  BY <1>1, TypingStep DEF QuietInv

(* While no prompt fails, is refused, is taken out or is cut short, a queue that *)
(* has run dry leaves no worker whose policy was to release it, however the      *)
(* prompts behind have overwritten the counts (_last_consumer_finished).         *)
THEOREM Released == Spec => []ReleasedWhenDone
<1>1. QuietInv => ReleasedWhenDone
  BY QueueFacts, TypingParts DEF QuietInv, ReleaseInv, ReleaseOwed, ReleasedWhenDone
<1> QED
  BY <1>1, InitQuietInv, QuietStep, PTL DEF Spec

-----------------------------------------------------------------------------
(* The statistics of a loader outlive its worker only while the executor or an   *)
(* Unload is at it.                                                              *)
LEMMA StatsStep ==
  ASSUME QuietInv, StatsHaveAWorker, [Next]_vars
  PROVE  StatsHaveAWorker'
<1> SUFFICES ASSUME quiet', NEW l \in Loaders, stats'[l], worker'[l] = "none"
             PROVE  cur' = l \/ unloading' = l
  BY DEF StatsHaveAWorker
<1>1. quiet /\ RestOK /\ PlaceOK /\ SampleGoesWell
  BY QuietBefore, TypingParts DEF QuietInv, ReleaseInv
<1>2. stats[l] /\ worker[l] = "none" => cur = l \/ unloading = l
  BY <1>1 DEF StatsHaveAWorker
<1>3. CASE \/ \E p \in Prompt : PostPrompt(p)
           \/ BeginPrompt \/ EndPrompt \/ SampleSucceeds \/ UNCHANGED vars
  BY <1>2, <1>3 DEF PostPrompt, BeginPrompt, EndPrompt, SampleSucceeds, execVars, vars
<1>4. CASE \E m \in Loaders : RunModel(m) \/ StartSample(m)
  <2>1. PICK m \in Loaders : RunModel(m) \/ StartSample(m)
    BY <1>4
  <2>2. stats[l] /\ worker[l] = "none" /\ unloading' = unloading
    BY <1>1, <2>1 DEF RunModel, StartSample, RestOK
  <2>3. cur = l => cur' = l
    BY <1>1, <2>1 DEF RunModel, StartSample, PlaceOK
  <2> QED
    BY <1>2, <2>2, <2>3
<1>5. CASE RecordStats \/ DemoteRelease
  <2>1. cur' = cur /\ unloading' = unloading
    BY <1>5 DEF RecordStats, DemoteRelease
  <2>2. l # cur => stats[l] /\ worker[l] = "none"
    BY <1>1, <1>5 DEF RecordStats, DemoteRelease, RestOK, PlaceOK
  <2> QED
    BY <1>2, <2>1, <2>2
<1>6. CASE DemoteKeep \/ DemoteLater \/ DemotePark
  <2>1. worker[cur] # "none" /\ stats' = stats /\ unloading' = unloading /\ cur \in Loaders
    BY <1>1, <1>6 DEF DemoteKeep, DemoteLater, DemotePark, SampleGoesWell, PlaceOK
  <2>2. worker[l] = "none"
    BY <1>1, <1>6, <2>1 DEF DemoteKeep, DemoteLater, DemotePark, RestOK
  <2> QED
    BY <1>2, <2>1, <2>2
<1>7. CASE DropStats
  <2>1. stats[l] /\ l # cur /\ worker[l] = "none" /\ unloading' = unloading
    BY <1>1, <1>7 DEF DropStats, WithoutStats, RestOK
  <2> QED
    BY <1>2, <2>1
<1>8. CASE \E m \in Loaders : UnloadStops(m)
  <2>1. PICK m \in Loaders : UnloadStops(m)
    BY <1>8
  <2>2. CASE l = m
    BY <2>1, <2>2 DEF UnloadStops
  <2>3. CASE l # m
    <3>1. stats[l] /\ worker[l] = "none" /\ cur' = cur /\ unloading = NoLoader
      BY <1>1, <2>1, <2>3 DEF UnloadStops, RestOK, execVars
    <3> QED
      BY <1>2, <3>1
  <2> QED
    BY <2>2, <2>3
<1>9. CASE UnloadDrops
  <2>1. stats[l] /\ l # unloading /\ worker[l] = "none" /\ cur' = cur
    BY <1>1, <1>9 DEF UnloadDrops, WithoutStats, RestOK, execVars
  <2> QED
    BY <1>2, <2>1
<1> QED
  BY <1>3, <1>4, <1>5, <1>6, <1>7, <1>8, <1>9
     DEF Next, SampleStep, PostRejected, DropPrompt, FailModel, SampleFails

(* While nothing goes wrong, an Unload included that meets no Sample of its       *)
(* loader, the run statistics that are shown belong to a worker that is there     *)
(* (_drop_sample_run_memory_for_loader).                                          *)
THEOREM StatsKept == Spec => []StatsHaveAWorker
<1>1. Init => StatsHaveAWorker
  BY DEF Init, StatsHaveAWorker
<1> QED
  BY <1>1, InitQuietInv, QuietStep, StatsStep, PTL DEF Spec

-----------------------------------------------------------------------------
(* A prompt that has ComfyUI for itself.                                     *)

(* The Sample under way has been counted down, though it is still in the queue. *)
CountedEarly(l) == IF at = "drop" /\ cur = l THEN 1 ELSE 0

SoleInv ==
  \A i \in 1..Len(queue) : queue[i].alone =>
    /\ Len(queue) = 1
    /\ \A l \in Loaders : queue[1].samples[l] <= consumers[l] + CountedEarly(l)

(* The queue without one of its prompts has no prompt that is alone. *)
LEMMA SoleShorter ==
  ASSUME QueueOK, SoleInv, queue # <<>>, Len(queue') = Len(queue) - 1,
         \A i \in 1..Len(queue') : \E j \in 1..Len(queue) : queue'[i] = queue[j]
  PROVE  SoleInv'
<1>1. Len(queue) \in Nat
  BY QueueFacts
<1> SUFFICES ASSUME NEW i \in 1..Len(queue'), queue'[i].alone PROVE FALSE
  BY DEF SoleInv
<1>2. PICK j \in 1..Len(queue) : queue'[i] = queue[j]
  OBVIOUS
<1>3. Len(queue) = 1
  BY <1>2 DEF SoleInv
<1> QED
  BY <1>1, <1>3

LEMMA SoleDone ==
  ASSUME QueueOK, RestOK, PlaceOK, SoleInv, at # "idle", SampleDone, at' = "idle",
         consumers' \in [Loaders -> 0..MaxSamples + MaxSamples],
         \A l \in Loaders : l # cur => consumers'[l] = consumers[l],
         consumers'[cur] + 1 >= consumers[cur] + CountedEarly(cur)
  PROVE  SoleInv'
<1>1. /\ queue # <<>> /\ queue \in Seq(Prompt) /\ cur \in Loaders /\ queue[1].samples[cur] > 0
      /\ Len(queue) \in Nat /\ Len(queue) > 0 /\ queue[1] \in Prompt
  BY QueueFacts DEF PlaceOK, QueueOK, Head1
<1>2. CASE failed /\ LeaveQueue
  <2>1. Len(queue') = Len(queue) - 1 /\ \A i \in 1..Len(queue) - 1 : queue'[i] = queue[i + 1]
    BY <1>1, <1>2, LeavesQueue
  <2> QED
    BY <1>1, <2>1, SoleShorter
<1>3. CASE queue' = [queue EXCEPT ![1].samples[cur] = @ - 1]
  <2>1. /\ Len(queue') = Len(queue)
        /\ \A i \in 1..Len(queue) : i # 1 => queue'[i] = queue[i]
        /\ queue'[1].alone = queue[1].alone
        /\ queue'[1].samples = [queue[1].samples EXCEPT ![cur] = @ - 1]
    BY <1>1, <1>3, SampleGone
  <2>2. queue[1].samples \in [Loaders -> 0..MaxSamples]
    BY <1>1, PromptFields
  <2> SUFFICES ASSUME NEW i \in 1..Len(queue), queue'[i].alone
               PROVE  /\ Len(queue) = 1
                      /\ \A l \in Loaders : queue'[1].samples[l] <= consumers'[l] + CountedEarly(l)'
    BY <2>1 DEF SoleInv
  <2>3. Len(queue) = 1 /\ \A l \in Loaders : queue[1].samples[l] <= consumers[l] + CountedEarly(l)
    BY <2>1 DEF SoleInv
  <2>4. ASSUME NEW l \in Loaders PROVE queue'[1].samples[l] <= consumers'[l] + CountedEarly(l)'
    <3>1. /\ consumers[l] \in Nat /\ consumers'[l] \in Nat /\ queue[1].samples[l] \in Nat
          /\ queue[1].samples[l] <= consumers[l] + CountedEarly(l) /\ CountedEarly(l)' = 0
      BY <2>2, <2>3 DEF RestOK, CountedEarly
    <3>2. CASE l = cur
      <4>1. queue'[1].samples[l] = queue[1].samples[l] - 1 /\ CountedEarly(cur) \in {0, 1}
        BY <2>1, <2>2, <3>2 DEF CountedEarly
      <4> QED
        BY <3>1, <3>2, <4>1
    <3>3. CASE l # cur
      <4>1. queue'[1].samples[l] = queue[1].samples[l] /\ CountedEarly(l) = 0
        BY <2>1, <2>2, <3>3 DEF CountedEarly
      <4> QED
        BY <3>1, <3>3, <4>1
    <3> QED
      BY <3>2, <3>3
  <2> QED
    BY <2>3, <2>4
<1> QED
  BY <1>2, <1>3 DEF SampleDone

LEMMA SoleStep ==
  ASSUME QueueOK, RestOK, PlaceOK, RestOK', SoleInv, [Next]_vars
  PROVE  SoleInv'
<1>1. Len(queue) \in Nat /\ (queue # <<>> <=> Len(queue) > 0) /\ queue \in Seq(Prompt)
  BY QueueFacts DEF QueueOK
<1>2. ASSUME NEW p \in Prompt, PostPrompt(p) PROVE SoleInv'
  <2>1. /\ Len(queue') = Len(queue) + 1 /\ queue'[Len(queue) + 1] = p
        /\ \A i \in 1..Len(queue) : ~queue'[i].alone
    BY <1>1, <1>2, PostedQueue DEF PostPrompt
  <2> SUFFICES ASSUME NEW i \in 1..Len(queue'), queue'[i].alone
               PROVE  /\ Len(queue') = 1
                      /\ \A l \in Loaders : queue'[1].samples[l] <= consumers'[l] + CountedEarly(l)'
    BY DEF SoleInv
  <2>2. queue = <<>> /\ Len(queue) = 0
    BY <1>1, <1>2, <2>1 DEF PostPrompt
  <2>3. ASSUME NEW l \in Loaders PROVE p.samples[l] <= consumers'[l] + CountedEarly(l)'
    <3>1. p.samples \in [Loaders -> 0..MaxSamples] /\ p.unreached \in [Loaders -> 0..MaxSamples]
      BY PromptFields
    <3>2. p.samples[l] \in Nat /\ p.unreached[l] \in Nat /\ CountedEarly(l)' \in {0, 1}
      BY <3>1 DEF CountedEarly
    <3>3. consumers'[l] = p.samples[l] + p.unreached[l]
      BY <1>2 DEF PostPrompt, Counts
    <3> QED
      BY <3>2, <3>3
  <2> QED
    BY <2>1, <2>2, <2>3
<1>3. ASSUME NEW p \in Prompt, PostRejected(p) PROVE SoleInv'
  BY <1>1, <1>3, NotAloneQueue DEF PostRejected, SoleInv
<1>4. ASSUME NEW i \in DOMAIN queue, DropPrompt(i) PROVE SoleInv'
  <2>1. i \in 1..Len(queue) /\ queue # <<>>
    BY <1>1, LenProperties
  <2>2. Len(queue') = Len(queue) - 1
    BY <1>1, <1>4, <2>1, ShorterQueue DEF DropPrompt
  <2>3. ASSUME NEW j \in 1..Len(queue') PROVE \E k \in 1..Len(queue) : queue'[j] = queue[k]
    <3>1. j \in 1..Len(queue) - 1 /\ queue'[j] = queue[IF j < i THEN j ELSE j + 1]
      BY <1>4, <2>2 DEF DropPrompt
    <3>2. j \in 1..Len(queue) /\ j + 1 \in 1..Len(queue)
      BY <1>1, <3>1
    <3> QED
      BY <3>1, <3>2
  <2> QED
    BY <2>1, <2>2, <2>3, SoleShorter
<1>5. ASSUME LeaveQueue, queue # <<>> PROVE SoleInv'
  <2>1. Len(queue') = Len(queue) - 1 /\ \A i \in 1..Len(queue) - 1 : queue'[i] = queue[i + 1]
    BY <1>1, <1>5, LeavesQueue
  <2> QED
    BY <1>1, <1>5, <2>1, SoleShorter
<1>6. CASE EndPrompt \/ \E l \in Loaders : FailModel(l)
  BY <1>5, <1>6 DEF EndPrompt, FailModel, PlaceOK
<1>7. CASE DemoteKeep \/ DemoteLater \/ DemotePark \/ DropStats
  <2>1. at # "idle" /\ SampleDone /\ at' = "idle" /\ cur \in Loaders
    BY <1>7 DEF DemoteKeep, DemoteLater, DemotePark, DropStats, PlaceOK
  <2>2. consumers[cur] \in Nat
    BY <2>1 DEF RestOK
  <2>3. /\ \A l \in Loaders : l # cur => consumers'[l] = consumers[l]
        /\ consumers'[cur] + 1 >= consumers[cur] + CountedEarly(cur)
    BY <1>7, <2>1, <2>2 DEF DemoteKeep, DemoteLater, DemotePark, DropStats, Remaining, CountedEarly,
         RestOK
  <2>4. consumers' \in [Loaders -> 0..MaxSamples + MaxSamples]
    BY DEF RestOK
  <2> QED
    BY <2>1, <2>3, <2>4, SoleDone
<1>8. CASE DemoteRelease
  <2>1. /\ queue' = queue /\ cur' = cur /\ cur \in Loaders /\ at = "demote" /\ at' = "drop"
        /\ consumers' = [consumers EXCEPT ![cur] = 0]
        /\ consumers \in [Loaders -> 0..MaxSamples + MaxSamples] /\ Remaining = 0
    BY <1>8 DEF DemoteRelease, PlaceOK, RestOK
  <2>2. \A l \in Loaders : consumers[l] + CountedEarly(l) <= consumers'[l] + CountedEarly(l)'
    BY <2>1 DEF CountedEarly, Remaining
  <2>3. \A l \in Loaders : /\ consumers[l] + CountedEarly(l) \in Nat
                           /\ consumers'[l] + CountedEarly(l)' \in Nat
    BY <2>1 DEF CountedEarly
  <2>4. \A i \in 1..Len(queue), l \in Loaders : queue[i].samples[l] \in Nat
    BY QueueFacts
  <2>5. Len(queue) = 1 => 1 \in 1..Len(queue)
    OBVIOUS
  <2> QED
    BY <2>1, <2>2, <2>3, <2>4, <2>5 DEF SoleInv
<1>9. CASE \/ BeginPrompt \/ SampleSucceeds \/ SampleFails \/ RecordStats \/ UnloadDrops
           \/ UNCHANGED vars
           \/ \E l \in Loaders : RunModel(l) \/ StartSample(l) \/ UnloadStops(l)
  <2>1. /\ queue' = queue /\ consumers' = consumers
        /\ at' = "drop" <=> at = "drop"
        /\ at = "drop" => cur' = cur
    BY <1>9 DEF BeginPrompt, SampleSucceeds, SampleFails, RecordStats, UnloadDrops, RunModel,
         StartSample, UnloadStops, execVars, vars
  <2>2. \A l \in Loaders : CountedEarly(l)' = CountedEarly(l)
    BY <2>1 DEF CountedEarly
  <2> QED
    BY <2>1, <2>2 DEF SoleInv
<1> QED
  BY <1>2, <1>3, <1>4, <1>6, <1>7, <1>8, <1>9 DEF Next, SampleStep

(* The policy parks or stops the worker of a prompt that has ComfyUI for itself   *)
(* only after the last Sample that needs it (_last_consumer_finished).            *)
THEOREM SoleKeeps == Spec => SolePromptKeepsItsWorker
<1>1. Init => SoleInv
  BY EmptySeq DEF Init, SoleInv
<1>2. Typing /\ Typing' /\ SoleInv /\ [Next]_vars => SoleInv'
  <2>1. Typing' => RestOK'
    BY DEF Typing, TypeOK, RestOK
  <2> QED
    BY <2>1, TypingParts, SoleStep
<1>3. Typing /\ SoleInv =>
        [DemotePark \/ DemoteRelease =>
           (Head1.alone /\ worker'[cur] # worker[cur] => Head1.samples[cur] = 1 \/ failed)]_vars
  <2> SUFFICES ASSUME Typing, SoleInv, DemotePark \/ DemoteRelease, Head1.alone
               PROVE  Head1.samples[cur] = 1
    OBVIOUS
  <2>1. /\ queue # <<>> /\ Len(queue) \in Nat /\ Len(queue) > 0 /\ at = "demote"
        /\ cur \in Loaders /\ queue[1].samples[cur] > 0 /\ queue[1].samples[cur] \in Nat
        /\ consumers[cur] \in Nat /\ Remaining = 0
    BY TypingParts, QueueFacts DEF DemotePark, DemoteRelease, PlaceOK, Head1, RestOK
  <2>2. queue[1].samples[cur] <= consumers[cur] + CountedEarly(cur)
    BY <2>1 DEF SoleInv, Head1
  <2>3. CountedEarly(cur) = 0 /\ consumers[cur] <= 1
    BY <2>1 DEF CountedEarly, Remaining
  <2> QED
    BY <2>1, <2>2, <2>3 DEF Head1
<1> QED
  BY <1>1, <1>2, <1>3, InitTyping, TypingStep, PTL DEF Spec, SolePromptKeepsItsWorker

=============================================================================
