------------------------ MODULE IPCheckPrompt_proof ------------------------
(***************************************************************************)
(* Proofs about IPCheck in the environment its authors had in mind: every  *)
(* server that answers does so before the caller gives up, and no address  *)
(* makes building a request fail.  Requests may still fail, run out of     *)
(* memory, race with each other and with other calls.                      *)
(***************************************************************************)
EXTENDS IPCheck_proof, FiniteSetTheorems

Gentle ==
  /\ Prompt
  /\ \A S \in SettingsSpace : \A s \in DOMAIN S.Servers :
       S.Servers[s].rejects \cap Ips = {}

-----------------------------------------------------------------------------
(* The caller's wait covers the tasks it has started.                      *)

Unfinished(c) == {s \in Idx : task[c][s] # "done"}

\* Lost decrements leave the counter, and the registers it is written back from, above
\* the number of servers that are not done.
Covered ==
  /\ \A c \in Calls :
       Live(c) => Cardinality(Unfinished(c)) <= mem[frame[c]].ChecksRemaining
  /\ \A c \in Calls : \A s \in Idx :
       task[c][s] = "finishing" => Cardinality(Unfinished(c)) <= reg[c][s]

\* A call does not pass the wait before its tasks are done.
CallOK(c) ==
  /\ pc[c] \in {"idle", "sending"} => polls[c] = 0
  /\ pc[c] = "polling" /\ polls[c] = MaxPolls => Finished(c)
  /\ pc[c] \in {"deciding", "reporting"} => Finished(c)
  /\ Ended(c) => \A s \in Idx : task[c][s] \in {"none", "done"}
  /\ verdict[c] # "none" => pc[c] \in {"reporting", "returned"}
  /\ Live(c) => Settings.HasLoaded

Awaited == Recording /\ Covered /\ \A c \in Calls : CallOK(c)

LEMMA UnfinishedType ==
  ASSUME Settings \in SettingsSpace, NEW c \in Calls
  PROVE  /\ IsFiniteSet(Unfinished(c))
         /\ Cardinality(Unfinished(c)) \in Nat
         /\ Cardinality(Unfinished(c)) <= Len(Settings.Servers)
         /\ Cardinality(Unfinished(c)) = 0 => Finished(c)
<1>1. Idx = 1 .. Len(Settings.Servers) /\ Len(Settings.Servers) \in Nat
  BY SettingsType
<1>2. IsFiniteSet(Idx) /\ Cardinality(Idx) = Len(Settings.Servers)
  BY <1>1, FS_Interval
<1>3. Unfinished(c) \in SUBSET Idx
  BY DEF Unfinished
<1>4. IsFiniteSet(Unfinished(c)) /\ Cardinality(Unfinished(c)) <= Cardinality(Idx)
  BY <1>2, <1>3, FS_Subset
<1>5. Cardinality(Unfinished(c)) \in Nat
  BY <1>4, FS_CardinalityType
<1>6. Cardinality(Unfinished(c)) = 0 => Finished(c)
  BY <1>4, FS_EmptySet DEF Unfinished, Finished
<1> QED
  BY <1>2, <1>4, <1>5, <1>6

LEMMA InitAwaited == Init => Awaited
BY InitRecording DEF Init, Awaited, Covered, CallOK, Live, Ended

\* A task that still has something to write belongs to a call that is going on.
LEMMA TouchingIsLive ==
  ASSUME Awaited, NEW c \in Calls, NEW s \in Idx, task[c][s] \in Touching
  PROVE  Live(c)
<1>1. CallOK(c) /\ TaskOK(c, s) /\ pc[c] \in PcStates
  BY DEF Awaited, Recording, Typed, TypeOK, CallTypes
<1>2. task[c][s] \notin {"none", "done"}
  BY DEF Touching
<1> QED
  BY <1>1, <1>2 DEF CallOK, TaskOK, PcStates, Live, Ended

LEMMA TaskStepCovered ==
  ASSUME Awaited, NEW c \in Calls, NEW s \in Idx, TaskStep(c, s)
  PROVE  Covered'
<1>a. /\ TaskTypes
      /\ TaskOK(c, s)
      /\ mem \in [Frames -> Counters]
      /\ Settings \in SettingsSpace
  BY DEF Awaited, Recording, Typed, TypeOK
<1>b. /\ UNCHANGED <<Settings, callVars>>
      /\ Idx' = Idx
      /\ \A d \in Calls : Live(d)' <=> Live(d)
  BY TaskLeavesCalls DEF Awaited, Recording, Typed, TypeOK, callVars, Idx, Live
<1>c. ASSUME NEW d \in Calls, NEW r \in Idx, d # c \/ r # s
      PROVE  task'[d][r] = task[d][r] /\ reg'[d][r] = reg[d][r]
  BY <1>a, <1>c, OneTask
<1>1. CASE StoreChecksRemaining(c, s)
  <2>1. /\ task[c][s] = "finishing" /\ task'[c][s] = "done"
        /\ mem' = [mem EXCEPT ![frame[c]].ChecksRemaining = reg[c][s] - 1]
        /\ reg' = reg
    BY <1>a, <1>1 DEF TaskTypes, StoreChecksRemaining, Decremented
  <2>2. Live(c) /\ frame[c] \in Frames
    BY <2>1, TouchingIsLive DEF Touching, Awaited, Recording, Typed, Framed
  <2>3. Unfinished(c)' = Unfinished(c) \ {s} /\ s \in Unfinished(c)
    BY <1>b, <1>c, <2>1 DEF Unfinished
  <2>4. Cardinality(Unfinished(c)') = Cardinality(Unfinished(c)) - 1
    BY <1>a, <2>3, UnfinishedType, FS_RemoveElement
  <2>5. ASSUME NEW d \in Calls, d # c PROVE Unfinished(d)' = Unfinished(d)
    BY <1>b, <1>c, <2>5 DEF Unfinished
  <2>6. ASSUME NEW d \in Calls, Live(d)
        PROVE  Cardinality(Unfinished(d)') <= mem'[frame[d]].ChecksRemaining
    <3>1. CASE d = c
      <4>1. Cardinality(Unfinished(c)) <= reg[c][s]
        BY <2>1 DEF Awaited, Covered
      <4>2. mem'[frame[c]].ChecksRemaining = reg[c][s] - 1
        BY <1>a, <2>1, <2>2 DEF Counters
      <4> QED
        BY <1>a, <2>4, <3>1, <4>1, <4>2, UnfinishedType DEF TaskTypes
    <3>2. CASE d # c
      <4>1. frame[d] # frame[c]
        BY <2>2, <2>6, <3>2 DEF Awaited, Recording, Alone
      <4> QED
        BY <1>a, <2>1, <2>5, <2>6, <3>2, <4>1
        DEF Awaited, Covered, Recording, Typed, Framed
    <3> QED
      BY <3>1, <3>2
  <2>7. ASSUME NEW d \in Calls, NEW r \in Idx, task'[d][r] = "finishing"
        PROVE  Cardinality(Unfinished(d)') <= reg'[d][r]
    <3>1. task[d][r] = "finishing"
      BY <1>c, <2>1, <2>7
    <3>2. Cardinality(Unfinished(d)) <= reg[d][r]
      BY <3>1 DEF Awaited, Covered
    <3>3. Cardinality(Unfinished(d)) \in Nat /\ reg[d][r] \in Int
      BY <1>a, UnfinishedType DEF TaskTypes
    <3> QED
      BY <2>1, <2>4, <2>5, <3>2, <3>3
  <2> QED
    BY <1>b, <2>6, <2>7 DEF Covered, callVars
<1>2. CASE ~StoreChecksRemaining(c, s)
  <2>1. task[c][s] # "done" /\ task'[c][s] # "done"
    <3>1. CASE Respond(c, s) \/ Fail(c, s) \/ TerminateUnobserved(c, s)
      BY <1>a, <3>1 DEF TaskTypes, Respond, Fail, TerminateUnobserved, taskVars
    <3>2. CASE ReceiveBody(c, s) \/ NextFilter(c, s) \/ AppendReason(c, s)
      BY <1>a, <3>2 DEF TaskTypes, ReceiveBody, NextFilter, AppendReason
    <3>3. CASE LoadFailCount(c, s) \/ StoreFailCount(c, s) \/ CountPass(c, s)
               \/ LoadChecksRemaining(c, s)
      BY <1>a, <3>3
      DEF TaskTypes, LoadFailCount, StoreFailCount, CountPass, LoadChecksRemaining
    <3> QED
      BY <1>2, <3>1, <3>2, <3>3 DEF TaskStep
  <2>2. ASSUME NEW d \in Calls PROVE Unfinished(d)' = Unfinished(d)
    BY <1>b, <1>c, <2>1 DEF Unfinished
  <2>3. ASSUME NEW f \in Frames
        PROVE  mem'[f].ChecksRemaining = mem[f].ChecksRemaining
    <3>1. CASE StoreFailCount(c, s)
      BY <1>a, <3>1 DEF TaskOK, StoreFailCount, Counters
    <3>2. CASE ~StoreFailCount(c, s)
      BY <1>2, <3>2
      DEF TaskStep, Respond, ReceiveBody, Fail, TerminateUnobserved, NextFilter,
          LoadFailCount, CountPass, AppendReason, LoadChecksRemaining
    <3> QED
      BY <3>1, <3>2
  <2>4. task'[c][s] = "finishing" =>
          \/ /\ task[c][s] = "filtering"
             /\ reg'[c][s] = mem[frame[c]].ChecksRemaining
          \/ task[c][s] = "finishing" /\ reg'[c][s] = reg[c][s]
    <3>1. CASE Respond(c, s) \/ Fail(c, s) \/ TerminateUnobserved(c, s)
      BY <1>a, <3>1 DEF TaskTypes, Respond, Fail, TerminateUnobserved, taskVars
    <3>2. CASE ReceiveBody(c, s) \/ NextFilter(c, s) \/ AppendReason(c, s)
      BY <1>a, <3>2 DEF TaskTypes, ReceiveBody, NextFilter, AppendReason
    <3>3. CASE LoadFailCount(c, s) \/ StoreFailCount(c, s) \/ CountPass(c, s)
      BY <1>a, <3>3 DEF TaskTypes, LoadFailCount, StoreFailCount, CountPass
    <3>4. CASE LoadChecksRemaining(c, s)
      <4>1. /\ task[c][s] = "filtering"
            /\ reg' = [reg EXCEPT ![c][s] = mem[frame[c]].ChecksRemaining]
        BY <3>4 DEF LoadChecksRemaining
      <4>2. reg'[c][s] = mem[frame[c]].ChecksRemaining
        BY <1>a, <4>1 DEF TaskTypes
      <4> QED
        BY <4>1, <4>2
    <3> QED
      BY <1>2, <3>1, <3>2, <3>3, <3>4 DEF TaskStep
  <2>5. ASSUME NEW d \in Calls, NEW r \in Idx, task'[d][r] = "finishing"
        PROVE  Cardinality(Unfinished(d)) <= reg'[d][r]
    <3>1. CASE d = c /\ r = s
      <4>1. Live(c)
        BY <2>4, <2>5, <3>1, TouchingIsLive DEF Touching
      <4> QED
        BY <2>4, <2>5, <3>1, <4>1 DEF Awaited, Covered
    <3>2. CASE d # c \/ r # s
      BY <1>c, <2>5, <3>2 DEF Awaited, Covered
    <3> QED
      BY <3>1, <3>2
  <2>6. ASSUME NEW d \in Calls, Live(d)
        PROVE  Cardinality(Unfinished(d)) <= mem'[frame[d]].ChecksRemaining
    BY <2>3, <2>6 DEF Awaited, Covered, Recording, Typed, Framed
  <2> QED
    BY <1>b, <2>2, <2>5, <2>6 DEF Covered, callVars
<1> QED
  BY <1>1, <1>2

\* Steps of the caller that write neither counters nor tasks.
LEMMA QuietCovered ==
  ASSUME Awaited, UNCHANGED <<Settings, mem, frame, task, reg>>,
         \A d \in Calls : Live(d)' => Live(d)
  PROVE  Covered'
<1>1. Idx' = Idx /\ \A d \in Calls : Unfinished(d)' = Unfinished(d)
  BY DEF Idx, Unfinished
<1> QED
  BY <1>1 DEF Awaited, Covered

LEMMA BeginCovered ==
  ASSUME Awaited, NEW c \in Calls, Begin(c)
  PROVE  Covered'
<1>a. /\ mem \in [Frames -> Counters]
      /\ frame \in [Calls -> Frames \cup {NoFrame}]
      /\ pc \in [Calls -> PcStates]
      /\ Settings \in SettingsSpace
  BY DEF Awaited, Recording, Typed, TypeOK, CallTypes
<1>b. UNCHANGED <<Settings, task, reg>>
  BY DEF Begin, taskVars
<1>c. Idx' = Idx /\ \A d \in Calls : Unfinished(d)' = Unfinished(d)
  BY <1>b DEF Idx, Unfinished
<1>1. PICK f \in Frames :
        /\ FreeFrame(f)
        /\ frame' = [frame EXCEPT ![c] = f]
        /\ mem' = [mem EXCEPT ![f] = InitialCounters(f)]
  BY DEF Begin
<1>2. ASSUME NEW d \in Calls, Live(d)'
      PROVE  Cardinality(Unfinished(d)) <= mem'[frame'[d]].ChecksRemaining
  <2>1. CASE d = c
    BY <1>a, <1>1, <2>1, UnfinishedType DEF InitialCounters
  <2>2. CASE d # c
    <3>1. Live(d) /\ frame'[d] = frame[d] /\ frame[d] # f
      BY <1>a, <1>1, <1>2, <2>2 DEF Begin, Live, FreeFrame
    <3> QED
      BY <1>a, <1>1, <3>1 DEF Awaited, Covered, Recording, Typed, Framed
  <2> QED
    BY <2>1, <2>2
<1> QED
  BY <1>b, <1>c, <1>2 DEF Awaited, Covered

LEMMA SendRequestCovered ==
  ASSUME Awaited, NEW c \in Calls, SendRequest(c)
  PROVE  Covered'
<1>1. UNCHANGED <<Settings, mem, pc, frame, reg>>
  BY DEF SendRequest
<1>2. Idx' = Idx /\ next[c] \in Idx
  BY DEF SendRequest, Sending, Idx
<1>3. \A d \in Calls, r \in Idx :
        task'[d][r] = IF d = c /\ r = next[c] THEN "requested" ELSE task[d][r]
  BY <1>2 DEF Awaited, Recording, Typed, TypeOK, TaskTypes, SendRequest
<1>4. task[c][next[c]] = "none"
  <2>1. next[c] <= next[c]
    BY <1>2, SettingsType DEF Awaited, Recording, Typed, TypeOK
  <2> QED
    BY <1>2, <2>1 DEF Awaited, Recording, Typed, TaskOK, SendRequest, Sending
<1>5. \A d \in Calls : Unfinished(d)' = Unfinished(d)
  BY <1>2, <1>3, <1>4 DEF Unfinished
<1> QED
  BY <1>1, <1>2, <1>3, <1>5 DEF Awaited, Covered, Live

\* Tasks that are done stay done, and tasks that are none or done make no step.
LEMMA TaskStepMoves ==
  ASSUME NEW c \in Calls, NEW s \in Idx, TaskStep(c, s)
  PROVE  task[c][s] \notin {"none", "done"}
BY DEF TaskStep, Respond, ReceiveBody, Fail, TerminateUnobserved, NextFilter,
       LoadFailCount, StoreFailCount, CountPass, AppendReason, LoadChecksRemaining,
       StoreChecksRemaining

LEMMA TaskStepCalls ==
  ASSUME Awaited, NEW c \in Calls, NEW s \in Idx, TaskStep(c, s), NEW d \in Calls
  PROVE  CallOK(d)'
<1>1. UNCHANGED <<Settings, callVars>> /\ Idx' = Idx
  BY TaskLeavesCalls DEF Awaited, Recording, Typed, TypeOK, Idx
<1>2. ASSUME NEW r \in Idx, task[d][r] \in {"none", "done"}
      PROVE  task'[d][r] = task[d][r]
  BY <1>2, OneTask, TaskStepMoves DEF Awaited, Recording, Typed, TypeOK
<1>3. CallOK(d)
  BY DEF Awaited
<1>4. Finished(d) => Finished(d)'
  BY <1>1, <1>2 DEF Finished
<1>5. /\ Live(d)' <=> Live(d)
      /\ Ended(d)' <=> Ended(d)
  BY <1>1 DEF Live, Ended, callVars
<1> QED
  BY <1>1, <1>2, <1>3, <1>4, <1>5 DEF CallOK, callVars

\* A call that a step of another caller leaves alone.
LEMMA OtherCalls ==
  ASSUME Awaited, NEW c \in Calls, Enter(c) \/ Proceed(c), NEW d \in Calls, d # c
  PROVE  CallOK(d)'
<1>a. CallTypes /\ TaskTypes
  BY DEF Awaited, Recording, Typed, TypeOK
<1>1. /\ pc'[d] = pc[d] /\ polls'[d] = polls[d] /\ verdict'[d] = verdict[d]
      /\ Settings' = Settings /\ task'[d] = task[d]
  <2>1. CASE Enter(c)
    BY <1>a, <2>1
    DEF CallTypes, Enter, RefuseUnloaded, ThrowOutOfMemory, Begin, taskVars
  <2>2. CASE SendThrows(c) \/ SendWithoutClient(c) \/ AllSent(c)
    BY <1>a, <2>2
    DEF CallTypes, SendThrows, SendWithoutClient, AllSent, taskVars, callVars
  <2>3. CASE SendRequest(c)
    BY <1>a, <2>3 DEF TaskTypes, SendRequest
  <2>4. CASE SleepOnce(c) \/ StopWaiting(c) \/ Decide(c) \/ Return(c)
    BY <1>a, <2>4 DEF CallTypes, SleepOnce, StopWaiting, Decide, Return, taskVars
  <2> QED
    BY <2>1, <2>2, <2>3, <2>4 DEF Proceed
<1>2. CallOK(d)
  BY DEF Awaited
<1>3. Idx' = Idx
  BY <1>1 DEF Idx
<1> QED
  BY <1>1, <1>2, <1>3 DEF CallOK, Live, Ended, Finished

LEMMA ThisCall ==
  ASSUME Gentle, Awaited, NEW c \in Calls, Enter(c) \/ Proceed(c)
  PROVE  CallOK(c)'
<1>a. /\ CallTypes /\ TaskTypes /\ CallOK(c)
      /\ Settings \in SettingsSpace
      /\ \A s \in Idx : TaskOK(c, s)
      /\ Prompt
      /\ MaxPolls \in Nat \ {0}
  BY CheckAssumption DEF Awaited, Recording, Typed, TypeOK, Gentle
<1>1. CASE RefuseUnloaded(c) \/ ThrowOutOfMemory(c)
  BY <1>a, <1>1
  DEF CallTypes, TaskOK, CallOK, Idx, Live, Ended, RefuseUnloaded, ThrowOutOfMemory,
      taskVars
<1>2. CASE Begin(c)
  BY <1>a, <1>2 DEF CallTypes, CallOK, Live, Ended, Begin
<1>3. CASE SendThrows(c)
  <2>1. ip[c] \in Ips /\ ip[c] \in Settings.Servers[next[c]].rejects
    BY <1>3 DEF Awaited, Recording, Typed, TypeOK, SendThrows
  <2>2. next[c] \in DOMAIN Settings.Servers
    BY <1>3 DEF SendThrows, Sending, Idx
  <2> QED
    BY <1>a, <2>1, <2>2 DEF Gentle
<1>4. CASE SendWithoutClient(c)
  BY <1>a, <1>4
  DEF CallOK, Finished, Idx, Live, Ended, SendWithoutClient, callVars, taskVars
<1>5. CASE SendRequest(c)
  BY <1>a, <1>5 DEF CallOK, Live, Ended, Sending, SendRequest
<1>6. CASE AllSent(c)
  BY <1>a, <1>6 DEF CallTypes, CallOK, Live, Ended, AllSent
<1>7. CASE SleepOnce(c)
  <2>1. polls'[c] = polls[c] + 1 /\ (polls[c] + 1 = MaxPolls => Finished(c))
    BY <1>a, <1>7 DEF CallTypes, SleepOnce, Counted
  <2>2. Finished(c) => Finished(c)'
    BY <1>7 DEF SleepOnce, Finished, Idx, taskVars
  <2> QED
    BY <1>a, <1>7, <2>1, <2>2 DEF CallOK, Live, Ended, SleepOnce
<1>8. CASE StopWaiting(c)
  <2>1. Finished(c)
    <3>1. CASE polls[c] = MaxPolls
      BY <1>a, <1>8, <3>1 DEF CallOK, StopWaiting
    <3>2. CASE mem[frame[c]].ChecksRemaining <= 0
      <4>1. /\ Cardinality(Unfinished(c)) <= mem[frame[c]].ChecksRemaining
            /\ mem[frame[c]].ChecksRemaining \in Int
        BY <1>8
        DEF Awaited, Covered, Recording, Typed, TypeOK, Framed, Counters, Live,
            StopWaiting
      <4> QED
        BY <1>a, <3>2, <4>1, UnfinishedType
    <3> QED
      BY <1>8, <3>1, <3>2 DEF StopWaiting, WaitIsOver
  <2>2. Finished(c)'
    BY <1>8, <2>1 DEF StopWaiting, Finished, Idx, taskVars
  <2> QED
    BY <1>a, <1>8, <2>2 DEF CallTypes, CallOK, Live, Ended, StopWaiting
<1>9. CASE Decide(c)
  <2>1. Finished(c)'
    BY <1>a, <1>9 DEF CallOK, Decide, Finished, Idx, taskVars
  <2> QED
    BY <1>a, <1>9, <2>1 DEF CallTypes, CallOK, Live, Ended, Decide
<1>10. CASE Return(c)
  <2>1. Finished(c)' /\ Idx' = Idx
    BY <1>a, <1>10 DEF CallOK, Return, Finished, Idx, taskVars
  <2> QED
    BY <1>a, <1>10, <2>1 DEF CallTypes, CallOK, Live, Ended, Finished, Return
<1> QED
  BY <1>1, <1>2, <1>3, <1>4, <1>5, <1>6, <1>7, <1>8, <1>9, <1>10 DEF Enter, Proceed

LEMMA NextAwaited ==
  ASSUME Gentle
  PROVE  Awaited /\ [Next]_vars => Awaited'
<1> SUFFICES ASSUME Awaited, [Next]_vars PROVE Awaited'
  OBVIOUS
<1>1. Recording'
  BY NextRecording DEF Awaited
<1>2. ASSUME NEW c \in Calls, NEW s \in Idx, TaskStep(c, s) PROVE Awaited'
  BY <1>1, <1>2, TaskStepCovered, TaskStepCalls DEF Awaited
<1>3. ASSUME NEW c \in Calls, Enter(c) \/ Proceed(c) PROVE Awaited'
  <2>1. Covered'
    <3>1. CASE Begin(c) \/ SendRequest(c)
      BY <3>1, BeginCovered, SendRequestCovered
    <3>2. CASE RefuseUnloaded(c) \/ ThrowOutOfMemory(c) \/ SendThrows(c)
               \/ SendWithoutClient(c)
      BY <3>2, QuietCovered
      DEF Awaited, Recording, Typed, TypeOK, CallTypes, Live, RefuseUnloaded,
          ThrowOutOfMemory, SendThrows, SendWithoutClient, callVars, taskVars
    <3>3. CASE AllSent(c) \/ SleepOnce(c) \/ StopWaiting(c) \/ Decide(c) \/ Return(c)
      BY <3>3, QuietCovered
      DEF Awaited, Recording, Typed, TypeOK, CallTypes, Live, AllSent, SleepOnce,
          StopWaiting, Decide, Return, taskVars
    <3> QED
      BY <1>3, <3>1, <3>2, <3>3 DEF Enter, Proceed
  <2>2. \A d \in Calls : CallOK(d)'
    BY <1>3, ThisCall, OtherCalls
  <2> QED
    BY <1>1, <2>1, <2>2 DEF Awaited
<1>4. CASE UNCHANGED vars
  <2>1. Covered'
    BY <1>4, QuietCovered DEF Live, vars, callVars, taskVars
  <2>2. \A d \in Calls : CallOK(d)'
    BY <1>4 DEF Awaited, CallOK, Live, Ended, Finished, Idx, vars, callVars, taskVars
  <2> QED
    BY <1>1, <2>1, <2>2 DEF Awaited
<1> QED
  BY <1>2, <1>3, <1>4 DEF Next, Rest

\* In the environment its authors had in mind, no continuation outlives its call: the
\* captured pointers stay valid, however the tasks of all calls interleave.
THEOREM NothingDangles ==
  ASSUME Gentle
  PROVE  Spec => []NoDanglingContinuation
<1>1. Awaited => NoDanglingContinuation
  BY TouchingIsLive DEF NoDanglingContinuation
<1> QED
  BY <1>1, InitAwaited, NextAwaited, PTL DEF Spec

\* The unsynchronised decrements can only lengthen the wait, never cut it short.
THEOREM WaitIsLongEnough ==
  ASSUME Gentle
  PROVE  Spec => []WaitCoversOutstanding
<1>1. Awaited => WaitCoversOutstanding
  <2> SUFFICES ASSUME Awaited, NEW c \in Calls, pc[c] = "polling",
                      mem[frame[c]].ChecksRemaining <= 0
               PROVE  Finished(c)
    BY DEF WaitCoversOutstanding
  <2>1. /\ Cardinality(Unfinished(c)) <= mem[frame[c]].ChecksRemaining
        /\ mem[frame[c]].ChecksRemaining \in Int
    BY DEF Awaited, Covered, Recording, Typed, TypeOK, Framed, Counters, Live
  <2> QED
    BY <2>1, UnfinishedType DEF Awaited, Recording, Typed, TypeOK
<1> QED
  BY <1>1, InitAwaited, NextAwaited, PTL DEF Spec

-----------------------------------------------------------------------------
(* The verdicts.                                                           *)

\* Some filter of a server that has answered denies its answer.
Guilty(c) ==
  \E s \in Idx : /\ task[c][s] \in Touching \cup {"done"}
                 /\ \E i \in 1 .. at[c][s] : Denied(c, s, i)

\* Failures are counted only for filters that deny.
TaskBlamed(c, s) ==
  /\ Failing(todo[c][s]) => at[c][s] >= 1 /\ Denied(c, s, at[c][s])
  /\ task[c][s] = "counting" => Failing(todo[c][s])

Blamed ==
  /\ \A c \in Calls : \A s \in Idx : TaskBlamed(c, s)
  /\ \A c \in Calls : Live(c) /\ HasFailed(c) => Guilty(c)

VerdictOK(c) ==
  /\ verdict[c] = "allow" => \A s \in Idx : Passed(c, s)
  /\ verdict[c] = "block" => ~Settings.HasLoaded \/ (Finished(c) /\ Guilty(c))

Judged == Awaited /\ Blamed /\ \A c \in Calls : VerdictOK(c)

LEMMA InitJudged == Init => Judged
<1> SUFFICES ASSUME Init PROVE Judged
  OBVIOUS
<1>1. Awaited
  BY InitAwaited
<1>2. Blamed
  BY Singletons DEF Init, Blamed, TaskBlamed, Live
<1> QED
  BY <1>1, <1>2 DEF Init, Judged, VerdictOK

\* What a task has answered is final, and the filters it has taken remain taken.
LEMMA AnswersRemain ==
  ASSUME Typed, [Next]_vars, NEW c \in Calls, NEW s \in Idx,
         task[c][s] \in Touching \cup {"done"}
  PROVE  /\ task'[c][s] \in Touching \cup {"done"}
         /\ task[c][s] = "done" => task'[c][s] = "done"
         /\ \A i : Denied(c, s, i)' <=> Denied(c, s, i)
         /\ at'[c][s] >= at[c][s]
<1>a. TaskTypes /\ Settings' = Settings
  BY SettingsConstant DEF Typed, TypeOK
<1>b. SUFFICES /\ task'[c][s] \in Touching \cup {"done"}
               /\ task[c][s] = "done" => task'[c][s] = "done"
               /\ InDoc'[c][s] = InDoc[c][s]
               /\ at'[c][s] >= at[c][s]
  BY <1>a DEF Denied, FiltersOf
<1>c. at[c][s] \in Nat
  BY <1>a DEF TaskTypes
<1>1. CASE TaskStep(c, s)
  <2>1. CASE Respond(c, s) \/ ReceiveBody(c, s) \/ Fail(c, s) \/ TerminateUnobserved(c, s)
    BY <2>1 DEF Respond, ReceiveBody, Fail, TerminateUnobserved, Touching
  <2>2. CASE NextFilter(c, s) \/ AppendReason(c, s)
    BY <1>a, <1>c, <2>2 DEF TaskTypes, NextFilter, AppendReason, Touching
  <2>3. CASE LoadFailCount(c, s) \/ StoreFailCount(c, s) \/ CountPass(c, s)
    BY <1>a, <1>c, <2>3 DEF TaskTypes, LoadFailCount, StoreFailCount, CountPass, Touching
  <2>4. CASE LoadChecksRemaining(c, s) \/ StoreChecksRemaining(c, s)
    BY <1>a, <1>c, <2>4
    DEF TaskTypes, LoadChecksRemaining, StoreChecksRemaining, Touching
  <2> QED
    BY <1>1, <2>1, <2>2, <2>3, <2>4 DEF TaskStep
<1>2. ASSUME NEW d \in Calls, NEW r \in Idx, TaskStep(d, r), d # c \/ r # s
      PROVE  task'[c][s] = task[c][s] /\ InDoc'[c][s] = InDoc[c][s]
             /\ at'[c][s] = at[c][s]
  BY <1>a, <1>2, OneTask
<1>3. ASSUME NEW d \in Calls, SendRequest(d)
      PROVE  task'[c][s] = task[c][s] /\ InDoc' = InDoc /\ at' = at
  <2>1. next[d] \in Idx /\ next[d] <= next[d]
    BY <1>3, SettingsType DEF SendRequest, Sending, Typed, TypeOK
  <2>2. task[d][next[d]] = "none"
    BY <1>3, <2>1 DEF Typed, TaskOK, SendRequest, Sending
  <2> QED
    BY <1>a, <1>3, <2>1, <2>2 DEF TaskTypes, SendRequest, Touching
<1>4. ASSUME NEW d \in Calls, Enter(d) \/ Proceed(d), ~SendRequest(d)
      PROVE  UNCHANGED taskVars
  BY <1>4
  DEF Enter, RefuseUnloaded, ThrowOutOfMemory, Begin, Proceed, SendThrows,
      SendWithoutClient, AllSent, SleepOnce, StopWaiting, Decide, Return
<1> QED
  BY <1>c, <1>1, <1>2, <1>3, <1>4 DEF Next, Rest, vars, taskVars

LEMMA GuiltRemains ==
  ASSUME Typed, [Next]_vars, NEW c \in Calls, Guilty(c)
  PROVE  Guilty(c)'
<1>1. PICK s \in Idx : /\ task[c][s] \in Touching \cup {"done"}
                       /\ \E i \in 1 .. at[c][s] : Denied(c, s, i)
  BY DEF Guilty
<1>2. PICK i \in 1 .. at[c][s] : Denied(c, s, i)
  BY <1>1
<1>3. at[c][s] \in Nat /\ at'[c][s] \in Nat /\ Idx' = Idx
  BY NextTyped, SettingsConstant DEF Typed, TypeOK, TaskTypes
<1>4. i \in 1 .. at'[c][s] /\ Denied(c, s, i)' /\ task'[c][s] \in Touching \cup {"done"}
  BY <1>1, <1>2, <1>3, AnswersRemain
<1> QED
  BY <1>3, <1>4 DEF Guilty

LEMMA PassedRemains ==
  ASSUME Typed, [Next]_vars, NEW c \in Calls, NEW s \in Idx, task[c][s] = "done"
  PROVE  task'[c][s] = "done" /\ (Passed(c, s)' <=> Passed(c, s))
<1>1. FiltersOf(s)' = FiltersOf(s)
  BY SettingsConstant
<1> QED
  BY <1>1, AnswersRemain DEF Passed

LEMMA TaskStepBlamed ==
  ASSUME Judged, NEW c \in Calls, NEW s \in Idx, TaskStep(c, s)
  PROVE  TaskBlamed(c, s)'
<1>a. /\ TaskTypes
      /\ TaskOK(c, s)
      /\ TaskBlamed(c, s)
      /\ UNCHANGED <<Settings, callVars>>
  BY TaskLeavesCalls DEF Judged, Blamed, Awaited, Recording, Typed, TypeOK
<1>b. ASSUME InDoc' = InDoc PROVE \A i : Denied(c, s, i)' <=> Denied(c, s, i)
  BY <1>a, <1>b DEF Denied, FiltersOf
<1>1. CASE Respond(c, s) \/ ReceiveBody(c, s) \/ Fail(c, s)
  <2>1. todo'[c][s] = <<>>
    BY <1>a, <1>1 DEF TaskOK, Touching, Respond, ReceiveBody, Fail
  <2>2. task'[c][s] # "counting"
    BY <1>a, <1>1 DEF TaskTypes, Respond, ReceiveBody, Fail
  <2> QED
    BY <2>1, <2>2, Singletons DEF TaskBlamed
<1>2. CASE TerminateUnobserved(c, s)
  BY <1>a, <1>b, <1>2 DEF TaskBlamed, TerminateUnobserved, taskVars
<1>3. CASE NextFilter(c, s)
  <2>1. PICK n \in Nat \ {0} : n = at[c][s] + 1
    BY <1>a DEF TaskTypes
  <2> DEFINE f == FiltersOf(s)[n]
             updates == Tally(f, InDoc[c][s][f.Path])
  <2>2. /\ at'[c][s] = n /\ todo'[c][s] = updates
        /\ task'[c][s] = "filtering" /\ InDoc' = InDoc
    BY <1>a, <1>3, <2>1 DEF TaskTypes, NextFilter
  <2>3. Failing(updates) => Denied(c, s, n)
    BY TallyDenies DEF Denied
  <2> HIDE DEF updates
  <2> QED
    BY <1>b, <2>1, <2>2, <2>3 DEF TaskBlamed
<1>4. CASE LoadFailCount(c, s)
  <2>1. Failing(todo[c][s])
    <3>1. todo[c][s] \in Seq(Causes) /\ todo[c][s] # <<>>
      BY <1>a, <1>4 DEF TaskTypes, LoadFailCount
    <3> QED
      BY <1>4, <3>1 DEF LoadFailCount, Failing
  <2> QED
    BY <1>a, <1>b, <1>4, <2>1 DEF TaskTypes, TaskBlamed, LoadFailCount
<1>5. CASE StoreFailCount(c, s) \/ CountPass(c, s)
  BY <1>a, <1>b, <1>5 DEF TaskTypes, TaskBlamed, StoreFailCount, CountPass
<1>6. CASE AppendReason(c, s)
  <2>1. Failing(Tail(todo[c][s])) => Failing(todo[c][s])
    <3>1. todo[c][s] \in Seq(Causes) /\ todo[c][s] # <<>>
      BY <1>a, <1>6 DEF TaskTypes, TaskOK, AppendReason
    <3>2. ASSUME NEW k \in DOMAIN Tail(todo[c][s])
          PROVE  /\ Tail(todo[c][s])[k] = todo[c][s][k + 1]
                 /\ k + 1 \in DOMAIN todo[c][s]
      BY <3>1
    <3> QED
      BY <3>2 DEF Failing
  <2>2. /\ task'[c][s] = "filtering"
        /\ todo'[c][s] = Tail(todo[c][s])
        /\ at' = at /\ InDoc' = InDoc
    BY <1>a, <1>6 DEF TaskTypes, AppendReason
  <2> QED
    BY <1>a, <1>b, <2>1, <2>2 DEF TaskBlamed
<1>7. CASE LoadChecksRemaining(c, s) \/ StoreChecksRemaining(c, s)
  BY <1>a, <1>b, <1>7
  DEF TaskTypes, TaskBlamed, LoadChecksRemaining, StoreChecksRemaining
<1> QED
  BY <1>1, <1>2, <1>3, <1>4, <1>5, <1>6, <1>7 DEF TaskStep

\* A counter that shows a failure shows one of its own call.
LEMMA FailuresHaveCause ==
  ASSUME Judged, [Next]_vars, NEW c \in Calls, Live(c)', HasFailed(c)'
  PROVE  Guilty(c)'
<1>a. /\ Typed
      /\ mem \in [Frames -> Counters] /\ frame \in [Calls -> Frames \cup {NoFrame}]
      /\ pc \in [Calls -> PcStates]
  BY DEF Judged, Awaited, Recording, Typed, TypeOK, CallTypes
<1>b. ASSUME Live(c), HasFailed(c) PROVE Guilty(c)'
  BY <1>a, <1>b, GuiltRemains DEF Judged, Blamed
<1>1. ASSUME NEW d \in Calls, NEW s \in Idx, TaskStep(d, s) PROVE Guilty(c)'
  <2>1. Live(c) /\ frame'[c] = frame[c] /\ frame[c] \in Frames
    BY <1>a, <1>1, TaskLeavesCalls DEF Typed, TypeOK, Framed, Live, callVars
  <2>2. CASE StoreFailCount(d, s) /\ d = c
    <3>1. task[c][s] = "counting"
      BY <2>2 DEF StoreFailCount
    <3>2. Failing(todo[c][s]) /\ at[c][s] \in Nat
      BY <1>a, <3>1 DEF Judged, Blamed, TaskBlamed, Typed, TypeOK, TaskTypes
    <3>3. at[c][s] \in 1 .. at[c][s] /\ Denied(c, s, at[c][s])
      BY <3>2 DEF Judged, Blamed, TaskBlamed
    <3>4. Guilty(c)
      BY <3>1, <3>3 DEF Guilty, Touching
    <3> QED
      BY <1>a, <3>4, GuiltRemains
  <2>3. CASE StoreFailCount(d, s) /\ d # c
    <3>1. Live(d)
      BY <2>3, TouchingIsLive DEF Judged, StoreFailCount, Touching
    <3>2. frame[d] # frame[c]
      BY <2>1, <2>3, <3>1 DEF Judged, Awaited, Recording, Alone
    <3> QED
      BY <1>a, <1>b, <2>1, <2>3, <3>2 DEF HasFailed, StoreFailCount
  <2>4. CASE StoreChecksRemaining(d, s)
    BY <1>a, <1>b, <2>1, <2>4 DEF HasFailed, StoreChecksRemaining, Counters
  <2>5. CASE UNCHANGED mem
    BY <1>b, <2>1, <2>5 DEF HasFailed
  <2> QED
    BY <1>1, <2>2, <2>3, <2>4, <2>5
    DEF TaskStep, Respond, ReceiveBody, Fail, TerminateUnobserved, NextFilter,
        LoadFailCount, CountPass, AppendReason, LoadChecksRemaining
<1>2. ASSUME NEW d \in Calls, Begin(d) PROVE Guilty(c)'
  <2>1. PICK f \in Frames :
          /\ FreeFrame(f)
          /\ frame' = [frame EXCEPT ![d] = f]
          /\ mem' = [mem EXCEPT ![f] = InitialCounters(f)]
    BY <1>2 DEF Begin
  <2>2. d # c
    BY <1>a, <2>1 DEF HasFailed, InitialCounters
  <2>3. Live(c) /\ frame'[c] = frame[c] /\ frame[c] # f
    BY <1>a, <1>2, <2>1, <2>2 DEF Begin, Live, FreeFrame
  <2> QED
    BY <1>a, <1>b, <2>1, <2>3 DEF HasFailed, Typed, Framed
<1>3. CASE UNCHANGED <<mem, frame>> /\ Live(c)
  BY <1>b, <1>3 DEF HasFailed
<1>4. ASSUME NEW d \in Calls, RefuseUnloaded(d) \/ ThrowOutOfMemory(d) \/ SendThrows(d)
                 \/ SendWithoutClient(d) \/ SendRequest(d)
      PROVE  Guilty(c)'
  BY <1>a, <1>3, <1>4
  DEF Live, RefuseUnloaded, ThrowOutOfMemory, SendThrows, SendWithoutClient,
      SendRequest, callVars
<1>5. ASSUME NEW d \in Calls, AllSent(d) \/ SleepOnce(d) \/ StopWaiting(d) \/ Decide(d)
                 \/ Return(d)
      PROVE  Guilty(c)'
  BY <1>a, <1>3, <1>5
  DEF Live, Sending, AllSent, SleepOnce, StopWaiting, Decide, Return
<1>6. CASE UNCHANGED vars
  BY <1>3, <1>6 DEF Live, vars, callVars
<1> QED
  BY <1>1, <1>2, <1>4, <1>5, <1>6 DEF Next, Enter, Proceed, Rest

LEMMA NextBlamed ==
  ASSUME Judged, [Next]_vars
  PROVE  Blamed'
<1>a. TaskTypes /\ Idx' = Idx /\ Settings' = Settings
  BY SettingsConstant DEF Judged, Awaited, Recording, Typed, TypeOK
<1>1. ASSUME NEW c \in Calls, NEW s \in Idx,
             todo'[c][s] = todo[c][s], at'[c][s] = at[c][s],
             InDoc'[c][s] = InDoc[c][s],
             task'[c][s] = task[c][s] \/ task'[c][s] = "requested"
      PROVE  TaskBlamed(c, s)'
  <2>1. TaskBlamed(c, s)
    BY DEF Judged, Blamed
  <2>2. \A i : Denied(c, s, i)' <=> Denied(c, s, i)
    BY <1>a, <1>1 DEF Denied, FiltersOf
  <2> QED
    BY <1>1, <2>1, <2>2 DEF TaskBlamed
<1>2. ASSUME NEW c \in Calls, NEW s \in Idx PROVE TaskBlamed(c, s)'
  <2>1. CASE TaskStep(c, s)
    BY <2>1, TaskStepBlamed
  <2>2. ASSUME NEW d \in Calls, NEW r \in Idx, TaskStep(d, r), d # c \/ r # s
        PROVE  TaskBlamed(c, s)'
    BY <1>a, <1>1, <2>2, OneTask
  <2>3. ASSUME NEW d \in Calls, SendRequest(d) PROVE TaskBlamed(c, s)'
    BY <1>a, <1>1, <2>3 DEF TaskTypes, SendRequest
  <2>4. CASE UNCHANGED taskVars
    BY <1>1, <2>4 DEF taskVars
  <2>5. ASSUME NEW d \in Calls, Enter(d) \/ Proceed(d), ~SendRequest(d)
        PROVE  UNCHANGED taskVars
    BY <2>5
    DEF Enter, RefuseUnloaded, ThrowOutOfMemory, Begin, Proceed, SendThrows,
        SendWithoutClient, AllSent, SleepOnce, StopWaiting, Decide, Return
  <2> QED
    BY <2>1, <2>2, <2>3, <2>4, <2>5 DEF Next, Rest, vars
<1> QED
  BY <1>a, <1>2, FailuresHaveCause DEF Blamed

\* What Decide finds: every task is done, and the counter tells whether one denied.
LEMMA DecideJudges ==
  ASSUME Judged, NEW c \in Calls, Decide(c)
  PROVE  /\ Finished(c) /\ Settings.HasLoaded /\ verdict[c] = "none"
         /\ mem[frame[c]].FailCount = 0 => \A s \in Idx : Passed(c, s)
         /\ mem[frame[c]].FailCount # 0 => Guilty(c)
<1>a. pc[c] = "deciding" /\ Live(c)
  BY DEF Decide, Live
<1>b. Finished(c) /\ Settings.HasLoaded /\ verdict[c] = "none"
  BY <1>a DEF Judged, Awaited, CallOK, Recording, Typed, TypeOK, CallTypes
<1>c. mem[frame[c]].FailCount \in Nat
  BY <1>a DEF Judged, Awaited, Recording, Typed, TypeOK, Framed, Counters
<1>1. ASSUME mem[frame[c]].FailCount = 0, NEW s \in Idx PROVE Passed(c, s)
  <2>1. /\ task[c][s] = "done"
        /\ TaskOK(c, s) /\ TaskRecorded(c, s)
    BY <1>a, <1>b DEF Finished, Judged, Awaited, Recording, Recorded, Typed
  <2>2. at[c][s] = Len(FiltersOf(s)) /\ todo[c][s] = <<>>
    BY <2>1 DEF TaskOK
  <2>3. \A i \in 1 .. at[c][s] : ~Denied(c, s, i)
    BY <1>1, <2>1, <2>2, Singletons DEF TaskRecorded, HasFailed, Touching
  <2>4. DOMAIN FiltersOf(s) = 1 .. at[c][s]
    BY <2>2, SettingsType DEF Judged, Awaited, Recording, Typed, TypeOK
  <2> QED
    BY <2>1, <2>3, <2>4 DEF Passed
<1>2. ASSUME mem[frame[c]].FailCount # 0 PROVE Guilty(c)
  BY <1>a, <1>c, <1>2 DEF Judged, Blamed, HasFailed
<1> QED
  BY <1>b, <1>1, <1>2

\* The only steps that set a verdict.
LEMMA VerdictSetters ==
  ASSUME [Next]_vars, Typed, NEW c \in Calls, verdict'[c] # verdict[c]
  PROVE  /\ Decide(c) \/ RefuseUnloaded(c)
         /\ verdict' = [verdict EXCEPT ![c] =
              IF Decide(c) THEN Judge(mem[frame[c]].FailCount) ELSE "block"]
<1>a. CallTypes
  BY DEF Typed, TypeOK
<1>1. ASSUME NEW d \in Calls, Enter(d) PROVE RefuseUnloaded(d) /\ d = c
  BY <1>a, <1>1 DEF CallTypes, Enter, RefuseUnloaded, ThrowOutOfMemory, Begin
<1>2. ASSUME NEW d \in Calls, Proceed(d) PROVE Decide(d) /\ d = c
  BY <1>a, <1>2
  DEF CallTypes, Proceed, SendThrows, SendWithoutClient, SendRequest, AllSent,
      SleepOnce, StopWaiting, Decide, Return, callVars
<1>3. ASSUME NEW d \in Calls, NEW s \in Idx, TaskStep(d, s) PROVE FALSE
  BY <1>3, TaskLeavesCalls DEF Typed, TypeOK, callVars
<1>4. Decide(c) \/ RefuseUnloaded(c)
  BY <1>1, <1>2, <1>3 DEF Next, Rest, vars, callVars
<1>5. CASE Decide(c)
  BY <1>5 DEF Decide
<1>6. CASE RefuseUnloaded(c)
  BY <1>6 DEF RefuseUnloaded, Decide
<1> QED
  BY <1>4, <1>5, <1>6

LEMMA NextJudged ==
  ASSUME Gentle
  PROVE  Judged /\ [Next]_vars => Judged'
<1> SUFFICES ASSUME Judged, [Next]_vars PROVE Judged'
  OBVIOUS
<1>a. Typed /\ Awaited' /\ Blamed'
  BY NextAwaited, NextBlamed DEF Judged, Awaited, Recording
<1>b. Settings' = Settings /\ Idx' = Idx
  BY SettingsConstant
<1>1. ASSUME NEW c \in Calls PROVE VerdictOK(c)'
  <2>1. CASE verdict'[c] = verdict[c]
    <3>1. VerdictOK(c)
      BY DEF Judged
    <3>2. Finished(c) => Finished(c)'
      BY <1>a, <1>b, AnswersRemain DEF Finished, Touching
    <3>3. \A s \in Idx : Passed(c, s) => Passed(c, s)'
      BY <1>a, PassedRemains DEF Passed
    <3>4. Guilty(c) => Guilty(c)'
      BY <1>a, GuiltRemains
    <3> QED
      BY <1>b, <2>1, <3>1, <3>2, <3>3, <3>4 DEF VerdictOK
  <2>2. CASE verdict'[c] # verdict[c] /\ RefuseUnloaded(c)
    <3>1. verdict'[c] = "block" /\ ~Settings.HasLoaded
      BY <1>a, <2>2 DEF RefuseUnloaded, Typed, TypeOK, CallTypes
    <3> QED
      BY <1>b, <3>1 DEF VerdictOK
  <2>3. CASE verdict'[c] # verdict[c] /\ Decide(c)
    <3>1. /\ verdict'[c] = Judge(mem[frame[c]].FailCount)
          /\ UNCHANGED taskVars
      BY <1>a, <2>3 DEF Decide, Typed, TypeOK, CallTypes
    <3>2. /\ Finished(c)' <=> Finished(c)
          /\ Guilty(c)' <=> Guilty(c)
          /\ \A s : Passed(c, s)' <=> Passed(c, s)
      BY <1>b, <3>1 DEF Finished, Guilty, Passed, Denied, FiltersOf, taskVars
    <3>3. /\ verdict'[c] = "allow" => mem[frame[c]].FailCount = 0
          /\ verdict'[c] = "block" => mem[frame[c]].FailCount # 0
      BY <3>1, CheckAssumption DEF Judge, OuterX
    <3> QED
      BY <1>b, <2>3, <3>2, <3>3, DecideJudges DEF VerdictOK
  <2> QED
    BY <1>a, <2>1, <2>2, <2>3, VerdictSetters
<1> QED
  BY <1>a, <1>1 DEF Judged

\* IsIPAllowed returns true only after every configured server has answered this very
\* call and every filter permits the answer: no race lets a denial be lost.
THEOREM AllowedMeansApproved ==
  ASSUME Gentle
  PROVE  Spec => []AllowedByEveryServer
<1>1. Judged => AllowedByEveryServer
  BY DEF Judged, VerdictOK, AllowedByEveryServer
<1> QED
  BY <1>1, InitJudged, NextJudged, PTL DEF Spec

\* IsIPAllowed returns false only without settings or because a filter that has been
\* evaluated denies what a server answered to this very call: no other call can be to blame.
THEOREM BlockedMeansDenied ==
  ASSUME Gentle
  PROVE  Spec => []BlockedWithCause
<1>1. Judged => BlockedWithCause
  BY DEF Judged, VerdictOK, Guilty, BlockedWithCause
<1> QED
  BY <1>1, InitJudged, NextJudged, PTL DEF Spec

-----------------------------------------------------------------------------
(* The calls implement FailClosed.                                         *)

\* What FailClosed calls the opinion of server s on call c.
Opinion(c, s) ==
  IF task[c][s] # "done" THEN "pending"
  ELSE IF Passed(c, s) THEN "approves" ELSE "disapproves"

Opinions == [c \in Calls |-> [s \in Idx |-> Opinion(c, s)]]

\* Opinions, once given, do not change.
LEMMA OpinionRemains ==
  ASSUME Typed, [Next]_vars, NEW c \in Calls, NEW s \in Idx,
         task[c][s] = "done" \/ task'[c][s] # "done"
  PROVE  Opinion(c, s)' = Opinion(c, s)
<1>1. CASE task[c][s] = "done"
  BY <1>1, PassedRemains DEF Opinion
<1>2. CASE task[c][s] # "done" /\ task'[c][s] # "done"
  BY <1>2 DEF Opinion
<1> QED
  BY <1>1, <1>2

\* Only the last step of a task gives an opinion.
LEMMA OpinionGiven ==
  ASSUME Typed, [Next]_vars, NEW c \in Calls, NEW s \in Idx,
         task[c][s] # "done", task'[c][s] = "done"
  PROVE  StoreChecksRemaining(c, s)
<1>a. TaskTypes
  BY DEF Typed, TypeOK
<1>1. CASE TaskStep(c, s)
  <2>1. CASE Respond(c, s) \/ ReceiveBody(c, s) \/ Fail(c, s) \/ TerminateUnobserved(c, s)
    BY <1>a, <2>1
    DEF TaskTypes, Respond, ReceiveBody, Fail, TerminateUnobserved, taskVars
  <2>2. CASE NextFilter(c, s) \/ AppendReason(c, s) \/ CountPass(c, s)
    BY <1>a, <2>2 DEF TaskTypes, NextFilter, AppendReason, CountPass
  <2>3. CASE LoadFailCount(c, s) \/ StoreFailCount(c, s) \/ LoadChecksRemaining(c, s)
    BY <1>a, <2>3 DEF TaskTypes, LoadFailCount, StoreFailCount, LoadChecksRemaining
  <2> QED
    BY <1>1, <2>1, <2>2, <2>3 DEF TaskStep
<1>2. ASSUME NEW d \in Calls, NEW r \in Idx, TaskStep(d, r), d # c \/ r # s
      PROVE  FALSE
  BY <1>a, <1>2, OneTask
<1>3. ASSUME NEW d \in Calls, SendRequest(d) PROVE FALSE
  BY <1>a, <1>3 DEF TaskTypes, SendRequest
<1>4. ASSUME NEW d \in Calls, Enter(d) \/ Proceed(d), ~SendRequest(d) PROVE FALSE
  BY <1>4
  DEF Enter, RefuseUnloaded, ThrowOutOfMemory, Begin, Proceed, SendThrows,
      SendWithoutClient, AllSent, SleepOnce, StopWaiting, Decide, Return, taskVars
<1> QED
  BY <1>1, <1>2, <1>3, <1>4 DEF Next, Rest, vars, taskVars

\* In the environment its authors had in mind, the plugin keeps its promise, with every
\* thread, counter and pointer in it.
THEOREM PromiseImplemented ==
  ASSUME Gentle
  PROVE  Spec => PromiseKept
<1>1. Init => Promise!Init
  <2> SUFFICES ASSUME Init PROVE Promise!Init
    OBVIOUS
  <2>1. Settings.HasLoaded \in BOOLEAN
    BY CheckAssumption DEF Init, SettingsBase
  <2> QED
    BY <2>1 DEF Init, Promise!Init
<1>2. Judged /\ [Next]_vars => [Promise!Next]_Promise!vars
  <2> SUFFICES ASSUME Judged, [Next]_vars PROVE [Promise!Next]_Promise!vars
    OBVIOUS
  <2>a. Typed /\ Idx' = Idx /\ Settings' = Settings
    BY SettingsConstant DEF Judged, Awaited, Recording
  <2>1. ASSUME NEW c \in Calls, verdict'[c] # verdict[c]
        PROVE  Promise!Next
    <3>1. /\ Decide(c) \/ RefuseUnloaded(c)
          /\ verdict' = [verdict EXCEPT ![c] =
               IF Decide(c) THEN Judge(mem[frame[c]].FailCount) ELSE "block"]
      BY <2>a, <2>1, VerdictSetters
    <3>2. UNCHANGED taskVars
      BY <3>1 DEF Decide, RefuseUnloaded
    <3>3. Opinions' = Opinions
      BY <2>a, <3>2
      DEF Opinions, Opinion, Passed, Denied, FiltersOf, taskVars
    <3>4. CASE Decide(c) /\ mem[frame[c]].FailCount = 0
      <4>1. verdict' = [verdict EXCEPT ![c] = "allow"]
        <5>1. Judge(mem[frame[c]].FailCount) = "allow"
          BY <3>4, CheckAssumption DEF Judge, OuterX
        <5> QED
          BY <3>4, <5>1 DEF Decide
      <4>2. \A s \in Idx : Opinions[c][s] = "approves"
        BY <3>4, DecideJudges DEF Opinions, Opinion, Finished
      <4>3. Promise!Allow(c)
        BY <2>a, <3>3, <3>4, <4>1, <4>2, DecideJudges
        DEF Promise!Allow, Opinions, Opinion
      <4> QED
        BY <4>3 DEF Promise!Next
    <3>5. CASE Decide(c) /\ mem[frame[c]].FailCount # 0
      <4>1. verdict' = [verdict EXCEPT ![c] = "block"]
        BY <3>1, <3>5 DEF Judge
      <4>2. PICK s \in Idx : \E i \in 1 .. at[c][s] : Denied(c, s, i)
        BY <3>5, DecideJudges DEF Guilty
      <4>3. task[c][s] = "done" /\ DOMAIN FiltersOf(s) = 1 .. at[c][s]
        BY <2>a, <3>5, DecideJudges, SettingsType
        DEF Finished, Typed, TypeOK, TaskOK
      <4>4. Opinions[c][s] = "disapproves"
        BY <4>2, <4>3 DEF Opinions, Opinion, Passed
      <4>5. Promise!Block(c)
        BY <2>a, <3>3, <3>5, <4>1, <4>4, DecideJudges
        DEF Promise!Block, Opinions, Opinion
      <4> QED
        BY <4>5 DEF Promise!Next
    <3>6. CASE RefuseUnloaded(c)
      <4>1. verdict' = [verdict EXCEPT ![c] = "block"] /\ ~Settings.HasLoaded
        BY <3>6 DEF RefuseUnloaded
      <4>2. verdict[c] = "none"
        <5>1. pc[c] = "idle" /\ CallOK(c)
          BY <3>6 DEF RefuseUnloaded, Judged, Awaited
        <5> QED
          BY <5>1 DEF CallOK
      <4>3. Promise!Block(c)
        BY <2>a, <3>3, <4>1, <4>2 DEF Promise!Block, Opinions, Opinion
      <4> QED
        BY <4>3 DEF Promise!Next
    <3> QED
      BY <3>1, <3>4, <3>5, <3>6
  <2>2. ASSUME NEW c \in Calls, NEW s \in Idx, task[c][s] # "done", task'[c][s] = "done"
        PROVE  Promise!Next
    <3>1. StoreChecksRemaining(c, s)
      BY <2>a, <2>2, OpinionGiven
    <3>2. UNCHANGED <<Settings, verdict>>
      BY <3>1 DEF StoreChecksRemaining, callVars
    <3>3. verdict[c] = "none"
      <4>1. ~Finished(c) /\ task[c][s] = "finishing"
        BY <2>2, <3>1 DEF Finished, StoreChecksRemaining
      <4>2. Live(c) /\ CallOK(c)
        BY <4>1, TouchingIsLive DEF Judged, Awaited, Touching
      <4> QED
        BY <4>1, <4>2 DEF CallOK, Live
    <3>4. ASSUME NEW d \in Calls, NEW r \in Idx, d # c \/ r # s
          PROVE  Opinion(d, r)' = Opinion(d, r)
      <4>1. task'[d][r] = task[d][r]
        BY <2>a, <3>1, <3>4, OneTask DEF TaskStep, Typed, TypeOK
      <4> QED
        BY <2>a, <4>1, OpinionRemains
    <3>5. PICK o \in {"approves", "disapproves"} : Opinion(c, s)' = o
      BY <2>2 DEF Opinion
    <3>6. Opinion(c, s) = "pending"
      BY <2>2 DEF Opinion
    <3>7. Opinions' = [Opinions EXCEPT ![c][s] = o]
      BY <2>a, <3>4, <3>5 DEF Opinions
    <3>8. Promise!Opine(c, s)
      BY <2>a, <3>2, <3>3, <3>5, <3>6, <3>7 DEF Promise!Opine, Opinions, Opinion
    <3> QED
      BY <3>8 DEF Promise!Next
  <2>3. CASE /\ \A c \in Calls : verdict'[c] = verdict[c]
             /\ \A c \in Calls, s \in Idx : task[c][s] = "done" \/ task'[c][s] # "done"
    <3>1. verdict' = verdict
      BY <2>3, NextTyped DEF Judged, Awaited, Recording, Typed, TypeOK, CallTypes
    <3>2. Opinions' = Opinions
      BY <2>a, <2>3, OpinionRemains DEF Opinions
    <3> QED
      BY <2>a, <3>1, <3>2 DEF Promise!vars, Opinions, Opinion
  <2> QED
    BY <2>1, <2>2, <2>3
<1> QED
  BY <1>1, <1>2, InitJudged, NextJudged, PTL DEF Spec, PromiseKept, Promise!Spec
=============================================================================
