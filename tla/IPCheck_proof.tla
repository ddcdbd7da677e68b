--------------------------- MODULE IPCheck_proof ---------------------------
(***************************************************************************)
(* Proofs about IPCheck that hold in every environment: what a filter      *)
(* counts, the types of the variables, and that a failure which a call has *)
(* counted is never undone.                                                *)
(***************************************************************************)
EXTENDS IPCheck, TLAPS

-----------------------------------------------------------------------------
(* What a filter counts.                                                   *)

\* Some update still to be made counts a failure.
Failing(updates) == \E k \in DOMAIN updates : updates[k] \in FailCauses

LEMMA Singletons ==
  /\ <<>> \in Seq(Causes) /\ ~Failing(<<>>)
  /\ \A x \in Causes : <<x>> \in Seq(Causes) /\ (Failing(<<x>>) <=> x \in FailCauses)
BY DEF Failing

LEMMA FailingConcat ==
  ASSUME NEW s \in Seq(Causes), NEW t \in Seq(Causes)
  PROVE  /\ s \o t \in Seq(Causes)
         /\ Failing(s \o t) <=> Failing(s) \/ Failing(t)
<1>1. s \o t \in Seq(Causes)
  OBVIOUS
<1>2. ASSUME Failing(s \o t) PROVE Failing(s) \/ Failing(t)
  BY <1>2 DEF Failing
<1>3. ASSUME Failing(s) PROVE Failing(s \o t)
  BY <1>3 DEF Failing
<1>4. ASSUME Failing(t) PROVE Failing(s \o t)
  <2>1. PICK k \in 1 .. Len(t) : t[k] \in FailCauses
    BY <1>4 DEF Failing
  <2>2. (s \o t)[Len(s) + k] = t[k] /\ Len(s) + k \in DOMAIN (s \o t)
    BY <2>1
  <2> QED
    BY <2>1, <2>2 DEF Failing
<1> QED
  BY <1>1, <1>2, <1>3, <1>4

\* The filter loop makes updates of the four kinds, and counts a failure exactly for
\* the values that the reference definition of a filter denies.
THEOREM TallyDenies ==
  ASSUME NEW f, NEW value
  PROVE  /\ Tally(f, value) \in Seq(Causes)
         /\ Failing(Tally(f, value)) <=> ~Permits(f, value)
<1> DEFINE none == IF value \in f.AllowNone THEN <<"blocked">> ELSE <<>>
           only == IF value \in f.AllowOnly THEN <<"allowed">>
                   ELSE IF f.AllowOnly # {} THEN <<"not_allowed">> ELSE <<>>
<1>0. /\ FailCauses \subseteq Causes
      /\ "not_found" \in FailCauses /\ "blocked" \in FailCauses
      /\ "not_allowed" \in FailCauses
      /\ "allowed" \in Causes /\ "allowed" \notin FailCauses
  BY DEF Causes, FailCauses
<1>1. CASE value = NullText
  BY <1>0, <1>1, Singletons DEF Tally, Permits
<1>2. CASE value # NullText
  <2>1. Tally(f, value) = none \o only
    BY <1>2 DEF Tally
  <2>2. none \in Seq(Causes) /\ (Failing(none) <=> value \in f.AllowNone)
    <3>1. CASE value \in f.AllowNone
      BY <3>1, <1>0, Singletons
    <3>2. CASE value \notin f.AllowNone
      BY <3>2, Singletons
    <3> QED
      BY <3>1, <3>2
  <2>3. /\ only \in Seq(Causes)
        /\ Failing(only) <=> value \notin f.AllowOnly /\ f.AllowOnly # {}
    <3>1. CASE value \in f.AllowOnly
      BY <3>1, <1>0, Singletons
    <3>2. CASE value \notin f.AllowOnly /\ f.AllowOnly # {}
      BY <3>2, <1>0, Singletons
    <3>3. CASE f.AllowOnly = {}
      BY <3>3, Singletons
    <3> QED
      BY <3>1, <3>2, <3>3
  <2> HIDE DEF none, only
  <2>4. /\ none \o only \in Seq(Causes)
        /\ Failing(none \o only) <=> Failing(none) \/ Failing(only)
    BY <2>2, <2>3, FailingConcat
  <2> QED
    BY <1>2, <2>1, <2>2, <2>3, <2>4 DEF Permits
<1> QED
  BY <1>1, <1>2

-----------------------------------------------------------------------------
(* Types.                                                                  *)

\* What one task may be in the middle of: filters are evaluated against a document
\* that has arrived, each update still to be made is of the filter last taken, and a
\* pending increment has read a count of failures.
TaskOK(c, s) ==
  /\ pc[c] = "idle" => task[c][s] = "none"
  /\ pc[c] = "sending" /\ next[c] <= s => task[c][s] = "none"
  /\ task[c][s] # "none" => frame[c] \in Frames
  /\ task[c][s] \notin Touching \cup {"done"} => at[c][s] = 0 /\ todo[c][s] = <<>>
  /\ task[c][s] \in Touching \cup {"done"} => InDoc[c][s] \in Docs
  /\ at[c][s] <= Len(FiltersOf(s))
  /\ task[c][s] = "counting" => reg[c][s] \in Nat
  /\ task[c][s] \in {"counting", "appending"} => todo[c][s] # <<>>
  /\ task[c][s] \in {"finishing", "done"} =>
       at[c][s] = Len(FiltersOf(s)) /\ todo[c][s] = <<>>

Framed == \A c \in Calls : Live(c) => frame[c] \in Frames

Typed == TypeOK /\ Framed /\ \A c \in Calls : \A s \in Idx : TaskOK(c, s)

LEMMA SettingsType ==
  ASSUME Settings \in SettingsSpace
  PROVE  /\ Settings.Servers \in Seq(Server)
         /\ Len(Settings.Servers) \in Nat
         /\ Idx = 1 .. Len(Settings.Servers)
         /\ \A s \in Idx : FiltersOf(s) \in Seq(Filter) /\ Len(FiltersOf(s)) \in Nat
<1>1. Settings \in SettingsBase
  BY CheckAssumption
<1>2. Settings.Servers \in Seq(Server)
  BY <1>1 DEF SettingsBase
<1>3. /\ Len(Settings.Servers) \in Nat
      /\ Idx = 1 .. Len(Settings.Servers)
  BY <1>2 DEF Idx
<1>4. \A s \in Idx : Settings.Servers[s] \in Server
  BY <1>2, <1>3
<1>5. \A s \in Idx : FiltersOf(s) \in Seq(Filter)
  BY <1>4 DEF Server, FiltersOf
<1> QED
  BY <1>2, <1>3, <1>5

LEMMA InitTyped == Init => Typed
<1> SUFFICES ASSUME Init PROVE Typed
  OBVIOUS
<1>1. Settings \in SettingsSpace
  BY DEF Init
<1>2. TypeOK
  BY <1>1, SettingsType, CheckAssumption
  DEF Init, TypeOK, CallTypes, TaskTypes, PcStates, TaskStates, Counters
<1>3. Framed
  BY DEF Init, Framed, Live
<1>4. \A c \in Calls : \A s \in Idx : TaskOK(c, s)
  BY <1>1, SettingsType DEF Init, TaskOK, Touching
<1> QED
  BY <1>2, <1>3, <1>4 DEF Typed

\* Nothing writes the settings.
LEMMA SettingsConstant ==
  ASSUME [Next]_vars
  PROVE  /\ Settings' = Settings
         /\ Idx' = Idx
         /\ \A s : FiltersOf(s)' = FiltersOf(s)
<1>1. ASSUME NEW c \in Calls, Enter(c) \/ Proceed(c) PROVE Settings' = Settings
  BY <1>1 DEF Enter, RefuseUnloaded, ThrowOutOfMemory, Begin, Proceed, SendThrows,
              SendWithoutClient, SendRequest, AllSent, SleepOnce, StopWaiting,
              Decide, Return
<1>2. ASSUME NEW c \in Calls, NEW s \in Idx, TaskStep(c, s)
      PROVE  Settings' = Settings
  BY <1>2 DEF TaskStep, Respond, ReceiveBody, Fail, TerminateUnobserved, NextFilter,
              LoadFailCount, StoreFailCount, CountPass, AppendReason,
              LoadChecksRemaining, StoreChecksRemaining
<1>3. Settings' = Settings
  BY <1>1, <1>2 DEF Next, vars, Rest
<1> QED
  BY <1>3 DEF Idx, FiltersOf

\* The types of the variables that a step of the other side leaves alone.
LEMMA CallTypesKept ==
  ASSUME CallTypes, Settings' = Settings, UNCHANGED callVars
  PROVE  CallTypes'
BY DEF CallTypes, callVars

LEMMA TaskTypesKept ==
  ASSUME TaskTypes, Idx' = Idx, UNCHANGED taskVars
  PROVE  TaskTypes'
BY DEF TaskTypes, taskVars

\* A caller that makes no request leaves every task as it is.
LEMMA CallerTyped ==
  ASSUME Typed, Settings' = Settings, running' \in BOOLEAN,
         mem' \in [Frames -> Counters], CallTypes', UNCHANGED <<ip, next, taskVars>>,
         \A d \in Calls :
           /\ Live(d)' => frame'[d] \in Frames
           /\ pc'[d] = "idle" => pc[d] = "idle"
           /\ pc'[d] = "sending" => pc[d] \in {"idle", "sending"}
           /\ frame'[d] = frame[d] \/ frame'[d] \in Frames
  PROVE  Typed'
<1>1. Idx' = Idx /\ \A s : FiltersOf(s)' = FiltersOf(s)
  BY DEF Idx, FiltersOf
<1>2. TypeOK'
  BY <1>1, TaskTypesKept DEF Typed, TypeOK
<1>3. \A c \in Calls : \A s \in Idx : TaskOK(c, s)'
  BY <1>1 DEF Typed, TaskOK, taskVars
<1> QED
  BY <1>1, <1>2, <1>3 DEF Typed, Framed

\* A step of one task leaves what the other tasks keep as it is.
LEMMA OneTask ==
  ASSUME TaskTypes, NEW c \in Calls, NEW s \in Idx, TaskStep(c, s),
         NEW d \in Calls, NEW r \in Idx, d # c \/ r # s
  PROVE  /\ task'[d][r] = task[d][r]
         /\ at'[d][r] = at[d][r]
         /\ todo'[d][r] = todo[d][r]
         /\ reg'[d][r] = reg[d][r]
         /\ InDoc'[d][r] = InDoc[d][r]
<1>1. CASE Respond(c, s) \/ Fail(c, s) \/ TerminateUnobserved(c, s)
  BY <1>1 DEF TaskTypes, Respond, Fail, TerminateUnobserved, taskVars
<1>2. CASE ReceiveBody(c, s)
  BY <1>2 DEF TaskTypes, ReceiveBody
<1>3. CASE NextFilter(c, s) \/ AppendReason(c, s)
  BY <1>3 DEF TaskTypes, NextFilter, AppendReason
<1>4. CASE LoadFailCount(c, s) \/ LoadChecksRemaining(c, s)
  BY <1>4 DEF TaskTypes, LoadFailCount, LoadChecksRemaining
<1>5. CASE StoreFailCount(c, s) \/ CountPass(c, s) \/ StoreChecksRemaining(c, s)
  BY <1>5 DEF TaskTypes, StoreFailCount, CountPass, StoreChecksRemaining
<1> QED
  BY <1>1, <1>2, <1>3, <1>4, <1>5 DEF TaskStep

\* A task writes nothing that belongs to the caller, its counters excepted.
LEMMA TaskLeavesCalls ==
  ASSUME NEW c \in Calls, NEW s \in Idx, TaskStep(c, s), running \in BOOLEAN
  PROVE  running' \in BOOLEAN /\ UNCHANGED <<Settings, ip, callVars>>
BY DEF TaskStep, Respond, ReceiveBody, Fail, TerminateUnobserved, NextFilter,
       LoadFailCount, StoreFailCount, CountPass, AppendReason, LoadChecksRemaining,
       StoreChecksRemaining, Survival

LEMMA TaskTyped ==
  ASSUME Typed, NEW c \in Calls, NEW s \in Idx, TaskStep(c, s),
         TaskTypes', mem' \in [Frames -> Counters], TaskOK(c, s)'
  PROVE  Typed'
<1>1. UNCHANGED <<Settings, ip, callVars>> /\ running' \in BOOLEAN
  BY TaskLeavesCalls DEF Typed, TypeOK
<1>2. Idx' = Idx /\ \A r : FiltersOf(r)' = FiltersOf(r)
  BY <1>1 DEF Idx, FiltersOf
<1>3. TypeOK'
  BY <1>1, CallTypesKept DEF Typed, TypeOK
<1>4. ASSUME NEW d \in Calls, NEW r \in Idx, d # c \/ r # s PROVE TaskOK(d, r)'
  BY <1>1, <1>2, <1>4, OneTask DEF Typed, TypeOK, TaskOK, callVars
<1>5. Framed'
  BY <1>1 DEF Typed, Framed, Live, callVars
<1> QED
  BY <1>2, <1>3, <1>4, <1>5 DEF Typed

LEMMA EnterTyped ==
  ASSUME Typed, NEW c \in Calls, Enter(c)
  PROVE  Typed'
<1>1. CASE RefuseUnloaded(c)
  <2>1. CallTypes'
    BY <1>1 DEF Typed, TypeOK, CallTypes, PcStates, RefuseUnloaded
  <2> QED
    BY <1>1, <2>1, CallerTyped DEF Typed, TypeOK, CallTypes, Framed, Live, RefuseUnloaded
<1>2. CASE ThrowOutOfMemory(c)
  <2>1. CallTypes'
    BY <1>2 DEF Typed, TypeOK, CallTypes, PcStates, ThrowOutOfMemory
  <2> QED
    BY <1>2, <2>1, CallerTyped DEF Typed, TypeOK, CallTypes, Framed, Live, ThrowOutOfMemory
<1>3. CASE Begin(c)
  <2>1. CallTypes'
    BY <1>3 DEF Typed, TypeOK, CallTypes, PcStates, Begin
  <2>2. mem' \in [Frames -> Counters]
    BY <1>3, SettingsType DEF Typed, TypeOK, Begin, InitialCounters, Counters
  <2> QED
    BY <1>3, <2>1, <2>2, CallerTyped DEF Typed, TypeOK, CallTypes, Framed, Live, Begin
<1> QED
  BY <1>1, <1>2, <1>3 DEF Enter

LEMMA ProceedTyped ==
  ASSUME Typed, NEW c \in Calls, Proceed(c)
  PROVE  Typed'
<1>0. MaxPolls \in Nat \ {0}
  BY CheckAssumption
<1>1. CASE SendThrows(c)
  <2>1. CallTypes'
    BY <1>1 DEF Typed, TypeOK, CallTypes, PcStates, SendThrows
  <2> QED
    BY <1>1, <2>1, CallerTyped
    DEF Typed, TypeOK, CallTypes, Framed, Live, SendThrows
<1>2. CASE SendWithoutClient(c)
  <2>1. CallTypes'
    BY <1>2, CallTypesKept DEF Typed, TypeOK, SendWithoutClient
  <2> QED
    BY <1>2, <2>1, CallerTyped
    DEF Typed, TypeOK, CallTypes, Framed, Live, SendWithoutClient, callVars
<1>3. CASE SendRequest(c)
  <2>1. /\ Idx' = Idx /\ \A s : FiltersOf(s)' = FiltersOf(s)
        /\ next[c] \in Idx
    BY <1>3 DEF SendRequest, Sending, Idx, FiltersOf
  <2>2. \A d \in Calls, r \in Idx :
          task'[d][r] = IF d = c /\ r = next[c] THEN "requested" ELSE task[d][r]
    BY <1>3, <2>1 DEF Typed, TypeOK, TaskTypes, SendRequest
  <2>3. CallTypes'
    BY <1>3, <2>1, SettingsType DEF Typed, TypeOK, CallTypes, SendRequest
  <2>4. TaskTypes'
    BY <1>3, <2>1 DEF Typed, TypeOK, TaskTypes, TaskStates, SendRequest
  <2>5. TypeOK'
    BY <1>3, <2>3, <2>4 DEF Typed, TypeOK, SendRequest
  <2>6. ASSUME NEW d \in Calls, NEW r \in Idx PROVE TaskOK(d, r)'
    <3>1. CASE d = c /\ r = next[c]
      BY <1>3, <2>1, <2>2, <2>3, <3>1, SettingsType
      DEF Typed, TypeOK, CallTypes, Framed, TaskOK, Live, Touching, Sending, SendRequest
    <3>2. CASE d # c \/ r # next[c]
      <4>1. task'[d][r] = task[d][r] /\ TaskOK(d, r)
        BY <2>2, <3>2 DEF Typed
      <4>2. next'[d] <= r => next[d] <= r
        BY <1>3, <2>1, SettingsType DEF Typed, TypeOK, CallTypes, SendRequest
      <4> QED
        BY <1>3, <2>1, <4>1, <4>2 DEF TaskOK, SendRequest
    <3> QED
      BY <3>1, <3>2
  <2> QED
    BY <1>3, <2>1, <2>5, <2>6 DEF Typed, Framed, Live, SendRequest
<1>4. CASE AllSent(c)
  <2>1. CallTypes'
    BY <1>4 DEF Typed, TypeOK, CallTypes, PcStates, AllSent
  <2> QED
    BY <1>4, <2>1, CallerTyped DEF Typed, TypeOK, CallTypes, Framed, Live, AllSent
<1>5. CASE SleepOnce(c)
  <2>1. CallTypes'
    BY <1>0, <1>5 DEF Typed, TypeOK, CallTypes, SleepOnce, Counted
  <2> QED
    BY <1>5, <2>1, CallerTyped DEF Typed, TypeOK, CallTypes, Framed, Live, SleepOnce
<1>6. CASE StopWaiting(c)
  <2>1. CallTypes'
    BY <1>6 DEF Typed, TypeOK, CallTypes, PcStates, StopWaiting
  <2> QED
    BY <1>6, <2>1, CallerTyped
    DEF Typed, TypeOK, CallTypes, Framed, Live, StopWaiting
<1>7. CASE Decide(c)
  <2>1. CallTypes'
    BY <1>7 DEF Typed, TypeOK, CallTypes, PcStates, Decide, Judge
  <2> QED
    BY <1>7, <2>1, CallerTyped DEF Typed, TypeOK, CallTypes, Framed, Live, Decide
<1>8. CASE Return(c)
  <2>1. CallTypes'
    BY <1>8 DEF Typed, TypeOK, CallTypes, PcStates, Return
  <2> QED
    BY <1>8, <2>1, CallerTyped DEF Typed, TypeOK, CallTypes, Framed, Live, Return
<1> QED
  BY <1>1, <1>2, <1>3, <1>4, <1>5, <1>6, <1>7, <1>8 DEF Proceed

LEMMA TaskStepTyped ==
  ASSUME Typed, NEW c \in Calls, NEW s \in Idx, TaskStep(c, s)
  PROVE  Typed'
<1>a. /\ TaskTypes
      /\ TaskOK(c, s)
      /\ mem \in [Frames -> Counters]
  BY DEF Typed, TypeOK
<1>b. /\ Idx' = Idx /\ \A r : FiltersOf(r)' = FiltersOf(r)
      /\ pc' = pc /\ frame' = frame /\ next' = next
  BY TaskLeavesCalls DEF Typed, TypeOK, callVars, Idx, FiltersOf
<1>1. CASE Respond(c, s)
  <2>1. TaskTypes' /\ mem' \in [Frames -> Counters]
    BY <1>a, <1>b, <1>1 DEF TaskTypes, TaskStates, Respond
  <2>2. TaskOK(c, s)'
    BY <1>a, <1>b, <1>1 DEF TaskTypes, TaskOK, Touching, Respond
  <2> QED
    BY <2>1, <2>2, TaskTyped
<1>2. CASE ReceiveBody(c, s)
  <2>1. TaskTypes' /\ mem' \in [Frames -> Counters]
    BY <1>a, <1>b, <1>2 DEF TaskTypes, TaskStates, ReceiveBody
  <2>2. TaskOK(c, s)'
    BY <1>a, <1>b, <1>2 DEF TaskTypes, TaskOK, Touching, ReceiveBody
  <2> QED
    BY <2>1, <2>2, TaskTyped
<1>3. CASE Fail(c, s)
  <2>1. TaskTypes' /\ mem' \in [Frames -> Counters]
    BY <1>a, <1>b, <1>3 DEF TaskTypes, TaskStates, Fail
  <2>2. TaskOK(c, s)'
    BY <1>a, <1>b, <1>3 DEF TaskTypes, TaskOK, Touching, Fail
  <2> QED
    BY <2>1, <2>2, TaskTyped
<1>4. CASE TerminateUnobserved(c, s)
  <2>1. TaskTypes' /\ mem' \in [Frames -> Counters]
    BY <1>a, <1>b, <1>4, TaskTypesKept DEF TerminateUnobserved
  <2>2. TaskOK(c, s)'
    BY <1>a, <1>b, <1>4 DEF TaskOK, TerminateUnobserved, taskVars
  <2> QED
    BY <2>1, <2>2, TaskTyped
<1>5. CASE NextFilter(c, s)
  <2>1. PICK i \in Nat : i = at[c][s] + 1
    BY <1>a DEF TaskTypes
  <2>2. DEFINE updates == Tally(FiltersOf(s)[i], InDoc[c][s][FiltersOf(s)[i].Path])
  <2>3. updates \in Seq(Causes)
    BY TallyDenies
  <2>4. /\ at' = [at EXCEPT ![c][s] = i]
        /\ todo' = [todo EXCEPT ![c][s] = updates]
    BY <1>5, <2>1 DEF NextFilter
  <2> HIDE DEF updates
  <2>5. TaskTypes' /\ mem' \in [Frames -> Counters]
    BY <1>a, <1>b, <1>5, <2>3, <2>4 DEF TaskTypes, NextFilter
  <2>6. TaskOK(c, s)'
    <3>1. i <= Len(FiltersOf(s))
      BY <1>a, <1>5, <2>1, SettingsType DEF Typed, TypeOK, TaskTypes, NextFilter
    <3> QED
      BY <1>a, <1>b, <1>5, <2>4, <3>1 DEF TaskTypes, TaskOK, Touching, NextFilter
  <2> QED
    BY <2>5, <2>6, TaskTyped
<1>6. CASE LoadFailCount(c, s)
  <2>1. mem[frame[c]].FailCount \in Nat
    BY <1>a, <1>6 DEF TaskOK, LoadFailCount, Counters
  <2>2. TaskTypes' /\ mem' \in [Frames -> Counters]
    BY <1>a, <1>b, <1>6, <2>1 DEF TaskTypes, TaskStates, LoadFailCount
  <2>3. TaskOK(c, s)'
    BY <1>a, <1>b, <1>6, <2>1 DEF TaskTypes, TaskOK, Touching, LoadFailCount
  <2> QED
    BY <2>2, <2>3, TaskTyped
<1>7. CASE StoreFailCount(c, s)
  <2>1. frame[c] \in Frames /\ Incremented(reg[c][s]) \in Nat
    BY <1>a, <1>7 DEF TaskOK, StoreFailCount, Incremented
  <2>2. mem' \in [Frames -> Counters]
    BY <1>a, <1>7, <2>1 DEF StoreFailCount, Counters
  <2>3. TaskTypes'
    BY <1>a, <1>b, <1>7 DEF TaskTypes, TaskStates, StoreFailCount
  <2>4. TaskOK(c, s)'
    BY <1>a, <1>b, <1>7 DEF TaskTypes, TaskOK, Touching, StoreFailCount
  <2> QED
    BY <2>2, <2>3, <2>4, TaskTyped
<1>8. CASE CountPass(c, s)
  <2>1. TaskTypes' /\ mem' \in [Frames -> Counters]
    BY <1>a, <1>b, <1>8 DEF TaskTypes, TaskStates, CountPass
  <2>2. TaskOK(c, s)'
    BY <1>a, <1>b, <1>8 DEF TaskTypes, TaskOK, Touching, CountPass
  <2> QED
    BY <2>1, <2>2, TaskTyped
<1>9. CASE AppendReason(c, s)
  <2>1. Tail(todo[c][s]) \in Seq(Causes)
    BY <1>a, <1>9 DEF TaskTypes, TaskOK, AppendReason
  <2>2. TaskTypes' /\ mem' \in [Frames -> Counters]
    BY <1>a, <1>b, <1>9, <2>1 DEF TaskTypes, TaskStates, AppendReason
  <2>3. TaskOK(c, s)'
    BY <1>a, <1>b, <1>9 DEF TaskTypes, TaskOK, Touching, AppendReason
  <2> QED
    BY <2>2, <2>3, TaskTyped
<1>10. CASE LoadChecksRemaining(c, s)
  <2>1. mem[frame[c]].ChecksRemaining \in Int
    BY <1>a, <1>10 DEF TaskOK, LoadChecksRemaining, Counters
  <2>2. TaskTypes' /\ mem' \in [Frames -> Counters]
    BY <1>a, <1>b, <1>10, <2>1 DEF TaskTypes, TaskStates, LoadChecksRemaining
  <2>3. TaskOK(c, s)'
    BY <1>a, <1>b, <1>10
    DEF TaskTypes, TaskOK, Touching, LoadChecksRemaining, AllFiltered
  <2> QED
    BY <2>2, <2>3, TaskTyped
<1>11. CASE StoreChecksRemaining(c, s)
  <2>1. frame[c] \in Frames /\ Decremented(reg[c][s]) \in Int
    BY <1>a, <1>11 DEF TaskTypes, TaskOK, StoreChecksRemaining, Decremented
  <2>2. mem' \in [Frames -> Counters]
    BY <1>a, <1>11, <2>1 DEF StoreChecksRemaining, Counters
  <2>3. TaskTypes'
    BY <1>a, <1>b, <1>11 DEF TaskTypes, TaskStates, StoreChecksRemaining
  <2>4. TaskOK(c, s)'
    BY <1>a, <1>b, <1>11 DEF TaskTypes, TaskOK, Touching, StoreChecksRemaining
  <2> QED
    BY <2>2, <2>3, <2>4, TaskTyped
<1> QED
  BY <1>1, <1>2, <1>3, <1>4, <1>5, <1>6, <1>7, <1>8, <1>9, <1>10, <1>11 DEF TaskStep

LEMMA NextTyped == Typed /\ [Next]_vars => Typed'
<1> SUFFICES ASSUME Typed, [Next]_vars PROVE Typed'
  OBVIOUS
<1>1. CASE UNCHANGED vars
  <2>1. TypeOK'
    BY <1>1, CallTypesKept, TaskTypesKept DEF Typed, TypeOK, vars, Idx
  <2> QED
    BY <1>1, <2>1
    DEF Typed, Framed, TaskOK, Live, Idx, FiltersOf, vars, callVars, taskVars
<1> QED
  BY <1>1, EnterTyped, ProceedTyped, TaskStepTyped DEF Next, Rest

\* The variables have their types, whatever the servers and the environment do.
THEOREM TypeCorrect == Spec => []TypeOK
<1>1. Typed => TypeOK
  BY DEF Typed
<1> QED
  BY <1>1, InitTyped, NextTyped, PTL DEF Spec

-----------------------------------------------------------------------------
(* A counted failure is never undone.                                      *)

HasFailed(c) == mem[frame[c]].FailCount >= 1

\* No two calls that are going on use the same frame.
Alone == \A c, d \in Calls : Live(c) /\ Live(d) /\ frame[c] = frame[d] => c = d

\* A denial that a task has found shows in the counter, or the updates of the very
\* filter are still being made; the increment comes before the text of the reason.
TaskRecorded(c, s) ==
  /\ task[c][s] \in Touching \cup {"done"} =>
       \A i \in 1 .. at[c][s] :
         Denied(c, s, i) => HasFailed(c) \/ (i = at[c][s] /\ Failing(todo[c][s]))
  /\ task[c][s] = "appending" /\ Head(todo[c][s]) \in FailCauses => HasFailed(c)

Recorded == \A c \in Calls : Live(c) => \A s \in Idx : TaskRecorded(c, s)

Recording == Typed /\ Alone /\ Recorded

LEMMA FailingTail ==
  ASSUME NEW u \in Seq(Causes), u # <<>>, Failing(u)
  PROVE  Head(u) \in FailCauses \/ Failing(Tail(u))
<1>1. PICK k \in 1 .. Len(u) : u[k] \in FailCauses
  BY DEF Failing
<1>2. CASE k = 1
  BY <1>1, <1>2
<1>3. CASE k # 1
  <2>1. k - 1 \in DOMAIN Tail(u) /\ Tail(u)[k - 1] = u[k]
    BY <1>1, <1>3
  <2> QED
    BY <1>1, <2>1 DEF Failing
<1> QED
  BY <1>2, <1>3

LEMMA InitRecording == Init => Recording
BY InitTyped DEF Init, Recording, Alone, Recorded, Live

\* A store by any task, even one of a call that has ended, leaves a count that is at
\* least one: what it read was not negative.
LEMMA FailuresRemain ==
  ASSUME Typed, NEW c \in Calls, NEW s \in Idx, TaskStep(c, s),
         NEW d \in Calls, Live(d), HasFailed(d)
  PROVE  HasFailed(d)'
<1>1. frame'[d] = frame[d] /\ frame[d] \in Frames
  BY TaskLeavesCalls DEF Typed, TypeOK, Framed, callVars
<1>2. CASE StoreFailCount(c, s)
  <2>1. reg[c][s] \in Nat /\ frame[c] \in Frames
    BY <1>2 DEF Typed, TaskOK, StoreFailCount
  <2> QED
    BY <1>1, <1>2, <2>1
    DEF Typed, TypeOK, HasFailed, StoreFailCount, Incremented, Counters
<1>3. CASE StoreChecksRemaining(c, s)
  BY <1>1, <1>3 DEF Typed, TypeOK, HasFailed, StoreChecksRemaining, Counters
<1>4. CASE UNCHANGED mem
  BY <1>1, <1>4 DEF HasFailed
<1> QED
  BY <1>2, <1>3, <1>4
  DEF TaskStep, Respond, ReceiveBody, Fail, TerminateUnobserved, NextFilter,
      LoadFailCount, CountPass, AppendReason, LoadChecksRemaining

\* What other tasks have recorded stays recorded.
LEMMA OthersRecorded ==
  ASSUME Typed, NEW c \in Calls, NEW s \in Idx, TaskStep(c, s),
         NEW d \in Calls, NEW r \in Idx, d # c \/ r # s,
         Live(d), TaskRecorded(d, r)
  PROVE  TaskRecorded(d, r)'
<1>1. UNCHANGED <<Settings, callVars>>
  BY TaskLeavesCalls DEF Typed, TypeOK
<1>2. HasFailed(d) => HasFailed(d)'
  BY FailuresRemain
<1>3. /\ task'[d][r] = task[d][r]
      /\ at'[d][r] = at[d][r]
      /\ todo'[d][r] = todo[d][r]
      /\ InDoc'[d][r] = InDoc[d][r]
  BY OneTask DEF Typed, TypeOK
<1>4. \A i : Denied(d, r, i)' <=> Denied(d, r, i)
  BY <1>1, <1>3 DEF Denied, FiltersOf
<1> QED
  BY <1>2, <1>3, <1>4 DEF TaskRecorded

LEMMA TaskStepRecorded ==
  ASSUME Recording, NEW c \in Calls, NEW s \in Idx, TaskStep(c, s), Live(c)
  PROVE  TaskRecorded(c, s)'
<1>a. /\ TaskTypes
      /\ TaskOK(c, s)
      /\ TaskRecorded(c, s)
      /\ mem \in [Frames -> Counters]
      /\ frame[c] \in Frames
  BY DEF Recording, Recorded, Typed, TypeOK, Framed
<1>b. UNCHANGED <<Settings, callVars>>
  BY TaskLeavesCalls DEF Recording, Typed, TypeOK
<1>c. HasFailed(c) => HasFailed(c)'
  BY FailuresRemain DEF Recording
<1>d. ASSUME InDoc' = InDoc PROVE \A i : Denied(c, s, i)' <=> Denied(c, s, i)
  BY <1>b, <1>d DEF Denied, FiltersOf
<1>1. CASE Respond(c, s) \/ Fail(c, s)
  BY <1>a, <1>1 DEF TaskTypes, TaskRecorded, Touching, Respond, Fail
<1>2. CASE ReceiveBody(c, s)
  <2>1. at'[c][s] = 0 /\ task'[c][s] = "filtering"
    BY <1>a, <1>2 DEF TaskTypes, TaskOK, Touching, ReceiveBody
  <2> QED
    BY <2>1 DEF TaskRecorded
<1>3. CASE TerminateUnobserved(c, s)
  BY <1>a, <1>c, <1>d, <1>3 DEF TaskRecorded, TerminateUnobserved, taskVars
<1>4. CASE NextFilter(c, s)
  <2>1. PICK n \in Nat : n = at[c][s] + 1
    BY <1>a DEF TaskTypes
  <2>2. DEFINE f == FiltersOf(s)[n]
               updates == Tally(f, InDoc[c][s][f.Path])
  <2>3. /\ at'[c][s] = n /\ todo'[c][s] = updates
        /\ task' = task /\ InDoc' = InDoc
        /\ task[c][s] = "filtering" /\ todo[c][s] = <<>>
    BY <1>a, <1>4, <2>1 DEF TaskTypes, NextFilter
  <2>4. Denied(c, s, n) => Failing(updates)
    BY TallyDenies DEF Denied
  <2> HIDE DEF updates
  <2>5. ASSUME NEW i \in 1 .. n, Denied(c, s, i)
        PROVE  HasFailed(c) \/ (i = n /\ Failing(updates))
    <3>1. CASE i = n
      BY <2>4, <2>5, <3>1
    <3>2. CASE i # n
      <4>1. i \in 1 .. at[c][s] /\ ~Failing(todo[c][s])
        BY <1>a, <2>1, <2>3, <3>2, Singletons DEF TaskTypes
      <4> QED
        BY <1>a, <2>3, <2>5, <4>1 DEF TaskRecorded, Touching
    <3> QED
      BY <3>1, <3>2
  <2> QED
    BY <1>c, <1>d, <2>3, <2>5 DEF TaskRecorded, Touching
<1>5. CASE LoadFailCount(c, s)
  BY <1>a, <1>c, <1>d, <1>5 DEF TaskTypes, TaskRecorded, Touching, LoadFailCount
<1>6. CASE StoreFailCount(c, s)
  <2>1. HasFailed(c)'
    BY <1>a, <1>b, <1>6
    DEF TaskOK, HasFailed, StoreFailCount, Incremented, Counters, callVars
  <2> QED
    BY <2>1 DEF TaskRecorded
<1>7. CASE CountPass(c, s)
  <2>1. Head(todo[c][s]) \notin FailCauses
    BY <1>7 DEF CountPass, FailCauses
  <2> QED
    BY <1>a, <1>c, <1>d, <1>7, <2>1 DEF TaskTypes, TaskRecorded, Touching, CountPass
<1>8. CASE AppendReason(c, s)
  <2>1. Failing(todo[c][s]) => HasFailed(c) \/ Failing(Tail(todo[c][s]))
    <3>1. todo[c][s] \in Seq(Causes) /\ todo[c][s] # <<>>
      BY <1>a, <1>8 DEF TaskTypes, TaskOK, AppendReason
    <3>2. task[c][s] = "appending"
      BY <1>8 DEF AppendReason
    <3> QED
      BY <1>a, <3>1, <3>2, FailingTail DEF TaskRecorded
  <2>2. /\ task[c][s] = "appending" /\ task'[c][s] = "filtering"
        /\ todo'[c][s] = Tail(todo[c][s])
        /\ at' = at /\ InDoc' = InDoc
    BY <1>a, <1>8 DEF TaskTypes, AppendReason
  <2> QED
    BY <1>a, <1>c, <1>d, <2>1, <2>2 DEF TaskRecorded, Touching
<1>9. CASE LoadChecksRemaining(c, s)
  BY <1>a, <1>c, <1>d, <1>9 DEF TaskTypes, TaskRecorded, Touching, LoadChecksRemaining
<1>10. CASE StoreChecksRemaining(c, s)
  BY <1>a, <1>c, <1>d, <1>10 DEF TaskTypes, TaskRecorded, Touching, StoreChecksRemaining
<1> QED
  BY <1>1, <1>2, <1>3, <1>4, <1>5, <1>6, <1>7, <1>8, <1>9, <1>10 DEF TaskStep

LEMMA NextRecording == Recording /\ [Next]_vars => Recording'
<1> SUFFICES ASSUME Recording, [Next]_vars PROVE Recording'
  OBVIOUS
<1>a. Typed /\ Typed'
  BY NextTyped DEF Recording
<1>b. Idx' = Idx /\ \A s : FiltersOf(s)' = FiltersOf(s)
  BY SettingsConstant
<1>1. ASSUME NEW c \in Calls, NEW s \in Idx, TaskStep(c, s) PROVE Recording'
  <2>1. UNCHANGED <<Settings, callVars>>
    BY <1>a, <1>1, TaskLeavesCalls DEF Typed, TypeOK
  <2>2. Alone' /\ \A d \in Calls : Live(d)' <=> Live(d)
    BY <2>1 DEF Recording, Alone, Live, callVars
  <2>3. ASSUME NEW d \in Calls, NEW r \in Idx, Live(d) PROVE TaskRecorded(d, r)'
    <3>1. CASE d = c /\ r = s
      BY <1>1, <2>3, <3>1, TaskStepRecorded
    <3>2. CASE d # c \/ r # s
      BY <1>a, <1>1, <2>3, <3>2, OthersRecorded DEF Recording, Recorded
    <3> QED
      BY <3>1, <3>2
  <2> QED
    BY <1>a, <1>b, <2>2, <2>3 DEF Recording, Recorded
<1>2. ASSUME NEW c \in Calls, Begin(c) PROVE Recording'
  <2>1. PICK f \in Frames :
          /\ FreeFrame(f)
          /\ frame' = [frame EXCEPT ![c] = f]
          /\ mem' = [mem EXCEPT ![f] = InitialCounters(f)]
    BY <1>2 DEF Begin
  <2>2. ASSUME NEW d \in Calls, d # c
        PROVE  /\ Live(d)' <=> Live(d)
               /\ frame'[d] = frame[d]
               /\ Live(d) => frame[d] # f
    BY <1>a, <1>2, <2>1, <2>2
    DEF Typed, TypeOK, CallTypes, Begin, Live, FreeFrame
  <2>3. frame'[c] = f
    BY <1>a, <2>1 DEF Typed, TypeOK, CallTypes
  <2>4. Alone'
    BY <2>2, <2>3 DEF Recording, Alone
  <2>5. ASSUME NEW d \in Calls, NEW r \in Idx, Live(d)' PROVE TaskRecorded(d, r)'
    <3>1. CASE d = c
      <4>1. task'[c][r] = "none"
        BY <1>a, <1>2 DEF Typed, TaskOK, Begin, taskVars
      <4> QED
        BY <3>1, <4>1 DEF TaskRecorded, Touching
    <3>2. CASE d # c
      <4>1. Live(d) /\ TaskRecorded(d, r)
        BY <2>2, <2>5, <3>2 DEF Recording, Recorded
      <4>2. HasFailed(d)' <=> HasFailed(d)
        BY <1>a, <2>1, <2>2, <3>2, <4>1 DEF HasFailed, Typed, TypeOK, Framed
      <4>3. Settings' = Settings /\ UNCHANGED taskVars
        BY <1>2 DEF Begin
      <4>4. \A i : Denied(d, r, i)' <=> Denied(d, r, i)
        BY <4>3 DEF Denied, FiltersOf, taskVars
      <4> QED
        BY <4>1, <4>2, <4>3, <4>4 DEF TaskRecorded, taskVars
    <3> QED
      BY <3>1, <3>2
  <2> QED
    BY <1>a, <1>b, <2>4, <2>5 DEF Recording, Recorded
<1>3. ASSUME NEW c \in Calls, SendRequest(c) PROVE Recording'
  <2>1. /\ next[c] \in Idx
        /\ \A d \in Calls, r \in Idx :
             task'[d][r] = IF d = c /\ r = next[c] THEN "requested" ELSE task[d][r]
    BY <1>a, <1>3 DEF Typed, TypeOK, TaskTypes, Sending, SendRequest
  <2>2. UNCHANGED <<Settings, mem, pc, frame, at, todo, InDoc>>
    BY <1>3 DEF SendRequest
  <2>3. ASSUME NEW d \in Calls, NEW r \in Idx, TaskRecorded(d, r)
        PROVE  TaskRecorded(d, r)'
    <3>1. /\ HasFailed(d)' <=> HasFailed(d)
          /\ \A i : Denied(d, r, i)' <=> Denied(d, r, i)
      BY <2>2 DEF HasFailed, Denied, FiltersOf
    <3> QED
      BY <2>1, <2>2, <2>3, <3>1 DEF TaskRecorded, Touching
  <2> QED
    BY <1>a, <1>b, <2>2, <2>3 DEF Recording, Recorded, Alone, Live
<1>4. ASSUME UNCHANGED <<Settings, mem, frame, taskVars>>,
             \A d \in Calls : Live(d)' => Live(d)
      PROVE  Recording'
  <2>1. ASSUME NEW d \in Calls, NEW r \in Idx, TaskRecorded(d, r)
        PROVE  TaskRecorded(d, r)'
    <3>1. /\ HasFailed(d)' <=> HasFailed(d)
          /\ \A i : Denied(d, r, i)' <=> Denied(d, r, i)
      BY <1>4 DEF HasFailed, Denied, FiltersOf, taskVars
    <3> QED
      BY <1>4, <2>1, <3>1 DEF TaskRecorded, taskVars
  <2> QED
    BY <1>a, <1>b, <1>4, <2>1 DEF Recording, Recorded, Alone
<1>5. ASSUME NEW c \in Calls, RefuseUnloaded(c) \/ ThrowOutOfMemory(c) PROVE Recording'
  BY <1>a, <1>4, <1>5
  DEF Typed, TypeOK, CallTypes, Live, RefuseUnloaded, ThrowOutOfMemory
<1>6. ASSUME NEW c \in Calls, SendThrows(c) \/ SendWithoutClient(c) PROVE Recording'
  BY <1>a, <1>4, <1>6
  DEF Typed, TypeOK, CallTypes, Live, SendThrows, SendWithoutClient, callVars
<1>7. ASSUME NEW c \in Calls, AllSent(c) \/ SleepOnce(c) PROVE Recording'
  BY <1>a, <1>4, <1>7 DEF Typed, TypeOK, CallTypes, Live, AllSent, SleepOnce
<1>8. ASSUME NEW c \in Calls, StopWaiting(c) \/ Decide(c) \/ Return(c)
      PROVE  Recording'
  BY <1>a, <1>4, <1>8 DEF Typed, TypeOK, CallTypes, Live, StopWaiting, Decide, Return
<1>9. CASE UNCHANGED vars
  BY <1>4, <1>9 DEF vars, callVars, Live
<1> QED
  BY <1>1, <1>2, <1>3, <1>5, <1>6, <1>7, <1>8, <1>9 DEF Next, Enter, Proceed, Rest

\* Only Decide returns true, and it does so only for a counter that is zero.
LEMMA AllowMeansNoFailure ==
  ASSUME Typed, [Next]_vars, NEW c \in Calls, verdict[c] = "none", verdict'[c] = "allow"
  PROVE  Decide(c) /\ mem[frame[c]].FailCount = 0
<1>a. verdict \in [Calls -> {"none", "allow", "block"}]
  BY DEF Typed, TypeOK, CallTypes
<1>1. ASSUME NEW d \in Calls, Enter(d) PROVE FALSE
  BY <1>a, <1>1 DEF Enter, RefuseUnloaded, ThrowOutOfMemory, Begin
<1>2. ASSUME NEW d \in Calls, Proceed(d) PROVE Decide(d) /\ d = c
  BY <1>a, <1>2
  DEF Proceed, SendThrows, SendWithoutClient, SendRequest, AllSent, SleepOnce,
      StopWaiting, Decide, Return, callVars
<1>3. ASSUME NEW d \in Calls, NEW s \in Idx, TaskStep(d, s) PROVE FALSE
  BY <1>3, TaskLeavesCalls DEF Typed, TypeOK, callVars
<1>4. Decide(c)
  BY <1>1, <1>2, <1>3 DEF Next, Rest, vars, callVars
<1> QED
  BY <1>a, <1>4 DEF Decide, Judge

\* Whatever happens around it, a call never returns true once it has counted a failure
\* itself: neither racing increments nor writes through the pointers of an earlier call
\* that had the same frame bring the counter back to zero.
THEOREM CountedFailureIsFinal == Spec => CountedFailureBlocks
<1> DEFINE Final ==
      \A c \in Calls : \A s \in Idx : \A i \in 1 .. at[c][s] :
        /\ verdict[c] = "none"
        /\ verdict'[c] = "allow"
        /\ task[c][s] \in Touching \cup {"done"}
        /\ i < at[c][s] \/ todo[c][s] = <<>>
        => ~Denied(c, s, i)
<1>1. Recording /\ [Next]_vars => Final
  <2> SUFFICES ASSUME Recording, [Next]_vars,
                      NEW c \in Calls, NEW s \in Idx, NEW i \in 1 .. at[c][s],
                      verdict[c] = "none", verdict'[c] = "allow",
                      task[c][s] \in Touching \cup {"done"},
                      i < at[c][s] \/ todo[c][s] = <<>>,
                      Denied(c, s, i)
               PROVE  FALSE
    OBVIOUS
  <2>1. Live(c) /\ ~HasFailed(c)
    BY AllowMeansNoFailure DEF Recording, Decide, Live, HasFailed
  <2>2. ~(i = at[c][s] /\ Failing(todo[c][s]))
    BY Singletons DEF Recording, Typed, TypeOK, TaskTypes
  <2> QED
    BY <2>1, <2>2 DEF Recording, Recorded, TaskRecorded
<1> QED
  BY <1>1, InitRecording, NextRecording, PTL DEF Spec, CountedFailureBlocks
=============================================================================
