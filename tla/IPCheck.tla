------------------------------ MODULE IPCheck ------------------------------
(***************************************************************************)
(* PluginBase::IsIPAllowedInternal (PluginBase.cpp, lines 85-188): the     *)
(* caller's thread sends one request per configured server, then polls a   *)
(* counter in its own stack frame; continuations of the requests, run by   *)
(* the task library's threads, evaluate the filters and update the         *)
(* counters of that frame through captured pointers, without a lock.       *)
(*                                                                         *)
(* A call is one invocation of the function.  A call that has ended gives  *)
(* its frame back, and a later call may get the same one.  Continuations   *)
(* that are still running keep writing through the pointers they captured. *)
(***************************************************************************)
EXTENDS Integers, Sequences, FilterEval

CONSTANTS
  Calls,         \* invocations of IsIPAllowedInternal, each made at most once
  Frames,        \* stack addresses at which the locals of a call may lie
  NoFrame,       \* the frame of a call that has not begun
  Ips,           \* texts of IP addresses
  SettingsSpace, \* what the global Settings may hold once it is constructed
  Docs,          \* what the parsed body of a response may hold
  NoDoc,         \* the body of a response that has not arrived
  MaxPolls,      \* sleeps before the caller stops waiting (1000 in the code)
  Prompt,        \* assumption on the environment: every answer to a call has
                 \* been processed when the last sleep of the call ends
  Faults         \* what may fail: "connect", "body", "memory"

\* A server is kept without a WebClient when constructing the client threw;
\* rejects holds the addresses for which building the request's URI throws.
Server       == [WebClient: BOOLEAN, rejects: SUBSET Ips, Filters: Seq(Filter)]
SettingsBase == [HasLoaded: BOOLEAN, Servers: Seq(Server)]

ASSUME CheckAssumption ==
  /\ SettingsSpace \subseteq SettingsBase
  /\ Docs \subseteq Doc
  /\ NoFrame \notin Frames
  /\ MaxPolls \in Nat \ {0}
  /\ Prompt \in BOOLEAN
  /\ Faults \subseteq {"connect", "body", "memory"}

VARIABLES
  Settings,  \* the global settings, never written after construction
  running,   \* FALSE once the host process has been brought down
  mem,       \* frame -> the counters ChecksRemaining and FailCount in it
  \* per call
  ip,        \* its argument
  pc,        \* how far the caller's thread is
  frame,     \* where its locals lie, or lay
  next,      \* index of the next server to send to
  polls,     \* the x of the polling loop
  verdict,   \* what the call returns
  Reason,    \* the heap object the log text is collected in
  \* per call and server
  task,      \* how far the request and its continuations are
  at,        \* index of the filter being evaluated
  todo,      \* counter updates of that filter still to be made
  reg,       \* value a counter had when the running update read it
  InDoc      \* the parsed body

callVars == <<pc, frame, next, polls, verdict, Reason>>
taskVars == <<task, at, todo, reg, InDoc>>
vars     == <<Settings, running, mem, ip, callVars, taskVars>>

Counters == [ChecksRemaining: Int, FailCount: Nat]
Idx      == DOMAIN Settings.Servers

\* "begun" and later: the frame and Reason exist.  "thrown": an exception left
\* the function, so there is no verdict.
Live(c)  == pc[c] \in {"sending", "polling", "deciding", "reporting"}
Ended(c) == pc[c] \in {"returned", "thrown"}

\* Steps with undefined behaviour may pass unnoticed or bring the process down.
Survival(defined) == IF defined THEN {TRUE} ELSE BOOLEAN

Init ==
  /\ Settings \in SettingsSpace
  /\ running = TRUE
  /\ mem = [f \in Frames |-> [ChecksRemaining |-> 0, FailCount |-> 0]]
  /\ ip \in [Calls -> Ips]
  /\ pc = [c \in Calls |-> "idle"]
  /\ frame = [c \in Calls |-> NoFrame]
  /\ next = [c \in Calls |-> 1]
  /\ polls = [c \in Calls |-> 0]
  /\ verdict = [c \in Calls |-> "none"]
  /\ Reason = [c \in Calls |-> "none"]
  /\ task = [c \in Calls |-> [s \in Idx |-> "none"]]
  /\ at = [c \in Calls |-> [s \in Idx |-> 0]]
  /\ todo = [c \in Calls |-> [s \in Idx |-> <<>>]]
  /\ reg = [c \in Calls |-> [s \in Idx |-> 0]]
  /\ InDoc = [c \in Calls |-> [s \in Idx |-> NoDoc]]

-----------------------------------------------------------------------------
(* The caller's thread.                                                    *)

\* No settings are loaded: the call fails before it touches anything.
RefuseUnloaded(c) ==
  /\ running
  /\ pc[c] = "idle"
  /\ ~Settings.HasLoaded
  /\ pc' = [pc EXCEPT ![c] = "returned"]
  /\ verdict' = [verdict EXCEPT ![c] = "block"]
  /\ UNCHANGED <<Settings, running, mem, ip, frame, next, polls, Reason, taskVars>>

\* new throws where the code tests for NULL: the call ends without a verdict.
ThrowOutOfMemory(c) ==
  /\ running
  /\ pc[c] = "idle"
  /\ Settings.HasLoaded
  /\ "memory" \in Faults
  /\ pc' = [pc EXCEPT ![c] = "thrown"]
  /\ UNCHANGED <<Settings, running, mem, ip, frame, next, polls, verdict, Reason,
                 taskVars>>

FreeFrame(f) == \A d \in Calls : Live(d) => frame[d] # f

InitialCounters(f) == [ChecksRemaining |-> Len(Settings.Servers), FailCount |-> 0]

\* The locals are initialised in a frame no other call is using.
Begin(c) ==
  /\ running
  /\ pc[c] = "idle"
  /\ Settings.HasLoaded
  /\ \E f \in Frames :
       /\ FreeFrame(f)
       /\ frame' = [frame EXCEPT ![c] = f]
       /\ mem' = [mem EXCEPT ![f] = InitialCounters(f)]
  /\ Reason' = [Reason EXCEPT ![c] = "live"]
  /\ pc' = [pc EXCEPT ![c] = "sending"]
  /\ UNCHANGED <<Settings, running, ip, next, polls, verdict, taskVars>>

\* The caller is in the body of the loop over the servers.
Sending(c) ==
  /\ running
  /\ pc[c] = "sending"
  /\ next[c] \in Idx

\* URL.substr or the uri constructor throws: the frame is unwound, Reason leaks,
\* and the requests already sent stay in flight.
SendThrows(c) ==
  /\ Sending(c)
  /\ ip[c] \in Settings.Servers[next[c]].rejects
  /\ pc' = [pc EXCEPT ![c] = "thrown"]
  /\ UNCHANGED <<Settings, running, mem, ip, frame, next, polls, verdict, Reason,
                 taskVars>>

\* The server has no client: the call goes through a null pointer.
SendWithoutClient(c) ==
  /\ Sending(c)
  /\ ip[c] \notin Settings.Servers[next[c]].rejects
  /\ ~Settings.Servers[next[c]].WebClient
  /\ running' = FALSE
  /\ UNCHANGED <<Settings, mem, ip, callVars, taskVars>>

SendRequest(c) ==
  /\ Sending(c)
  /\ ip[c] \notin Settings.Servers[next[c]].rejects
  /\ Settings.Servers[next[c]].WebClient
  /\ task' = [task EXCEPT ![c][next[c]] = "requested"]
  /\ next' = [next EXCEPT ![c] = @ + 1]
  /\ UNCHANGED <<Settings, running, mem, ip, pc, frame, polls, verdict, Reason,
                 at, todo, reg, InDoc>>

AllSent(c) ==
  /\ running
  /\ pc[c] = "sending"
  /\ next[c] \notin Idx
  /\ pc' = [pc EXCEPT ![c] = "polling"]
  /\ UNCHANGED <<Settings, running, mem, ip, frame, next, polls, verdict, Reason,
                 taskVars>>

Finished(c) == \A s \in Idx : task[c][s] = "done"

\* Mutants of Counted: the turn is not counted; the bound is overshot.
NotCounted(x) == x
CountedTwice(x) == x + 2

Counted(x) == x + 1

\* One turn of the polling loop.
SleepOnce(c) ==
  /\ running
  /\ pc[c] = "polling"
  /\ polls[c] < MaxPolls
  /\ mem[frame[c]].ChecksRemaining > 0
  /\ Prompt /\ polls[c] + 1 = MaxPolls => Finished(c)
  /\ polls' = [polls EXCEPT ![c] = Counted(@)]
  /\ UNCHANGED <<Settings, running, mem, ip, pc, frame, next, verdict, Reason,
                 taskVars>>

\* Mutant of WaitIsOver: the caller leaves one check early.
OverOneEarly(c) == polls[c] = MaxPolls \/ mem[frame[c]].ChecksRemaining <= 1

WaitIsOver(c) == polls[c] = MaxPolls \/ mem[frame[c]].ChecksRemaining <= 0

\* The loop ends, by its bound or by its break.
StopWaiting(c) ==
  /\ running
  /\ pc[c] = "polling"
  /\ WaitIsOver(c)
  /\ pc' = [pc EXCEPT ![c] = "deciding"]
  /\ UNCHANGED <<Settings, running, mem, ip, frame, next, polls, verdict, Reason,
                 taskVars>>

\* The x that is tested after the loop: the loop counts in an x of its own.
OuterX == 0

\* Mutant of Judge: the test is inverted.
JudgeInverted(failCount) == IF failCount = 0 THEN "block" ELSE "allow"

Judge(failCount) ==
  IF OuterX >= MaxPolls \/ failCount # 0 THEN "block" ELSE "allow"

Decide(c) ==
  /\ running
  /\ pc[c] = "deciding"
  /\ verdict' = [verdict EXCEPT ![c] = Judge(mem[frame[c]].FailCount)]
  /\ pc' = [pc EXCEPT ![c] = "reporting"]
  /\ UNCHANGED <<Settings, running, mem, ip, frame, next, polls, Reason, taskVars>>

\* Log the reason, delete it, return; the frame is free from here on.
Return(c) ==
  /\ running
  /\ pc[c] = "reporting"
  /\ Reason' = [Reason EXCEPT ![c] = "deleted"]
  /\ pc' = [pc EXCEPT ![c] = "returned"]
  /\ UNCHANGED <<Settings, running, mem, ip, frame, next, polls, verdict, taskVars>>

-----------------------------------------------------------------------------
(* The continuations of the request of call c to server s.                 *)

\* A response: the first continuation starts to read the body into a buffer.
Respond(c, s) ==
  /\ running
  /\ task[c][s] = "requested"
  /\ task' = [task EXCEPT ![c][s] = "reading"]
  /\ UNCHANGED <<Settings, running, mem, ip, callVars, at, todo, reg, InDoc>>

\* The whole body: the second continuation parses it and frees the buffer.
ReceiveBody(c, s) ==
  /\ running
  /\ task[c][s] = "reading"
  /\ task' = [task EXCEPT ![c][s] = "filtering"]
  /\ \E doc \in Docs : InDoc' = [InDoc EXCEPT ![c][s] = doc]
  /\ UNCHANGED <<Settings, running, mem, ip, callVars, at, todo, reg>>

\* The request, the transfer of the body or the allocation of the buffer fails.
\* The tasks carry an exception, and no continuation of theirs runs.
Fail(c, s) ==
  /\ running
  /\ \/ task[c][s] = "requested" /\ Faults \cap {"connect", "memory"} # {}
     \/ task[c][s] = "reading" /\ "body" \in Faults
  /\ task' = [task EXCEPT ![c][s] = "failed"]
  /\ UNCHANGED <<Settings, running, mem, ip, callVars, at, todo, reg, InDoc>>

\* Nobody observes the exception: its holder ends the process when it is freed.
TerminateUnobserved(c, s) ==
  /\ running
  /\ task[c][s] = "failed"
  /\ running' = FALSE
  /\ UNCHANGED <<Settings, mem, ip, callVars, taskVars>>

FiltersOf(s) == Settings.Servers[s].Filters

\* The next filter of the server is evaluated against the parsed body.
NextFilter(c, s) ==
  /\ running
  /\ task[c][s] = "filtering"
  /\ todo[c][s] = <<>>
  /\ at[c][s] < Len(FiltersOf(s))
  /\ at' = [at EXCEPT ![c][s] = @ + 1]
  /\ LET f == FiltersOf(s)[at[c][s] + 1]
     IN  todo' = [todo EXCEPT ![c][s] = Tally(f, InDoc[c][s][f.Path])]
  /\ UNCHANGED <<Settings, running, mem, ip, callVars, task, reg, InDoc>>

\* (*FailCountPtr)++ reads the counter, then writes it.
LoadFailCount(c, s) ==
  /\ running
  /\ task[c][s] = "filtering"
  /\ todo[c][s] # <<>>
  /\ Head(todo[c][s]) \in FailCauses
  /\ reg' = [reg EXCEPT ![c][s] = mem[frame[c]].FailCount]
  /\ task' = [task EXCEPT ![c][s] = "counting"]
  /\ running' \in Survival(Live(c))
  /\ UNCHANGED <<Settings, mem, ip, callVars, at, todo, InDoc>>

\* Mutant of Incremented: the increment is made on a copy.
NotIncremented(n) == n

Incremented(n) == n + 1

StoreFailCount(c, s) ==
  /\ running
  /\ task[c][s] = "counting"
  /\ mem' = [mem EXCEPT ![frame[c]].FailCount = Incremented(reg[c][s])]
  /\ task' = [task EXCEPT ![c][s] = "appending"]
  /\ running' \in Survival(Live(c))
  /\ UNCHANGED <<Settings, ip, callVars, at, todo, reg, InDoc>>

\* (*PassCountPtr)++: no step of the code reads PassCount.
CountPass(c, s) ==
  /\ running
  /\ task[c][s] = "filtering"
  /\ todo[c][s] # <<>>
  /\ Head(todo[c][s]) = "allowed"
  /\ task' = [task EXCEPT ![c][s] = "appending"]
  /\ running' \in Survival(Live(c))
  /\ UNCHANGED <<Settings, mem, ip, callVars, at, todo, reg, InDoc>>

\* Reason->Text is a string: appending to it is undefined once Reason is deleted,
\* and while another continuation appends or the caller reads it for the log.
AppendIsAlone(c, s) ==
  /\ Reason[c] = "live"
  /\ pc[c] # "reporting"
  /\ \A r \in Idx \ {s} : task[c][r] # "appending"

AppendReason(c, s) ==
  /\ running
  /\ task[c][s] = "appending"
  /\ task' = [task EXCEPT ![c][s] = "filtering"]
  /\ todo' = [todo EXCEPT ![c][s] = Tail(@)]
  /\ running' \in Survival(AppendIsAlone(c, s))
  /\ UNCHANGED <<Settings, mem, ip, callVars, at, reg, InDoc>>

\* Mutant of AllFiltered: the check is counted off before the filters are run.
FilteredOrNot(c, s) == at[c][s] <= Len(FiltersOf(s))

AllFiltered(c, s) == todo[c][s] = <<>> /\ at[c][s] = Len(FiltersOf(s))

\* (*ChecksRemainingPtr)-- after the last filter, again a read and a write.
LoadChecksRemaining(c, s) ==
  /\ running
  /\ task[c][s] = "filtering"
  /\ AllFiltered(c, s)
  /\ reg' = [reg EXCEPT ![c][s] = mem[frame[c]].ChecksRemaining]
  /\ task' = [task EXCEPT ![c][s] = "finishing"]
  /\ running' \in Survival(Live(c))
  /\ UNCHANGED <<Settings, mem, ip, callVars, at, todo, InDoc>>

\* Mutant of Decremented: zero instead of one less.
DecrementedToZero(n) == 0

Decremented(n) == n - 1

StoreChecksRemaining(c, s) ==
  /\ running
  /\ task[c][s] = "finishing"
  /\ mem' = [mem EXCEPT ![frame[c]].ChecksRemaining = Decremented(reg[c][s])]
  /\ task' = [task EXCEPT ![c][s] = "done"]
  /\ running' \in Survival(Live(c))
  /\ UNCHANGED <<Settings, ip, callVars, at, todo, reg, InDoc>>

-----------------------------------------------------------------------------
\* The host calls the function.
Enter(c) == RefuseUnloaded(c) \/ ThrowOutOfMemory(c) \/ Begin(c)

\* The caller's thread goes on in a call that has begun.
Proceed(c) ==
  \/ SendThrows(c) \/ SendWithoutClient(c) \/ SendRequest(c) \/ AllSent(c)
  \/ SleepOnce(c) \/ StopWaiting(c) \/ Decide(c) \/ Return(c)

TaskStep(c, s) ==
  \/ Respond(c, s) \/ ReceiveBody(c, s) \/ Fail(c, s) \/ TerminateUnobserved(c, s)
  \/ NextFilter(c, s) \/ LoadFailCount(c, s) \/ StoreFailCount(c, s)
  \/ CountPass(c, s) \/ AppendReason(c, s)
  \/ LoadChecksRemaining(c, s) \/ StoreChecksRemaining(c, s)

\* The process is gone, or every call has ended and nothing is in flight.
AtRest ==
  \/ ~running
  \/ \A c \in Calls : Ended(c) /\ \A s \in Idx : task[c][s] \in {"none", "done"}

Rest == AtRest /\ UNCHANGED vars

Next ==
  \/ \E c \in Calls : Enter(c) \/ Proceed(c)
  \/ \E c \in Calls : \E s \in Idx : TaskStep(c, s)
  \/ Rest

Spec == Init /\ [][Next]_vars

\* The scheduler runs the thread of a call that has begun.
FairSpec == Spec /\ \A c \in Calls : WF_vars(Proceed(c))

-----------------------------------------------------------------------------
(* Properties.                                                             *)

PcStates   == {"idle", "sending", "polling", "deciding", "reporting", "returned",
               "thrown"}
TaskStates == {"none", "requested", "reading", "filtering", "counting", "appending",
               "finishing", "done", "failed"}

CallTypes ==
  /\ pc \in [Calls -> PcStates]
  /\ frame \in [Calls -> Frames \cup {NoFrame}]
  /\ next \in [Calls -> 1 .. Len(Settings.Servers) + 1]
  /\ polls \in [Calls -> 0 .. MaxPolls]
  /\ verdict \in [Calls -> {"none", "allow", "block"}]
  /\ Reason \in [Calls -> {"none", "live", "deleted"}]

TaskTypes ==
  /\ task \in [Calls -> [Idx -> TaskStates]]
  /\ at \in [Calls -> [Idx -> Nat]]
  /\ todo \in [Calls -> [Idx -> Seq(Causes)]]
  /\ reg \in [Calls -> [Idx -> Int]]
  /\ InDoc \in [Calls -> [Idx -> Docs \cup {NoDoc}]]

\* The variables have their types.
TypeOK ==
  /\ Settings \in SettingsSpace
  /\ running \in BOOLEAN
  /\ mem \in [Frames -> Counters]
  /\ ip \in [Calls -> Ips]
  /\ CallTypes
  /\ TaskTypes

\* A filter of server s denies what the server answered to call c.
Denied(c, s, i) ==
  ~Permits(FiltersOf(s)[i], InDoc[c][s][FiltersOf(s)[i].Path])

Passed(c, s) ==
  /\ task[c][s] = "done"
  /\ \A i \in DOMAIN FiltersOf(s) : ~Denied(c, s, i)

\* IsIPAllowed returns true only after every configured server has answered this
\* very call and every filter permits what it answered.
AllowedByEveryServer ==
  \A c \in Calls : verdict[c] = "allow" => \A s \in Idx : Passed(c, s)

\* IsIPAllowed returns false only without settings or because a filter that has been
\* evaluated denies what a server answered to this very call.
BlockedWithCause ==
  \A c \in Calls : verdict[c] = "block" =>
    \/ ~Settings.HasLoaded
    \/ \E s \in Idx : \E i \in 1 .. at[c][s] : Denied(c, s, i)

\* While a call waits, racing decrements may leave ChecksRemaining too high but
\* never too low: the wait is not cut short while a server is outstanding.
WaitCoversOutstanding ==
  \A c \in Calls : pc[c] = "polling" /\ mem[frame[c]].ChecksRemaining <= 0
                     => Finished(c)

\* The continuation is about to touch the frame or Reason of its call.
Touching == {"filtering", "counting", "appending", "finishing"}

\* No continuation outlives the call whose locals it points to.
NoDanglingContinuation ==
  \A c \in Calls : \A s \in Idx : task[c][s] \in Touching => Live(c)

\* A failure the call itself has counted is not undone by racing increments, nor
\* by continuations of earlier calls that still write to the frame: the call does
\* not go on to return true.
CountedFailureBlocks ==
  [][\A c \in Calls : \A s \in Idx : \A i \in 1 .. at[c][s] :
       /\ verdict[c] = "none"
       /\ verdict'[c] = "allow"
       /\ task[c][s] \in Touching \cup {"done"}
       /\ i < at[c][s] \/ todo[c][s] = <<>>
       => ~Denied(c, s, i)]_vars

\* However slow, silent or broken the servers are, a call that has begun ends, or
\* the process is brought down.
EveryCallEnds == \A c \in Calls : Live(c) ~> Ended(c) \/ ~running

\* In the prompt environment the calls implement what the plugin promises.
Promise == INSTANCE FailClosed WITH
  loaded  <- Settings.HasLoaded,
  servers <- Idx,
  opinion <- [c \in Calls |-> [s \in Idx |->
                IF task[c][s] # "done" THEN "pending"
                ELSE IF Passed(c, s) THEN "approves" ELSE "disapproves"]],
  answer  <- verdict

PromiseKept == Promise!Spec

\* Timing out blocks: a call whose polling loop has run out does not return true.
TimeoutBlocks ==
  \A c \in Calls : verdict[c] = "allow" => polls[c] < MaxPolls

\* The host process survives every call.
ProcessSurvives == running
=============================================================================
