------------------------------ MODULE Response ------------------------------
(***************************************************************************)
(* One request of IsIPAllowedInternal (PluginBase.cpp, lines 108-118) down *)
(* to the network: the request's context (http_client_impl.h), the buffer  *)
(* of the body, read_to_end (streams.h) and the tasks that connect them.   *)
(* Four kinds of threads take part: the caller's, the network's, and those *)
(* of the pool that run the two continuations and the reading loop.        *)
(*                                                                         *)
(* Tasks: "request" is that of the response's headers, and "respond" its   *)
(* continuation, the first lambda of the plugin.  "loop" is what           *)
(* read_to_end returns, and "receive" its continuation, the second lambda. *)
(* Each turn of the loop has a "getn" and its continuation "copy".         *)
(***************************************************************************)
EXTENDS StreamBuffer, TaskLibrary

CONSTANTS
  Body,     \* the body that the server sends, no character of it twice
  buf_size, \* how much a turn of the loop asks for
  Chunks,   \* how much the network may get at once
  MaxSyncs, \* bound on how often the network flushes the buffer
  Faults    \* what may fail: "network", "memory"

ASSUME ResponseAssumption ==
  /\ Task = {"request", "respond", "loop", "receive", "getn", "copy"}
  /\ Body \in Seq(Char)
  /\ buf_size \in Nat \ {0}
  /\ Chunks \subseteq Nat \ {0}
  /\ MaxSyncs \in Nat
  /\ Faults \subseteq {"network", "memory"}

VARIABLES
  running, \* FALSE once the host process has been brought down
  tasks,   \* see TaskLibrary
  buffer,  \* see StreamBuffer
  network, \* how far the network's thread is
  syncs,   \* how often it has flushed the buffer
  caller,  \* how far the caller's thread is
  first,   \* how far the first lambda is
  turn,    \* how far the call of getn is that is being made
  event,   \* the completion event of that getn
  outbuf,  \* what was read, in the memory the loop provides
  checked, \* whether getn has looked at its result, and found an exception
  target   \* the plugin's ReceiveBuffer
vars == <<running, tasks, buffer, network, syncs, caller, first, turn, event, outbuf, checked,
          target>>

Init ==
  /\ running = TRUE
  /\ tasks = NoTasks
  /\ buffer = NewBuffer
  /\ network = "idle"
  /\ syncs = 0
  /\ caller = "send"
  /\ first = "idle"
  /\ turn = "idle"
  /\ event = [registered |-> FALSE, set |-> FALSE]
  /\ outbuf = <<>>
  /\ checked = "no"
  /\ target = <<>>

-----------------------------------------------------------------------------
(* The caller's thread.                                                    *)

\* request(): the context has a completion event, and a task of the event.
Send ==
  /\ running
  /\ caller = "send"
  /\ tasks' = Create(tasks, "request")
  /\ network' = "waiting"
  /\ caller' = "then"
  /\ UNCHANGED <<running, buffer, syncs, first, turn, event, outbuf, checked, target>>

\* The response may have come before the continuation is added.
ThenRespond ==
  /\ running
  /\ caller = "then"
  /\ tasks' = ScheduleContinuation(tasks, "request", "respond")
  /\ caller' = "done"
  /\ UNCHANGED <<running, buffer, network, syncs, first, turn, event, outbuf, checked, target>>

-----------------------------------------------------------------------------
(* The network's thread.                                                   *)

complete_headers ==
  /\ running
  /\ network = "waiting"
  /\ tasks' = FinalizeAndRunContinuations(tasks, "request")
  /\ network' = "body"
  /\ UNCHANGED <<running, buffer, syncs, caller, first, turn, event, outbuf, checked, target>>

\* What the change of the buffer completes is told to the task of getn, if it exists yet.
Reply(result) ==
  /\ buffer' = result.buffer
  /\ IF result.replies = <<>> THEN UNCHANGED <<tasks, event, outbuf>>
     ELSE /\ outbuf' = result.replies[1]
          /\ event' = [event EXCEPT !.set = TRUE]
          /\ tasks' = IF event.registered THEN FinalizeAndRunContinuations(tasks, "getn")
                      ELSE tasks

\* A chunk is written, or committed in a block that the network has filled.
ReceiveChunk ==
  /\ running
  /\ network = "body"
  /\ \E n \in Chunks :
       /\ buffer.m_total_written + n <= Len(Body)
       /\ LET chunk == SubSeq(Body, buffer.m_total_written + 1, buffer.m_total_written + n)
          IN  \/ Reply(write(buffer, chunk))
              \/ \E size \in Chunks : size >= n /\ Reply(commit(buffer, size, chunk))
  /\ UNCHANGED <<running, network, syncs, caller, first, turn, checked, target>>

Flush ==
  /\ running
  /\ network = "body"
  /\ syncs < MaxSyncs
  /\ Reply(sync(buffer))
  /\ syncs' = syncs + 1
  /\ UNCHANGED <<running, network, caller, first, turn, checked, target>>

\* The body is complete.
complete_request ==
  /\ running
  /\ network = "body"
  /\ buffer.m_total_written = Len(Body)
  /\ network' = "close"
  /\ UNCHANGED <<running, tasks, buffer, syncs, caller, first, turn, event, outbuf, checked,
                 target>>

\* Connecting, or the transfer, fails.  The exception goes to the request if that has not
\* been answered, and else to the buffer.
report_exception ==
  /\ running
  /\ "network" \in Faults
  /\ \/ /\ network = "waiting"
        /\ tasks' = CancelWithExceptionHolder(tasks, "request")
        /\ network' = "close"
     \/ /\ network = "body"
        /\ network' = "close_with_exception"
        /\ UNCHANGED tasks
  /\ UNCHANGED <<running, buffer, syncs, caller, first, turn, event, outbuf, checked, target>>

\* Mutant of MarkException: the exception is stored when the buffer is closed already.
MarkLate == buffer' = [buffer EXCEPT !.m_stream_can_write = FALSE]

MarkException == buffer' = [buffer EXCEPT !.m_currentException = TRUE]

SetException ==
  /\ running
  /\ network = "close_with_exception"
  /\ MarkException
  /\ network' = "close"
  /\ UNCHANGED <<running, tasks, syncs, caller, first, turn, event, outbuf, checked, target>>

\* That nothing more will be written is noted without the lock.
CloseWrite ==
  /\ running
  /\ network = "close"
  /\ buffer' = [buffer EXCEPT !.m_stream_can_write = FALSE]
  /\ network' = "fulfill"
  /\ UNCHANGED <<running, tasks, syncs, caller, first, turn, event, outbuf, checked, target>>

\* Then the read that waits, if any, is completed with what there is.
FulfillLast ==
  /\ running
  /\ network = "fulfill"
  /\ Reply(fulfill_outstanding(buffer))
  /\ network' = "done"
  /\ UNCHANGED <<running, syncs, caller, first, turn, checked, target>>

-----------------------------------------------------------------------------
(* The first lambda.                                                       *)

StartRespond ==
  /\ running
  /\ "respond" \in tasks.scheduled
  /\ tasks' = TransitionedToStarted(tasks, "respond")
  /\ first' = "new"
  /\ UNCHANGED <<running, buffer, network, syncs, caller, turn, event, outbuf, checked, target>>

\* The lambda's buffer cannot be allocated.
NewThrows ==
  /\ running
  /\ first = "new"
  /\ "memory" \in Faults
  /\ tasks' = CancelWithExceptionHolder(tasks, "respond")
  /\ first' = "done"
  /\ UNCHANGED <<running, buffer, network, syncs, caller, turn, event, outbuf, checked, target>>

\* read_to_end(): the first turn of the loop begins in the lambda's thread.
BeginReading ==
  /\ running
  /\ first = "new"
  /\ first' = "loop"
  /\ turn' = "enqueue"
  /\ tasks' = Create(tasks, "loop")
  /\ UNCHANGED <<running, buffer, network, syncs, caller, event, outbuf, checked, target>>

\* Once the first turn is under way the loop has its continuation, and the lambda ends.
ThenReceive ==
  /\ running
  /\ first = "loop"
  /\ turn = "idle"
  /\ tasks' = ScheduleContinuation(tasks, "loop", "receive")
  /\ first' = "return"
  /\ UNCHANGED <<running, buffer, network, syncs, caller, turn, event, outbuf, checked, target>>

EndRespond ==
  /\ running
  /\ first = "return"
  /\ tasks' = FinalizeAndRunContinuations(tasks, "respond")
  /\ first' = "done"
  /\ UNCHANGED <<running, buffer, network, syncs, caller, turn, event, outbuf, checked, target>>

-----------------------------------------------------------------------------
(* A turn of the loop: getn, in the thread of the lambda or of the turn    *)
(* before, and the copying, in a thread of the pool.                       *)

\* The read is made or queued before the task of its event exists.
Getn ==
  /\ running
  /\ turn = "enqueue"
  /\ LET result == enqueue_request(buffer, buf_size)
     IN  /\ buffer' = result.buffer
         /\ event' = [registered |-> FALSE, set |-> result.replies # <<>>]
         /\ outbuf' = IF result.replies = <<>> THEN <<>> ELSE result.replies[1]
  /\ checked' = "no"
  /\ turn' = "register"
  /\ UNCHANGED <<running, tasks, network, syncs, caller, first, target>>

\* create_task(): an event that is set already completes its task.
RegisterTask ==
  /\ running
  /\ turn = "register"
  /\ tasks' = LET T == Create(tasks, "getn")
              IN  IF event.set THEN FinalizeAndRunContinuations(T, "getn") ELSE T
  /\ event' = [event EXCEPT !.registered = TRUE]
  /\ turn' = "check"
  /\ UNCHANGED <<running, buffer, network, syncs, caller, first, outbuf, checked, target>>

\* Nothing was read: that is the end of the body, or the buffer has an exception.
Check == IF outbuf = <<>> /\ buffer.m_currentException THEN "exception" ELSE "passed"

\* The result is looked at now if there is one, and otherwise by the continuation.
CheckAtOnce ==
  /\ running
  /\ turn = "check"
  /\ checked' = IF HasEnded(tasks, "getn") THEN Check ELSE "no"
  /\ turn' = "then"
  /\ UNCHANGED <<running, tasks, buffer, network, syncs, caller, first, event, outbuf, target>>

ThenCopy ==
  /\ running
  /\ turn = "then"
  /\ tasks' = ScheduleContinuation(tasks, "getn", "copy")
  /\ turn' = "idle"
  /\ UNCHANGED <<running, buffer, network, syncs, caller, first, event, outbuf, checked, target>>

\* What was read goes to the target, and another turn begins; or the loop ends, with an
\* exception also if the target cannot take what was read.
Copy ==
  /\ running
  /\ turn = "idle"
  /\ "copy" \in tasks.scheduled
  /\ LET T      == FinalizeAndRunContinuations(TransitionedToStarted(tasks, "copy"), "copy")
         result == IF checked = "no" THEN Check ELSE checked
     IN  \/ /\ result = "exception" \/ (outbuf # <<>> /\ "memory" \in Faults)
            /\ tasks' = CancelWithExceptionHolder(T, "loop")
            /\ UNCHANGED <<turn, outbuf, target>>
         \/ /\ result = "passed" /\ outbuf = <<>>
            /\ tasks' = FinalizeAndRunContinuations(T, "loop")
            /\ UNCHANGED <<turn, outbuf, target>>
         \/ /\ result = "passed" /\ outbuf # <<>>
            /\ tasks' = T
            /\ turn' = "enqueue" /\ outbuf' = <<>> /\ target' = target \o outbuf
  /\ UNCHANGED <<running, buffer, network, syncs, caller, first, event, checked>>

-----------------------------------------------------------------------------

\* The second lambda, which evaluates the filters on what the target holds.
Receive ==
  /\ running
  /\ "receive" \in tasks.scheduled
  /\ tasks' = FinalizeAndRunContinuations(TransitionedToStarted(tasks, "receive"), "receive")
  /\ UNCHANGED <<running, buffer, network, syncs, caller, first, turn, event, outbuf, checked,
                 target>>

\* The continuations of a task that has ended.
RunContinuations ==
  /\ running
  /\ \E t \in tasks.ended : tasks' = RunTaskContinuations(tasks, t)
  /\ UNCHANGED <<running, buffer, network, syncs, caller, first, turn, event, outbuf, checked,
                 target>>

\* An exception has come to the end of a chain: nobody has observed it when it is freed.
Unobserved == \E t \in {"respond", "receive"} : tasks.state[t] = "Canceled"

FreeException ==
  /\ running
  /\ Unobserved
  /\ running' = FALSE
  /\ UNCHANGED <<tasks, buffer, network, syncs, caller, first, turn, event, outbuf, checked,
                 target>>

\* A step of a thread that the scheduler runs, and that waits for nobody.
ThreadStep ==
  \/ ThenRespond \/ SetException \/ CloseWrite \/ FulfillLast
  \/ StartRespond \/ NewThrows \/ BeginReading \/ ThenReceive \/ EndRespond
  \/ RegisterTask \/ CheckAtOnce \/ ThenCopy \/ Copy \/ Receive \/ RunContinuations

Next ==
  \/ Send \/ complete_headers \/ ReceiveChunk \/ Flush \/ complete_request \/ report_exception
  \/ ThreadStep \/ Getn \/ FreeException

Spec == Init /\ [][Next]_vars

\* The scheduler runs the threads that can go on.  Of Getn it is enough to say that the turn
\* goes on.
FairSpec ==
  /\ Spec
  /\ WF_vars(ThreadStep)
  /\ WF_turn(running /\ turn = "enqueue" /\ turn' = "register")

-----------------------------------------------------------------------------
(* Properties.                                                             *)

\* The variables have their types.  At most one read waits, and only while nothing is there
\* for it.
TypeOK ==
  /\ running \in BOOLEAN
  /\ tasks \in Tasks
  /\ buffer \in Buffer
  /\ network \in {"idle", "waiting", "body", "close_with_exception", "close", "fulfill", "done"}
  /\ syncs \in 0 .. MaxSyncs
  /\ caller \in {"send", "then", "done"}
  /\ first \in {"idle", "new", "loop", "return", "done"}
  /\ turn \in {"idle", "enqueue", "register", "check", "then"}
  /\ event \in [registered: BOOLEAN, set: BOOLEAN]
  /\ outbuf \in Seq(Char) /\ Len(outbuf) <= buf_size
  /\ checked \in {"no", "passed", "exception"}
  /\ target \in Seq(Char)
  /\ Len(buffer.m_requests) <= 1
  /\ buffer.m_requests # <<>> => ~event.set /\ buffer.m_total < buf_size

\* Whatever the sizes of the chunks, the blocks and the reads: what the target, the loop's
\* memory and the buffer hold is together what the server has sent so far, in its order, and
\* the buffer's counters say how much of it is where.
NothingLost ==
  /\ target \o outbuf \o Unread(buffer) = SubSeq(Body, 1, buffer.m_total_written)
  /\ buffer.m_total = Len(Unread(buffer))
  /\ buffer.m_total_read = Len(target \o outbuf)
  /\ buffer.m_blocks # <<>> => rd_chars_left(buffer.m_blocks[1]) > 0

\* The mapping: the stage a request has in IPCheck.
Stage ==
  IF Unobserved THEN "failed"
  ELSE IF tasks.state["receive"] = "Completed" THEN "filtering"
  ELSE IF first \in {"loop", "return", "done"} THEN "reading"
  ELSE IF caller # "send" THEN "requested"
  ELSE "none"

Abstract == INSTANCE Exchange WITH
  stage <- Stage,
  got   <- IF Stage = "filtering" THEN target ELSE <<>>

\* Whoever comes first, response or continuation, chunk or read, exception or close: the
\* request is for the plugin what IPCheck takes for granted.  The filters see the whole body
\* or the process is doomed; no part of a body is taken for it.
ExchangeKept == Abstract!Spec

\* No wake-up is lost: once the network has ended with the request, the filters are evaluated
\* or an exception is left over that nobody observes.
EndReachesPlugin ==
  network = "done" ~> Unobserved \/ tasks.state["receive"] = "Completed"
=============================================================================
