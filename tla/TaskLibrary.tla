---------------------------- MODULE TaskLibrary ----------------------------
(***************************************************************************)
(* Tasks and their continuations (pplxtasks.h), as far as nobody cancels   *)
(* them: every continuation takes the value of its ancestor, and an        *)
(* exception of the ancestor is passed on to it instead.  An operator      *)
(* stands for what is done to a task under one hold of its lock; the       *)
(* continuations of a task that has ended are run after that.              *)
(***************************************************************************)
EXTENDS Integers, Sequences

CONSTANT Task

TaskState == {"none", "Created", "Started", "Completed", "Canceled"}

Tasks == [state: [Task -> TaskState],       \* "none": there is no such task
          continuations: [Task -> Seq(Task)],
          ended: SUBSET Task,               \* those whose continuations are to be run
          scheduled: SUBSET Task]           \* those that wait for a thread of the pool

NoTasks == [state |-> [t \in Task |-> "none"], continuations |-> [t \in Task |-> <<>>],
            ended |-> {}, scheduled |-> {}]

HasEnded(T, t) == T.state[t] \in {"Completed", "Canceled"}

\* A task may take the place of one that has ended long ago: its continuations have run.
Create(T, t) == [T EXCEPT !.state[t] = "Created", !.ended = @ \ {t}]

ScheduleContinuationTask(T, t) == [T EXCEPT !.scheduled = @ \cup {t}]

\* A thread of the pool invokes the task.
TransitionedToStarted(T, t) == [T EXCEPT !.state[t] = "Started", !.scheduled = @ \ {t}]

\* The continuations that the task has now are to be run; later ones see that it has ended.
End(T, t, state) ==
  IF T.state[t] = "Canceled" THEN T
  ELSE [T EXCEPT !.state[t] = state,
                 !.ended = IF T.continuations[t] = <<>> THEN @ ELSE @ \cup {t}]

FinalizeAndRunContinuations(T, t) == End(T, t, "Completed")

CancelWithExceptionHolder(T, t) == End(T, t, "Canceled")

\* Mutant of ScheduleContinuation: whether the task has ended is not looked at.
OnlyChained(T, t, next) ==
  [Create(T, next) EXCEPT !.continuations[t] = <<next>> \o @]

\* then(): the continuation is scheduled, passed the exception, or chained to the task.
ScheduleContinuation(T, t, next) ==
  LET N == Create(T, next)
  IN  CASE T.state[t] = "Completed" -> ScheduleContinuationTask(N, next)
        [] T.state[t] = "Canceled"  -> CancelWithExceptionHolder(N, next)
        [] OTHER -> [N EXCEPT !.continuations[t] = <<next>> \o @]

RunContinuation(T, t, next) ==
  IF T.state[t] = "Canceled" THEN CancelWithExceptionHolder(T, next)
  ELSE ScheduleContinuationTask(T, next)

\* No lock is needed: from now on continuations schedule themselves.
RunTaskContinuations(T, t) ==
  LET next == T.continuations[t]
      upTo[i \in 0 .. Len(next)] ==
        IF i = 0 THEN [T EXCEPT !.continuations[t] = <<>>, !.ended = @ \ {t}]
        ELSE RunContinuation(upTo[i - 1], t, next[i])
  IN  upTo[Len(next)]
=============================================================================
