----------------------------- MODULE TaskQueue -----------------------------
(***************************************************************************)
(* What a WorkerThread promises to the callers of pushTask, without its    *)
(* mutexes, its condition variable and its timer: tasks wait in one        *)
(* first-in first-out queue, one of them at a time is being worked on, and *)
(* unless the thread ends every waiting task has its turn.                 *)
(***************************************************************************)
EXTENDS Sequences

CONSTANTS Task, NoTask

VARIABLES queue,    \* tasks waiting, oldest first
          current,  \* the task being worked on, or NoTask
          closed    \* the thread has ended; nothing is taken any more

tqVars == <<queue, current, closed>>

Init ==
    /\ queue = <<>>
    /\ current = NoTask
    /\ closed = FALSE

Waiting(t) == \E i \in DOMAIN queue : queue[i] = t

Push(t) ==
    /\ ~Waiting(t)
    /\ current # t
    /\ queue' = Append(queue, t)
    /\ UNCHANGED <<current, closed>>

Take ==
    /\ ~closed
    /\ current = NoTask
    /\ queue # <<>>
    /\ current' = Head(queue)
    /\ queue' = Tail(queue)
    /\ UNCHANGED closed

Finish ==
    /\ current # NoTask
    /\ current' = NoTask
    /\ UNCHANGED <<queue, closed>>

PutBack ==
    /\ current # NoTask
    /\ queue' = Append(queue, current)
    /\ current' = NoTask
    /\ UNCHANGED closed

Close ==
    /\ current = NoTask
    /\ closed' = TRUE
    /\ UNCHANGED <<queue, current>>

Next ==
    \/ \E t \in Task : Push(t)
    \/ Take
    \/ Finish
    \/ PutBack
    \/ Close

SafeSpec == Init /\ [][Next]_tqVars

Spec == SafeSpec /\ WF_tqVars(Take) /\ WF_tqVars(Finish \/ PutBack)
=============================================================================
