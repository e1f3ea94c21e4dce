---------------------------- MODULE WorkerThread ----------------------------
(***************************************************************************)
(* The class template WorkerThread<T>: a thread that sleeps on a condition *)
(* variable, calls run() each time it wakes and then works through a task  *)
(* queue that any number of other threads fill with pushTask.              *)
(*                                                                         *)
(* Call is the set of pushTask calls that can be under way at once; a call *)
(* pushes the task of the same name, and its name is used again only when  *)
(* that task has left the queue. A definition whose name ends in Mutant is *)
(* a faulty variant of the one after it and no part of the specification.  *)
(***************************************************************************)
EXTENDS Naturals, Sequences

CONSTANTS
    Call,         \* pushTask calls, each standing for its task as well
    NoTask,
    Timed,        \* mCallFrequencySeconds is not 0, so the wait has a timeout
    MaxErrors,    \* run() may throw this often in a row (100 in the code)
    RunMayThrow,  \* can run() throw at all?
    TaskControl   \* what runTask may do: REMOVE, RE_SCHEDULE, THROW

ASSUME ConstantsAssumption ==
    /\ NoTask \notin Call /\ "free" \notin Call
    /\ Timed \in BOOLEAN
    /\ MaxErrors \in Nat
    /\ RunMayThrow \in BOOLEAN
    /\ TaskControl \subseteq {"REMOVE", "RE_SCHEDULE", "THROW"}

VARIABLES
    pc,                \* where threadFunction is
    mMainThreadMutex,  \* "free" or "worker"
    errorCount,
    mTasks,
    task,              \* the local variable task of threadFunction
    mTasksMutex,       \* "free" or the pushing call that holds it
    callPc,            \* where each pushTask call is
    mExitSignal,
    dtorPc             \* where the destructor is

taskVars == <<mTasks, task>>
pushVars == <<mTasksMutex, callPc>>
exitVars == <<mExitSignal, dtorPc>>
vars == <<pc, mMainThreadMutex, errorCount, taskVars, pushVars, exitVars>>

\* The places of threadFunction inside and outside mMainThreadMutex.
HoldingMain == {"loop", "awake", "run", "size", "inner", "lockTasks",
                "runTask", "putBack"}
NotHolding  == {"unstarted", "lockMain", "waiting", "woken", "done"}

TypeOK ==
    /\ pc \in HoldingMain \cup NotHolding
    /\ mMainThreadMutex \in {"free", "worker"}
    /\ errorCount \in 0 .. MaxErrors
    /\ mTasks \in Seq(Call)
    /\ task \in Call \cup {NoTask}
    /\ mTasksMutex \in Call \cup {"free"}
    /\ callPc \in [Call -> {"idle", "push", "unlock", "notify"}]
    /\ mExitSignal \in BOOLEAN
    /\ dtorPc \in {"alive", "lock", "notify", "join", "gone"}

Init ==
    /\ pc = "unstarted" /\ mMainThreadMutex = "free" /\ errorCount = 0
    /\ mTasks = <<>> /\ task = NoTask
    /\ mTasksMutex = "free" /\ callPc = [c \in Call |-> "idle"]
    /\ mExitSignal = FALSE /\ dtorPc = "alive"

-----------------------------------------------------------------------------
(***************************************************************************)
(* threadFunction.                                                         *)
(***************************************************************************)
Move(from, to) ==
    /\ pc = from
    /\ pc' = to
    /\ UNCHANGED <<errorCount, pushVars, exitVars>>

StartThread ==
    /\ dtorPc = "alive"
    /\ Move("unstarted", "lockMain")
    /\ UNCHANGED <<mMainThreadMutex, taskVars>>

\* The first lock, and the relock inside wait_for when the thread is woken.
LockMain ==
    /\ \/ Move("lockMain", "loop")
       \/ Move("woken", "awake")
    /\ mMainThreadMutex = "free"
    /\ mMainThreadMutex' = "worker"
    /\ UNCHANGED taskVars

\* wait and wait_for take no predicate: the thread goes to sleep whatever
\* mTasks and mExitSignal say.
Wait ==
    /\ Move("loop", "waiting")
    /\ mMainThreadMutex' = "free"
    /\ UNCHANGED taskVars

SpuriousWakeup ==
    /\ Move("waiting", "woken")
    /\ UNCHANGED <<mMainThreadMutex, taskVars>>

TimeOut == Timed /\ SpuriousWakeup

\* Returning from threadFunction destroys _lock.
ReturnOrGoto(returns, from, to) ==
    /\ Move(from, IF returns THEN "done" ELSE to)
    /\ mMainThreadMutex' = IF returns THEN "free" ELSE mMainThreadMutex
    /\ UNCHANGED taskVars

CheckExitMutant == ReturnOrGoto(FALSE, "awake", "run")

CheckExit == ReturnOrGoto(mExitSignal, "awake", "run")

RunReturns ==
    /\ pc = "run"
    /\ pc' = "size"
    /\ errorCount' = 0
    /\ UNCHANGED <<mMainThreadMutex, taskVars, pushVars, exitVars>>

TooManyErrorsMutant == errorCount > MaxErrors

TooManyErrors == errorCount + 1 > MaxErrors

RunThrows ==
    /\ RunMayThrow
    /\ pc = "run"
    /\ pc' = IF TooManyErrors THEN "done" ELSE "size"
    /\ errorCount' = IF TooManyErrors THEN errorCount ELSE errorCount + 1
    /\ mMainThreadMutex' = IF TooManyErrors THEN "free" ELSE "worker"
    /\ UNCHANGED <<taskVars, pushVars, exitVars>>

SizeReadsMutant == {TRUE}

\* mTasks.size() is read without mTasksMutex. While a pushTask call holds
\* that mutex the read races with the push and may give either answer.
SizeReads == IF mTasksMutex \in Call THEN BOOLEAN ELSE {mTasks # <<>>}

CheckSize ==
    /\ \/ TRUE \in SizeReads /\ Move("size", "inner")
       \/ FALSE \in SizeReads /\ Move("size", "loop")
    /\ UNCHANGED <<mMainThreadMutex, taskVars>>

CheckExitInner == ReturnOrGoto(mExitSignal, "inner", "lockTasks")

TakeTaskMutant ==
    /\ Move("lockTasks", "runTask")
    /\ mTasksMutex = "free"
    /\ task' = Head(mTasks)
    /\ UNCHANGED <<mMainThreadMutex, mTasks>>

TakeTask ==
    /\ Move("lockTasks", "runTask")
    /\ mTasksMutex = "free"
    /\ task' = Head(mTasks)
    /\ mTasks' = Tail(mTasks)
    /\ UNCHANGED mMainThreadMutex

\* runTask says REMOVE, or throws and is caught: either way the task is gone.
RunTaskRemoves ==
    /\ TaskControl \cap {"REMOVE", "THROW"} # {}
    /\ Move("runTask", "size")
    /\ task' = NoTask
    /\ UNCHANGED <<mMainThreadMutex, mTasks>>

RunTaskReschedules ==
    /\ "RE_SCHEDULE" \in TaskControl
    /\ Move("runTask", "putBack")
    /\ UNCHANGED <<mMainThreadMutex, taskVars>>

PutBack ==
    /\ Move("putBack", "size")
    /\ mTasksMutex = "free"
    /\ mTasks' = Append(mTasks, task)
    /\ task' = NoTask
    /\ UNCHANGED mMainThreadMutex

-----------------------------------------------------------------------------
(***************************************************************************)
(* pushTask. Callers have returned before the destructor starts: main      *)
(* leaves http_serve, which joins its threads, before static objects die.  *)
(***************************************************************************)
CallMove(c, from, to) ==
    /\ callPc[c] = from
    /\ callPc' = [callPc EXCEPT ![c] = to]
    /\ UNCHANGED <<mMainThreadMutex, errorCount, task, exitVars>>

Queued(c) == \E i \in DOMAIN mTasks : mTasks[i] = c

PushLock(c) ==
    /\ dtorPc = "alive" /\ ~Queued(c) /\ task # c
    /\ CallMove(c, "idle", "push")
    /\ mTasksMutex = "free"
    /\ mTasksMutex' = c
    /\ UNCHANGED <<pc, mTasks>>

PushTask(c) ==
    /\ CallMove(c, "push", "unlock")
    /\ mTasks' = Append(mTasks, c)
    /\ UNCHANGED <<pc, mTasksMutex>>

PushUnlock(c) ==
    /\ CallMove(c, "unlock", "notify")
    /\ mTasksMutex' = "free"
    /\ UNCHANGED <<pc, mTasks>>

\* A notification reaches the thread only while it is asleep; the condition
\* variable remembers nothing.
WakeIfWaiting == pc' = IF pc = "waiting" THEN "woken" ELSE pc

PushNotify(c) ==
    /\ CallMove(c, "notify", "idle")
    /\ WakeIfWaiting
    /\ UNCHANGED <<mTasks, mTasksMutex>>

-----------------------------------------------------------------------------
(***************************************************************************)
(* ~WorkerThread.                                                          *)
(***************************************************************************)
DtorMove(from, to) ==
    /\ dtorPc = from
    /\ dtorPc' = to
    /\ UNCHANGED <<mMainThreadMutex, errorCount, taskVars, pushVars>>

DtorBegin ==
    /\ \A c \in Call : callPc[c] = "idle"
    /\ DtorMove("alive", "lock")
    /\ UNCHANGED <<pc, mExitSignal>>

DtorSignalMutant ==
    /\ DtorMove("lock", "notify")
    /\ mExitSignal' = TRUE
    /\ UNCHANGED pc

\* Lock, set the flag, unlock: nothing else runs under the mutex meanwhile.
DtorSignal ==
    /\ DtorMove("lock", "notify")
    /\ mMainThreadMutex = "free"
    /\ mExitSignal' = TRUE
    /\ UNCHANGED pc

DtorNotify ==
    /\ DtorMove("notify", "join")
    /\ WakeIfWaiting
    /\ UNCHANGED mExitSignal

\* A thread that was never started is not joinable.
DtorJoin ==
    /\ pc \in {"unstarted", "done"}
    /\ DtorMove("join", "gone")
    /\ UNCHANGED <<pc, mExitSignal>>

\* The object is gone: the only place where everything may stop.
Gone == dtorPc = "gone" /\ UNCHANGED vars

-----------------------------------------------------------------------------
ThreadStep ==
    \/ LockMain \/ Wait \/ TimeOut \/ CheckExit
    \/ RunReturns \/ RunThrows
    \/ CheckSize \/ CheckExitInner \/ TakeTask
    \/ RunTaskRemoves \/ RunTaskReschedules \/ PutBack

CallStep(c) == PushTask(c) \/ PushUnlock(c) \/ PushNotify(c)

DtorStep == DtorSignal \/ DtorNotify \/ DtorJoin

Next ==
    \/ StartThread
    \/ ThreadStep
    \/ SpuriousWakeup
    \/ \E c \in Call : PushLock(c) \/ CallStep(c)
    \/ DtorBegin
    \/ DtorStep
    \/ Gone

SafeSpec == Init /\ [][Next]_vars

(***************************************************************************)
(* Every thread that can run does run, and a timed wait does time out. The *)
(* destructor gets mMainThreadMutex if that is free again and again: the   *)
(* worker sleeps without it, up to mCallFrequencySeconds. Nobody has to    *)
(* push or to destroy the object, and no spurious wakeup is relied on.     *)
(***************************************************************************)
Fairness ==
    /\ WF_vars(StartThread)
    /\ WF_vars(ThreadStep)
    /\ \A c \in Call : WF_vars(CallStep(c))
    /\ WF_vars(DtorStep) /\ SF_vars(DtorSignal)

Spec == SafeSpec /\ Fairness

-----------------------------------------------------------------------------
(***************************************************************************)
(* Properties.                                                             *)
(***************************************************************************)

\* size() is read without the queue's mutex, front() is called after it has
\* been locked. Although the answer of size() can be premature, the queue is
\* not empty by the time the worker owns the mutex.
FrontIsDefined ==
    (pc = "lockTasks" /\ mTasksMutex = "free") => mTasks # <<>>

\* "if exit was signaled we exit and not run anymore tasks": once mExitSignal
\* is set the thread calls neither run() nor runTask(). The flag can be set
\* only while the thread does not hold mMainThreadMutex, that is asleep, on
\* its way in or out of sleep, or at its end.
NoWorkAfterExitSignal ==
    mExitSignal => pc \in NotHolding \cup {"loop", "awake"}

\* The queue as its callers see it; it closes when the flag is set.
TQ == INSTANCE TaskQueue
        WITH Task <- Call, queue <- mTasks, current <- task,
             closed <- (mExitSignal \/ pc = "done")

\* The thread with its mutexes, its racy size() and its lost notifications
\* implements the plain first-in first-out queue: no task is lost, doubled
\* or overtaken, and unless the thread ends every task that waits has its
\* turn, a lost notification costing at most one timeout.
ImplementsTaskQueue == TQ!Spec

\* The destructor gets the mutex, even if its notification is lost, and the
\* thread it joins does end, unless tasks ask to be rescheduled for ever: the
\* thread does not let go of the mutex while there are tasks.
DestructorReturns ==
    <>[](pc # "putBack") => (dtorPc = "lock") ~> (dtorPc = "gone")

\* "call run every desired time or if a new task is waiting for processing":
\* a task that has been announced is taken, unless the thread ends.
AnnouncedTaskIsTaken ==
    \A c \in Call :
        (callPc[c] = "notify") ~> (~Queued(c) \/ pc = "done" \/ mExitSignal)
=============================================================================
