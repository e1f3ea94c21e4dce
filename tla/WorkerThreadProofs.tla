------------------------ MODULE WorkerThreadProofs ------------------------
(***************************************************************************)
(* The safety properties of WorkerThread for any set of calls, any error   *)
(* bound, with or without a timeout, and its refinement of TaskQueue.      *)
(***************************************************************************)
EXTENDS WorkerThread, SequenceTheorems, TLAPS

(***************************************************************************)
(* The inductive invariant. Owning a mutex is tied to the place of the     *)
(* owner; the worker goes for the front of the queue only if a task is     *)
(* there or the call that holds the queue's mutex is about to put one      *)
(* there; and a task about to be pushed is nowhere in the system yet.      *)
(***************************************************************************)
MainMutexInv == mMainThreadMutex = "worker" <=> pc \in HoldingMain

TasksMutexInv ==
    /\ \A c \in Call : callPc[c] \in {"push", "unlock"} => mTasksMutex = c
    /\ mTasksMutex \in Call => callPc[mTasksMutex] \in {"push", "unlock"}

CurrentTaskInv == task # NoTask <=> pc \in {"runTask", "putBack"}

FrontInv ==
    pc \in {"inner", "lockTasks"} =>
        mTasks # <<>> \/ (mTasksMutex \in Call /\ callPc[mTasksMutex] = "push")

PushedTaskInv ==
    \A c \in Call : callPc[c] = "unlock" => mTasks # <<>>

FreshTaskInv ==
    \A c \in Call : callPc[c] = "push" => ~Queued(c) /\ task # c

IInv ==
    /\ TypeOK
    /\ MainMutexInv
    /\ TasksMutexInv
    /\ CurrentTaskInv
    /\ FrontInv
    /\ PushedTaskInv
    /\ FreshTaskInv
    /\ NoWorkAfterExitSignal

USE DEF HoldingMain, NotHolding

LEMMA InitIInv == Init => IInv
<1> SUFFICES ASSUME Init PROVE IInv  OBVIOUS
<1>1. TypeOK
  <2>1. errorCount \in 0 .. MaxErrors
    BY ConstantsAssumption DEF Init, ConstantsAssumption
  <2>2. mTasks \in Seq(Call)
    BY DEF Init
  <2>3. callPc \in [Call -> {"idle", "push", "unlock", "notify"}]
    BY DEF Init
  <2> QED  BY <2>1, <2>2, <2>3 DEF Init, TypeOK
<1>2. TasksMutexInv /\ PushedTaskInv /\ FreshTaskInv
  BY ConstantsAssumption DEF Init, TasksMutexInv, PushedTaskInv, FreshTaskInv
<1>3. MainMutexInv /\ CurrentTaskInv /\ FrontInv /\ NoWorkAfterExitSignal
  BY DEF Init, MainMutexInv, CurrentTaskInv, FrontInv, NoWorkAfterExitSignal
<1> QED  BY <1>1, <1>2, <1>3 DEF IInv

\* Steps of the worker that leave the queue, the current task, the calls and
\* the destructor alone.
LEMMA ControlSteps ==
  ASSUME IInv,
         StartThread \/ LockMain \/ Wait \/ SpuriousWakeup \/ CheckExit
           \/ RunReturns \/ RunThrows \/ CheckSize \/ CheckExitInner
           \/ RunTaskReschedules
  PROVE  IInv'
<1> USE ConstantsAssumption
         DEF IInv, TypeOK, MainMutexInv, TasksMutexInv, CurrentTaskInv,
             FrontInv, PushedTaskInv, FreshTaskInv, NoWorkAfterExitSignal, Queued,
             Move, ReturnOrGoto, taskVars, pushVars, exitVars
<1>1. CASE StartThread  BY <1>1 DEF StartThread
<1>2. CASE LockMain  BY <1>2 DEF LockMain
<1>3. CASE Wait  BY <1>3 DEF Wait
<1>4. CASE SpuriousWakeup  BY <1>4 DEF SpuriousWakeup
<1>5. CASE CheckExit  BY <1>5 DEF CheckExit
<1>6. CASE RunReturns  BY <1>6 DEF RunReturns
<1>7. CASE RunThrows
  <2>1. errorCount' \in 0 .. MaxErrors
    BY <1>7 DEF RunThrows, TooManyErrors
  <2> QED  BY <1>7, <2>1 DEF RunThrows
<1>8. CASE CheckSize
  <2>1. TRUE \in SizeReads => mTasks # <<>> \/ mTasksMutex \in Call
    BY DEF SizeReads
  <2>2. mTasksMutex \in Call =>
          callPc[mTasksMutex] = "push" \/ mTasks # <<>>
    OBVIOUS
  <2>3. CASE TRUE \in SizeReads /\ Move("size", "inner")
    BY <1>8, <2>1, <2>2, <2>3 DEF CheckSize
  <2>4. CASE FALSE \in SizeReads /\ Move("size", "loop")
    BY <1>8, <2>4 DEF CheckSize
  <2> QED  BY <1>8, <2>3, <2>4 DEF CheckSize
<1>9. CASE CheckExitInner  BY <1>9 DEF CheckExitInner
<1>10. CASE RunTaskReschedules  BY <1>10 DEF RunTaskReschedules
<1> QED  BY <1>1, <1>2, <1>3, <1>4, <1>5, <1>6, <1>7, <1>8, <1>9, <1>10

\* Steps of the worker that move tasks.
LEMMA TaskSteps ==
  ASSUME IInv, TakeTask \/ RunTaskRemoves \/ PutBack
  PROVE  IInv'
<1> USE ConstantsAssumption DEF IInv, TypeOK, Move, pushVars, exitVars
<1>1. CASE TakeTask
  <2>1. mTasks # <<>>
    BY <1>1 DEF TakeTask, FrontInv
  <2>2. Head(mTasks) \in Call /\ Tail(mTasks) \in Seq(Call)
    BY <2>1
  <2>3. \A c \in Call : callPc[c] # "push"
    BY <1>1 DEF TakeTask, TasksMutexInv
  <2>4. TypeOK'
    BY <1>1, <2>2 DEF TakeTask
  <2> QED
    BY <1>1, <2>2, <2>3, <2>4
    DEF TakeTask, MainMutexInv, TasksMutexInv, CurrentTaskInv, FrontInv,
        PushedTaskInv, FreshTaskInv, NoWorkAfterExitSignal
<1>2. CASE RunTaskRemoves
  BY <1>2 DEF RunTaskRemoves, MainMutexInv, TasksMutexInv, CurrentTaskInv,
     FrontInv, PushedTaskInv, FreshTaskInv, NoWorkAfterExitSignal, Queued
<1>3. CASE PutBack
  <2>1. task \in Call
    BY <1>3 DEF PutBack, CurrentTaskInv
  <2>2. Append(mTasks, task) \in Seq(Call)
    BY <2>1
  <2>3. \A c \in Call : callPc[c] # "push"
    BY <1>3 DEF PutBack, TasksMutexInv
  <2>4. TypeOK'
    BY <1>3, <2>2 DEF PutBack
  <2> QED
    BY <1>3, <2>3, <2>4
    DEF PutBack, MainMutexInv, TasksMutexInv, CurrentTaskInv, FrontInv,
        PushedTaskInv, FreshTaskInv, NoWorkAfterExitSignal
<1> QED  BY <1>1, <1>2, <1>3

\* Steps of a pushTask call.
LEMMA CallSteps ==
  ASSUME IInv, NEW c \in Call, PushLock(c) \/ CallStep(c)
  PROVE  IInv'
<1> USE ConstantsAssumption DEF IInv, TypeOK, CallMove, exitVars
<1>1. CASE PushLock(c)
  BY <1>1 DEF PushLock, MainMutexInv, TasksMutexInv, CurrentTaskInv, FrontInv,
     PushedTaskInv, FreshTaskInv, NoWorkAfterExitSignal, Queued
<1>2. CASE PushTask(c)
  <2>1. Append(mTasks, c) \in Seq(Call) /\ Append(mTasks, c) # <<>>
    BY AppendProperties
  <2>2. \A d \in Call : d # c => callPc[d] # "push"
    BY <1>2 DEF PushTask, TasksMutexInv
  <2>3. TypeOK'
    BY <1>2, <2>1 DEF PushTask
  <2> QED
    BY <1>2, <2>1, <2>2, <2>3
    DEF PushTask, MainMutexInv, TasksMutexInv, CurrentTaskInv, FrontInv,
        PushedTaskInv, FreshTaskInv, NoWorkAfterExitSignal
<1>3. CASE PushUnlock(c)
  BY <1>3 DEF PushUnlock, MainMutexInv, TasksMutexInv, CurrentTaskInv,
     FrontInv, PushedTaskInv, FreshTaskInv, NoWorkAfterExitSignal, Queued
<1>4. CASE PushNotify(c)
  BY <1>4 DEF PushNotify, WakeIfWaiting, MainMutexInv, TasksMutexInv,
     CurrentTaskInv, FrontInv, PushedTaskInv, FreshTaskInv, NoWorkAfterExitSignal, Queued
<1> QED  BY <1>1, <1>2, <1>3, <1>4 DEF CallStep

\* Steps of the destructor.
LEMMA DtorSteps ==
  ASSUME IInv, DtorBegin \/ DtorStep
  PROVE  IInv'
<1> USE ConstantsAssumption
         DEF IInv, TypeOK, MainMutexInv, TasksMutexInv, CurrentTaskInv,
             FrontInv, PushedTaskInv, FreshTaskInv, NoWorkAfterExitSignal, Queued,
             DtorMove, taskVars, pushVars
<1>1. CASE DtorBegin  BY <1>1 DEF DtorBegin
<1>2. CASE DtorSignal  BY <1>2 DEF DtorSignal
<1>3. CASE DtorNotify  BY <1>3 DEF DtorNotify, WakeIfWaiting
<1>4. CASE DtorJoin  BY <1>4 DEF DtorJoin
<1> QED  BY <1>1, <1>2, <1>3, <1>4 DEF DtorStep

LEMMA NextIInv == IInv /\ [Next]_vars => IInv'
<1> SUFFICES ASSUME IInv, [Next]_vars PROVE IInv'  OBVIOUS
<1>1. CASE StartThread \/ SpuriousWakeup  BY <1>1, ControlSteps
<1>2. CASE ThreadStep
  BY <1>2, ControlSteps, TaskSteps DEF ThreadStep, TimeOut
<1>3. CASE \E c \in Call : PushLock(c) \/ CallStep(c)  BY <1>3, CallSteps
<1>4. CASE DtorBegin \/ DtorStep  BY <1>4, DtorSteps
<1>5. CASE Gone \/ UNCHANGED vars
  BY <1>5 DEF Gone, vars, taskVars, pushVars, exitVars, IInv, TypeOK,
     MainMutexInv, TasksMutexInv, CurrentTaskInv, FrontInv, PushedTaskInv, FreshTaskInv,
     NoWorkAfterExitSignal, Queued
<1> QED  BY <1>1, <1>2, <1>3, <1>4, <1>5 DEF Next

\* The invariant holds in every reachable state of the worker thread.
THEOREM Invariance == SafeSpec => []IInv
  BY InitIInv, NextIInv, PTL DEF SafeSpec

\* Type correctness of the queue, the mutexes and the three program counters.
THEOREM TypeCorrect == SafeSpec => []TypeOK
  BY Invariance, PTL DEF IInv

\* front() is never called on an empty queue, whatever the racy size() said.
THEOREM FrontSafe == SafeSpec => []FrontIsDefined
<1>1. IInv => FrontIsDefined
  BY ConstantsAssumption DEF IInv, FrontInv, FrontIsDefined
<1> QED  BY <1>1, Invariance, PTL

\* No run() and no task after the exit signal, for any number of callers.
THEOREM ExitSafe == SafeSpec => []NoWorkAfterExitSignal
  BY Invariance, PTL DEF IInv

(***************************************************************************)
(* The refinement. A step of the thread, of a call or of the destructor is *)
(* a step of TaskQueue or changes none of its variables: pushing under the *)
(* queue's mutex is Push, TakeTask is Take, and setting mExitSignal or     *)
(* leaving threadFunction is Close.                                        *)
(***************************************************************************)
LEMMA StepSimulation == IInv /\ [Next]_vars => [TQ!Next]_TQ!tqVars
<1> SUFFICES ASSUME IInv, [Next]_vars
             PROVE  TQ!Next \/ UNCHANGED TQ!tqVars
  OBVIOUS
<1> USE DEF TQ!tqVars, Move, taskVars, pushVars, exitVars
<1>1. CASE StartThread \/ LockMain \/ Wait \/ SpuriousWakeup \/ RunReturns
             \/ CheckSize \/ RunTaskReschedules
  <2>1. UNCHANGED <<mTasks, task, mExitSignal>>
    BY <1>1 DEF StartThread, LockMain, Wait, SpuriousWakeup, RunReturns,
       CheckSize, RunTaskReschedules
  <2>2. pc # "done" /\ pc' # "done"
    BY <1>1 DEF StartThread, LockMain, Wait, SpuriousWakeup, RunReturns,
       CheckSize, RunTaskReschedules
  <2> QED  BY <2>1, <2>2
<1>2. CASE CheckExit \/ CheckExitInner \/ RunThrows
  <2>1. UNCHANGED <<mTasks, task, mExitSignal>> /\ task = NoTask /\ pc # "done"
    BY <1>2 DEF CheckExit, CheckExitInner, RunThrows, ReturnOrGoto, IInv, TypeOK,
       CurrentTaskInv
  <2>2. CASE pc' = "done"  BY <2>1, <2>2 DEF TQ!Next, TQ!Close
  <2>3. CASE pc' # "done"  BY <2>1, <2>3
  <2> QED  BY <2>2, <2>3
<1>3. CASE TakeTask
  <2>1. mTasks # <<>> /\ task = NoTask /\ ~mExitSignal
    BY <1>3, ConstantsAssumption
    DEF TakeTask, IInv, TypeOK, FrontInv, CurrentTaskInv, NoWorkAfterExitSignal
  <2> QED  BY <1>3, <2>1 DEF TakeTask, TQ!Next, TQ!Take
<1>4. CASE RunTaskRemoves \/ PutBack
  <2>1. task # NoTask
    BY <1>4 DEF RunTaskRemoves, PutBack, IInv, CurrentTaskInv
  <2>2. UNCHANGED <<mExitSignal>> /\ pc # "done" /\ pc' # "done"
    BY <1>4 DEF RunTaskRemoves, PutBack
  <2>3. CASE RunTaskRemoves
    BY <2>1, <2>2, <2>3 DEF RunTaskRemoves, TQ!Next, TQ!Finish
  <2>4. CASE PutBack
    BY <2>1, <2>2, <2>4 DEF PutBack, TQ!Next, TQ!PutBack
  <2> QED  BY <1>4, <2>3, <2>4
<1>5. CASE \E c \in Call : PushLock(c) \/ CallStep(c)
  <2> PICK c \in Call : PushLock(c) \/ CallStep(c)  BY <1>5
  <2>1. UNCHANGED <<task, mExitSignal>> /\ (pc = "done" <=> pc' = "done")
    BY DEF CallStep, PushLock, PushTask, PushUnlock, PushNotify, WakeIfWaiting,
       CallMove
  <2>2. CASE PushTask(c)
    <3>1. ~TQ!Waiting(c) /\ task # c
      BY <2>2 DEF PushTask, CallMove, IInv, FreshTaskInv, Queued, TQ!Waiting
    <3>2. TQ!Push(c)  BY <2>1, <2>2, <3>1 DEF PushTask, TQ!Push
    <3> QED  BY <3>2 DEF TQ!Next
  <2>3. CASE PushLock(c) \/ PushUnlock(c) \/ PushNotify(c)
    BY <2>1, <2>3 DEF PushLock, PushUnlock, PushNotify
  <2> QED  BY <2>2, <2>3 DEF CallStep
<1>6. CASE DtorSignal
  <2>1. task = NoTask
    BY <1>6 DEF DtorSignal, IInv, MainMutexInv, CurrentTaskInv
  <2> QED  BY <1>6, <2>1 DEF DtorSignal, DtorMove, TQ!Next, TQ!Close
<1>7. CASE DtorBegin \/ DtorNotify \/ DtorJoin
  BY <1>7 DEF DtorBegin, DtorNotify, DtorJoin, DtorMove, WakeIfWaiting
<1>8. CASE Gone \/ UNCHANGED vars
  BY <1>8 DEF Gone, vars
<1> QED
  BY <1>1, <1>2, <1>3, <1>4, <1>5, <1>6, <1>7, <1>8
  DEF Next, ThreadStep, DtorStep, TimeOut

\* The safety part of ImplementsTaskQueue: whatever the number of callers, no
\* task is lost, doubled or overtaken, and none is taken once the thread has
\* ended or has been told to.
THEOREM ImplementsTaskQueueSafely == SafeSpec => TQ!SafeSpec
<1>1. Init => TQ!Init
  BY DEF Init, TQ!Init
<1> QED
  BY <1>1, Invariance, StepSimulation, PTL DEF SafeSpec, TQ!SafeSpec
=============================================================================
