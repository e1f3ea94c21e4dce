------------------------------- MODULE Process -------------------------------
(***************************************************************************)
(* main: start-up, http_serve, and the end of the process, in which g_Con- *)
(* fig is deleted and static objects are destroyed while the worker thread *)
(* may still be at work. Composes WorkerThread and LogContainer; main      *)
(* takes the steps of the worker's destructor.                             *)
(***************************************************************************)
EXTENDS WorkerThread, LogContainer

VARIABLES
    mainPc,
    statics,  \* function-local static objects, in the order of construction
    gone,     \* what has been destroyed again
    misused   \* a thread may have used something that is gone

procVars == <<mainPc, statics, gone, misused>>
allVars == <<vars, logVars, viewVars, procVars>>

Object == {"config", "log", "connection", "maps"}

ProcTypeOK ==
    /\ TypeOK /\ LogTypeOK
    /\ mainPc \in {"config", "server", "ips", "init", "serve", "join", "delete",
                   "exit", "destroy", "ended", "terminated", "crashed"}
    /\ statics \in {<<>>, <<"log">>, <<"server">>, <<"server", "log">>}
    /\ gone \subseteq Object
    /\ misused \in BOOLEAN

ProcInit ==
    /\ Init /\ LogInit
    /\ mainPc = "config" /\ statics = <<>> /\ gone = {} /\ misused = FALSE

MainGoes(from, to) == mainPc = from /\ mainPc' = to

WithLogMutant == Append(statics, "log")

\* ContainerSingleton::getInstance constructs the log on its first use.
WithLog ==
    IF \E k \in DOMAIN statics : statics[k] = "log" THEN statics
    ELSE Append(statics, "log")

-----------------------------------------------------------------------------
(***************************************************************************)
(* Start-up. Exceptions of Config and of initializeFromDb are logged and   *)
(* end main; one of the constructor of CacheServer, which connects to the  *)
(* database, is caught by nobody.                                          *)
(***************************************************************************)
ReadConfig ==
    /\ \/ MainGoes("config", "server") /\ statics' = statics
       \/ MainGoes("config", "exit") /\ statics' = WithLog
    /\ UNCHANGED <<vars, logVars, viewVars, gone, misused>>

ConstructServer ==
    /\ \/ MainGoes("server", "ips") /\ statics' = Append(statics, "server")
       \/ MainGoes("server", "terminated") /\ statics' = statics
    /\ UNCHANGED <<vars, logVars, viewVars, gone, misused>>

FirstUpdateAllowedIps ==
    /\ MainGoes("ips", "init")
    /\ UNCHANGED <<vars, logVars, viewVars, statics, gone, misused>>

\* loadFromDb logs the time it took.
initializeFromDb ==
    /\ MainGoes("init", "serve")
    /\ statics' = WithLog
    /\ StartThread
    /\ UNCHANGED <<logVars, viewVars, gone, misused>>

InitializeFails ==
    /\ MainGoes("init", "exit")
    /\ statics' = WithLog
    /\ UNCHANGED <<vars, logVars, viewVars, gone, misused>>

-----------------------------------------------------------------------------
(***************************************************************************)
(* The threads. Using something that is gone may crash the process.        *)
(***************************************************************************)
Alive == mainPc \notin {"ended", "terminated", "crashed"}

MayMisuse ==
    \/ gone = {} /\ UNCHANGED procVars
    \/ /\ gone # {} /\ misused' = TRUE
       /\ mainPc' \in {mainPc, "crashed"}
       /\ UNCHANGED <<statics, gone>>

\* run() and the tasks use the configuration, the connection, the maps and the
\* log; the rest of threadFunction only uses what belongs to the thread.
WorkerStep ==
    /\ Alive
    /\ ThreadStep \/ SpuriousWakeup
    /\ IF pc \in {"run", "runTask"} THEN MayMisuse
       ELSE UNCHANGED procVars
    /\ UNCHANGED <<logVars, viewVars>>

\* While main is in http_serve its threads push tasks, log errors and show
\* the status page; after a signal they finish what they are doing.
NewRequest ==
    /\ mainPc = "serve"
    /\ \/ \E c \in Call : PushLock(c) /\ UNCHANGED <<logVars, viewVars>>
       \/ \E v \in Viewer : hasErrors(v) /\ UNCHANGED vars
    /\ MayMisuse

RequestStep(h) ==
    /\ Alive
    /\ \/ h \in Call /\ CallStep(h) /\ UNCHANGED <<logVars, viewVars>>
       \/ h \in Viewer /\ ViewerStep(h) /\ UNCHANGED vars
    /\ MayMisuse

\* main, a request or the worker meets an error.
LogError ==
    /\ \/ mainPc \in {"ips", "init", "serve", "join"}
       \/ Alive /\ "log" \notin gone /\ pc \in {"run", "runTask"}
    /\ statics' = WithLog
    /\ \E size \in LineSize : addLog(size)
    /\ UNCHANGED <<vars, mainPc, gone, misused>>

-----------------------------------------------------------------------------
(***************************************************************************)
(* The end: http_serve returns after a signal, main deletes g_Config and   *)
(* returns, and the static objects go in the reverse order of their        *)
(* construction. Of CacheServer the worker goes first, being its last      *)
(* member, and of the worker the connection goes before its base class     *)
(* tells the thread to end and joins it.                                   *)
(***************************************************************************)
Signal ==
    /\ MainGoes("serve", "join")
    /\ UNCHANGED <<vars, logVars, viewVars, statics, gone, misused>>

HttpServeReturnsMutant ==
    /\ MainGoes("join", "delete")
    /\ UNCHANGED <<vars, logVars, viewVars, statics, gone, misused>>

HttpServeReturns ==
    /\ MainGoes("join", "delete")
    /\ \A c \in Call : callPc[c] = "idle"
    /\ \A v \in Viewer : viewerPc[v] = "idle"
    /\ UNCHANGED <<vars, logVars, viewVars, statics, gone, misused>>

DeleteConfig ==
    /\ MainGoes("delete", "exit")
    /\ gone' = gone \cup {"config"}
    /\ UNCHANGED <<vars, logVars, viewVars, statics, misused>>

LastStatic(s) == statics # <<>> /\ statics[Len(statics)] = s

Pop(s) == SubSeq(s, 1, Len(s) - 1)

DestroyLog ==
    /\ mainPc = "exit" /\ LastStatic("log")
    /\ statics' = Pop(statics)
    /\ gone' = gone \cup {"log"}
    /\ UNCHANGED <<vars, logVars, viewVars, mainPc, misused>>

\* ~UpdateCacheWorker; then ~WorkerThread begins, whoever is still pushing.
DestroyServerMutant ==
    /\ MainGoes("exit", "destroy") /\ LastStatic("server")
    /\ gone' = gone \cup {"connection", "maps"}
    /\ DtorMove("alive", "lock")
    /\ UNCHANGED <<pc, mExitSignal, logVars, viewVars, statics, misused>>

DestroyServer ==
    /\ MainGoes("exit", "destroy") /\ LastStatic("server")
    /\ gone' = gone \cup {"connection"}
    /\ DtorMove("alive", "lock")
    /\ UNCHANGED <<pc, mExitSignal, logVars, viewVars, statics, misused>>

DestroyWorker ==
    /\ mainPc = "destroy" /\ DtorStep
    /\ UNCHANGED <<logVars, viewVars, procVars>>

DestroyMaps ==
    /\ MainGoes("destroy", "exit") /\ dtorPc = "gone"
    /\ statics' = Pop(statics)
    /\ gone' = gone \cup {"maps"}
    /\ UNCHANGED <<vars, logVars, viewVars, misused>>

End ==
    /\ MainGoes("exit", "ended") /\ statics = <<>>
    /\ UNCHANGED <<vars, logVars, viewVars, statics, gone, misused>>

Over == ~Alive /\ UNCHANGED allVars

MainStep ==
    \/ ReadConfig \/ ConstructServer \/ FirstUpdateAllowedIps
    \/ initializeFromDb \/ InitializeFails
    \/ HttpServeReturns \/ DeleteConfig
    \/ DestroyLog \/ DestroyServer \/ DestroyWorker \/ DestroyMaps \/ End

ProcNext ==
    \/ MainStep \/ Signal
    \/ WorkerStep \/ NewRequest \/ LogError
    \/ \E h \in Call \cup Viewer : RequestStep(h)
    \/ Over

ProcSafeSpec == ProcInit /\ [][ProcNext]_allVars

\* As in WorkerThread: main and the threads do not stop, and main gets the
\* worker's mutex when that is free again and again.
ProcSpec ==
    /\ ProcSafeSpec
    /\ WF_allVars(MainStep) /\ SF_allVars(DestroyWorker)
    /\ WF_allVars(WorkerStep /\ ThreadStep)
    /\ \A h \in Call \cup Viewer : WF_allVars(RequestStep(h))

-----------------------------------------------------------------------------
(***************************************************************************)
(* Properties.                                                             *)
(***************************************************************************)

\* The threads of http_serve have returned before the worker is destroyed:
\* the process is an environment in which WorkerThread keeps its promises.
ImplementsWorkerThread == SafeSpec

\* "store data over the whole program lifetime": the worker, whose tasks look
\* into the maps, has ended before they are destroyed.
MapsOutliveWorker ==
    "maps" \in gone => pc \in {"unstarted", "done"}

\* The worker is the only one to use something that is gone, and only in the
\* time between delete g_Config and the exit signal: not after a failed start,
\* not in a request and not once it has been told to end.
MisuseOnlyBeforeExitSignal ==
    [][misused' /\ ~misused =>
        "config" \in gone /\ ~mExitSignal /\ pc \in {"run", "runTask"}]_allVars

\* A start-up either gets to serve or ends, and a signal ends the process,
\* although main has to join a thread that may be asleep or at work.
ProcessEnds ==
    mainPc # "serve" ~> (mainPc = "serve" \/ ~Alive)
=============================================================================
