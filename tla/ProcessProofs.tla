---------------------------- MODULE ProcessProofs ----------------------------
(***************************************************************************)
(* The process, for any set of requests, any limit of the log and any      *)
(* number of errors: it is an environment in which WorkerThread keeps its  *)
(* promises, so that what WorkerThreadProofs proves holds of it too; and   *)
(* the log keeps the newest errors.                                        *)
(***************************************************************************)
EXTENDS Process, WorkerThreadProofs

(***************************************************************************)
(* Requests are under way only while main is in http_serve, which returns  *)
(* when they have; and the worker runs only after a start that succeeded,  *)
(* on the way from which main deletes g_Config.                            *)
(***************************************************************************)
Starting == {"config", "server", "ips", "init"}
Ending == {"exit", "destroy", "ended"}

RequestsInv ==
    mainPc \in Starting \cup Ending \cup {"delete"} =>
        /\ \A c \in Call : callPc[c] = "idle"
        /\ \A v \in Viewer : viewerPc[v] = "idle"

GoneInv ==
    /\ gone # {} => mainPc \in Ending \cup {"crashed"}
    /\ mainPc \in Starting => pc = "unstarted"
    /\ (mainPc \in Ending \/ gone # {}) /\ pc # "unstarted" => "config" \in gone

MapsInv ==
    /\ "maps" \in gone => dtorPc = "gone"
    /\ dtorPc = "gone" => pc \in {"unstarted", "done"}

PhaseInv == RequestsInv /\ GoneInv /\ MapsInv

LEMMA InitPhaseInv == ProcInit => PhaseInv
    BY DEF ProcInit, Init, LogInit, PhaseInv, RequestsInv, GoneInv, MapsInv,
           Starting, Ending

\* Steps of main.
LEMMA MainPhase == PhaseInv /\ (MainStep \/ Signal) => PhaseInv'
<1> SUFFICES ASSUME PhaseInv, MainStep \/ Signal PROVE PhaseInv'
    OBVIOUS
<1> USE DEF PhaseInv, RequestsInv, GoneInv, MapsInv, Starting, Ending, MainGoes,
        vars, viewVars, taskVars, pushVars, exitVars
<1>1. CASE ReadConfig
    BY <1>1 DEF ReadConfig
<1>2. CASE ConstructServer
    BY <1>2 DEF ConstructServer
<1>3. CASE FirstUpdateAllowedIps
    BY <1>3 DEF FirstUpdateAllowedIps
<1>4. CASE initializeFromDb
    BY <1>4 DEF initializeFromDb, StartThread, Move
<1>5. CASE InitializeFails
    BY <1>5 DEF InitializeFails
<1>6. CASE HttpServeReturns
    BY <1>6 DEF HttpServeReturns
<1>7. CASE DeleteConfig
    BY <1>7 DEF DeleteConfig
<1>8. CASE DestroyLog
    BY <1>8 DEF DestroyLog
<1>9. CASE DestroyServer
    BY <1>9 DEF DestroyServer, DtorMove
<1>10. CASE DestroyWorker
    BY <1>10 DEF DestroyWorker, DtorStep, DtorSignal, DtorNotify, DtorJoin,
                 DtorMove, WakeIfWaiting, procVars
<1>11. CASE DestroyMaps
    BY <1>11 DEF DestroyMaps
<1>12. CASE End
    BY <1>12 DEF End
<1>13. CASE Signal
    BY <1>13 DEF Signal
<1> QED
    BY <1>1, <1>2, <1>3, <1>4, <1>5, <1>6, <1>7, <1>8, <1>9, <1>10, <1>11, <1>12,
       <1>13 DEF MainStep

\* Steps of the worker neither start it nor wake it from its end.
LEMMA ThreadKeepsEnds ==
    ASSUME ThreadStep \/ SpuriousWakeup
    PROVE  pc \notin {"unstarted", "done"} /\ pc' # "unstarted"
           /\ UNCHANGED <<callPc, dtorPc, mExitSignal>>
    BY DEF ThreadStep, LockMain, Wait, TimeOut, CheckExit, RunReturns, RunThrows,
           CheckSize, CheckExitInner, TakeTask, RunTaskRemoves, RunTaskReschedules,
           PutBack, SpuriousWakeup, Move, ReturnOrGoto, pushVars, exitVars

LEMMA ThreadsPhase ==
    ASSUME PhaseInv,
           WorkerStep \/ NewRequest \/ LogError \/ \E h \in Call \cup Viewer : RequestStep(h)
    PROVE  PhaseInv'
<1> USE DEF PhaseInv, RequestsInv, GoneInv, MapsInv, Starting, Ending
<1>1. CASE WorkerStep
  <2>1. /\ pc \notin {"unstarted", "done"} /\ UNCHANGED <<callPc, dtorPc, viewerPc, gone>>
        /\ pc' # "unstarted" /\ mainPc' \in {mainPc, "crashed"}
      BY <1>1, ThreadKeepsEnds DEF WorkerStep, MayMisuse, procVars, viewVars
  <2> QED
      BY <2>1
<1>2. CASE NewRequest
  <2>1. /\ mainPc = "serve" /\ mainPc' \in {"serve", "crashed"} /\ UNCHANGED <<gone, pc, dtorPc>>
      BY <1>2 DEF NewRequest, MayMisuse, PushLock, CallMove, vars, procVars, exitVars
  <2> QED
      BY <2>1
<1>3. CASE LogError
    BY <1>3 DEF LogError, addLog, viewVars, vars, pushVars, exitVars
<1>4. ASSUME NEW h \in Call \cup Viewer, RequestStep(h) PROVE PhaseInv'
  <2>1. mainPc \notin Starting \cup Ending \cup {"delete"}
    <3>1. \/ h \in Call /\ callPc[h] # "idle"
          \/ h \in Viewer /\ viewerPc[h] # "idle"
        BY <1>4 DEF RequestStep, CallStep, PushTask, PushUnlock, PushNotify, CallMove,
                    ViewerStep, getErrorsHtml, respond
    <3> QED
        BY <3>1
  <2>2. mainPc' \in {mainPc, "crashed"} /\ UNCHANGED <<gone, dtorPc>>
      BY <1>4 DEF RequestStep, MayMisuse, CallStep, PushTask, PushUnlock, PushNotify,
                  CallMove, vars, procVars, exitVars
  <2>3. pc' = pc \/ (pc = "waiting" /\ pc' = "woken")
      BY <1>4 DEF RequestStep, CallStep, PushTask, PushUnlock, PushNotify, WakeIfWaiting,
                  vars
  <2> QED
      BY <2>1, <2>2, <2>3
<1> QED
    BY <1>1, <1>2, <1>3, <1>4

LEMMA PhaseStep == PhaseInv /\ [ProcNext]_allVars => PhaseInv'
<1>1. PhaseInv /\ UNCHANGED allVars => PhaseInv'
    BY DEF PhaseInv, RequestsInv, GoneInv, MapsInv, allVars, vars, viewVars, procVars,
           pushVars, exitVars
<1> QED
    BY <1>1, MainPhase, ThreadsPhase DEF ProcNext, Over

LEMMA AlwaysPhaseInv == ProcSafeSpec => []PhaseInv
    BY InitPhaseInv, PhaseStep, PTL DEF ProcSafeSpec

-----------------------------------------------------------------------------
\* A step of the process is one of WorkerThread or leaves it alone: main takes
\* the steps of the destructor, and begins them when no call is under way.
LEMMA ProcessSimulation == PhaseInv /\ [ProcNext]_allVars => [Next]_vars
<1> SUFFICES ASSUME PhaseInv, [ProcNext]_allVars PROVE [Next]_vars
    OBVIOUS
<1>1. CASE MainStep \/ Signal
  <2>1. CASE DestroyServer
    <3>1. DtorBegin
        BY <2>1 DEF DestroyServer, MainGoes, DtorBegin, PhaseInv, RequestsInv, Ending
    <3> QED
        BY <3>1 DEF Next
  <2>2. CASE initializeFromDb \/ DestroyWorker
      BY <2>2 DEF initializeFromDb, DestroyWorker, Next
  <2>3. CASE ~(DestroyServer \/ initializeFromDb \/ DestroyWorker)
      BY <1>1, <2>3 DEF MainStep, Signal, ReadConfig, ConstructServer,
         FirstUpdateAllowedIps, InitializeFails, HttpServeReturns, DeleteConfig,
         DestroyLog, DestroyMaps, End
  <2> QED
      BY <2>1, <2>2, <2>3
<1>2. CASE WorkerStep \/ NewRequest \/ LogError
    BY <1>2 DEF WorkerStep, NewRequest, LogError, Next
<1>3. ASSUME NEW h \in Call \cup Viewer, RequestStep(h) PROVE [Next]_vars
    BY <1>3 DEF RequestStep, Next
<1>4. CASE Over \/ UNCHANGED allVars
    BY <1>4 DEF Over, allVars
<1> QED
    BY <1>1, <1>2, <1>3, <1>4 DEF ProcNext

\* The process is an environment WorkerThread allows: the calls of http_serve
\* have returned when static objects are destroyed, however a start fails and
\* whenever the signal comes.
THEOREM ProcessImplementsWorkerThread == ProcSafeSpec => ImplementsWorkerThread
<1>1. ProcInit => Init
    BY DEF ProcInit
<1> QED
    BY <1>1, ProcessSimulation, AlwaysPhaseInv, PTL
    DEF ProcSafeSpec, ImplementsWorkerThread, SafeSpec

\* So the invariant of the worker thread holds in the process.
LEMMA AlwaysIInv == ProcSafeSpec => []IInv
    BY ProcessImplementsWorkerThread, Invariance, PTL DEF ImplementsWorkerThread

\* The maps of the cache are destroyed only when no thread looks into them.
THEOREM MapsSafe == ProcSafeSpec => []MapsOutliveWorker
<1>1. PhaseInv => MapsOutliveWorker
    BY DEF PhaseInv, MapsInv, MapsOutliveWorker
<1> QED
    BY <1>1, AlwaysPhaseInv, PTL

LEMMA MisuseStep ==
    PhaseInv /\ IInv /\ [ProcNext]_allVars =>
        (misused' /\ ~misused =>
            "config" \in gone /\ ~mExitSignal /\ pc \in {"run", "runTask"})
<1> SUFFICES ASSUME PhaseInv, IInv, [ProcNext]_allVars, misused', ~misused
             PROVE  "config" \in gone /\ ~mExitSignal /\ pc \in {"run", "runTask"}
    OBVIOUS
<1>1. CASE WorkerStep
  <2>1. pc \in {"run", "runTask"} /\ gone # {}
      BY <1>1 DEF WorkerStep, MayMisuse, procVars
  <2>2. ~mExitSignal
      BY <2>1 DEF IInv, NoWorkAfterExitSignal, NotHolding
  <2> QED
      BY <2>1, <2>2 DEF PhaseInv, GoneInv
<1>2. CASE NewRequest
    BY <1>2 DEF NewRequest, MayMisuse, procVars, PhaseInv, GoneInv, Ending
<1>3. ASSUME NEW h \in Call \cup Viewer, RequestStep(h) PROVE FALSE
  <2>1. gone # {} /\ Alive
      BY <1>3 DEF RequestStep, MayMisuse, procVars
  <2>2. mainPc \in Ending
      BY <2>1 DEF PhaseInv, GoneInv, Alive
  <2>3. \/ h \in Call /\ callPc[h] # "idle"
        \/ h \in Viewer /\ viewerPc[h] # "idle"
      BY <1>3 DEF RequestStep, CallStep, PushTask, PushUnlock, PushNotify, CallMove,
                  ViewerStep, getErrorsHtml, respond
  <2> QED
      BY <2>2, <2>3 DEF PhaseInv, RequestsInv
<1>4. ~(MainStep \/ Signal \/ LogError \/ Over \/ UNCHANGED allVars)
    BY DEF MainStep, Signal, LogError, Over, ReadConfig, ConstructServer,
           FirstUpdateAllowedIps, initializeFromDb, InitializeFails, HttpServeReturns,
           DeleteConfig, DestroyLog, DestroyServer, DestroyWorker, DestroyMaps, End,
           allVars, procVars
<1> QED
    BY <1>1, <1>2, <1>3, <1>4 DEF ProcNext

\* Whoever uses what is gone is the worker at work between delete g_Config and
\* the exit signal: no request, not after a failed start, nothing later.
THEOREM MisuseIsBounded == ProcSafeSpec => MisuseOnlyBeforeExitSignal
    BY MisuseStep, AlwaysPhaseInv, AlwaysIInv, PTL
    DEF ProcSafeSpec, MisuseOnlyBeforeExitSignal

-----------------------------------------------------------------------------
(***************************************************************************)
(* The log.                                                                *)
(***************************************************************************)
LogInv ==
    /\ mLogEntries \in Seq(Entry)
    /\ mRemovedErrors \in Nat /\ logged \in 0 .. MaxLogs
    /\ NewestErrorsAreKept

LEMMA AddKeepsNewest ==
    ASSUME LogInv, NEW size \in LineSize, addLog(size)
    PROVE  LogInv'
<1> DEFINE e == [nr |-> logged + 1, size |-> size]
           entries == Append(mLogEntries, e)
           s == Surplus(entries)
<1>1. e \in Entry /\ e.nr = logged + 1
    BY LogAssumption DEF LogInv, addLog, Entry
<1>2. /\ mLogEntries \in Seq(Entry) /\ Len(mLogEntries) \in Nat
      /\ Len(mLogEntries) <= MaxEntries /\ MaxEntries \in Nat
      /\ mRemovedErrors \in Nat /\ logged \in Nat
      /\ mRemovedErrors + Len(mLogEntries) = logged
      /\ \A k \in 1 .. Len(mLogEntries) : mLogEntries[k].nr = mRemovedErrors + k
    BY LogAssumption DEF LogInv, NewestErrorsAreKept
<1>3. /\ mLogEntries' = SubSeq(entries, s + 1, Len(entries))
      /\ mRemovedErrors' = mRemovedErrors + s /\ logged' = logged + 1
    BY DEF addLog
<1> HIDE DEF e
<1>4. /\ entries \in Seq(Entry) /\ Len(entries) = Len(mLogEntries) + 1
      /\ \A k \in 1 .. Len(entries) :
            entries[k] \in Entry /\ entries[k].nr = mRemovedErrors + k
    BY <1>1, <1>2
<1> HIDE DEF entries
<1>5. s \in 0 .. 1 /\ Len(entries) - s <= MaxEntries /\ s <= Len(entries)
    BY <1>2, <1>4 DEF Surplus
<1> HIDE DEF s
<1>6. s + 1 \in Int /\ Len(entries) \in Int /\ \A k \in s + 1 .. Len(entries) : entries[k] \in Entry
    BY <1>2, <1>4, <1>5
<1>7. /\ mLogEntries' \in Seq(Entry) /\ Len(mLogEntries') = Len(entries) - s
      /\ \A k \in 1 .. Len(entries) - s : mLogEntries'[k] = entries[s + k]
  <2> DEFINE kept == SubSeq(entries, s + 1, Len(entries))
  <2>1. /\ kept \in Seq(Entry)
        /\ Len(kept) = IF s + 1 <= Len(entries) THEN Len(entries) - (s + 1) + 1 ELSE 0
        /\ \A k \in 1 .. Len(entries) - (s + 1) + 1 : kept[k] = entries[s + 1 + k - 1]
      BY <1>6, SubSeqProperties
  <2> HIDE DEF kept
  <2>2. Len(kept) = Len(entries) - s
      BY <1>5, <1>6, <2>1
  <2>3. \A k \in 1 .. Len(entries) - s : kept[k] = entries[s + k]
    <3> SUFFICES ASSUME NEW k \in 1 .. Len(entries) - s PROVE kept[k] = entries[s + k]
        OBVIOUS
    <3>1. k \in 1 .. Len(entries) - (s + 1) + 1 /\ s + 1 + k - 1 = s + k
        BY <1>5, <1>6
    <3> QED
        BY <2>1, <3>1
  <2> QED
      BY <1>3, <2>1, <2>2, <2>3 DEF kept
<1>8. \A k \in 1 .. Len(mLogEntries') : mLogEntries'[k].nr = mRemovedErrors' + k
  <2> SUFFICES ASSUME NEW k \in 1 .. Len(mLogEntries')
               PROVE  mLogEntries'[k].nr = mRemovedErrors' + k
      OBVIOUS
  <2>1. s + k \in 1 .. Len(entries) /\ mLogEntries'[k] = entries[s + k]
      BY <1>2, <1>4, <1>5, <1>7
  <2>2. entries[s + k].nr = mRemovedErrors + (s + k)
      BY <1>4, <2>1
  <2>3. mRemovedErrors' + k = mRemovedErrors + (s + k)
      BY <1>2, <1>3, <1>5
  <2> QED
      BY <2>1, <2>2, <2>3
<1>9. /\ mRemovedErrors' \in Nat /\ logged' \in 0 .. MaxLogs
      /\ Len(mLogEntries') <= MaxEntries
      /\ mRemovedErrors' + Len(mLogEntries') = logged'
  <2> DEFINE n == Len(mLogEntries)
             m == Len(entries)
             new == Len(mLogEntries')
  <2>1. /\ n \in Nat /\ m = n + 1 /\ new = m - s /\ s \in 0 .. 1 /\ m - s <= MaxEntries
        /\ mRemovedErrors \in Nat /\ logged \in Nat /\ mRemovedErrors + n = logged
        /\ mRemovedErrors' = mRemovedErrors + s /\ logged' = logged + 1
        /\ logged < MaxLogs /\ MaxLogs \in Nat
      BY <1>2, <1>3, <1>4, <1>5, <1>7, LogAssumption DEF addLog
  <2> HIDE DEF n, m, new
  <2>2. /\ mRemovedErrors' \in Nat /\ logged' \in 0 .. MaxLogs /\ new <= MaxEntries
        /\ mRemovedErrors' + new = logged'
      BY <2>1
  <2> QED
      BY <2>2 DEF new
<1>10. DOMAIN mLogEntries' = 1 .. Len(mLogEntries')
    BY <1>7
<1> QED
    BY <1>7, <1>8, <1>9, <1>10 DEF LogInv, NewestErrorsAreKept

LEMMA LogStep == LogInv /\ [ProcNext]_allVars => LogInv'
<1> SUFFICES ASSUME LogInv, [ProcNext]_allVars PROVE LogInv'
    OBVIOUS
<1>1. CASE LogError
    BY <1>1, AddKeepsNewest DEF LogError
<1>2. CASE UNCHANGED logVars
    BY <1>2 DEF logVars, LogInv, NewestErrorsAreKept
<1>3. ASSUME ~LogError PROVE UNCHANGED logVars
    BY <1>3 DEF ProcNext, MainStep, Signal, Over, ReadConfig, ConstructServer,
       FirstUpdateAllowedIps, initializeFromDb, InitializeFails, HttpServeReturns,
       DeleteConfig, DestroyLog, DestroyServer, DestroyWorker, DestroyMaps, End,
       WorkerStep, NewRequest, hasErrors, RequestStep, ViewerStep, getErrorsHtml,
       respond, allVars, logVars
<1> QED
    BY <1>1, <1>2, <1>3

\* Whatever errors come from whichever thread, the log holds the newest of
\* them up to its limit, in their order, and counts the others.
THEOREM NewestErrors == ProcSafeSpec => []NewestErrorsAreKept
<1>1. ProcInit => LogInv
    BY LogAssumption DEF ProcInit, LogInit, LogInv, NewestErrorsAreKept
<1>2. LogInv => NewestErrorsAreKept
    BY DEF LogInv
<1> QED
    BY <1>1, <1>2, LogStep, PTL DEF ProcSafeSpec

-----------------------------------------------------------------------------
(***************************************************************************)
(* The status page. A log that has an error never becomes empty again, so  *)
(* that a page begun because of errors finds some when it gets the mutex   *)
(* for the second time.                                                    *)
(***************************************************************************)
ViewInv ==
    /\ viewerPc \in [Viewer -> {"idle", "errors", "ok", "page"}]
    /\ html \in [Viewer -> [lines : Seq(Entry), dots : BOOLEAN,
                            removed : 0 .. MaxLogs, logged : 0 .. MaxLogs]]
    /\ \A v \in Viewer : viewerPc[v] = "errors" => mLogEntries # <<>>
    /\ PageAccountsForAll

\* What holds of the log and of its counters together.
LEMMA LogFacts ==
    ASSUME LogInv
    PROVE  /\ mLogEntries \in Seq(Entry) /\ Len(mLogEntries) \in Nat
           /\ mRemovedErrors \in 0 .. MaxLogs /\ logged \in 0 .. MaxLogs
           /\ mRemovedErrors + Len(mLogEntries) = logged
<1>1. Len(mLogEntries) \in Nat
    BY DEF LogInv
<1> HIDE DEF LogInv
<1>2. /\ mRemovedErrors \in Nat /\ logged \in 0 .. MaxLogs /\ MaxLogs \in Nat
      /\ mRemovedErrors + Len(mLogEntries) = logged
    BY LogAssumption DEF LogInv, NewestErrorsAreKept
<1>3. mRemovedErrors \in 0 .. MaxLogs
    BY <1>1, <1>2
<1> QED
    BY <1>1, <1>2, <1>3 DEF LogInv

\* After an error there is one in the log.
LEMMA AddLeavesSome ==
    ASSUME LogInv, NEW size \in LineSize, addLog(size)
    PROVE  mLogEntries' # <<>>
<1> DEFINE e == [nr |-> logged + 1, size |-> size]
           entries == Append(mLogEntries, e)
           s == Surplus(entries)
<1>1. /\ mRemovedErrors' = mRemovedErrors + s /\ logged' = logged + 1
    BY DEF addLog
<1>2. LogInv'
    BY AddKeepsNewest
<1>3. /\ Len(mLogEntries') \in Nat /\ mRemovedErrors' + Len(mLogEntries') = logged'
  <2>1. mLogEntries' \in Seq(Entry)
      BY <1>2 DEF LogInv
  <2> QED
      BY <1>2, <2>1 DEF LogInv, NewestErrorsAreKept
<1>4. Len(entries) = Len(mLogEntries) + 1 /\ Len(mLogEntries) \in Nat
  <2> HIDE DEF e
  <2> QED
      BY DEF LogInv
<1>5. /\ Len(mLogEntries) <= MaxEntries /\ MaxEntries \in Nat \ {0}
      /\ mRemovedErrors \in Nat /\ mRemovedErrors + Len(mLogEntries) = logged
    BY LogAssumption DEF LogInv, NewestErrorsAreKept
<1> HIDE DEF entries
<1>6. s \in Nat /\ s <= Len(mLogEntries)
    BY <1>4, <1>5 DEF Surplus
<1> HIDE DEF s
<1>7. Len(mLogEntries') > 0
  <2> DEFINE n == Len(mLogEntries)  m == Len(mLogEntries')
  <2>1. /\ m \in Nat /\ n \in Nat /\ s \in Nat /\ s <= n /\ mRemovedErrors \in Nat
        /\ mRemovedErrors + s + m = mRemovedErrors + n + 1
      BY <1>1, <1>3, <1>4, <1>5, <1>6
  <2> HIDE DEF n, m
  <2>2. m > 0
      BY <2>1
  <2> QED
      BY <2>2 DEF m
<1> QED
    BY <1>7

LEMMA PageView ==
    ASSUME LogInv, ViewInv, NEW w \in Viewer, getErrorsHtml(w)
    PROVE  ViewInv'
<1> PICK n \in ShownLines :
        html' = [html EXCEPT ![w] = [lines |-> SubSeq(mLogEntries, 1, n),
                                     dots |-> n < Len(mLogEntries),
                                     removed |-> mRemovedErrors, logged |-> logged]]
    BY DEF getErrorsHtml
<1> DEFINE lines == SubSeq(mLogEntries, 1, n)
           p == [lines |-> lines, dots |-> n < Len(mLogEntries),
                 removed |-> mRemovedErrors, logged |-> logged]
<1>1. /\ mLogEntries \in Seq(Entry) /\ Len(mLogEntries) \in Nat
      /\ mRemovedErrors \in 0 .. MaxLogs /\ logged \in 0 .. MaxLogs
      /\ mRemovedErrors + Len(mLogEntries) = logged
    BY LogFacts
<1>2. n \in 0 .. Len(mLogEntries) /\ n \in Int
    BY <1>1 DEF ShownLines
<1>3. viewerPc[w] = "errors" /\ mLogEntries # <<>>
    BY DEF getErrorsHtml, ViewInv
<1>4. \A k \in 1 .. n : mLogEntries[k] \in Entry
    BY <1>1, <1>2
<1>5. /\ lines \in Seq(Entry) /\ Len(lines) = n
      /\ \A k \in 1 .. n : lines[k] = mLogEntries[k]
    BY <1>1, <1>2, <1>4, SubSeqProperties
<1>6. \A k \in 1 .. n : mLogEntries[k].nr = mRemovedErrors + k
    BY <1>1, <1>2 DEF LogInv, NewestErrorsAreKept
<1> HIDE DEF lines
<1>7. lines # <<>> \/ n < Len(mLogEntries)
    BY <1>1, <1>2, <1>3, <1>5
<1>8. n < Len(mLogEntries) <=> mRemovedErrors + Len(lines) < logged
    BY <1>1, <1>2, <1>5
<1>9. /\ p \in [lines : Seq(Entry), dots : BOOLEAN,
                removed : 0 .. MaxLogs, logged : 0 .. MaxLogs]
      /\ p.lines # <<>> \/ p.dots
      /\ \A k \in DOMAIN p.lines : p.lines[k].nr = p.removed + k
      /\ p.dots <=> p.removed + Len(p.lines) < p.logged
  <2> DEFINE dots == n < Len(mLogEntries)
  <2>1. dots \in BOOLEAN /\ (dots <=> mRemovedErrors + Len(lines) < logged)
      BY <1>8
  <2>2. \A k \in DOMAIN lines : lines[k].nr = mRemovedErrors + k
      BY <1>5, <1>6
  <2>3. lines # <<>> \/ dots
      BY <1>7
  <2>4. lines \in Seq(Entry)
      BY <1>5
  <2> HIDE DEF dots
  <2> QED
      BY <1>1, <2>1, <2>2, <2>3, <2>4 DEF dots
<1>10. /\ viewerPc' = [viewerPc EXCEPT ![w] = "page"]
       /\ html' = [html EXCEPT ![w] = p] /\ mLogEntries' = mLogEntries
    BY DEF getErrorsHtml, logVars, lines
<1> HIDE DEF p
<1>11. ASSUME NEW v \in Viewer
       PROVE  IF v = w THEN viewerPc'[v] = "page" /\ html'[v] = p
              ELSE viewerPc'[v] = viewerPc[v] /\ html'[v] = html[v]
    BY <1>10 DEF ViewInv
<1>12. /\ viewerPc' \in [Viewer -> {"idle", "errors", "ok", "page"}]
       /\ html' \in [Viewer -> [lines : Seq(Entry), dots : BOOLEAN,
                                removed : 0 .. MaxLogs, logged : 0 .. MaxLogs]]
    BY <1>9, <1>10 DEF ViewInv
<1>13. \A v \in Viewer : viewerPc'[v] = "errors" => mLogEntries' # <<>>
    BY <1>3, <1>10
<1>14. PageAccountsForAll'
  <2> DEFINE Good(q) == /\ q.lines # <<>> \/ q.dots
                        /\ \A k \in DOMAIN q.lines : q.lines[k].nr = q.removed + k
                        /\ q.dots <=> q.removed + Len(q.lines) < q.logged
  <2>1. Good(p) /\ \A v \in Viewer : viewerPc[v] = "page" => Good(html[v])
      BY <1>9 DEF ViewInv, PageAccountsForAll
  <2> HIDE DEF Good
  <2>2. \A v \in Viewer : viewerPc'[v] = "page" => Good(html'[v])
      BY <1>11, <2>1
  <2> QED
      BY <2>2 DEF Good, PageAccountsForAll
<1> QED
    BY <1>12, <1>13, <1>14 DEF ViewInv

LEMMA ViewStep == LogInv /\ ViewInv /\ [ProcNext]_allVars => ViewInv'
<1> SUFFICES ASSUME LogInv, ViewInv, [ProcNext]_allVars PROVE ViewInv'
    OBVIOUS
<1>1. CASE LogError
  <2>1. viewerPc' = viewerPc /\ html' = html /\ mLogEntries' # <<>>
      BY <1>1, AddLeavesSome DEF LogError, addLog, viewVars
  <2> QED
      BY <2>1 DEF ViewInv, PageAccountsForAll
<1>2. ASSUME NEW v \in Viewer, hasErrors(v) PROVE ViewInv'
    BY <1>2 DEF hasErrors, logVars, ViewInv, PageAccountsForAll
<1>3. ASSUME NEW v \in Viewer, getErrorsHtml(v) PROVE ViewInv'
    BY <1>3, PageView
<1>4. ASSUME NEW v \in Viewer, respond(v) PROVE ViewInv'
  <2>1. NoPage \in [lines : Seq(Entry), dots : BOOLEAN,
                    removed : 0 .. MaxLogs, logged : 0 .. MaxLogs]
      BY LogAssumption DEF NoPage
  <2> QED
      BY <1>4, <2>1 DEF respond, logVars, ViewInv, PageAccountsForAll
<1>5. CASE UNCHANGED <<logVars, viewVars>>
    BY <1>5 DEF logVars, viewVars, ViewInv, PageAccountsForAll
<1>6. \/ LogError \/ UNCHANGED <<logVars, viewVars>>
      \/ \E v \in Viewer : hasErrors(v) \/ getErrorsHtml(v) \/ respond(v)
  <2>1. MainStep \/ Signal \/ Over => UNCHANGED <<logVars, viewVars>>
      BY DEF MainStep, Signal, Over, ReadConfig, ConstructServer, FirstUpdateAllowedIps,
         initializeFromDb, InitializeFails, HttpServeReturns, DeleteConfig, DestroyLog,
         DestroyServer, DestroyWorker, DestroyMaps, End, allVars
  <2>2. UNCHANGED allVars => UNCHANGED <<logVars, viewVars>>
      BY DEF allVars
  <2> QED
      BY <2>1, <2>2 DEF ProcNext, WorkerStep, NewRequest, RequestStep, ViewerStep
<1> QED
    BY <1>1, <1>2, <1>3, <1>4, <1>5, <1>6

LEMMA AlwaysViewInv == ProcSafeSpec => [](LogInv /\ ViewInv)
<1>1. ProcInit => LogInv
    BY LogAssumption DEF ProcInit, LogInit, LogInv, NewestErrorsAreKept
<1>2. ProcInit => ViewInv
  <2>1. NoPage \in [lines : Seq(Entry), dots : BOOLEAN,
                    removed : 0 .. MaxLogs, logged : 0 .. MaxLogs]
      BY LogAssumption DEF NoPage
  <2> QED
      BY <2>1 DEF ProcInit, LogInit, ViewInv, PageAccountsForAll
<1> QED
    BY <1>1, <1>2, LogStep, ViewStep, PTL DEF ProcSafeSpec

\* A page of errors is in itself consistent, whatever has been logged and
\* dropped between its two visits to the mutex: it has something to show, its
\* lines follow those it counts as removed, and "..." stands on it exactly if
\* some of the rest is left out.
THEOREM PagesAccountForAll == ProcSafeSpec => []PageAccountsForAll
<1>1. ViewInv => PageAccountsForAll
    BY DEF ViewInv
<1> QED
    BY <1>1, AlwaysViewInv, PTL

-----------------------------------------------------------------------------
(***************************************************************************)
(* Types. The log is constructed once, before the server if the start      *)
(* fails early and after it otherwise, so that it never goes last.         *)
(***************************************************************************)
StaticsInv ==
    /\ mainPc \in {"config", "server", "ips", "init", "serve", "join", "delete",
                   "exit", "destroy", "ended", "terminated", "crashed"}
    /\ statics \in {<<>>, <<"log">>, <<"server">>, <<"server", "log">>}
    /\ mainPc \in {"config", "server"} => statics = <<>>
    /\ gone \subseteq Object
    /\ misused \in BOOLEAN

\* Sequences of one and of two.
LEMMA PairFacts ==
    ASSUME NEW a, NEW b
    PROVE  /\ Append(<<a>>, b) = <<a, b>> /\ SubSeq(<<a, b>>, 1, 1) = <<a>>
           /\ SubSeq(<<a>>, 1, 0) = <<>> /\ Append(<<>>, a) = <<a>>
<1> DEFINE S == {a, b}
           one == <<a>>
           two == <<a, b>>
           longer == Append(one, b)
           shorter == SubSeq(two, 1, 1)
<1>1. one \in Seq(S) /\ Len(one) = 1 /\ one[1] = a /\ b \in S
    OBVIOUS
<1>2. two \in Seq(S) /\ Len(two) = 2 /\ two[1] = a /\ two[2] = b
    OBVIOUS
<1>3. SubSeq(one, 1, 0) = <<>> /\ Append(<<>>, a) = one
    OBVIOUS
<1> HIDE DEF one, two, S
<1>4. longer \in Seq(S) /\ Len(longer) = 2 /\ longer[1] = a /\ longer[2] = b
  <2>1. /\ longer \in Seq(S) /\ Len(longer) = Len(one) + 1
        /\ \A k \in 1 .. Len(one) : longer[k] = one[k]
        /\ longer[Len(one) + 1] = b
    <3>1. one \in Seq(S) /\ b \in S
        BY <1>1
    <3> QED
        BY <3>1, AppendProperties
  <2> HIDE DEF longer
  <2>2. Len(longer) = 2 /\ 1 \in 1 .. Len(one) /\ Len(one) + 1 = 2
      BY <1>1, <2>1
  <2>3. longer[2] = b
      BY <2>1, <2>2
  <2> QED
      BY <1>1, <2>1, <2>2, <2>3
<1>5. shorter \in Seq(S) /\ Len(shorter) = 1 /\ shorter[1] = a
  <2>1. \A k \in 1 .. 1 : two[k] \in S
      BY <1>2
  <2>2. /\ shorter \in Seq(S)
        /\ Len(shorter) = IF 1 <= 1 THEN 1 - 1 + 1 ELSE 0
        /\ \A k \in 1 .. 1 - 1 + 1 : shorter[k] = two[1 + k - 1]
      BY <2>1, SubSeqProperties
  <2> HIDE DEF shorter
  <2> QED
      BY <1>2, <2>2
<1> HIDE DEF longer, shorter
<1>6. longer = two /\ shorter = one
    BY <1>1, <1>2, <1>4, <1>5, SeqEqual
<1> QED
    BY <1>3, <1>6 DEF one, two, longer, shorter

LEMMA WithLogFacts ==
    ASSUME statics \in {<<>>, <<"log">>, <<"server">>, <<"server", "log">>}
    PROVE  /\ WithLog \in {<<>>, <<"log">>, <<"server">>, <<"server", "log">>}
           /\ statics # <<>> =>
                Pop(statics) \in {<<>>, <<"log">>, <<"server">>, <<"server", "log">>}
<1>1. CASE statics = <<>>
    BY <1>1 DEF WithLog
<1>2. CASE statics = <<"log">>
    BY <1>2 DEF WithLog, Pop
<1>3. CASE statics = <<"server">>
  <2>1. /\ Append(statics, "log") = <<"server", "log">>
        /\ SubSeq(statics, 1, 0) = <<>>
      BY <1>3, PairFacts, Zenon
  <2>2. Len(statics) - 1 = 0
      BY <1>3
  <2> QED
      BY <1>3, <2>1, <2>2 DEF WithLog, Pop
<1>4. CASE statics = <<"server", "log">>
  <2>1. Len(statics) - 1 = 1 /\ DOMAIN statics = 1 .. 2 /\ statics[2] = "log"
      BY <1>4
  <2>2. SubSeq(statics, 1, 1) = <<"server">>
      BY <1>4, PairFacts
  <2>3. WithLog = statics
      BY <2>1 DEF WithLog
  <2> QED
      BY <1>4, <2>1, <2>2, <2>3 DEF Pop
<1> QED
    BY <1>1, <1>2, <1>3, <1>4

LEMMA StaticsStep == PhaseInv /\ StaticsInv /\ [ProcNext]_allVars => StaticsInv'
<1> SUFFICES ASSUME PhaseInv, StaticsInv, [ProcNext]_allVars PROVE StaticsInv'
    OBVIOUS
<1> USE DEF StaticsInv, MainGoes
<1>1. CASE ReadConfig \/ FirstUpdateAllowedIps \/ initializeFromDb \/ InitializeFails
    BY <1>1, WithLogFacts
    DEF ReadConfig, FirstUpdateAllowedIps, initializeFromDb, InitializeFails
<1>2. CASE ConstructServer
    BY <1>2, PairFacts DEF ConstructServer
<1>3. CASE HttpServeReturns \/ DeleteConfig \/ End \/ Signal
    BY <1>3 DEF HttpServeReturns, DeleteConfig, End, Signal, Object
<1>4. CASE DestroyLog
    BY <1>4, WithLogFacts DEF DestroyLog, LastStatic, Object
<1>5. CASE DestroyServer
    BY <1>5 DEF DestroyServer, Object
<1>6. CASE DestroyMaps
  <2>1. Pop(statics) \in {<<>>, <<"log">>, <<"server">>, <<"server", "log">>}
    <3>1. CASE statics = <<>>
        BY <3>1 DEF Pop
    <3> QED
        BY <3>1, WithLogFacts
  <2> QED
      BY <1>6, <2>1 DEF DestroyMaps, Object
<1>7. CASE LogError
  <2>1. mainPc \notin {"config", "server"}
      BY <1>7 DEF LogError, PhaseInv, GoneInv, Starting
  <2> QED
      BY <1>7, <2>1, WithLogFacts DEF LogError
<1>8. ASSUME MayMisuse PROVE StaticsInv'
    BY <1>8 DEF MayMisuse, procVars
<1>9. CASE UNCHANGED procVars
    BY <1>9 DEF procVars
<1>10. CASE WorkerStep \/ NewRequest \/ \E h \in Call \cup Viewer : RequestStep(h)
    BY <1>8, <1>9, <1>10 DEF WorkerStep, NewRequest, RequestStep
<1>11. CASE DestroyWorker \/ Over \/ UNCHANGED allVars
    BY <1>9, <1>11 DEF DestroyWorker, Over, allVars
<1> QED
    BY <1>1, <1>2, <1>3, <1>4, <1>5, <1>6, <1>7, <1>10, <1>11 DEF ProcNext, MainStep

\* The variables of the process keep their types, those of its worker thread
\* and of its log among them, from the start to whichever end.
THEOREM ProcessTypes == ProcSafeSpec => []ProcTypeOK
<1>1. ProcInit => StaticsInv
    BY DEF ProcInit, StaticsInv
<1>2. ASSUME LogInv, ViewInv PROVE LogTypeOK
    BY <1>2, LogFacts DEF ViewInv, LogTypeOK
<1>3. IInv => TypeOK
    BY DEF IInv
<1>4. TypeOK /\ LogTypeOK /\ StaticsInv => ProcTypeOK
    BY DEF ProcTypeOK, StaticsInv
<1>5. ProcSafeSpec => []StaticsInv
    BY <1>1, StaticsStep, AlwaysPhaseInv, PTL DEF ProcSafeSpec
<1> QED
    BY <1>2, <1>3, <1>4, <1>5, AlwaysIInv, AlwaysViewInv, PTL
=============================================================================
