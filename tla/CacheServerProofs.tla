------------------------- MODULE CacheServerProofs -------------------------
(***************************************************************************)
(* The safety properties of CacheServer for any number of customers,       *)
(* e-mails and requests, any timeouts and any bounds, and its refinement   *)
(* of LaggingReplica.                                                      *)
(***************************************************************************)
EXTENDS CacheServer, SequenceTheorems, TLAPS

(***************************************************************************)
(* The inductive invariant. The worker owns a mutex exactly at the places  *)
(* between its lock and its release; nothing shown or fetched is ahead of  *)
(* the database; what waits to be swapped in is not behind what is shown;  *)
(* and a list whose reload has begun stays stale until it is replaced.     *)
(***************************************************************************)
DbInv == \A c \in Customer : dbVersion[c] <= 1 + dbChanges

WorkerInv ==
    /\ accessMutex = "worker" <=> workerPc \in TaskPcs
    /\ updateMutex = "worker" <=> workerPc \in LoadPcs
    /\ workerPc \in {"task"} \cup TaskPcs => task \in Email

RequestInv == accessMutex \in Request => asks[accessMutex] \in Email

VersionInv ==
    \A c \in Customer :
        /\ Shown[c] <= dbVersion[c]
        /\ workerPc = "swapLists" =>
              /\ Shown[c] <= Version(gdtEntriesByEmail[c])
              /\ Version(gdtEntriesByEmail[c]) <= dbVersion[c]

StaleInv == workerPc = "queryCustomer" => ~IsFresh(task)

IInv ==
    /\ TypeOK
    /\ DbInv
    /\ WorkerInv
    /\ RequestInv
    /\ VersionInv
    /\ StaleInv
USE DEF LoadPcs, TaskPcs

-----------------------------------------------------------------------------
(***************************************************************************)
(* Lists.                                                                  *)
(***************************************************************************)
LEMMA ListFields ==
  ASSUME NEW l \in List
  PROVE  /\ l # NoList
         /\ l.version \in 0 .. MaxVersion
         /\ l.age \in 0 .. MinCacheTimeout + 1
  BY NoListAssumption DEF List

LEMMA VersionRange ==
  ASSUME NEW l \in List \cup {NoList}
  PROVE  Version(l) \in 0 .. MaxVersion
<1>1. 0 \in 0 .. MaxVersion
  BY ConstantsAssumption DEF ConstantsAssumption, MaxVersion
<1> QED  BY <1>1, ListFields DEF Version

LEMMA AgeGrows ==
  ASSUME NEW limit \in Nat, NEW age \in 0 .. limit + 1
  PROVE  /\ Older(age, limit) \in 0 .. limit + 1
         /\ age > limit => Older(age, limit) > limit
  BY DEF Older

\* Ageing turns no list into another but for its age, and no stale list into
\* a fresh one.
LEMMA OlderListsKeepVersions ==
  ASSUME NEW lists \in ListMap
  PROVE  /\ OlderLists(lists) \in ListMap
         /\ \A c \in Customer :
               /\ OlderLists(lists)[c] = NoList <=> lists[c] = NoList
               /\ Version(OlderLists(lists)[c]) = Version(lists[c])
               /\ lists[c] # NoList /\ canUpdate(lists[c])
                     => canUpdate(OlderLists(lists)[c])
<1> SUFFICES ASSUME NEW c \in Customer
             PROVE  /\ OlderLists(lists)[c] \in List \cup {NoList}
                    /\ OlderLists(lists)[c] = NoList <=> lists[c] = NoList
                    /\ Version(OlderLists(lists)[c]) = Version(lists[c])
                    /\ lists[c] # NoList /\ canUpdate(lists[c])
                          => canUpdate(OlderLists(lists)[c])
  BY DEF ListMap, OlderLists
<1>1. CASE lists[c] = NoList
  BY <1>1 DEF OlderLists, Version
<1>2. CASE lists[c] # NoList
  <2> DEFINE l == lists[c]
             o == [l EXCEPT !.age = Older(@, MinCacheTimeout)]
  <2>1. l \in List
    BY <1>2 DEF ListMap
  <2>2. OlderLists(lists)[c] = o
    BY <1>2 DEF OlderLists
  <2>3. o.version = l.version /\ o.age = Older(l.age, MinCacheTimeout)
    BY <2>1 DEF List
  <2>4. /\ Older(l.age, MinCacheTimeout) \in 0 .. MinCacheTimeout + 1
        /\ l.age > MinCacheTimeout
             => Older(l.age, MinCacheTimeout) > MinCacheTimeout
    BY <2>1, ListFields, AgeGrows, ConstantsAssumption DEF ConstantsAssumption
  <2>5. o \in List
    BY <2>1, <2>4 DEF List
  <2>6. o # NoList
    BY <2>5, ListFields
  <2> QED  BY <1>2, <2>2, <2>3, <2>4, <2>5, <2>6 DEF Version, canUpdate
<1> QED  BY <1>1, <1>2

LEMMA ListFromDbFacts ==
  ASSUME TypeOK, NEW c \in Customer
  PROVE  /\ ListFromDb(c) \in List
         /\ Version(ListFromDb(c)) = dbVersion[c]
         /\ AllLists[c] \in List \cup {NoList}
         /\ Version(AllLists[c]) = dbVersion[c]
<1>1. ListFromDb(c) \in List
  BY ConstantsAssumption DEF ConstantsAssumption, TypeOK, ListFromDb, List
<1>2. Version(ListFromDb(c)) = dbVersion[c]
  BY <1>1, ListFields DEF Version, ListFromDb
<1> QED  BY <1>1, <1>2 DEF AllLists, Version

-----------------------------------------------------------------------------
LEMMA InitIInv == Init => IInv
<1> SUFFICES ASSUME Init PROVE IInv  OBVIOUS
<1> USE ConstantsAssumption DEF ConstantsAssumption
<1>1. dbVersion \in [Customer -> 0 .. MaxVersion] /\ DbInv
  BY DEF Init, MaxVersion, DbInv
<1>2. \A c \in Customer : /\ AllLists[c] \in List \cup {NoList}
                          /\ Version(AllLists[c]) = dbVersion[c]
  <2> TAKE c \in Customer
  <2>1. ListFromDb(c) \in List
    BY <1>1 DEF ListFromDb, List
  <2> QED  BY <2>1, ListFields DEF AllLists, Version, ListFromDb
<1>3. AllLists \in ListMap
  BY <1>2 DEF AllLists, ListMap
<1>4. TypeOK
  BY <1>1, <1>3 DEF Init, TypeOK, ContactMap, ListMap, NoContacts, NoLists,
     MaxVersion
<1>5. VersionInv
  BY <1>1, <1>2 DEF Init, VersionInv, Shown
<1> QED
  BY <1>1, <1>4, <1>5 DEF Init, IInv, WorkerInv, RequestInv, StaleInv

\* The database changes: versions only grow.
LEMMA DbSteps == IInv /\ DbStep => IInv'
<1> SUFFICES ASSUME IInv, DbStep PROVE IInv'  OBVIOUS
<1> USE ConstantsAssumption
    DEF ConstantsAssumption, IInv, TypeOK, DbStep, cacheVars, loadVars, requestVars
<1>1. CASE \E c \in Customer : ChangeEntries(c)
  <2> PICK c \in Customer : ChangeEntries(c)  BY <1>1
  <2>1. /\ dbChanges' \in 0 .. MaxDbChanges
        /\ dbVersion' \in [Customer -> Nat]
        /\ \A d \in Customer : dbVersion'[d] <= 1 + dbChanges'
        /\ \A d \in Customer : dbVersion[d] <= dbVersion'[d]
    <3>1. /\ dbChanges \in Nat /\ dbChanges' = dbChanges + 1
          /\ dbChanges' \in 0 .. MaxDbChanges
      BY DEF ChangeEntries
    <3>2. \A d \in Customer : dbVersion[d] \in Nat /\ dbVersion[d] <= 1 + dbChanges
      BY DEF DbInv, MaxVersion
    <3>3. dbVersion' \in [Customer -> Nat]
          /\ \A d \in Customer : dbVersion'[d] = IF d = c THEN dbVersion[c] + 1
                                                ELSE dbVersion[d]
      BY <3>2 DEF ChangeEntries
    <3>4. ASSUME NEW d \in Customer
          PROVE  dbVersion'[d] <= 1 + dbChanges' /\ dbVersion[d] <= dbVersion'[d]
      <4> HIDE DEF IInv, TypeOK, DbStep
      <4> QED  BY <3>1, <3>2, <3>3
    <3> QED  BY <3>1, <3>3, <3>4
  <2>2. dbVersion' \in [Customer -> 0 .. MaxVersion]
    <3>1. ASSUME NEW d \in Customer PROVE dbVersion'[d] \in 0 .. MaxVersion
      <4> HIDE DEF IInv, TypeOK, DbStep
      <4> QED  BY <2>1 DEF MaxVersion
    <3> QED  BY <2>1, <3>1
  <2>3. TypeOK' /\ DbInv'
    BY <2>1, <2>2 DEF ChangeEntries, DbInv
  <2>4. VersionInv'
    <3> SUFFICES ASSUME NEW d \in Customer
                 PROVE  /\ Shown'[d] <= dbVersion'[d]
                        /\ workerPc' = "swapLists" =>
                              /\ Shown'[d] <= Version(gdtEntriesByEmail'[d])
                              /\ Version(gdtEntriesByEmail'[d]) <= dbVersion'[d]
      BY DEF VersionInv, Shown, Version
    <3>1. Shown[d] \in Nat /\ Version(gdtEntriesByEmail[d]) \in Nat
      BY VersionRange DEF Shown, ListMap, MaxVersion
    <3>2. dbVersion[d] \in Nat /\ dbVersion'[d] \in Nat
      BY <2>1, <2>2 DEF MaxVersion
    <3>3. Shown' = Shown /\ Version(gdtEntriesByEmail'[d]) = Version(gdtEntriesByEmail[d])
      BY DEF Shown, Version
    <3> QED  BY <2>1, <3>1, <3>2, <3>3 DEF VersionInv
  <2> QED
    BY <2>3, <2>4 DEF WorkerInv, RequestInv, StaleInv, IsFresh, CachedList, canUpdate
<1>2. CASE \E e \in Email, c \in Customer \cup {NoCustomer} : ChangeContact(e, c)
  <2>1. TypeOK'
    BY <1>2 DEF ChangeContact, ContactMap
  <2>2. DbInv'
    BY <1>2 DEF ChangeContact, DbInv, MaxVersion
  <2> QED
    BY <1>2, <2>1, <2>2 DEF ChangeContact, WorkerInv, RequestInv, VersionInv,
       StaleInv, IsFresh, CachedList, canUpdate, Shown, Version
<1> QED  BY <1>1, <1>2

\* Time passes: lists age, stale lists stay stale.
LEMMA TickStep == IInv /\ Tick => IInv'
<1> SUFFICES ASSUME IInv, Tick PROVE IInv'  OBVIOUS
<1> USE ConstantsAssumption
    DEF ConstantsAssumption, IInv, TypeOK, Tick, dbVars, requestVars
<1>1. /\ sinceUpdate' \in 0 .. MaxCacheTimeout + 1
      /\ sinceNow' \in 0 .. MaxCacheTimeout + 1
  <2>1. /\ Older(sinceUpdate, MaxCacheTimeout) \in 0 .. MaxCacheTimeout + 1
        /\ Older(sinceNow, MaxCacheTimeout) \in 0 .. MaxCacheTimeout + 1
    BY AgeGrows
  <2>2. 0 \in 0 .. MaxCacheTimeout + 1
    OBVIOUS
  <2> QED  BY <2>1, <2>2
<1>2. mGdtEntriesByEmails' \in ListMap /\ gdtEntriesByEmail' \in ListMap
  BY OlderListsKeepVersions
<1>3. TypeOK'
  BY <1>1, <1>2
<1>4. VersionInv'
  BY OlderListsKeepVersions DEF VersionInv, Shown
<1>5. StaleInv'
  <2> SUFFICES ASSUME workerPc = "queryCustomer" PROVE ~IsFresh(task)'
    BY DEF StaleInv
  <2> DEFINE c == mEmailCustomerIds[task]
  <2>1. ~IsFresh(task) /\ c \in Customer \cup {NoCustomer}
    BY DEF StaleInv, WorkerInv, ContactMap
  <2>2. CASE c = NoCustomer
    BY <2>2 DEF IsFresh, CachedList
  <2>3. CASE c \in Customer
    <3>1. c # NoCustomer
      BY <2>3
    <3>2. mGdtEntriesByEmails[c] = NoList \/ canUpdate(mGdtEntriesByEmails[c])
      BY <2>1, <3>1 DEF IsFresh, CachedList
    <3>3. mGdtEntriesByEmails'[c] = NoList \/ canUpdate(mGdtEntriesByEmails'[c])
      BY <2>3, <3>2, OlderListsKeepVersions
    <3> QED  BY <3>1, <3>3 DEF IsFresh, CachedList, canUpdate
  <2> QED  BY <2>1, <2>2, <2>3
<1> QED
  BY <1>3, <1>4, <1>5 DEF DbInv, WorkerInv, RequestInv

\* Requests and updateAllowedIps leave the maps and the worker alone.
LEMMA OtherSteps ==
  IInv /\ (IpStep \/ \E r \in Request : FinishRequest(r) \/ NewRequest(r)) => IInv'
<1> SUFFICES ASSUME IInv,
                    IpStep \/ \E r \in Request : FinishRequest(r) \/ NewRequest(r)
             PROVE  IInv'
  OBVIOUS
<1> USE ConstantsAssumption
    DEF ConstantsAssumption, IInv, TypeOK, dbVars, cacheVars, loadVars, requestVars
<1>1. /\ UNCHANGED <<dbVars, cacheVars, sinceUpdate, workerPc, loadVars, task>>
      /\ up' \in BOOLEAN
  <2>1. CASE IpStep  BY <2>1 DEF IpStep
  <2>2. CASE \E r \in Request : FinishRequest(r)
    BY <2>2 DEF FinishRequest, Answer, EndRequest, TimeOut
  <2>3. CASE \E r \in Request : NewRequest(r)
    BY <2>3 DEF NewRequest, CrashInFind, BeginRequest
  <2> QED  BY <2>1, <2>2, <2>3
<1>2. DbInv' /\ VersionInv' /\ StaleInv'
  BY <1>1 DEF DbInv, VersionInv, StaleInv, IsFresh, CachedList, canUpdate,
     Shown, Version
<1>3. CASE IpStep
  BY <1>1, <1>2, <1>3 DEF IpStep, LockForIps, UnlockForIps, WorkerInv, RequestInv
<1>4. CASE \E r \in Request : FinishRequest(r) \/ NewRequest(r)
  <2> PICK r \in Request : FinishRequest(r) \/ NewRequest(r)  BY <1>4
  <2>1. CASE Answer(r)
    <3>1. \A c \in SeenCustomers(asks[r]) : CachedList(c) \in List \cup {NoList}
      BY <2>1 DEF Answer, SeenCustomers, CachedList, ContactMap, ListMap
    <3>2. answer' \in 0 .. MaxVersion
      BY <2>1, <3>1, VersionRange DEF Answer
    <3>3. asks[r] \in Email
      BY <2>1 DEF Answer
    <3>4. mTasks' \in Seq(Email)
      BY <2>1, <3>3, AppendProperties DEF Answer
    <3>5. updateMutex' = updateMutex /\ asks' = asks /\ accessMutex' = r
      BY <2>1 DEF Answer, FinishRequest, NewRequest, BeginRequest, CrashInFind
    <3> QED
      BY <1>1, <1>2, <2>1, <3>2, <3>3, <3>4, <3>5
      DEF Answer, WorkerInv, RequestInv
  <2>2. CASE EndRequest(r) \/ TimeOut(r)
    <3>1. 0 \in 0 .. MaxVersion
      BY DEF MaxVersion
    <3>2. updateMutex' = updateMutex
      BY DEF FinishRequest, NewRequest
    <3> QED
      BY <1>1, <1>2, <2>2, <3>1, <3>2
      DEF EndRequest, TimeOut, WorkerInv, RequestInv
  <2>3. CASE CrashInFind(r)
    BY <1>1, <1>2, <2>3 DEF CrashInFind, FinishRequest, NewRequest, WorkerInv,
       RequestInv
  <2>4. CASE \E e \in Email : BeginRequest(r, e)
    BY <1>1, <1>2, <2>4 DEF BeginRequest, FinishRequest, NewRequest, WorkerInv,
       RequestInv
  <2> QED  BY <2>1, <2>2, <2>3, <2>4 DEF FinishRequest, NewRequest
<1> QED  BY <1>3, <1>4

-----------------------------------------------------------------------------
(***************************************************************************)
(* Steps of the worker.                                                    *)
(***************************************************************************)
LEMMA ReloadSteps ==
  ASSUME IInv, UNCHANGED <<requestVars, up>>,
         Wake \/ SkipReload \/ StartReload \/ LoadCustomers \/ AssignCustomers
           \/ LoadLists \/ SwapLists \/ ReloadFails
  PROVE  IInv'
<1> USE ConstantsAssumption
    DEF ConstantsAssumption, IInv, TypeOK, WorkerGoes, dbVars, cacheVars,
        loadVars, requestVars
<1>1. CASE Wake \/ SkipReload \/ StartReload
  BY <1>1 DEF Wake, SkipReload, StartReload, DbInv, WorkerInv, RequestInv,
     VersionInv, StaleInv, Shown, Version
<1>2. CASE LoadCustomers
  BY <1>2 DEF LoadCustomers, DbInv, WorkerInv, RequestInv, VersionInv, StaleInv,
     Shown, Version
<1>3. CASE AssignCustomers
  <2>1. NoContacts \in ContactMap
    BY DEF NoContacts, ContactMap
  <2> QED
    BY <1>3, <2>1 DEF AssignCustomers, DbInv, WorkerInv, RequestInv, VersionInv,
       StaleInv, Shown, Version
<1>4. CASE LoadLists
  <2>1. AllLists \in ListMap
    BY ListFromDbFacts DEF ListMap, AllLists
  <2>2. TypeOK'
    BY <1>4, <2>1 DEF LoadLists
  <2>3. VersionInv'
    <3> SUFFICES ASSUME NEW c \in Customer
                 PROVE  /\ Shown[c] <= dbVersion[c]
                        /\ Shown[c] <= Version(AllLists[c])
                        /\ Version(AllLists[c]) <= dbVersion[c]
      BY <1>4 DEF LoadLists, VersionInv, Shown, Version
    <3>1. Version(AllLists[c]) = dbVersion[c] /\ dbVersion[c] \in Nat
      BY ListFromDbFacts DEF MaxVersion
    <3> QED  BY <3>1 DEF VersionInv
  <2> QED
    BY <1>4, <2>2, <2>3 DEF LoadLists, DbInv, WorkerInv, RequestInv, StaleInv
<1>5. CASE SwapLists
  <2>1. NoLists \in ListMap
    BY DEF NoLists, ListMap
  <2>2. TypeOK'
    BY <1>5, <2>1 DEF SwapLists
  <2>3. VersionInv'
    BY <1>5 DEF SwapLists, VersionInv, Shown, Version
  <2> QED
    BY <1>5, <2>2, <2>3 DEF SwapLists, DbInv, WorkerInv, RequestInv, StaleInv
<1>6. CASE ReloadFails
  <2>1. TypeOK'
    BY <1>6 DEF ReloadFails, QueryFails
  <2> QED
    BY <1>6, <2>1 DEF ReloadFails, QueryFails, DbInv, WorkerInv, RequestInv,
       VersionInv, StaleInv, Shown, Version
<1> QED  BY <1>1, <1>2, <1>3, <1>4, <1>5, <1>6

LEMMA TaskSteps ==
  ASSUME IInv, UNCHANGED <<requestVars, up>>,
         TakeTask \/ Sleep \/ SkipTask \/ StartTask \/ UnknownEmail
           \/ QueryCustomer \/ QueryList \/ TaskFails
  PROVE  IInv'
<1> USE ConstantsAssumption
    DEF ConstantsAssumption, IInv, TypeOK, WorkerGoes, dbVars, cacheVars,
        loadVars, requestVars
<1>1. CASE TakeTask
  <2>1. Head(mTasks) \in Email /\ Tail(mTasks) \in Seq(Email)
    BY <1>1 DEF TakeTask
  <2> QED
    BY <1>1, <2>1 DEF TakeTask, DbInv, WorkerInv, RequestInv, VersionInv,
       StaleInv, Shown, Version
<1>2. CASE Sleep
  BY <1>2 DEF Sleep, DbInv, WorkerInv, RequestInv, VersionInv, StaleInv, Shown,
     Version
<1>3. CASE StartTask
  BY <1>3 DEF StartTask, DbInv, WorkerInv, RequestInv, VersionInv, StaleInv,
     IsFresh, CachedList, canUpdate, Shown, Version
<1>4. CASE SkipTask \/ UnknownEmail \/ TaskFails
  <2>1. TypeOK'
    <3>1. CASE SkipTask
      BY <3>1 DEF SkipTask, EndTask
    <3>2. CASE UnknownEmail
      BY <3>2 DEF UnknownEmail, EndTask
    <3>3. CASE TaskFails
      BY <3>3 DEF TaskFails, EndTask, QueryFails
    <3> QED
      BY <1>4, <3>1, <3>2, <3>3
  <2> QED
    BY <1>4, <2>1 DEF SkipTask, UnknownEmail, TaskFails, EndTask, QueryFails,
       DbInv, WorkerInv, RequestInv, VersionInv, StaleInv, Shown, Version
<1>5. CASE QueryCustomer
  <2>1. PICK c \in CustomersByEmail(task) \ {NoCustomer} :
               mEmailCustomerIds' = [mEmailCustomerIds EXCEPT ![task] = c]
    BY <1>5 DEF QueryCustomer
  <2>2. task \in Email
    BY <1>5 DEF QueryCustomer, WorkerInv
  <2>3. c \in Customer
    BY <2>1, <2>2 DEF CustomersByEmail, ContactMap
  <2>4. mEmailCustomerIds' \in ContactMap /\ mEmailCustomerIds'[task] \in Customer
    BY <2>1, <2>2, <2>3 DEF ContactMap
  <2>5. TypeOK'
    BY <1>5, <2>4 DEF QueryCustomer
  <2> QED
    BY <1>5, <2>5 DEF QueryCustomer, DbInv, WorkerInv, RequestInv, VersionInv,
       StaleInv, Shown, Version
<1>6. CASE QueryList
  <2> DEFINE c == mEmailCustomerIds[task]
  <2>1. c \in Customer /\ workerPc = "queryList"
    BY <1>6 DEF QueryList, EndTask
  <2>2. mGdtEntriesByEmails' = [mGdtEntriesByEmails EXCEPT ![c] = ListFromDb(c)]
    BY <1>6 DEF QueryList
  <2>3. ListFromDb(c) \in List /\ Version(ListFromDb(c)) = dbVersion[c]
    BY <2>1, ListFromDbFacts
  <2>4. TypeOK'
    BY <1>6, <2>2, <2>3 DEF QueryList, EndTask, ListMap
  <2>5. VersionInv'
    BY <1>6, <2>1, <2>2, <2>3
    DEF QueryList, EndTask, VersionInv, Shown, ListMap, MaxVersion
  <2> QED
    BY <1>6, <2>4, <2>5 DEF QueryList, EndTask, DbInv, WorkerInv, RequestInv,
       StaleInv
<1> QED  BY <1>1, <1>2, <1>3, <1>4, <1>5, <1>6

LEMMA NextIInv == IInv /\ [Next]_vars => IInv'
<1> SUFFICES ASSUME IInv, [Next]_vars PROVE IInv'  OBVIOUS
<1>1. CASE WorkerStep  BY <1>1, ReloadSteps, TaskSteps DEF WorkerStep
<1>2. CASE UNCHANGED vars
  BY <1>2 DEF vars, dbVars, cacheVars, loadVars, requestVars, IInv, TypeOK,
     DbInv, WorkerInv, RequestInv, VersionInv, StaleInv, IsFresh, CachedList,
     canUpdate, Shown, Version
<1> QED  BY <1>1, <1>2, DbSteps, TickStep, OtherSteps DEF Next

\* The invariant holds in every reachable state of the cache server.
THEOREM Invariance == SafeSpec => []IInv
  BY InitIInv, NextIInv, PTL DEF SafeSpec

\* Type correctness; in particular entries are read for a real customer only.
THEOREM TypeCorrect == SafeSpec => []TypeOK
  BY Invariance, PTL DEF IInv

\* No reload leaves a mutex behind, on any of its ways out.
THEOREM IdleWorkerIsHarmless == SafeSpec => []IdleWorkerHoldsNothing
<1>1. IInv => IdleWorkerHoldsNothing
  BY DEF IInv, WorkerInv, IdleWorkerHoldsNothing
<1> QED  BY <1>1, Invariance, PTL

\* However often an e-mail is queued, its entries are not read again before
\* they are older than minCacheTimeout, unless its customer has changed.
THEOREM DuplicatesSkipped == SafeSpec => DuplicateTasksAreSkipped
<1>1. IInv /\ [Next]_vars =>
        [/\ workerPc = "queryCustomer" /\ workerPc' = "queryList"
         /\ mEmailCustomerIds' = mEmailCustomerIds
         => ~IsFresh(task)]_vars
  BY DEF IInv, StaleInv
<1> QED  BY <1>1, Invariance, PTL DEF SafeSpec, DuplicateTasksAreSkipped

-----------------------------------------------------------------------------
(***************************************************************************)
(* The refinement. A change of the entries is Write, and whatever happens  *)
(* to the lists in the cache is Refresh.                                   *)
(***************************************************************************)
LEMMA ShownType == TypeOK => Shown \in [Customer -> Nat]
  BY VersionRange DEF TypeOK, Shown, ListMap, MaxVersion

LEMMA StepSimulation == IInv /\ IInv' /\ [Next]_vars => [LR!Next]_LR!lrVars
<1> SUFFICES ASSUME IInv, IInv', [Next]_vars
             PROVE  LR!Next \/ UNCHANGED LR!lrVars
  OBVIOUS
<1>1. CASE \E c \in Customer : ChangeEntries(c) /\ UNCHANGED cacheVars
  BY <1>1 DEF ChangeEntries, cacheVars, Shown, Version, LR!Next, LR!Write
<1>2. CASE UNCHANGED <<dbVersion, mGdtEntriesByEmails>>
  BY <1>2 DEF LR!lrVars, Shown, Version
<1>3. CASE Tick \/ (WorkerStep /\ (SwapLists \/ QueryList))
  <2>1. dbVersion' = dbVersion
    BY <1>3 DEF Tick, SwapLists, QueryList, dbVars
  <2>2. Shown' \in [Customer -> Nat]
    <3>1. \A c \in Customer : mGdtEntriesByEmails'[c] \in List \cup {NoList}
      BY DEF IInv, TypeOK, ListMap
    <3>2. \A c \in Customer : Version(mGdtEntriesByEmails'[c]) \in 0 .. MaxVersion
      BY <3>1, VersionRange
    <3> QED  BY <3>2 DEF Shown, MaxVersion
  <2>3. \A c \in Customer : Shown[c] <= Shown'[c] /\ Shown'[c] <= dbVersion[c]
    <3> TAKE c \in Customer
    <3>1. Shown'[c] <= dbVersion[c]
      BY <2>1 DEF IInv, VersionInv
    <3>2. CASE Tick
      <4>1. Shown'[c] = Shown[c]
        BY <3>2, OlderListsKeepVersions DEF Tick, Shown, IInv, TypeOK
      <4>2. Shown[c] \in Nat
        BY ShownType DEF IInv
      <4> QED  BY <3>1, <4>1, <4>2
    <3>3. CASE SwapLists
      BY <3>1, <3>3 DEF SwapLists, WorkerGoes, IInv, VersionInv, Shown
    <3>4. CASE QueryList
      <4> DEFINE d == mEmailCustomerIds[task]
      <4>1. d \in Customer /\ Version(ListFromDb(d)) = dbVersion[d]
        BY <3>4, ListFromDbFacts DEF QueryList, EndTask, WorkerGoes, IInv, TypeOK
      <4>2. Shown'[c] = IF c = d THEN dbVersion[d] ELSE Shown[c]
        BY <3>4, <4>1 DEF QueryList, Shown, IInv, TypeOK, ListMap
      <4>3. Shown[c] \in Nat /\ Shown[c] <= dbVersion[c]
        BY ShownType DEF IInv, VersionInv
      <4> QED  BY <3>1, <4>2, <4>3
    <3> QED  BY <1>3, <3>2, <3>3, <3>4
  <2> QED  BY <2>1, <2>2, <2>3 DEF LR!Next, LR!Refresh
<1>4. CASE WorkerStep /\ ~(SwapLists \/ QueryList)
  <2>1. UNCHANGED <<dbVersion, mGdtEntriesByEmails>>
    BY <1>4 DEF WorkerStep, Wake, SkipReload, StartReload, LoadCustomers,
       AssignCustomers, LoadLists, ReloadFails, TakeTask, Sleep, SkipTask,
       StartTask, UnknownEmail, QueryCustomer, TaskFails, QueryFails, dbVars,
       cacheVars
  <2> QED  BY <1>2, <2>1
<1>5. CASE DbStep
  BY <1>1, <1>2, <1>5 DEF DbStep, ChangeContact, cacheVars
<1>6. CASE IpStep \/ \E r \in Request : FinishRequest(r) \/ NewRequest(r)
  <2>1. UNCHANGED <<dbVersion, mGdtEntriesByEmails>>
    BY <1>6 DEF IpStep, FinishRequest, NewRequest, dbVars, cacheVars
  <2> QED  BY <1>2, <2>1
<1>7. CASE UNCHANGED vars
  BY <1>2, <1>7 DEF vars, dbVars, cacheVars
<1> QED  BY <1>3, <1>4, <1>5, <1>6, <1>7 DEF Next

\* The entries shown for a customer are a state the database has had and never
\* an earlier one than shown before, whatever reloads overlap with whatever
\* changes and failures.
THEOREM ReplicaNeverGoesBack == SafeSpec => ImplementsLaggingReplica
<1>1. Init => LR!Init
  <2> SUFFICES ASSUME Init PROVE LR!Init  OBVIOUS
  <2>1. TypeOK
    BY InitIInv DEF IInv
  <2>2. Shown = dbVersion
    BY <2>1, ListFromDbFacts DEF Init, Shown, TypeOK
  <2> QED  BY <2>1, <2>2 DEF LR!Init, TypeOK, MaxVersion
<1> QED
  BY <1>1, Invariance, StepSimulation, PTL
  DEF SafeSpec, LR!Spec, ImplementsLaggingReplica
=============================================================================
