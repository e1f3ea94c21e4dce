---------------------------- MODULE CacheServer ----------------------------
(***************************************************************************)
(* The class CacheServer with its UpdateCacheWorker: HTTP threads answer   *)
(* from two maps in memory, e-mail to customer and customer to the list of *)
(* GDT entries, and queue tasks for one worker thread, which reloads one   *)
(* list per task and the whole cache after maxCacheTimeout.                *)
(*                                                                         *)
(* The entries of a customer are a version number, 0 for no entries. Time  *)
(* is kept as ages, which stop growing one beyond the timeout they are     *)
(* compared with. The worker is WorkerThread seen from outside: it wakes,  *)
(* calls run() and works until the queue is empty. A definition whose name *)
(* ends in Mutant is a faulty variant of the one after it and no part of   *)
(* the specification.                                                      *)
(***************************************************************************)
EXTENDS Naturals, Sequences, FiniteSets

CONSTANTS
    Customer, NoCustomer,
    Email, NoEmail,
    ValidEmail,        \* the e-mails g_EmailValidPattern matches
    Like,              \* the stored e-mails "email LIKE LOWER(TRIM(?))" matches
    Request,           \* HTTP threads
    NoList,
    MinCacheTimeout, MaxCacheTimeout,
    MaxDbChanges,      \* bound on changes of the database
    MaxFailures,       \* bound on failing queries
    MaxTasks           \* bound on the queue, which the code does not bound

ASSUME ConstantsAssumption ==
    /\ NoCustomer \notin Customer /\ NoEmail \notin Email
    /\ Request \cap {"free", "worker"} = {}
    /\ ValidEmail \subseteq Email /\ Like \in [Email -> SUBSET Email]
    /\ MinCacheTimeout \in Nat /\ MaxCacheTimeout \in Nat
    /\ MaxDbChanges \in Nat /\ MaxFailures \in Nat /\ MaxTasks \in Nat

MaxVersion == 1 + MaxDbChanges
List == [version : 0 .. MaxVersion, age : 0 .. MinCacheTimeout + 1]
ASSUME NoListAssumption == NoList \notin List

VARIABLES
    dbContacts,           \* the table contacts
    dbVersion,            \* the table gdt_entries, per customer
    dbChanges, failures,  \* counters for the bounds
    mEmailCustomerIds,
    mGdtEntriesByEmails,  \* despite its name indexed by customer
    sinceUpdate,          \* age of mLastUpdateGdtEntries
    mTasks,
    accessMutex,          \* mGdtEntriesAccessMutex
    updateMutex,          \* mGdtEntriesUpdateMutex; "ips": updateAllowedIps
    workerPc,
    sinceNow,             \* age of now, local to reloadCacheAfterTimeout
    contacts,             \* result of Customer::getAll being assigned
    gdtEntriesByEmail,    \* result of GdtEntry::getAll, local to loadFromDb
    task,                 \* the e-mail being reloaded
    asks,                 \* the e-mail each request is about, or NoEmail
    answer,               \* version the holder of accessMutex answers with
    up                    \* the process runs

dbVars == <<dbContacts, dbVersion, dbChanges, failures>>
cacheVars == <<mEmailCustomerIds, mGdtEntriesByEmails>>
loadVars == <<sinceNow, contacts, gdtEntriesByEmail>>
requestVars == <<asks, answer>>
vars == <<dbVars, cacheVars, sinceUpdate, mTasks, accessMutex, updateMutex,
          workerPc, loadVars, task, requestVars, up>>

ContactMap == [Email -> Customer \cup {NoCustomer}]
ListMap == [Customer -> List \cup {NoList}]
NoContacts == [e \in Email |-> NoCustomer]
NoLists == [c \in Customer |-> NoList]

LoadPcs == {"loadCustomers", "assignCustomers", "loadLists", "swapLists"}
TaskPcs == {"queryCustomer", "queryList"}

TypeOK ==
    /\ dbContacts \in ContactMap /\ dbVersion \in [Customer -> 0 .. MaxVersion]
    /\ dbChanges \in 0 .. MaxDbChanges /\ failures \in 0 .. MaxFailures
    /\ mEmailCustomerIds \in ContactMap /\ mGdtEntriesByEmails \in ListMap
    /\ sinceUpdate \in 0 .. MaxCacheTimeout + 1
    /\ mTasks \in Seq(Email)
    /\ accessMutex \in {"free", "worker"} \cup Request
    /\ updateMutex \in {"free", "worker", "ips"}
    /\ workerPc \in
          {"idle", "reload", "drain", "task"} \cup LoadPcs \cup TaskPcs
    /\ sinceNow \in 0 .. MaxCacheTimeout + 1
    /\ contacts \in ContactMap /\ gdtEntriesByEmail \in ListMap
    /\ task \in Email \cup {NoEmail}
    /\ asks \in [Request -> Email \cup {NoEmail}]
    /\ answer \in 0 .. MaxVersion
    /\ up \in BOOLEAN
    /\ workerPc = "queryList" => mEmailCustomerIds[task] \in Customer

-----------------------------------------------------------------------------
(***************************************************************************)
(* The database and the results of the queries.                            *)
(***************************************************************************)
ChangeEntries(c) ==
    /\ dbChanges < MaxDbChanges
    /\ dbVersion' = [dbVersion EXCEPT ![c] = @ + 1]
    /\ dbChanges' = dbChanges + 1
    /\ UNCHANGED <<dbContacts, failures>>

ChangeContact(e, c) ==
    /\ dbChanges < MaxDbChanges
    /\ dbContacts[e] # c
    /\ dbContacts' = [dbContacts EXCEPT ![e] = c]
    /\ dbChanges' = dbChanges + 1
    /\ UNCHANGED <<dbVersion, failures>>

QueryFails ==
    /\ failures < MaxFailures
    /\ failures' = failures + 1
    /\ UNCHANGED <<dbContacts, dbVersion, dbChanges>>

\* mLastUpdate is set with each row added to a list, and by the constructor.
ListFromDb(c) == [version |-> dbVersion[c], age |-> 0]

\* GdtEntry::getAll makes a list for each customer who has a row.
AllLists ==
    [c \in Customer |-> IF dbVersion[c] = 0 THEN NoList ELSE ListFromDb(c)]

\* Customer::getByEmail reads one row of those that match, 0 if there is none.
CustomersByEmail(e) ==
    LET found == {dbContacts[f] : f \in Like[e]} \ {NoCustomer}
    IN  IF found = {} THEN {NoCustomer} ELSE found

Init ==
    /\ dbContacts \in ContactMap /\ dbVersion \in [Customer -> {0, 1}]
    /\ dbChanges = 0 /\ failures = 0
    /\ mEmailCustomerIds = dbContacts /\ mGdtEntriesByEmails = AllLists
    /\ sinceUpdate = 0
    /\ mTasks = <<>> /\ accessMutex = "free" /\ updateMutex = "free"
    /\ workerPc = "idle" /\ task = NoEmail
    /\ sinceNow = 0 /\ contacts = NoContacts /\ gdtEntriesByEmail = NoLists
    /\ asks = [r \in Request |-> NoEmail] /\ answer = 0
    /\ up = TRUE

-----------------------------------------------------------------------------
(***************************************************************************)
(* Requests: listPerEmailApi and sumPerEmailApi. All that happens while a  *)
(* request has the access mutex is one step, but for the release.          *)
(***************************************************************************)
canUpdate(l) == l.age > MinCacheTimeout

CachedList(c) == IF c = NoCustomer THEN NoList ELSE mGdtEntriesByEmails[c]

Version(l) == IF l = NoList THEN 0 ELSE l.version

WantsUpdate(e, l) == IF l = NoList THEN e \in ValidEmail ELSE canUpdate(l)

\* loadFromDb move-assigns mEmailCustomerIds without the mutex under which
\* requests search it. A search meanwhile finds the old or the new customer,
\* or nothing in buckets already released; or it reads freed memory.
SeenCustomers(e) ==
    IF workerPc = "assignCustomers"
    THEN {mEmailCustomerIds[e], contacts[e], NoCustomer}
    ELSE {mEmailCustomerIds[e]}

BeginRequest(r, e) ==
    /\ asks[r] = NoEmail
    /\ Len(mTasks) + Cardinality({s \in Request : asks[s] # NoEmail}) < MaxTasks
    /\ asks' = [asks EXCEPT ![r] = e]
    /\ UNCHANGED <<answer, accessMutex, mTasks, up>>

Answer(r) ==
    /\ asks[r] # NoEmail /\ accessMutex = "free"
    /\ accessMutex' = r
    /\ \E c \in SeenCustomers(asks[r]) :
          /\ answer' = Version(CachedList(c))
          /\ mTasks' = IF WantsUpdate(asks[r], CachedList(c))
                       THEN Append(mTasks, asks[r]) ELSE mTasks
    /\ UNCHANGED <<asks, up>>

CrashInFind(r) ==
    /\ asks[r] # NoEmail /\ accessMutex = "free"
    /\ workerPc = "assignCustomers"
    /\ up' = FALSE
    /\ UNCHANGED <<asks, answer, accessMutex, mTasks>>

EndRequest(r) ==
    /\ accessMutex = r
    /\ accessMutex' = "free"
    /\ asks' = [asks EXCEPT ![r] = NoEmail]
    /\ answer' = 0
    /\ UNCHANGED <<mTasks, up>>

\* 100 ms without the mutex: answered with an error.
TimeOut(r) ==
    /\ asks[r] # NoEmail /\ accessMutex \notin {"free", r}
    /\ asks' = [asks EXCEPT ![r] = NoEmail]
    /\ UNCHANGED <<answer, accessMutex, mTasks, up>>

-----------------------------------------------------------------------------
(***************************************************************************)
(* The worker: run(), that is reloadCacheAfterTimeout after updateAllowed- *)
(* Ips, which only competes for the update mutex.                          *)
(***************************************************************************)
WorkerGoes(from, to) == workerPc = from /\ workerPc' = to

Wake ==
    /\ WorkerGoes("idle", "reload")
    /\ UNCHANGED <<dbVars, cacheVars, sinceUpdate, mTasks, accessMutex,
                   updateMutex, loadVars, task>>

SkipReload ==
    /\ WorkerGoes("reload", "drain")
    /\ sinceUpdate <= MaxCacheTimeout \/ updateMutex # "free"
    /\ UNCHANGED <<dbVars, cacheVars, sinceUpdate, mTasks, accessMutex,
                   updateMutex, loadVars, task>>

StartReload ==
    /\ WorkerGoes("reload", "loadCustomers")
    /\ sinceUpdate > MaxCacheTimeout
    /\ updateMutex = "free"
    /\ updateMutex' = "worker"
    /\ UNCHANGED <<dbVars, cacheVars, sinceUpdate, mTasks, accessMutex,
                   loadVars, task>>

LoadCustomers ==
    /\ WorkerGoes("loadCustomers", "assignCustomers")
    /\ contacts' = dbContacts
    /\ UNCHANGED <<dbVars, cacheVars, sinceUpdate, mTasks, accessMutex,
                   updateMutex, sinceNow, gdtEntriesByEmail, task>>

AssignCustomersMutant ==
    /\ WorkerGoes("assignCustomers", "loadLists")
    /\ mEmailCustomerIds' =
          [e \in Email |-> IF mEmailCustomerIds[e] = NoCustomer
                           THEN contacts[e] ELSE mEmailCustomerIds[e]]
    /\ contacts' = NoContacts
    /\ UNCHANGED <<dbVars, mGdtEntriesByEmails, sinceUpdate, mTasks,
                   accessMutex, updateMutex, sinceNow, gdtEntriesByEmail, task>>

AssignCustomers ==
    /\ WorkerGoes("assignCustomers", "loadLists")
    /\ mEmailCustomerIds' = contacts
    /\ contacts' = NoContacts
    /\ UNCHANGED <<dbVars, mGdtEntriesByEmails, sinceUpdate, mTasks,
                   accessMutex, updateMutex, sinceNow, gdtEntriesByEmail, task>>

LoadListsMutant ==
    /\ WorkerGoes("loadLists", "swapLists")
    /\ gdtEntriesByEmail' \in {AllLists, NoLists}
    /\ UNCHANGED <<dbVars, cacheVars, sinceUpdate, mTasks, accessMutex,
                   updateMutex, sinceNow, contacts, task>>

LoadLists ==
    /\ WorkerGoes("loadLists", "swapLists")
    /\ gdtEntriesByEmail' = AllLists
    /\ UNCHANGED <<dbVars, cacheVars, sinceUpdate, mTasks, accessMutex,
                   updateMutex, sinceNow, contacts, task>>

SwapLists ==
    /\ WorkerGoes("swapLists", "drain")
    /\ accessMutex = "free"
    /\ mGdtEntriesByEmails' = gdtEntriesByEmail
    /\ gdtEntriesByEmail' = NoLists
    /\ updateMutex' = "free"
    /\ sinceNow' = 0
    /\ UNCHANGED <<dbVars, mEmailCustomerIds, sinceUpdate, mTasks, accessMutex,
                   contacts, task>>

ReloadFailsMutant ==
    /\ WorkerGoes("loadCustomers", "drain") \/ WorkerGoes("loadLists", "drain")
    /\ QueryFails
    /\ sinceUpdate' = sinceNow
    /\ sinceNow' = 0
    /\ UNCHANGED <<cacheVars, mTasks, accessMutex, updateMutex, contacts,
                   gdtEntriesByEmail, task>>

\* An exception leaves what has been assigned, and waits for a whole timeout
\* counted from the start of the attempt.
ReloadFails ==
    /\ WorkerGoes("loadCustomers", "drain") \/ WorkerGoes("loadLists", "drain")
    /\ QueryFails
    /\ updateMutex' = "free"
    /\ sinceUpdate' = sinceNow
    /\ sinceNow' = 0
    /\ UNCHANGED <<cacheVars, mTasks, accessMutex, contacts, gdtEntriesByEmail,
                   task>>

-----------------------------------------------------------------------------
(***************************************************************************)
(* The worker: runTask, that is reloadGdtEntry.                            *)
(***************************************************************************)
TakeTask ==
    /\ mTasks # <<>>
    /\ WorkerGoes("drain", "task")
    /\ task' = Head(mTasks)
    /\ mTasks' = Tail(mTasks)
    /\ UNCHANGED <<dbVars, cacheVars, sinceUpdate, accessMutex, updateMutex,
                   loadVars>>

Sleep ==
    /\ mTasks = <<>>
    /\ WorkerGoes("drain", "idle")
    /\ UNCHANGED <<dbVars, cacheVars, sinceUpdate, mTasks, accessMutex,
                   updateMutex, loadVars, task>>

IsFresh(e) ==
    LET l == CachedList(mEmailCustomerIds[e]) IN l # NoList /\ ~canUpdate(l)

EndTask(from) ==
    /\ WorkerGoes(from, "drain")
    /\ task' = NoEmail
    /\ accessMutex' = "free"
    /\ UNCHANGED <<sinceUpdate, mTasks, updateMutex, loadVars>>

SkipTask ==
    /\ EndTask("task")
    /\ accessMutex = "free" /\ IsFresh(task)
    /\ UNCHANGED <<dbVars, cacheVars>>

StartTaskMutant ==
    /\ WorkerGoes("task", "queryCustomer")
    /\ accessMutex = "free"
    /\ accessMutex' = "worker"
    /\ UNCHANGED <<dbVars, cacheVars, sinceUpdate, mTasks, updateMutex,
                   loadVars, task>>

StartTask ==
    /\ WorkerGoes("task", "queryCustomer")
    /\ accessMutex = "free" /\ ~IsFresh(task)
    /\ accessMutex' = "worker"
    /\ UNCHANGED <<dbVars, cacheVars, sinceUpdate, mTasks, updateMutex,
                   loadVars, task>>

UnknownEmail ==
    /\ EndTask("queryCustomer")
    /\ NoCustomer \in CustomersByEmail(task)
    /\ UNCHANGED <<dbVars, cacheVars>>

QueryCustomerMutant ==
    /\ WorkerGoes("queryCustomer", "queryList")
    /\ \E c \in CustomersByEmail(task) :
          mEmailCustomerIds' = [mEmailCustomerIds EXCEPT ![task] = c]
    /\ UNCHANGED <<dbVars, mGdtEntriesByEmails, sinceUpdate, mTasks,
                   accessMutex, updateMutex, loadVars, task>>

QueryCustomer ==
    /\ WorkerGoes("queryCustomer", "queryList")
    /\ \E c \in CustomersByEmail(task) \ {NoCustomer} :
          mEmailCustomerIds' = [mEmailCustomerIds EXCEPT ![task] = c]
    /\ UNCHANGED <<dbVars, mGdtEntriesByEmails, sinceUpdate, mTasks,
                   accessMutex, updateMutex, loadVars, task>>

QueryListMutant ==
    /\ EndTask("queryList")
    /\ LET c == mEmailCustomerIds[task] IN
          mGdtEntriesByEmails' =
             [mGdtEntriesByEmails EXCEPT
                ![c] = IF @ = NoList THEN ListFromDb(c) ELSE @]
    /\ UNCHANGED <<dbVars, mEmailCustomerIds>>

QueryList ==
    /\ EndTask("queryList")
    /\ LET c == mEmailCustomerIds[task] IN
          mGdtEntriesByEmails' =
             [mGdtEntriesByEmails EXCEPT ![c] = ListFromDb(c)]
    /\ UNCHANGED <<dbVars, mEmailCustomerIds>>

TaskFails ==
    /\ EndTask("queryCustomer") \/ EndTask("queryList")
    /\ QueryFails
    /\ UNCHANGED cacheVars

-----------------------------------------------------------------------------
\* updateAllowedIps called by a request, which takes the same mutex.
LockForIps ==
    /\ updateMutex = "free" /\ updateMutex' = "ips"

UnlockForIps ==
    /\ updateMutex = "ips" /\ updateMutex' = "free"

Older(age, limit) == IF age > limit THEN age ELSE age + 1

OlderLists(lists) ==
    [c \in Customer |->
        IF lists[c] = NoList THEN NoList
        ELSE [lists[c] EXCEPT !.age = Older(@, MinCacheTimeout)]]

Tick ==
    /\ up
    /\ mGdtEntriesByEmails' = OlderLists(mGdtEntriesByEmails)
    /\ gdtEntriesByEmail' = OlderLists(gdtEntriesByEmail)
    /\ sinceUpdate' = Older(sinceUpdate, MaxCacheTimeout)
    /\ sinceNow' = IF workerPc \in LoadPcs
                   THEN Older(sinceNow, MaxCacheTimeout) ELSE 0
    /\ UNCHANGED <<dbVars, mEmailCustomerIds, mTasks, accessMutex, updateMutex,
                   workerPc, contacts, task, requestVars, up>>

DbStep ==
    /\ up
    /\ \/ \E c \in Customer : ChangeEntries(c)
       \/ \E e \in Email, c \in Customer \cup {NoCustomer} : ChangeContact(e, c)
    /\ UNCHANGED <<cacheVars, sinceUpdate, mTasks, accessMutex, updateMutex,
                   workerPc, loadVars, task, requestVars, up>>

FinishRequest(r) ==
    /\ up
    /\ Answer(r) \/ EndRequest(r) \/ TimeOut(r)
    /\ UNCHANGED <<dbVars, cacheVars, sinceUpdate, updateMutex, workerPc,
                   loadVars, task>>

NewRequest(r) ==
    /\ up
    /\ CrashInFind(r) \/ \E e \in Email : BeginRequest(r, e)
    /\ UNCHANGED <<dbVars, cacheVars, sinceUpdate, updateMutex, workerPc,
                   loadVars, task>>

WorkerStep ==
    /\ up
    /\ \/ Wake \/ SkipReload \/ StartReload \/ LoadCustomers
       \/ AssignCustomers \/ LoadLists \/ SwapLists \/ ReloadFails
       \/ TakeTask \/ Sleep \/ SkipTask \/ StartTask
       \/ UnknownEmail \/ QueryCustomer \/ QueryList \/ TaskFails
    /\ UNCHANGED <<requestVars, up>>

IpStep ==
    /\ up
    /\ LockForIps \/ UnlockForIps
    /\ UNCHANGED <<dbVars, cacheVars, sinceUpdate, mTasks, accessMutex,
                   workerPc, loadVars, task, requestVars, up>>

Next ==
    \/ DbStep \/ Tick \/ WorkerStep \/ IpStep
    \/ \E r \in Request : FinishRequest(r) \/ NewRequest(r)

SafeSpec == Init /\ [][Next]_vars

(***************************************************************************)
(* Time passes, the worker wakes at least every 60 s and gets the access   *)
(* mutex, which requests hold for moments, if it is free again and again;  *)
(* a try_lock that could succeed again and again does succeed; requests    *)
(* are answered and updateAllowedIps returns. Nobody has to ask for        *)
(* anything, the database need not change and no query need fail.          *)
(***************************************************************************)
Fairness ==
    /\ WF_vars(Tick)
    /\ SF_vars(WorkerStep)
    /\ SF_vars(WorkerStep /\ StartReload)
    /\ \A r \in Request : WF_vars(FinishRequest(r))
    /\ WF_vars(UnlockForIps /\ IpStep)

Spec == SafeSpec /\ Fairness

-----------------------------------------------------------------------------
(***************************************************************************)
(* Properties.                                                             *)
(***************************************************************************)

\* What an e-mail is answered with, by customer: the version in the cache.
Shown == [c \in Customer |-> Version(mGdtEntriesByEmails[c])]

LR == INSTANCE LaggingReplica WITH source <- dbVersion, replica <- Shown

\* Reloads of one list, reloads of everything, failures in the middle of them
\* and changes of the database during them never let the entries shown for a
\* customer go back to an earlier state, nor ahead of the database.
ImplementsLaggingReplica == LR!Spec

\* Every request for a list older than minCacheTimeout queues a task, so that
\* an e-mail may be queued many times. Only the first of these tasks asks the
\* database: as long as the e-mail keeps its customer, the entries are not
\* read again before they are older than minCacheTimeout.
DuplicateTasksAreSkipped ==
    [][/\ workerPc = "queryCustomer" /\ workerPc' = "queryList"
       /\ mEmailCustomerIds' = mEmailCustomerIds
       => ~IsFresh(task)]_vars

\* No reload leaves a mutex behind: when the worker waits for work, whatever
\* failed, requests and updateAllowedIps are not locked out by it.
IdleWorkerHoldsNothing ==
    workerPc \in {"idle", "reload", "drain"} =>
        accessMutex # "worker" /\ updateMutex # "worker"

\* What the cache and what the database say of an e-mail.
CacheSays(e) == Version(CachedList(mEmailCustomerIds[e]))
DbSays(e) == IF dbContacts[e] = NoCustomer THEN 0 ELSE dbVersion[dbContacts[e]]

\* Once the database rests and queries succeed, the cache shows for every
\* e-mail what the database says, although some reloads failed half-way,
\* unless updateAllowedIps is under way whenever the worker tries to reload.
CacheConverges ==
    []<>(~up \/ (workerPc = "reload" /\ updateMutex = "free"))
        => <>[](up => \A e \in Email : CacheSays(e) = DbSays(e))

\* "return json string from cache and schedule update for this email": what
\* has been scheduled is done, unless a query fails; the list gets younger
\* than minCacheTimeout, or the database does not know the e-mail.
ScheduledUpdateHappens ==
    \A e \in Email, n \in 0 .. MaxFailures :
        failures = n /\ (\E i \in DOMAIN mTasks : mTasks[i] = e)
            ~> IsFresh(e) \/ dbContacts[e] = NoCustomer \/ failures > n \/ ~up

\* "reload gdt entries and customers freshly from db, if last update is older
\* then maxCacheTimeout": just after a reload the last update is not older.
ReloadedCacheIsNotDue ==
    [][workerPc = "swapLists" /\ workerPc' = "drain"
       => sinceUpdate' <= MaxCacheTimeout]_vars

\* "return json string from cache": an e-mail whose list is cached and whose
\* customer a reload does not change is answered with that list.
CachedEmailIsAnswered ==
    [][\A r \in Request :
        /\ accessMutex = "free" /\ accessMutex' = r
        /\ workerPc = "assignCustomers"
        /\ contacts[asks[r]] = mEmailCustomerIds[asks[r]]
        => answer' = CacheSays(asks[r])]_vars

\* "get customer_id for email from db": the customer looked up for an e-mail
\* is the one the table contacts has for this e-mail.
CustomerIsTheContacts ==
    [][workerPc = "queryCustomer" /\ workerPc' = "queryList"
       => mEmailCustomerIds'[task] = dbContacts[task]]_vars
=============================================================================
