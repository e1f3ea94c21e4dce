----------------------------- MODULE AllowedIps -----------------------------
(***************************************************************************)
(* The IP white list: checkIpAuthorized, with which each HTTP thread first *)
(* compares its client with the addresses of the allowed hosts and, if     *)
(* none matches, resolves the hosts anew and compares once more; and       *)
(* updateAllowedIps, which the worker calls too, once an hour. Only one    *)
(* update runs at a time, and none while the cache is reloaded.            *)
(*                                                                         *)
(* A slot holds one address, whatever its family. A definition whose name  *)
(* ends in Mutant is a faulty variant of the one after it and no part of   *)
(* the specification.                                                      *)
(***************************************************************************)
EXTENDS Integers

CONSTANTS
    HostsCount,
    Ip, NoIp,
    Client,         \* HTTP threads
    Worker,         \* the UpdateCacheWorker
    MaxTries,       \* tries while an update is running, 10 in the code
    MaxDnsChanges,  \* bound on changes in the DNS
    MaxThrows       \* bound on updates that end with an exception

ASSUME ConstantsAssumption ==
    /\ HostsCount \in Nat /\ MaxTries \in Nat /\ MaxDnsChanges \in Nat
    /\ Worker \notin Client /\ "free" \notin Client \cup {Worker}
    /\ "reload" \notin Client \cup {Worker}
    /\ NoIp \notin Ip
    /\ MaxDnsChanges \in Nat /\ MaxThrows \in Nat

Process == Client \cup {Worker}
Host == 1 .. HostsCount

VARIABLES
    dns,           \* the addresses each host resolves to; none: it fails
    dnsChanges,
    throws,        \* exceptions of updates so far
    mAllowedIps,
    updateMutex,   \* mGdtEntriesUpdateMutex
    anHourOld,     \* mLastUpdateAllowedIps is more than an hour ago
    pc,
    clientIp,
    countTrials,
    updateTriesLeft,
    i              \* loop index, of the comparison and of the update

dnsVars == <<dns, dnsChanges, throws>>
checkVars == <<clientIp, countTrials, updateTriesLeft>>
vars == <<dnsVars, mAllowedIps, updateMutex, anHourOld, pc, checkVars, i>>

TypeOK ==
    /\ dns \in [Host -> SUBSET Ip] /\ dnsChanges \in 0 .. MaxDnsChanges
    /\ throws \in 0 .. MaxThrows
    /\ mAllowedIps \in [Host -> Ip \cup {NoIp}]
    /\ updateMutex \in Process \cup {"free", "reload"}
    /\ anHourOld \in BOOLEAN
    /\ pc \in [Process -> {"idle", "compare", "update", "resolve",
                           "authorized", "unauthorized"}]
    /\ clientIp \in [Client -> Ip]
    /\ countTrials \in [Client -> 1 .. 2]
    /\ updateTriesLeft \in [Client -> 0 .. MaxTries]
    /\ i \in [Process -> 1 .. HostsCount + 1]

\* main has resolved the hosts once, or failed to; the DNS may have changed.
Init ==
    /\ dns \in [Host -> SUBSET Ip] /\ dnsChanges = 0 /\ throws = 0
    /\ mAllowedIps \in [Host -> Ip \cup {NoIp}]
    /\ updateMutex = "free" /\ anHourOld = FALSE
    /\ pc = [p \in Process |-> "idle"]
    /\ clientIp \in [Client -> Ip]
    /\ countTrials = [c \in Client |-> 1]
    /\ updateTriesLeft = [c \in Client |-> MaxTries]
    /\ i = [p \in Process |-> 1]

ChangeDns(h) ==
    /\ dnsChanges < MaxDnsChanges
    /\ \E ips \in SUBSET Ip : dns' = [dns EXCEPT ![h] = ips]
    /\ dnsChanges' = dnsChanges + 1
    /\ UNCHANGED <<throws, mAllowedIps, updateMutex, anHourOld, pc, checkVars,
                   i>>

\* reloadCacheAfterTimeout of the worker holds the same mutex.
Reload ==
    /\ pc[Worker] = "idle"
    /\ \/ updateMutex = "free" /\ updateMutex' = "reload"
       \/ updateMutex = "reload" /\ updateMutex' = "free"
    /\ UNCHANGED <<dnsVars, mAllowedIps, anHourOld, pc, checkVars, i>>

HourPasses ==
    /\ anHourOld' = TRUE
    /\ UNCHANGED <<dnsVars, mAllowedIps, updateMutex, pc, checkVars, i>>

-----------------------------------------------------------------------------
(***************************************************************************)
(* updateAllowedIps.                                                       *)
(***************************************************************************)
Goes(p, from, to) == pc[p] = from /\ pc' = [pc EXCEPT ![p] = to]

LockMutant(p, from) ==
    /\ Goes(p, from, "resolve")
    /\ updateMutex' = p
    /\ i' = [i EXCEPT ![p] = 1]
    /\ UNCHANGED <<dnsVars, mAllowedIps, anHourOld, checkVars>>

Lock(p, from) ==
    /\ Goes(p, from, "resolve")
    /\ updateMutex = "free"
    /\ updateMutex' = p
    /\ i' = [i EXCEPT ![p] = 1]
    /\ UNCHANGED <<dnsVars, mAllowedIps, anHourOld, checkVars>>

ResolveMutant(p) ==
    /\ pc[p] = "resolve" /\ i[p] \in Host
    /\ \/ \E ip \in dns[i[p]] : mAllowedIps' = [mAllowedIps EXCEPT ![i[p]] = ip]
       \/ i[p] = HostsCount /\ mAllowedIps' = mAllowedIps
       \/ dns[i[p]] = {} /\ mAllowedIps' = mAllowedIps
    /\ i' = [i EXCEPT ![p] = @ + 1]
    /\ UNCHANGED <<dnsVars, updateMutex, anHourOld, pc, checkVars>>

\* updateAllowedIp: the last address of a host wins; a host that cannot be
\* resolved keeps the address it had.
Resolve(p) ==
    /\ pc[p] = "resolve" /\ i[p] \in Host
    /\ \/ \E ip \in dns[i[p]] : mAllowedIps' = [mAllowedIps EXCEPT ![i[p]] = ip]
       \/ dns[i[p]] = {} /\ mAllowedIps' = mAllowedIps
    /\ i' = [i EXCEPT ![p] = @ + 1]
    /\ UNCHANGED <<dnsVars, updateMutex, anHourOld, pc, checkVars>>

CompareAgainMutant(c) ==
    /\ i' = [i EXCEPT ![c] = 1]
    /\ UNCHANGED checkVars

\* What checkIpAuthorized does with the status of its update.
CompareAgain(c) ==
    /\ countTrials' = [countTrials EXCEPT ![c] = 2]
    /\ i' = [i EXCEPT ![c] = 1]
    /\ UNCHANGED <<clientIp, updateTriesLeft>>

AfterUpdate(p) ==
    \/ p = Worker /\ Goes(p, "resolve", "idle") /\ UNCHANGED <<i, checkVars>>
    \/ /\ p \in Client /\ updateTriesLeft[p] > 0
       /\ Goes(p, "resolve", "compare")
       /\ CompareAgain(p)
    \/ /\ p \in Client /\ updateTriesLeft[p] = 0
       /\ Goes(p, "resolve", "unauthorized")
       /\ UNCHANGED <<i, checkVars>>

\* Status OK.
Finish(p) ==
    /\ AfterUpdate(p)
    /\ i[p] = HostsCount + 1
    /\ anHourOld' = FALSE
    /\ updateMutex' = "free"
    /\ UNCHANGED <<dnsVars, mAllowedIps>>

\* An exception: status SKIPPED, and the time of the last update stays.
Throw(p) ==
    /\ throws < MaxThrows
    /\ AfterUpdate(p)
    /\ throws' = throws + 1
    /\ updateMutex' = "free"
    /\ UNCHANGED <<dns, dnsChanges, mAllowedIps, anHourOld>>

WorkerUpdates ==
    anHourOld /\ Lock(Worker, "idle")

-----------------------------------------------------------------------------
(***************************************************************************)
(* checkIpAuthorized.                                                      *)
(***************************************************************************)
Begin(c) ==
    /\ Goes(c, "idle", "compare")
    /\ \E ip \in Ip : clientIp' = [clientIp EXCEPT ![c] = ip]
    /\ countTrials' = [countTrials EXCEPT ![c] = 1]
    /\ updateTriesLeft' = [updateTriesLeft EXCEPT ![c] = MaxTries]
    /\ i' = [i EXCEPT ![c] = 1]
    /\ UNCHANGED <<dnsVars, mAllowedIps, updateMutex, anHourOld>>

CheckUnchanged ==
    UNCHANGED <<dnsVars, mAllowedIps, updateMutex, anHourOld>>

Match(c) ==
    /\ Goes(c, "compare", "authorized")
    /\ i[c] \in Host /\ mAllowedIps[i[c]] = clientIp[c]
    /\ UNCHANGED <<checkVars, i>> /\ CheckUnchanged

NoMatch(c) ==
    /\ pc[c] = "compare" /\ i[c] \in Host /\ mAllowedIps[i[c]] # clientIp[c]
    /\ i' = [i EXCEPT ![c] = @ + 1]
    /\ UNCHANGED <<pc, checkVars>> /\ CheckUnchanged

Compared(c) ==
    /\ \/ countTrials[c] = 1 /\ Goes(c, "compare", "update")
       \/ countTrials[c] = 2 /\ Goes(c, "compare", "unauthorized")
    /\ i[c] = HostsCount + 1
    /\ UNCHANGED <<checkVars, i>> /\ CheckUnchanged

RunningUncountedMutant(c) ==
    /\ pc[c] = "update" /\ updateMutex # "free"
    /\ updateTriesLeft' = [updateTriesLeft EXCEPT ![c] = @ - 1]
    /\ UNCHANGED <<pc, clientIp, countTrials, i>> /\ CheckUnchanged

RunningMutant(c) ==
    /\ pc[c] = "update" /\ updateMutex # "free"
    /\ UNCHANGED <<pc, checkVars, i>> /\ CheckUnchanged

\* updateAllowedIps(true) returned RUNNING: sleep 10 ms and try again.
Running(c) ==
    /\ pc[c] = "update" /\ updateMutex # "free" /\ updateTriesLeft[c] > 0
    /\ updateTriesLeft' = [updateTriesLeft EXCEPT ![c] = @ - 1]
    /\ UNCHANGED <<pc, clientIp, countTrials, i>> /\ CheckUnchanged

StillRunning(c) ==
    /\ Goes(c, "update", "unauthorized")
    /\ updateMutex # "free" /\ updateTriesLeft[c] = 0
    /\ UNCHANGED <<checkVars, i>> /\ CheckUnchanged

Return(c) ==
    /\ pc[c] \in {"authorized", "unauthorized"}
    /\ pc' = [pc EXCEPT ![c] = "idle"]
    /\ UNCHANGED <<checkVars, i>> /\ CheckUnchanged

-----------------------------------------------------------------------------
UpdateStep(p) == Resolve(p) \/ Finish(p) \/ Throw(p)

CheckStep(c) ==
    \/ Match(c) \/ NoMatch(c) \/ Compared(c)
    \/ Lock(c, "update") \/ Running(c) \/ StillRunning(c)
    \/ Return(c)

Next ==
    \/ \E h \in Host : ChangeDns(h)
    \/ Reload \/ HourPasses \/ WorkerUpdates
    \/ \E p \in Process : UpdateStep(p)
    \/ \E c \in Client : Begin(c) \/ CheckStep(c)

SafeSpec == Init /\ [][Next]_vars

(***************************************************************************)
(* Every thread that can run does run, hours pass, and the worker, which   *)
(* tries at least once a minute, gets the mutex if it is free again and    *)
(* again. A reload of the cache need not end, and nobody has to ask.       *)
(***************************************************************************)
Fairness ==
    /\ WF_vars(HourPasses) /\ SF_vars(WorkerUpdates)
    /\ \A p \in Process : WF_vars(UpdateStep(p))
    /\ \A c \in Client : WF_vars(CheckStep(c))

Spec == SafeSpec /\ Fairness

-----------------------------------------------------------------------------
(***************************************************************************)
(* Properties.                                                             *)
(***************************************************************************)

\* One thread at a time uses the address buffers and writes the slots, and
\* the mutex that ensures it is not the one updateAllowedIps unlocks by hand.
OneUpdateAtATime ==
    \A p \in Process : pc[p] = "resolve" <=> updateMutex = p

\* A client that has the only address of an allowed host is turned away, as
\* long as the DNS rests and no update throws, only if it has used up its
\* tries: a slot outdated at first, slots rewritten by other threads between
\* two comparisons or an update by somebody else do not turn it away.
HostIsAuthorized ==
    throws = 0 /\ dnsChanges = 0 =>
        \A c \in Client, h \in Host :
            pc[c] = "unauthorized" /\ dns[h] = {clientIp[c]}
                => updateTriesLeft[c] = 0

\* "wait for it, if update is already running", but no longer than the tries
\* last: every client gets its answer, even if a reload of the cache never
\* gives the mutex back.
EveryClientIsAnswered ==
    \A c \in Client :
        pc[c] = "compare" ~> pc[c] \in {"authorized", "unauthorized"}

\* How many steps of its thread a check can take at most: the hosts left to be
\* compared or resolved, the tries, a second comparison, the answer.
StepsLeft(c) ==
    LET hosts == HostsCount + 1 - i[c]
    IN  CASE pc[c] = "compare" /\ countTrials[c] = 1
               -> hosts + MaxTries + 2 * HostsCount + 5
          [] pc[c] = "update"  -> updateTriesLeft[c] + 2 * HostsCount + 4
          [] pc[c] = "resolve" -> hosts + HostsCount + 3
          [] pc[c] = "compare" /\ countTrials[c] = 2 -> hosts + 2
          [] pc[c] \in {"authorized", "unauthorized"} -> 1
          [] pc[c] = "idle" -> 0

\* Why every client is answered: trying, resolving and comparing again come
\* nearer to an answer with each step of the client's thread, and nothing
\* another client, the worker, the reload or the DNS does in between sets it
\* back. 3 * HostsCount + 15 steps are enough with the ten tries of the code.
ChecksComeToAnEnd ==
    [][\A c \in Client : pc[c] # "idle" =>
        \/ StepsLeft(c)' < StepsLeft(c)
        \/ UNCHANGED <<pc[c], i[c], countTrials[c], updateTriesLeft[c]>>]_vars

\* "maybe some dynamic ip has changed": without any request a new address of
\* a host gets into its slot, and stays there, if the mutex is not held by
\* others for ever.
NewAddressIsNoticed ==
    []<>(updateMutex = "free") =>
        \A h \in Host, ip \in Ip :
            <>[](dns[h] = {ip}) => <>[](mAllowedIps[h] = ip)

\* "no match found, update allowed IPs just in case caller came from DNS and
\* since last update ip was updated": the client is compared with the result
\* of its own successful update.
UpdateIsUsed ==
    [][\A c \in Client :
        pc[c] = "resolve" /\ pc'[c] # "resolve" => pc'[c] = "compare"]_vars
=============================================================================
