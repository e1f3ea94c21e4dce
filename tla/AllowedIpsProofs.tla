-------------------------- MODULE AllowedIpsProofs --------------------------
(***************************************************************************)
(* What holds of AllowedIps for any number of hosts, HTTP threads and      *)
(* tries.                                                                  *)
(***************************************************************************)
EXTENDS AllowedIps, TLAPS

\* Each step keeps the types.
LEMMA TypeStep == TypeOK /\ [Next]_vars => TypeOK'
<1> USE ConstantsAssumption DEF TypeOK, Process, Host, dnsVars, checkVars,
        CheckUnchanged, Goes
<1> SUFFICES ASSUME TypeOK, [Next]_vars PROVE TypeOK'
    OBVIOUS
<1>1. ASSUME NEW h \in Host, ChangeDns(h) PROVE TypeOK'
    BY <1>1 DEF ChangeDns
<1>2. CASE Reload
    BY <1>2 DEF Reload
<1>3. CASE HourPasses
    BY <1>3 DEF HourPasses
<1>4. CASE WorkerUpdates
    BY <1>4 DEF WorkerUpdates, Lock
<1>5. ASSUME NEW p \in Process, UpdateStep(p) PROVE TypeOK'
  <2>1. CASE Resolve(p)
    <3>1. i' \in [Process -> 1 .. HostsCount + 1]
        BY <2>1 DEF Resolve
    <3>2. mAllowedIps' \in [Host -> Ip \cup {NoIp}]
      <4>1. i[p] \in Host /\ dns[i[p]] \subseteq Ip
          BY <2>1 DEF Resolve
      <4>2. ASSUME NEW ip \in dns[i[p]],
                   mAllowedIps' = [mAllowedIps EXCEPT ![i[p]] = ip]
            PROVE  mAllowedIps' \in [Host -> Ip \cup {NoIp}]
          BY <4>1, <4>2
      <4> QED
          BY <2>1, <4>2 DEF Resolve
    <3> QED
        BY <2>1, <3>1, <3>2 DEF Resolve
  <2>2. ASSUME AfterUpdate(p)
        PROVE  /\ pc' \in [Process -> {"idle", "compare", "update", "resolve",
                                       "authorized", "unauthorized"}]
               /\ clientIp' \in [Client -> Ip]
               /\ countTrials' \in [Client -> 1 .. 2]
               /\ updateTriesLeft' \in [Client -> 0 .. MaxTries]
               /\ i' \in [Process -> 1 .. HostsCount + 1]
    <3>1. CASE p = Worker /\ Goes(p, "resolve", "idle") /\ UNCHANGED <<i, checkVars>>
        BY <3>1
    <3>2. CASE p \in Client /\ Goes(p, "resolve", "compare") /\ CompareAgain(p)
        BY <3>2 DEF CompareAgain
    <3>3. CASE /\ p \in Client /\ Goes(p, "resolve", "unauthorized")
               /\ UNCHANGED <<i, checkVars>>
        BY <3>3
    <3> QED
        BY <2>2, <3>1, <3>2, <3>3 DEF AfterUpdate
  <2>3. CASE Finish(p)
      BY <2>2, <2>3 DEF Finish
  <2>4. CASE Throw(p)
    <3>1. AfterUpdate(p) /\ throws' \in 0 .. MaxThrows
        BY <2>4 DEF Throw
    <3> QED
        BY <2>2, <2>4, <3>1 DEF Throw
  <2> QED
      BY <1>5, <2>1, <2>3, <2>4 DEF UpdateStep
<1>6. ASSUME NEW c \in Client, Begin(c) PROVE TypeOK'
    BY <1>6 DEF Begin
<1>7. ASSUME NEW c \in Client, CheckStep(c) PROVE TypeOK'
  <2>1. CASE Match(c)
      BY <2>1 DEF Match
  <2>2. CASE NoMatch(c)
      BY <2>2 DEF NoMatch
  <2>3. CASE Compared(c)
      BY <2>3 DEF Compared
  <2>4. CASE Lock(c, "update")
      BY <2>4 DEF Lock
  <2>5. CASE Running(c)
      BY <2>5 DEF Running
  <2>6. CASE StillRunning(c)
      BY <2>6 DEF StillRunning
  <2>7. CASE Return(c)
      BY <2>7 DEF Return
  <2> QED
      BY <1>7, <2>1, <2>2, <2>3, <2>4, <2>5, <2>6, <2>7 DEF CheckStep
<1>8. CASE UNCHANGED vars
    BY <1>8 DEF vars
<1> QED
    BY <1>1, <1>2, <1>3, <1>4, <1>5, <1>6, <1>7, <1>8 DEF Next

\* The types hold in every state: no slot gets anything but an address, and
\* the tries of an HTTP thread never fall below 0.
THEOREM Types == SafeSpec => []TypeOK
<1>1. ASSUME Init PROVE TypeOK
  <2>1. dnsChanges \in 0 .. MaxDnsChanges /\ throws \in 0 .. MaxThrows
      BY <1>1, ConstantsAssumption DEF Init
  <2>2. i \in [Process -> 1 .. HostsCount + 1]
      BY <1>1, ConstantsAssumption DEF Init
  <2>3. /\ countTrials \in [Client -> 1 .. 2]
        /\ updateTriesLeft \in [Client -> 0 .. MaxTries]
      BY <1>1, ConstantsAssumption DEF Init
  <2> QED
      BY <1>1, <2>1, <2>2, <2>3 DEF Init, TypeOK
<1> QED
    BY <1>1, TypeStep, PTL DEF SafeSpec

-----------------------------------------------------------------------------
\* The mutex and the place of its owner go together in each step.
LEMMA MutexStep ==
    TypeOK /\ OneUpdateAtATime /\ [Next]_vars => OneUpdateAtATime'
<1> USE ConstantsAssumption DEF TypeOK, OneUpdateAtATime, Process, dnsVars,
        checkVars, CheckUnchanged, Goes
<1> SUFFICES ASSUME TypeOK, OneUpdateAtATime, [Next]_vars
             PROVE  OneUpdateAtATime'
    OBVIOUS
<1>1. ASSUME NEW h \in Host, ChangeDns(h) PROVE OneUpdateAtATime'
    BY <1>1 DEF ChangeDns
<1>2. CASE Reload
    BY <1>2 DEF Reload
<1>3. CASE HourPasses
    BY <1>3 DEF HourPasses
<1>4. CASE WorkerUpdates
    BY <1>4 DEF WorkerUpdates, Lock
<1>5. ASSUME NEW p \in Process, UpdateStep(p) PROVE OneUpdateAtATime'
  <2>1. CASE Resolve(p)
      BY <2>1 DEF Resolve
  <2>2. CASE Finish(p)
      BY <2>2 DEF Finish, AfterUpdate
  <2>3. CASE Throw(p)
      BY <2>3 DEF Throw, AfterUpdate
  <2> QED
      BY <1>5, <2>1, <2>2, <2>3 DEF UpdateStep
<1>6. ASSUME NEW c \in Client, Begin(c) PROVE OneUpdateAtATime'
    BY <1>6 DEF Begin
<1>7. ASSUME NEW c \in Client, CheckStep(c) PROVE OneUpdateAtATime'
    BY <1>7 DEF CheckStep, Match, NoMatch, Compared, Lock, Running,
                StillRunning, Return
<1>8. CASE UNCHANGED vars
    BY <1>8 DEF vars
<1> QED
    BY <1>1, <1>2, <1>3, <1>4, <1>5, <1>6, <1>7, <1>8 DEF Next

\* One thread at a time resolves hosts into the one set of buffers: the
\* mutex updateAllowedIps locks and unlocks by hand is the resolver's.
THEOREM UpdatesExclude == SafeSpec => []OneUpdateAtATime
<1>1. Init => OneUpdateAtATime
    BY ConstantsAssumption DEF Init, OneUpdateAtATime, Process
<1> QED
    BY <1>1, Types, MutexStep, PTL DEF SafeSpec

-----------------------------------------------------------------------------
(***************************************************************************)
(* While the DNS rests, whoever writes the slot of a host with one address *)
(* writes that address. So it stands there from the place of the loop on   *)
(* at which a thread wrote it itself, and in its second comparison that    *)
(* thread cannot get past it.                                              *)
(***************************************************************************)
Resting == throws = 0 /\ dnsChanges = 0

SlotInv(c, h) ==
    /\ pc[c] = "resolve" /\ h < i[c] => mAllowedIps[h] = clientIp[c]
    /\ pc[c] = "compare" /\ countTrials[c] = 2 =>
          mAllowedIps[h] = clientIp[c] /\ i[c] <= h
    /\ pc[c] = "unauthorized" => updateTriesLeft[c] = 0

AuthorizedInv ==
    Resting => \A c \in Client, h \in Host : dns[h] = {clientIp[c]} => SlotInv(c, h)

\* A step of the update by any thread keeps the slots of AuthorizedInv.
LEMMA UpdateKeepsSlots ==
    ASSUME TypeOK, AuthorizedInv, Resting',
           NEW p \in Process, UpdateStep(p),
           NEW c \in Client, NEW h \in Host, dns'[h] = {clientIp'[c]}
    PROVE  SlotInv(c, h)'
<1> USE ConstantsAssumption DEF TypeOK, Process, Host, dnsVars, checkVars, Goes
<1>1. Resting /\ dns[h] = {clientIp[c]}
    BY DEF UpdateStep, Resolve, Finish, Throw, AfterUpdate, CompareAgain, Resting
<1>2. SlotInv(c, h)
    BY <1>1 DEF AuthorizedInv
<1>3. CASE Resolve(p)
  <2>1. mAllowedIps'[h] = IF h = i[p] THEN clientIp[c] ELSE mAllowedIps[h]
      BY <1>1, <1>3 DEF Resolve
  <2> QED
      BY <1>2, <1>3, <2>1 DEF Resolve, SlotInv
<1>4. CASE Finish(p)
  <2>1. CASE p = Worker
      BY <1>2, <1>4, <2>1 DEF Finish, AfterUpdate, SlotInv
  <2>2. CASE p \in Client /\ p # c
      BY <1>2, <1>4, <2>2 DEF Finish, AfterUpdate, CompareAgain, SlotInv
  <2>3. CASE p = c
      BY <1>2, <1>4, <2>3 DEF Finish, AfterUpdate, CompareAgain, SlotInv
  <2> QED
      BY <2>1, <2>2, <2>3
<1>5. ~Throw(p)
    BY DEF Throw, Resting
<1> QED
    BY <1>3, <1>4, <1>5 DEF UpdateStep

\* So does a step of the comparison by any HTTP thread.
LEMMA CheckKeepsSlots ==
    ASSUME TypeOK, AuthorizedInv, Resting',
           NEW d \in Client, Begin(d) \/ CheckStep(d),
           NEW c \in Client, NEW h \in Host, dns'[h] = {clientIp'[c]}
    PROVE  SlotInv(c, h)'
<1> USE ConstantsAssumption DEF TypeOK, Process, Host, dnsVars, checkVars, Goes,
        CheckUnchanged
<1>1. CASE Begin(d)
  <2>1. CASE d = c
      BY <1>1, <2>1 DEF Begin, SlotInv
  <2>2. CASE d # c
      BY <1>1, <2>2 DEF Begin, SlotInv, AuthorizedInv, Resting
  <2> QED
      BY <2>1, <2>2
<1>2. CASE CheckStep(d)
  <2>1. clientIp' = clientIp /\ Resting /\ dns' = dns
      BY <1>2 DEF CheckStep, Match, NoMatch, Compared, Lock, Running,
                  StillRunning, Return, Resting
  <2>2. SlotInv(c, h)
      BY <2>1 DEF AuthorizedInv
  <2>3. CASE Match(d) \/ Compared(d) \/ Return(d)
    <3>1. CASE Match(d)
        BY <2>2, <3>1 DEF Match, SlotInv
    <3>2. CASE Compared(d)
        BY <2>2, <3>2 DEF Compared, SlotInv
    <3>3. CASE Return(d)
        BY <2>2, <3>3 DEF Return, SlotInv
    <3> QED
        BY <2>3, <3>1, <3>2, <3>3
  <2>4. CASE NoMatch(d)
      BY <2>2, <2>4 DEF NoMatch, SlotInv
  <2>5. CASE Lock(d, "update") \/ Running(d) \/ StillRunning(d)
      BY <2>2, <2>5 DEF Lock, Running, StillRunning, SlotInv
  <2> QED
      BY <1>2, <2>3, <2>4, <2>5 DEF CheckStep
<1> QED
    BY <1>1, <1>2

LEMMA AuthorizedStep ==
    TypeOK /\ AuthorizedInv /\ [Next]_vars => AuthorizedInv'
<1> SUFFICES ASSUME TypeOK, AuthorizedInv, [Next]_vars, Resting',
                    NEW c \in Client, NEW h \in Host, dns'[h] = {clientIp'[c]}
             PROVE  SlotInv(c, h)'
    BY DEF AuthorizedInv
<1>1. ASSUME NEW g \in Host, ChangeDns(g) PROVE FALSE
    BY <1>1 DEF ChangeDns, TypeOK, Resting
<1>2. CASE Reload \/ HourPasses \/ WorkerUpdates \/ UNCHANGED vars
  <2> USE ConstantsAssumption DEF TypeOK, Process, Host, dnsVars, checkVars
  <2>1. Resting /\ dns' = dns /\ clientIp' = clientIp
      BY <1>2 DEF Reload, HourPasses, WorkerUpdates, Lock, vars, Resting
  <2>2. SlotInv(c, h)
      BY <2>1 DEF AuthorizedInv
  <2> QED
      BY <1>2, <2>2 DEF Reload, HourPasses, WorkerUpdates, Lock, Goes, vars, SlotInv
<1> QED
    BY <1>1, <1>2, UpdateKeepsSlots, CheckKeepsSlots DEF Next

\* The only address of an allowed host is turned away only after all tries,
\* however many threads compare and however their updates interleave with
\* those of the worker.
THEOREM AuthorizedHosts == SafeSpec => []HostIsAuthorized
<1>1. Init => AuthorizedInv
    BY ConstantsAssumption DEF Init, AuthorizedInv, SlotInv, Process
<1>2. AuthorizedInv => HostIsAuthorized
    BY DEF AuthorizedInv, HostIsAuthorized, SlotInv, Resting
<1> QED
    BY <1>1, <1>2, Types, AuthorizedStep, PTL DEF SafeSpec

-----------------------------------------------------------------------------
(***************************************************************************)
(* Checks end: a step of the client's thread leaves fewer steps to take,   *)
(* and a step of anybody else leaves them as they are.                     *)
(***************************************************************************)
LEMMA OwnUpdateCounts ==
    ASSUME TypeOK, NEW c \in Client, UpdateStep(c)
    PROVE  StepsLeft(c)' < StepsLeft(c)
<1> DEFINE h == i[c]
           H == HostsCount
<1>0. /\ pc \in [Process -> {"idle", "compare", "update", "resolve",
                           "authorized", "unauthorized"}]
      /\ i \in [Process -> 1 .. H + 1]
      /\ countTrials \in [Client -> 1 .. 2]
      /\ updateTriesLeft \in [Client -> 0 .. MaxTries]
    BY DEF TypeOK
<1>1. /\ c \in Process /\ H \in Nat /\ MaxTries \in Nat /\ c # Worker
      /\ DOMAIN pc = Process /\ DOMAIN i = Process /\ DOMAIN countTrials = Client
      /\ DOMAIN updateTriesLeft = Client
      /\ h \in 1 .. H + 1 /\ countTrials[c] \in 1 .. 2
      /\ updateTriesLeft[c] \in 0 .. MaxTries
    BY <1>0, ConstantsAssumption DEF Process
<1>2. CASE Resolve(c)
  <2>1. pc[c] = "resolve" /\ pc'[c] = "resolve" /\ i'[c] = h + 1
      BY <1>1, <1>2 DEF Resolve
  <2>2. StepsLeft(c) = H + 1 - h + H + 3 /\ StepsLeft(c)' = H + 1 - (h + 1) + H + 3
      BY <2>1 DEF StepsLeft
  <2> QED
      BY <1>1, <2>2
<1>3. CASE Finish(c) \/ Throw(c)
  <2>1. AfterUpdate(c)
      BY <1>3 DEF Finish, Throw
  <2>2. pc[c] = "resolve"
      BY <1>1, <2>1 DEF AfterUpdate, Goes
  <2>3. StepsLeft(c) = H + 1 - h + H + 3
      BY <2>2 DEF StepsLeft
  <2>4. CASE Goes(c, "resolve", "compare") /\ CompareAgain(c)
    <3>1. pc'[c] = "compare" /\ i'[c] = 1 /\ countTrials'[c] = 2
        BY <1>1, <2>4 DEF Goes, CompareAgain
    <3>2. StepsLeft(c)' = H + 1 - 1 + 2
        BY <3>1 DEF StepsLeft
    <3> QED
        BY <1>1, <2>3, <3>2
  <2>5. CASE Goes(c, "resolve", "unauthorized")
    <3>1. pc'[c] = "unauthorized"
        BY <1>1, <2>5 DEF Goes
    <3>2. StepsLeft(c)' = 1
        BY <3>1 DEF StepsLeft
    <3> QED
        BY <1>1, <2>3, <3>2
  <2> QED
      BY <1>1, <2>1, <2>4, <2>5 DEF AfterUpdate
<1> QED
    BY <1>2, <1>3 DEF UpdateStep

LEMMA OwnCheckCounts ==
    ASSUME TypeOK, NEW c \in Client, CheckStep(c)
    PROVE  StepsLeft(c)' < StepsLeft(c)
<1> DEFINE h == i[c]
           H == HostsCount
           tries == updateTriesLeft[c]
<1>0. /\ pc \in [Process -> {"idle", "compare", "update", "resolve",
                           "authorized", "unauthorized"}]
      /\ i \in [Process -> 1 .. H + 1]
      /\ countTrials \in [Client -> 1 .. 2]
      /\ updateTriesLeft \in [Client -> 0 .. MaxTries]
    BY DEF TypeOK
<1>1. /\ c \in Process /\ H \in Nat /\ MaxTries \in Nat /\ c # Worker
      /\ DOMAIN pc = Process /\ DOMAIN i = Process /\ DOMAIN countTrials = Client
      /\ DOMAIN updateTriesLeft = Client
      /\ h \in 1 .. H + 1 /\ countTrials[c] \in 1 .. 2
      /\ updateTriesLeft[c] \in 0 .. MaxTries
    BY <1>0, ConstantsAssumption DEF Process
<1>2. ASSUME pc[c] = "compare"
      PROVE  StepsLeft(c) = H + 1 - h
                 + (IF countTrials[c] = 1 THEN MaxTries + 2 * H + 5 ELSE 2)
    BY <1>1, <1>2 DEF StepsLeft
<1>3. CASE Match(c)
  <2>1. pc[c] = "compare" /\ pc'[c] = "authorized"
      BY <1>1, <1>3 DEF Match, Goes
  <2>2. StepsLeft(c)' = 1
      BY <2>1 DEF StepsLeft
  <2> QED
      BY <1>1, <1>2, <2>1, <2>2
<1>4. CASE NoMatch(c)
  <2>1. /\ pc[c] = "compare" /\ pc'[c] = "compare" /\ i'[c] = h + 1
        /\ countTrials'[c] = countTrials[c]
      BY <1>1, <1>4 DEF NoMatch, checkVars
  <2>2. StepsLeft(c)' = H + 1 - (h + 1)
            + (IF countTrials[c] = 1 THEN MaxTries + 2 * H + 5 ELSE 2)
      BY <1>1, <2>1 DEF StepsLeft
  <2> QED
      BY <1>1, <1>2, <2>1, <2>2
<1>5. CASE Compared(c)
  <2>1. CASE countTrials[c] = 1 /\ Goes(c, "compare", "update")
    <3>1. pc[c] = "compare" /\ pc'[c] = "update" /\ updateTriesLeft'[c] = tries
        BY <1>1, <1>5, <2>1 DEF Compared, Goes, checkVars
    <3>2. StepsLeft(c)' = tries + 2 * H + 4
        BY <3>1 DEF StepsLeft
    <3> QED
        BY <1>1, <1>2, <2>1, <3>1, <3>2
  <2>2. CASE countTrials[c] = 2 /\ Goes(c, "compare", "unauthorized")
    <3>1. pc[c] = "compare" /\ pc'[c] = "unauthorized"
        BY <1>1, <2>2 DEF Goes
    <3>2. StepsLeft(c)' = 1
        BY <3>1 DEF StepsLeft
    <3> QED
        BY <1>1, <1>2, <2>2, <3>1, <3>2
  <2> QED
      BY <1>5, <2>1, <2>2 DEF Compared
<1>6. CASE Lock(c, "update")
  <2>1. pc[c] = "update" /\ pc'[c] = "resolve" /\ i'[c] = 1
      BY <1>1, <1>6 DEF Lock, Goes
  <2>2. StepsLeft(c) = tries + 2 * H + 4 /\ StepsLeft(c)' = H + 1 - 1 + H + 3
      BY <2>1 DEF StepsLeft
  <2> QED
      BY <1>1, <2>2
<1>7. CASE Running(c)
  <2>1. /\ pc[c] = "update" /\ pc'[c] = "update"
        /\ updateTriesLeft'[c] = tries - 1
      BY <1>1, <1>7 DEF Running
  <2>2. StepsLeft(c) = tries + 2 * H + 4 /\ StepsLeft(c)' = tries - 1 + 2 * H + 4
      BY <2>1 DEF StepsLeft
  <2> QED
      BY <1>1, <2>2
<1>8. CASE StillRunning(c)
  <2>1. pc[c] = "update" /\ pc'[c] = "unauthorized"
      BY <1>1, <1>8 DEF StillRunning, Goes
  <2>2. StepsLeft(c) = tries + 2 * H + 4 /\ StepsLeft(c)' = 1
      BY <2>1 DEF StepsLeft
  <2> QED
      BY <1>1, <2>2
<1>9. CASE Return(c)
  <2>1. pc[c] \in {"authorized", "unauthorized"} /\ pc'[c] = "idle"
      BY <1>1, <1>9 DEF Return
  <2>2. StepsLeft(c) = 1 /\ StepsLeft(c)' = 0
      BY <2>1 DEF StepsLeft
  <2> QED
      BY <2>2
<1> QED
    BY <1>3, <1>4, <1>5, <1>6, <1>7, <1>8, <1>9 DEF CheckStep

LEMMA OthersChangeNothing ==
    ASSUME TypeOK, NEW c \in Client,
           NEW p \in Process, p # c, UpdateStep(p) \/ (p \in Client /\ (Begin(p) \/ CheckStep(p)))
    PROVE  UNCHANGED <<pc[c], i[c], countTrials[c], updateTriesLeft[c]>>
<1> USE DEF TypeOK, Process, checkVars, Goes
<1>1. CASE UpdateStep(p)
    BY <1>1 DEF UpdateStep, Resolve, Finish, Throw, AfterUpdate, CompareAgain
<1>2. CASE p \in Client /\ Begin(p)
    BY <1>2 DEF Begin
<1>3. CASE p \in Client /\ CheckStep(p)
    BY <1>3 DEF CheckStep, Match, NoMatch, Compared, Lock, Running, StillRunning, Return
<1> QED
    BY <1>1, <1>2, <1>3

LEMMA ChecksComeNearer ==
    TypeOK /\ [Next]_vars =>
        [\A c \in Client : pc[c] # "idle" =>
            \/ StepsLeft(c)' < StepsLeft(c)
            \/ UNCHANGED <<pc[c], i[c], countTrials[c], updateTriesLeft[c]>>]_vars
<1> DEFINE Same(c) == UNCHANGED <<pc[c], i[c], countTrials[c], updateTriesLeft[c]>>
<1> SUFFICES ASSUME TypeOK, NEW c \in Client, pc[c] # "idle", Next
             PROVE  StepsLeft(c)' < StepsLeft(c) \/ Same(c)
    OBVIOUS
<1>1. ASSUME NEW g \in Host, ChangeDns(g) PROVE Same(c)
    BY <1>1 DEF ChangeDns, checkVars
<1>2. CASE Reload \/ HourPasses
    BY <1>2 DEF Reload, HourPasses, checkVars
<1>3. CASE WorkerUpdates
    BY <1>3, ConstantsAssumption
       DEF WorkerUpdates, Lock, Goes, checkVars, TypeOK, Process
<1>4. ASSUME NEW p \in Process, UpdateStep(p)
      PROVE  StepsLeft(c)' < StepsLeft(c) \/ Same(c)
    BY <1>4, OwnUpdateCounts, OthersChangeNothing
<1>5. ASSUME NEW d \in Client, Begin(d) \/ CheckStep(d)
      PROVE  StepsLeft(c)' < StepsLeft(c) \/ Same(c)
  <2>1. CASE d = c /\ Begin(d)
      BY <2>1 DEF Begin, Goes
  <2>2. CASE d = c /\ CheckStep(d)
      BY <2>2, OwnCheckCounts
  <2>3. CASE d # c
      BY <1>5, <2>3, OthersChangeNothing DEF Process
  <2> QED
      BY <1>5, <2>1, <2>2, <2>3
<1> QED
    BY <1>1, <1>2, <1>3, <1>4, <1>5 DEF Next

\* A check takes no more steps of its thread than StepsLeft says, for any hosts
\* and tries, however often the mutex is taken by others and whatever changes
\* meanwhile: that it is answered needs nothing more than that the thread runs.
THEOREM ChecksEnd == SafeSpec => ChecksComeToAnEnd
    BY ChecksComeNearer, Types, PTL DEF SafeSpec, ChecksComeToAnEnd
=============================================================================
