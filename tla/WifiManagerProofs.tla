------------------------- MODULE WifiManagerProofs -------------------------
(***************************************************************************)
(* What holds of WifiManager for any number of web tasks, any scan         *)
(* intervals and any bounds.                                               *)
(*                                                                         *)
(* The argument has three layers: the types; the lock, which at most one   *)
(* thread holds; and what a handler may rely on because of it: a table     *)
(* being rebuilt, a counter that is not zero, a link left by JoinNetwork.  *)
(***************************************************************************)
EXTENDS WifiManager, TLAPS

\* The lock queue is full exactly while some thread is between Lock() and
\* Unlock(), and then only one is.
LockInv ==
  /\ \A s, t \in Threads : pc[s] \in Critical /\ pc[t] \in Critical => s = t
  /\ lock = 1 <=> \E t \in Threads : pc[t] \in Critical

\* Each thread is in the places of its own handlers only.
RoleInv ==
  /\ \A t \in Threads : pc[t] = "rebuild" => t = EventTask
  /\ \A t \in Threads : pc[t] = "connect" => t \in Clients

\* The table is torn only inside OnScanDone.
TornInv == networks = "torn" => pc[EventTask] = "rebuild"

\* Waiting to redial, the manager never has a scan due in the same tick.
CounterInv == state = "DISCONNECTED" => counter = WIFI_DISC_SCAN_INTERVAL

\* JoinNetwork has left the network it was connected to.
LeftInv ==
  \A c \in Clients : pc[c] = "connect" /\ state = "CONNECTED" => link = "down"

USE DEF EventTask, TimerTask

(* Init and every step preserve the types of all variables. *)
LEMMA InitTypeOK == Init => TypeOK
<1> SUFFICES ASSUME Init PROVE TypeOK
  OBVIOUS
<1> USE DEF Init
<1>1. counter \in 0 .. (WIFI_CONN_SCAN_INTERVAL + WIFI_DISC_SCAN_INTERVAL)
  BY WifiAssumption DEF WifiAssumption
<1>2. due \in 0 .. TIMER_PERIOD /\ joins \in 0 .. MaxJoins
  BY WifiAssumption DEF WifiAssumption
<1>3. events \in Seq(EventIds)
  OBVIOUS
<1>4. pc \in [Threads -> Places] /\ job \in [Threads -> Jobs]
  BY DEF Places, Jobs
<1> QED
  BY <1>1, <1>2, <1>3, <1>4 DEF TypeOK, States

(* What posting an event makes of the queue. *)
LEMMA Posted ==
  ASSUME TypeOK, NEW e \in EventIds
  PROVE  Append(events, e) \in Seq(EventIds)
  BY DEF TypeOK

(* Every step keeps the types.                                             *)
LEMMA NextTypeOK == TypeOK /\ [Next]_vars => TypeOK'
<1> SUFFICES ASSUME TypeOK, [Next]_vars PROVE TypeOK'
  OBVIOUS
<1> USE WifiAssumption DEF WifiAssumption, TypeOK, States, Jobs, EventIds, LinkEvents, Places, Critical,
        Threads, Goto, manager, driver
<1>1. ASSUME NEW t \in Threads, Lock(t) \/ Unlock(t) PROVE TypeOK'
  BY <1>1 DEF Lock, Unlock
<1>2. CASE OnEvent
  BY <1>2 DEF OnEvent, Call
<1>3. CASE OnConnect
  BY <1>3 DEF OnConnect, Holding
<1>4. CASE OnDisconnect
  BY <1>4 DEF OnDisconnect, Holding
<1>5. CASE OnScanDone \/ OnScanDoneSort
  BY <1>5, ZenonT(60) DEF OnScanDone, OnScanDoneSort, Holding
<1>6. CASE TimePasses \/ TimerExpires
  BY <1>6 DEF TimePasses, TimerExpires, Call
<1>7. CASE OnTimeout
  <2>1. counter' \in 0 .. (WIFI_CONN_SCAN_INTERVAL + WIFI_DISC_SCAN_INTERVAL)
    BY <1>7, SMTT(30) DEF OnTimeout, CountDown
  <2>2. scanning' \in BOOLEAN /\ scanRun' \in BOOLEAN
    BY <1>7 DEF OnTimeout, CountDown, Scan
  <2>3. state' \in States /\ link' \in {"down", "connecting", "up"} /\ mode' \in {"STA", "APSTA"}
    BY <1>7 DEF OnTimeout, AfterConnect
  <2>4. pc' \in [Threads -> Places] /\ UNCHANGED <<networks, lock, due, job, joins, events>>
    BY <1>7 DEF OnTimeout
  <2> QED
    BY <2>1, <2>2, <2>3, <2>4
<1>8. ASSUME NEW c \in Clients, JoinNetwork(c) \/ ListNetworks(c) \/ ListRows(c) PROVE TypeOK'
  BY <1>8 DEF JoinNetwork, ListNetworks, ListRows, Call, Holding
<1>9. ASSUME NEW c \in Clients, JoinDisconnect(c) PROVE TypeOK'
  BY <1>9, SMTT(30) DEF JoinDisconnect, Disconnect, Holding
<1>10. ASSUME NEW c \in Clients, JoinConnect(c) PROVE TypeOK'
  BY <1>10 DEF JoinConnect, AfterConnect
<1>11. CASE LinkUp \/ ConnectFail \/ LinkLost
  <2> PICK to \in {"down", "up"}, e \in EventIds :
         /\ link' = to /\ events' = Append(events, e)
         /\ UNCHANGED <<manager, lock, due, pc, job, joins, mode, scanRun>>
    BY <1>11 DEF LinkUp, ConnectFail, LinkLost, LinkChange
  <2>1. events' \in Seq(EventIds)
    BY Posted
  <2> QED
    BY <2>1
<1>12. CASE ScanFinish
  BY <1>12, Posted DEF ScanFinish
<1>13. CASE UNCHANGED vars
  BY <1>13 DEF vars
<1> QED
  BY <1>1, <1>2, <1>3, <1>4, <1>5, <1>6, <1>7, <1>8, <1>9, <1>10, <1>11, <1>12, <1>13
  DEF Next, EventStep, ClientStep

(* Every variable keeps its type (counter in particular never goes below   *)
(* zero in OnTimeout and never above the longer interval).                 *)
THEOREM TypeCorrect == Spec => []TypeOK
  BY InitTypeOK, NextTypeOK, PTL DEF Spec

-----------------------------------------------------------------------------
(* The lock. A step takes it, gives it back, stays inside a critical       *)
(* section, enters a handler, or does not concern it.                      *)

Takes(t)  == pc[t] = "lock" /\ lock = 0 /\ lock' = 1 /\ pc' = [pc EXCEPT ![t] = "body"]
Gives(t)  == pc[t] = "unlock" /\ lock = 1 /\ lock' = 0 /\ pc' = [pc EXCEPT ![t] = "idle"]
Stays(t)  == \E p \in Critical :
               /\ pc[t] \in Critical /\ pc' = [pc EXCEPT ![t] = p] /\ lock' = lock
               /\ p = "rebuild" => t = EventTask
               /\ p = "connect" => t \in Clients
Enters(t) == pc[t] = "idle" /\ pc' = [pc EXCEPT ![t] = "lock"] /\ lock' = lock

(* Every step takes the lock, gives it, stays, enters or leaves threads    *)
(* and lock alone.                                                         *)
LEMMA StepKinds ==
  ASSUME [Next]_vars
  PROVE  \/ \E t \in Threads : Takes(t) \/ Gives(t) \/ Stays(t) \/ Enters(t)
         \/ UNCHANGED <<pc, lock>>
<1> USE DEF Goto, Critical, Threads
<1>1. ASSUME NEW t \in Threads, Lock(t) \/ Unlock(t) PROVE Takes(t) \/ Gives(t)
  BY <1>1 DEF Lock, Unlock, Takes, Gives
<1>2. CASE OnEvent
  BY <1>2 DEF OnEvent, Call, Enters
<1>3. CASE EventStep
  BY <1>3 DEF EventStep, OnConnect, OnDisconnect, OnScanDone, OnScanDoneSort, Holding, Stays
<1>4. CASE TimePasses
  BY <1>4 DEF TimePasses
<1>5. CASE TimerExpires
  BY <1>5 DEF TimerExpires, Call, Enters
<1>6. CASE OnTimeout
  BY <1>6 DEF OnTimeout, Holding, Stays
<1>7. ASSUME NEW c \in Clients, JoinNetwork(c) \/ ListNetworks(c) PROVE Enters(c)
  BY <1>7 DEF JoinNetwork, ListNetworks, Call, Enters
<1>8. ASSUME NEW c \in Clients, ClientStep(c) PROVE Stays(c)
  BY <1>8 DEF ClientStep, JoinDisconnect, JoinConnect, ListRows, Holding, Stays
<1>9. CASE LinkUp \/ ConnectFail \/ LinkLost \/ ScanFinish
  BY <1>9 DEF LinkUp, ConnectFail, LinkLost, LinkChange, ScanFinish
<1>10. CASE UNCHANGED vars
  BY <1>10 DEF vars
<1> QED
  BY <1>1, <1>2, <1>3, <1>4, <1>5, <1>6, <1>7, <1>8, <1>9, <1>10 DEF Next

(* The lock is free at the start.                                          *)
LEMMA InitLock == Init => LockInv /\ RoleInv
  BY DEF Init, LockInv, RoleInv, Critical

(* Every step keeps the lock and the roles.                                *)
LEMMA NextLock == TypeOK /\ LockInv /\ RoleInv /\ [Next]_vars => LockInv' /\ RoleInv'
<1> SUFFICES ASSUME TypeOK, LockInv, RoleInv, [Next]_vars PROVE LockInv' /\ RoleInv'
  OBVIOUS
<1> USE DEF TypeOK, LockInv, RoleInv, Critical
<1>1. CASE \E t \in Threads : Takes(t)
  BY <1>1 DEF Takes
<1>2. CASE \E t \in Threads : Gives(t)
  BY <1>2 DEF Gives
<1>3. CASE \E t \in Threads : Stays(t)
  BY <1>3 DEF Stays
<1>4. CASE \E t \in Threads : Enters(t)
  BY <1>4 DEF Enters
<1>5. CASE UNCHANGED <<pc, lock>>
  BY <1>5
<1> QED
  BY <1>1, <1>2, <1>3, <1>4, <1>5, StepKinds

(* At most one thread is between Lock() and Unlock(), and the lock queue   *)
(* is full exactly while one is.                                           *)
THEOREM LockCorrect == Spec => [](LockInv /\ RoleInv)
<1>1. TypeOK /\ (LockInv /\ RoleInv) /\ [Next]_vars => (LockInv /\ RoleInv)'
  BY NextLock
<1> QED
  BY InitLock, <1>1, TypeCorrect, PTL DEF Spec

(* The lock queue implements the mutex it stands for: handlers of the      *)
(* event task, of the timer and of the web tasks exclude each other.       *)
THEOREM LockImplementsMutex == Spec => HandlersExclude
<1> DEFINE inside == {t \in Threads : pc[t] \in Critical}
<1>1. Init => inside = {}
  BY DEF Init, Critical
<1>2. TypeOK /\ LockInv /\ [Next]_vars => [Exclusion!Next]_inside
  <2> SUFFICES ASSUME TypeOK, LockInv, [Next]_vars
               PROVE  Exclusion!Next \/ inside' = inside
    OBVIOUS
  <2> USE DEF TypeOK, LockInv, Critical
  <2>1. ASSUME NEW t \in Threads, Takes(t) PROVE inside = {} /\ inside' = {t}
    BY <2>1 DEF Takes
  <2>2. ASSUME NEW t \in Threads, Gives(t) PROVE inside = {t} /\ inside' = {}
    BY <2>2 DEF Gives
  <2>3. ASSUME NEW t \in Threads, Stays(t) \/ Enters(t) PROVE inside' = inside
    BY <2>3 DEF Stays, Enters
  <2>4. CASE UNCHANGED <<pc, lock>>
    BY <2>4
  <2> QED
    BY <2>1, <2>2, <2>3, <2>4, StepKinds DEF Exclusion!Next, Exclusion!Enter, Exclusion!Leave
<1> QED
  BY <1>1, <1>2, TypeCorrect, LockCorrect, PTL
  DEF Spec, HandlersExclude, Exclusion!Spec, Exclusion!Init

-----------------------------------------------------------------------------
(* What a handler relies on because it holds the lock.                     *)

(* Only the event task tears the table, and mends it under the lock.       *)
LEMMA NextTorn == RoleInv /\ LockInv /\ TypeOK /\ TornInv /\ [Next]_vars => TornInv'
<1> SUFFICES ASSUME RoleInv, LockInv, TypeOK, TornInv, [Next]_vars PROVE TornInv'
  OBVIOUS
<1> USE WifiAssumption DEF WifiAssumption, TornInv, RoleInv, TypeOK, Goto, manager, Threads
<1>1. ASSUME NEW t \in Threads, Lock(t) \/ Unlock(t) PROVE TornInv'
  BY <1>1 DEF Lock, Unlock
<1>2. CASE OnEvent
  BY <1>2 DEF OnEvent, Call
<1>3. CASE EventStep
  BY <1>3 DEF EventStep, OnConnect, OnDisconnect, OnScanDone, OnScanDoneSort, Holding
<1>4. CASE TimePasses \/ TimerExpires \/ OnTimeout
  BY <1>4 DEF TimePasses, TimerExpires, OnTimeout, Call
<1>5. ASSUME NEW c \in Clients, JoinNetwork(c) \/ ListNetworks(c) \/ ClientStep(c) PROVE TornInv'
  BY <1>5 DEF JoinNetwork, ListNetworks, ClientStep, Call, JoinDisconnect, JoinConnect, ListRows
<1>6. CASE LinkUp \/ ConnectFail \/ LinkLost \/ ScanFinish
  BY <1>6 DEF LinkUp, ConnectFail, LinkLost, LinkChange, ScanFinish
<1>7. CASE UNCHANGED vars
  BY <1>7 DEF vars
<1> QED
  BY <1>1, <1>2, <1>3, <1>4, <1>5, <1>6, <1>7 DEF Next

(* ListNetworks never formats a table that OnScanDone is rebuilding.       *)
THEOREM ListingSafe == Spec => []ListingNotTorn
<1>1. Init => TornInv
  BY DEF Init, TornInv
<1>2. TypeOK /\ LockInv /\ RoleInv /\ TornInv => ListingNotTorn
  BY WifiAssumption
  DEF WifiAssumption, LockInv, TornInv, ListingNotTorn, Holding, Critical, Threads
<1> QED
  BY <1>1, <1>2, NextTorn, TypeCorrect, LockCorrect, PTL DEF Spec

(* Every step into AP_MODE leaves the access point on.                     *)
LEMMA NextApMode == ApModeHasAp /\ [Next]_vars => ApModeHasAp'
<1> USE DEF ApModeHasAp, manager, driver
<1>1. ASSUME NEW t \in Threads, Lock(t) \/ Unlock(t) PROVE ApModeHasAp => ApModeHasAp'
  BY <1>1 DEF Lock, Unlock
<1>2. ASSUME OnEvent \/ EventStep PROVE ApModeHasAp => ApModeHasAp'
  BY <1>2 DEF OnEvent, EventStep, OnConnect, OnDisconnect, OnScanDone, OnScanDoneSort
<1>3. ASSUME TimePasses \/ TimerExpires \/ OnTimeout PROVE ApModeHasAp => ApModeHasAp'
  BY <1>3 DEF TimePasses, TimerExpires, OnTimeout
<1>4. ASSUME NEW c \in Clients, JoinNetwork(c) \/ ListNetworks(c) \/ ClientStep(c)
      PROVE  ApModeHasAp => ApModeHasAp'
  BY <1>4 DEF JoinNetwork, ListNetworks, ClientStep, JoinDisconnect, JoinConnect, ListRows
<1>5. ASSUME LinkUp \/ ConnectFail \/ LinkLost \/ ScanFinish PROVE ApModeHasAp => ApModeHasAp'
  BY <1>5 DEF LinkUp, ConnectFail, LinkLost, LinkChange, ScanFinish
<1>6. ASSUME UNCHANGED vars PROVE ApModeHasAp => ApModeHasAp'
  BY <1>6 DEF vars
<1> QED
  BY <1>1, <1>2, <1>3, <1>4, <1>5, <1>6 DEF Next

(* In AP_MODE the access point is on.                                      *)
THEOREM ApModeCorrect == Spec => []ApModeHasAp
<1>1. Init => ApModeHasAp
  BY DEF Init, ApModeHasAp
<1> QED
  BY <1>1, NextApMode, PTL DEF Spec

\* What one step may do to the counter and to `scanning`.
CounterStep ==
  /\ CounterInv'
  /\ scanning' /\ ~scanning => state' # "CONNECTING"

(* Every step into DISCONNECTED sets the counter, and none starts a scan and*)
(* a connection at once.                                                   *)
LEMMA NextCounter == TypeOK /\ CounterInv /\ [Next]_vars => CounterStep
<1> SUFFICES ASSUME TypeOK, CounterInv, [Next]_vars PROVE CounterStep
  OBVIOUS
<1> USE WifiAssumption DEF WifiAssumption, CounterInv, CounterStep, manager, driver
<1>1. ASSUME NEW t \in Threads, Lock(t) \/ Unlock(t) PROVE CounterStep
  BY <1>1 DEF Lock, Unlock
<1>2. CASE OnEvent \/ EventStep
  BY <1>2 DEF OnEvent, EventStep, OnConnect, OnDisconnect, OnScanDone, OnScanDoneSort
<1>3. CASE TimePasses \/ TimerExpires
  BY <1>3 DEF TimePasses, TimerExpires
<1>4. CASE OnTimeout
  <2>1. state' # "DISCONNECTED"
    BY <1>4 DEF OnTimeout
  <2>2. state' = "CONNECTING" => counter # 0
    BY <1>4 DEF OnTimeout, TypeOK, States
  <2>3. counter # 0 => UNCHANGED scanning
    BY <1>4 DEF OnTimeout, CountDown
  <2> QED
    BY <2>1, <2>2, <2>3
<1>5. ASSUME NEW c \in Clients, JoinNetwork(c) \/ ListNetworks(c) \/ ClientStep(c) PROVE CounterStep
  BY <1>5 DEF JoinNetwork, ListNetworks, ClientStep, JoinDisconnect, JoinConnect, ListRows
<1>6. CASE LinkUp \/ ConnectFail \/ LinkLost \/ ScanFinish
  BY <1>6 DEF LinkUp, ConnectFail, LinkLost, LinkChange, ScanFinish
<1>7. CASE UNCHANGED vars
  BY <1>7 DEF vars
<1> QED
  BY <1>1, <1>2, <1>3, <1>4, <1>5, <1>6, <1>7 DEF Next

(* OnTimeout never starts a scan in the tick in which it redials.          *)
THEOREM ScanApartFromConnect == Spec => ScanNotDuringConnect
<1>1. Init => CounterInv
  BY DEF Init, CounterInv
<1>2. TypeOK /\ CounterInv /\ [Next]_vars => CounterInv'
  BY NextCounter DEF CounterStep
<1>3. TypeOK /\ CounterInv /\ [Next]_vars
        => [scanning' /\ ~scanning => state' # "CONNECTING"]_vars
  BY NextCounter DEF CounterStep
<1> QED
  BY <1>1, <1>2, <1>3, TypeCorrect, PTL DEF Spec, ScanNotDuringConnect

-----------------------------------------------------------------------------
(* The link. LinkTracked is inductive with LeftInv. A step either leaves   *)
(* what it speaks of alone, or posts an event, or takes one from the       *)
(* queue, or acts on the one in hand.                                      *)

HandSame == InHand' = InHand /\ (InHand => job'[EventTask] = job[EventTask])

(* The elements of a queue with one more event.                            *)
LEMMA AppendFacts ==
  ASSUME NEW s \in Seq(EventIds), NEW e \in EventIds
  PROVE  /\ DOMAIN s = 1 .. Len(s) /\ Len(s) \in Nat
         /\ DOMAIN Append(s, e) = 1 .. Len(s) + 1
         /\ \A i \in 1 .. Len(s) : Append(s, e)[i] = s[i]
         /\ Append(s, e)[Len(s) + 1] = e
  OBVIOUS

(* The elements of a queue with the first event taken.                     *)
LEMMA TailFacts ==
  ASSUME NEW s \in Seq(EventIds), s # <<>>
  PROVE  /\ DOMAIN s = 1 .. Len(s) /\ Len(s) \in Nat \ {0}
         /\ DOMAIN Tail(s) = 1 .. Len(s) - 1
         /\ Head(s) = s[1] /\ Head(s) \in EventIds
         /\ \A i \in 1 .. Len(s) - 1 : Tail(s)[i] = s[i + 1]
  OBVIOUS

(* The link and the state change in nothing LinkTracked looks at.          *)
LEMMA LinkUntouched ==
  ASSUME LinkTracked, HandSame, events' = events,
         (link' = "up") = (link = "up"),
         (state' = "CONNECTED") = (state = "CONNECTED")
  PROVE  LinkTracked'
  BY DEF LinkTracked, HandSame, NewestInQueue, NewestInHand, Reports, Pending

(* A true report about the link is posted.                                 *)
LEMMA ReportPosted ==
  ASSUME TypeOK, HandSame,
         NEW e \in LinkEvents, events' = Append(events, e),
         (e = "STA_GOT_IP") = (link' = "up")
  PROVE  LinkTracked'
<1>1. e \in EventIds /\ events \in Seq(EventIds)
  BY DEF EventIds, TypeOK
<1>2. DOMAIN events' = 1 .. Len(events) + 1 /\ Len(events) \in Nat
      /\ events'[Len(events) + 1] = e
  BY <1>1, AppendFacts
<1>3. ASSUME NEW i \in DOMAIN events', NewestInQueue(i)' PROVE i = Len(events) + 1
  BY <1>2, <1>3 DEF NewestInQueue
<1>4. ~NewestInHand'
  BY <1>2 DEF NewestInHand
<1>5. Pending(e)'
  BY <1>2 DEF Pending
<1>6. \A i \in DOMAIN events' : NewestInQueue(i)' => Reports(events[i])'
  BY <1>2, <1>3 DEF Reports
<1> QED
  BY <1>4, <1>5, <1>6 DEF LinkTracked, LinkEvents

(* The end of a scan is posted.                                            *)
LEMMA ScanPosted ==
  ASSUME TypeOK, LinkTracked, HandSame, UNCHANGED <<link, state>>,
         events' = Append(events, "SCAN_DONE")
  PROVE  LinkTracked'
<1>1. "SCAN_DONE" \in EventIds /\ events \in Seq(EventIds) /\ "SCAN_DONE" \notin LinkEvents
  BY DEF EventIds, LinkEvents, TypeOK
<1>2. /\ DOMAIN events = 1 .. Len(events) /\ Len(events) \in Nat
      /\ DOMAIN events' = 1 .. Len(events) + 1
      /\ \A i \in 1 .. Len(events) : events'[i] = events[i]
      /\ events'[Len(events) + 1] = "SCAN_DONE"
  BY <1>1, AppendFacts
<1>3. ASSUME NEW i \in DOMAIN events', NewestInQueue(i)'
      PROVE  i \in DOMAIN events /\ NewestInQueue(i) /\ events'[i] = events[i]
  BY <1>1, <1>2, <1>3 DEF NewestInQueue
<1>4. NewestInHand' => NewestInHand /\ job'[EventTask] = job[EventTask]
  BY <1>2 DEF NewestInHand, HandSame
<1>5. Pending("STA_GOT_IP") => Pending("STA_GOT_IP")'
  BY <1>2 DEF Pending, HandSame
<1>6. Pending("STA_DISCONNECTED") => Pending("STA_DISCONNECTED")'
  BY <1>2 DEF Pending, HandSame
<1> QED
  BY <1>3, <1>4, <1>5, <1>6 DEF LinkTracked, Reports

(* The event task takes the oldest event.                                  *)
LEMMA EventTaken ==
  ASSUME TypeOK, LinkTracked, OnEvent
  PROVE  LinkTracked'
<1>1. events \in Seq(EventIds) /\ events # <<>> /\ events' = Tail(events)
      /\ ~InHand /\ InHand' /\ job'[EventTask] = Head(events)
      /\ UNCHANGED <<link, state>>
  BY DEF TypeOK, OnEvent, Call, Goto, InHand, Threads, manager
<1>2. /\ DOMAIN events = 1 .. Len(events) /\ Len(events) \in Nat \ {0}
      /\ DOMAIN events' = 1 .. Len(events) - 1
      /\ job'[EventTask] = events[1]
      /\ \A i \in 1 .. Len(events) - 1 : events'[i] = events[i + 1]
  BY <1>1, TailFacts
<1>3. ASSUME NEW i \in DOMAIN events', NewestInQueue(i)'
      PROVE  Reports(events[i])'
  <2>1. i + 1 \in DOMAIN events /\ events'[i] = events[i + 1]
    BY <1>2
  <2>2. ASSUME NEW j \in DOMAIN events, j > i + 1 PROVE events[j] \notin LinkEvents
    <3>1. j - 1 \in DOMAIN events' /\ j - 1 > i /\ events'[j - 1] = events[j]
      BY <1>2, <2>2
    <3> QED
      BY <3>1, <1>3 DEF NewestInQueue
  <2>3. NewestInQueue(i + 1)
    BY <2>1, <2>2, <1>3 DEF NewestInQueue
  <2> QED
    BY <1>1, <2>1, <2>3 DEF LinkTracked, Reports
<1>4. NewestInHand' => Reports(job[EventTask])'
  <2> SUFFICES ASSUME NewestInHand' PROVE Reports(job[EventTask])'
    OBVIOUS
  <2>1. ASSUME NEW j \in DOMAIN events, j > 1 PROVE events[j] \notin LinkEvents
    <3>1. j - 1 \in DOMAIN events' /\ events'[j - 1] = events[j]
      BY <1>2, <2>1
    <3> QED
      BY <3>1 DEF NewestInHand
  <2>2. 1 \in DOMAIN events /\ NewestInQueue(1)
    BY <1>2, <2>1 DEF NewestInQueue, NewestInHand
  <2> QED
    BY <1>1, <1>2, <2>2 DEF LinkTracked, Reports
<1>5. ASSUME NEW e, Pending(e) PROVE Pending(e)'
  <2>1. PICK i \in DOMAIN events : events[i] = e
    BY <1>1, <1>5 DEF Pending
  <2>2. CASE i = 1
    BY <1>1, <1>2, <2>1, <2>2 DEF Pending
  <2>3. CASE i # 1
    <3>1. i - 1 \in DOMAIN events' /\ events'[i - 1] = e
      BY <1>2, <2>1, <2>3
    <3> QED
      BY <3>1 DEF Pending
  <2> QED
    BY <2>2, <2>3
<1> QED
  BY <1>1, <1>3, <1>4, <1>5 DEF LinkTracked

(* OnConnect and OnDisconnect act on the event in hand. When no report is  *)
(* left in the queue, that event was the newest and told the truth.        *)
LEMMA EventHandled ==
  ASSUME TypeOK, LinkTracked, OnConnect \/ OnDisconnect
  PROVE  LinkTracked'
<1>1. InHand /\ ~InHand' /\ UNCHANGED <<events, link>>
  BY DEF OnConnect, OnDisconnect, Holding, InHand, Goto, TypeOK, Threads, driver
<1>2. \A i \in DOMAIN events' : NewestInQueue(i)' => Reports(events[i])'
  BY <1>1 DEF LinkTracked, NewestInQueue, Reports
<1>3. ~Pending("STA_GOT_IP")' /\ ~Pending("STA_DISCONNECTED")' => NewestInHand
  BY <1>1 DEF Pending, NewestInHand, OnConnect, OnDisconnect, Holding, LinkEvents
<1>4. NewestInHand => (state' = "CONNECTED") = (link' = "up")
  BY <1>1 DEF LinkTracked, Reports, OnConnect, OnDisconnect, Holding
<1> QED
  BY <1>1, <1>2, <1>3, <1>4 DEF LinkTracked, NewestInHand

LinkInv == LinkTracked /\ LeftInv

(* JoinNetwork: a true report may be posted on the way out; on the way in  *)
(* the link is not up unless a report of that is still pending.            *)
LEMMA JoinTracked ==
  ASSUME TypeOK, LockInv, RoleInv, LinkInv, NEW c \in Clients,
         JoinDisconnect(c) \/ JoinConnect(c)
  PROVE  LinkInv'
<1> USE WifiAssumption DEF WifiAssumption, Threads
<1>1. HandSame
  BY DEF HandSame, InHand, JoinDisconnect, JoinConnect, Goto, TypeOK
<1>2. CASE JoinDisconnect(c)
  <2>1. state' = state /\ (state = "CONNECTED" => link' = "down")
    BY <1>2 DEF JoinDisconnect, Disconnect, manager
  <2>2. LinkTracked'
    <3>1. CASE UNCHANGED <<link, events>>
      BY <1>1, <2>1, <3>1, LinkUntouched DEF LinkInv
    <3>2. CASE Disconnect /\ events' = Append(events, "STA_DISCONNECTED")
      BY <1>1, <3>2, ReportPosted DEF Disconnect, LinkEvents
    <3>3. CASE Disconnect /\ events' = events /\ link # "up"
      BY <1>1, <2>1, <3>3, LinkUntouched DEF Disconnect, LinkInv
    <3> QED
      BY <1>2, <3>1, <3>2, <3>3 DEF JoinDisconnect, Disconnect
  <2>3. LeftInv'
    <3>1. ASSUME NEW d \in Clients, pc'[d] = "connect" PROVE d = c
      BY <1>2, <3>1 DEF JoinDisconnect, Holding, Goto, TypeOK, LockInv, Critical
    <3> QED
      BY <2>1, <3>1 DEF LeftInv
  <2> QED
    BY <2>2, <2>3 DEF LinkInv
<1>3. CASE JoinConnect(c)
  <2>1. (link' = "up") = (link = "up") /\ events' = events /\ state' = "CONNECTING"
    BY <1>3 DEF JoinConnect, AfterConnect, TypeOK
  <2>2. state = "CONNECTED" => link = "down"
    BY <1>3 DEF JoinConnect, LinkInv, LeftInv
  <2>3. LinkTracked'
    BY <1>1, <2>1, <2>2
    DEF LinkInv, LinkTracked, HandSame, NewestInQueue, NewestInHand, Reports, Pending
  <2> QED
    BY <2>1, <2>3 DEF LinkInv, LeftInv
<1> QED
  BY <1>2, <1>3

(* Every step keeps track of the link.                                     *)
LEMMA NextLink ==
  TypeOK /\ LockInv /\ RoleInv /\ LinkInv /\ [Next]_vars => LinkInv'
<1> SUFFICES ASSUME TypeOK, LockInv, RoleInv, LinkInv, [Next]_vars PROVE LinkInv'
  OBVIOUS
<1> USE WifiAssumption DEF WifiAssumption, Threads, manager, driver
<1>1. ASSUME NEW t \in Threads, Lock(t) \/ Unlock(t) PROVE LinkInv'
  <2>1. HandSame /\ UNCHANGED <<state, link, events>>
    BY <1>1 DEF Lock, Unlock, HandSame, InHand, Goto, TypeOK
  <2>2. LeftInv'
    BY <1>1, <2>1 DEF Lock, Unlock, Goto, TypeOK, LeftInv, LinkInv
  <2> QED
    BY <2>1, <2>2, LinkUntouched DEF LinkInv
<1>2. CASE OnEvent
  <2>1. LeftInv'
    BY <1>2 DEF OnEvent, Call, Goto, TypeOK, LeftInv, LinkInv
  <2> QED
    BY <1>2, <2>1, EventTaken DEF LinkInv
<1>3. CASE OnConnect \/ OnDisconnect
  <2>1. ASSUME NEW c \in Clients PROVE pc'[c] # "connect"
    BY <1>3 DEF OnConnect, OnDisconnect, Holding, Goto, TypeOK, LockInv, Critical
  <2> QED
    BY <1>3, <2>1, EventHandled DEF LinkInv, LeftInv
<1>4. CASE OnScanDone \/ OnScanDoneSort
  <2>1. UNCHANGED <<state, link, events>>
    BY <1>4 DEF OnScanDone, OnScanDoneSort
  <2>2. \A i \in DOMAIN events : NewestInQueue(i)' => NewestInQueue(i)
    BY <2>1 DEF NewestInQueue
  <2>3. ~NewestInHand'
    BY <1>4 DEF OnScanDone, OnScanDoneSort, Goto, TypeOK, NewestInHand, InHand
  <2>4. ASSUME NEW e \in LinkEvents, Pending(e) PROVE Pending(e)'
    BY <1>4, <2>1, <2>4
    DEF OnScanDone, OnScanDoneSort, Holding, Pending, InHand, LinkEvents
  <2>5. LinkTracked'
    BY <2>1, <2>2, <2>3, <2>4 DEF LinkTracked, LinkInv, LinkEvents, Reports
  <2>6. LeftInv'
    BY <1>4, <2>1 DEF OnScanDone, OnScanDoneSort, Goto, TypeOK, LeftInv, LinkInv
  <2> QED
    BY <2>5, <2>6 DEF LinkInv
<1>5. CASE TimePasses \/ TimerExpires
  <2>1. HandSame /\ UNCHANGED <<state, link, events>>
    BY <1>5 DEF TimePasses, TimerExpires, Call, HandSame, InHand, Goto, TypeOK
  <2>2. LeftInv'
    BY <1>5, <2>1 DEF TimePasses, TimerExpires, Call, Goto, TypeOK, LeftInv, LinkInv
  <2> QED
    BY <2>1, <2>2, LinkUntouched DEF LinkInv
<1>6. CASE OnTimeout
  <2>1. HandSame /\ events' = events
    BY <1>6 DEF OnTimeout, HandSame, InHand, Goto, TypeOK
  <2>2. (link' = "up") = (link = "up") /\ (state' = "CONNECTED") = (state = "CONNECTED")
    BY <1>6 DEF OnTimeout, AfterConnect, TypeOK, States
  <2>3. ASSUME NEW c \in Clients PROVE pc'[c] # "connect"
    BY <1>6 DEF OnTimeout, Holding, Goto, TypeOK, LockInv, Critical
  <2> QED
    BY <2>1, <2>2, <2>3, LinkUntouched DEF LinkInv, LeftInv
<1>7. ASSUME NEW c \in Clients, JoinNetwork(c) \/ ListNetworks(c) \/ ListRows(c) PROVE LinkInv'
  <2>1. HandSame /\ UNCHANGED <<state, link, events>>
    BY <1>7 DEF JoinNetwork, ListNetworks, ListRows, Call, HandSame, InHand, Goto, TypeOK
  <2>2. LeftInv'
    BY <1>7, <2>1 DEF JoinNetwork, ListNetworks, ListRows, Call, Goto, TypeOK, LeftInv, LinkInv
  <2> QED
    BY <2>1, <2>2, LinkUntouched DEF LinkInv
<1>8. ASSUME NEW c \in Clients, JoinDisconnect(c) \/ JoinConnect(c) PROVE LinkInv'
  BY <1>8, JoinTracked
<1>9. CASE LinkUp \/ ConnectFail \/ LinkLost
  <2>1. HandSame
    BY <1>9 DEF LinkUp, ConnectFail, LinkLost, LinkChange, HandSame, InHand
  <2>2. LinkTracked'
    BY <1>9, <2>1, ReportPosted DEF LinkUp, ConnectFail, LinkLost, LinkChange, LinkEvents
  <2>3. LeftInv'
    BY <1>9 DEF LinkUp, ConnectFail, LinkLost, LinkChange, LeftInv, LinkInv
  <2> QED
    BY <2>2, <2>3 DEF LinkInv
<1>10. CASE ScanFinish
  <2>1. HandSame /\ UNCHANGED <<state, link, pc>>
    BY <1>10 DEF ScanFinish, HandSame, InHand
  <2> QED
    BY <1>10, <2>1, ScanPosted DEF ScanFinish, LinkInv, LeftInv
<1>11. CASE UNCHANGED vars
  <2>1. HandSame /\ UNCHANGED <<state, link, events, pc>>
    BY <1>11 DEF vars, HandSame, InHand
  <2> QED
    BY <2>1, LinkUntouched DEF LinkInv, LeftInv
<1> QED
  BY <1>1, <1>2, <1>3, <1>4, <1>5, <1>6, <1>7, <1>8, <1>9, <1>10, <1>11
  DEF Next, EventStep, ClientStep

(* The manager never loses track of the link: with no report pending it is *)
(* CONNECTED exactly while the link is up, and the newest pending report   *)
(* about the link is true.                                                 *)
THEOREM LinkCorrect == Spec => []LinkTracked
<1>1. Init => LinkInv
  BY DEF Init, LinkInv, LinkTracked, LeftInv, Pending, NewestInQueue, NewestInHand, InHand, Threads
<1>2. LinkInv => LinkTracked
  BY DEF LinkInv
<1> QED
  BY <1>1, <1>2, NextLink, TypeCorrect, LockCorrect, PTL DEF Spec

-----------------------------------------------------------------------------
(* Scans. A started scan is under way in the driver, then reported once;   *)
(* `scanning` is set all the while, so no second one is started on top.    *)

\* A report of the end of a scan is in the queue or in hand, in one place only.
ScanInv ==
  /\ ScanTracked
  /\ \A m, n \in DOMAIN events : events[m] = "SCAN_DONE" /\ events[n] = "SCAN_DONE" => m = n
  /\ ~(InHand /\ job[EventTask] = "SCAN_DONE" /\ \E n \in DOMAIN events : events[n] = "SCAN_DONE")

(* Steps that touch neither the queue nor what the event task has in hand: *)
(* at most they start a scan while `scanning` was not set.                 *)
LEMMA ScanUntouched ==
  ASSUME ScanInv, HandSame, events' = events,
         \/ UNCHANGED <<scanning, scanRun>>
         \/ ~scanning /\ scanning' = TRUE
  PROVE  ScanInv'
<1>1. Pending("SCAN_DONE")' => Pending("SCAN_DONE")
  BY DEF Pending, HandSame
<1>2. ScanTracked'
  BY <1>1 DEF ScanInv, ScanTracked
<1> QED
  BY <1>2 DEF ScanInv, HandSame

(* A report about the link is posted; that of a scan stays where it is.    *)
LEMMA ScanBehind ==
  ASSUME TypeOK, ScanInv, HandSame, UNCHANGED <<scanning, scanRun>>,
         NEW e \in LinkEvents, events' = Append(events, e)
  PROVE  ScanInv'
<1>1. e \in EventIds /\ e # "SCAN_DONE" /\ events \in Seq(EventIds)
  BY DEF EventIds, LinkEvents, TypeOK
<1>2. /\ DOMAIN events' = 1 .. Len(events) + 1 /\ Len(events) \in Nat
      /\ DOMAIN events = 1 .. Len(events)
      /\ \A n \in 1 .. Len(events) : events'[n] = events[n]
      /\ events'[Len(events) + 1] = e
  BY <1>1, AppendFacts
<1>3. ASSUME NEW n \in DOMAIN events', events'[n] = "SCAN_DONE"
      PROVE  n \in DOMAIN events /\ events[n] = "SCAN_DONE"
  BY <1>1, <1>2, <1>3
<1>4. Pending("SCAN_DONE")' => Pending("SCAN_DONE")
  BY <1>3 DEF Pending, HandSame
<1> QED
  BY <1>3, <1>4 DEF ScanInv, ScanTracked, HandSame

(* The driver reports the end of its scan: no report was pending.          *)
LEMMA ScanReported ==
  ASSUME TypeOK, ScanInv, ScanFinish
  PROVE  ScanInv'
<1>1. HandSame /\ scanRun /\ ~scanRun' /\ scanning' = scanning
  BY DEF ScanFinish, HandSame, InHand, manager, TypeOK
<1>2. "SCAN_DONE" \in EventIds /\ events \in Seq(EventIds) /\ events' = Append(events, "SCAN_DONE")
  BY DEF EventIds, TypeOK, ScanFinish
<1>3. /\ DOMAIN events' = 1 .. Len(events) + 1 /\ Len(events) \in Nat
      /\ DOMAIN events = 1 .. Len(events)
      /\ \A n \in 1 .. Len(events) : events'[n] = events[n]
  BY <1>2, AppendFacts
<1>4. scanning /\ ~Pending("SCAN_DONE")
  BY <1>1 DEF ScanInv, ScanTracked
<1>5. ASSUME NEW n \in DOMAIN events', events'[n] = "SCAN_DONE" PROVE n = Len(events) + 1
  BY <1>3, <1>4, <1>5 DEF Pending
<1>6. ~(InHand' /\ job'[EventTask] = "SCAN_DONE")
  BY <1>1, <1>4 DEF Pending, HandSame
<1> QED
  BY <1>1, <1>4, <1>5, <1>6 DEF ScanInv, ScanTracked

(* The event task takes the oldest event: a report moves into its hand.    *)
LEMMA ScanTaken ==
  ASSUME TypeOK, ScanInv, OnEvent
  PROVE  ScanInv'
<1>1. events \in Seq(EventIds) /\ events # <<>> /\ events' = Tail(events)
      /\ ~InHand /\ InHand' /\ job'[EventTask] = Head(events)
      /\ UNCHANGED <<scanning, scanRun>>
  BY DEF TypeOK, OnEvent, Call, Goto, InHand, Threads, manager
<1>2. /\ DOMAIN events = 1 .. Len(events) /\ Len(events) \in Nat \ {0}
      /\ DOMAIN events' = 1 .. Len(events) - 1
      /\ job'[EventTask] = events[1]
      /\ \A n \in 1 .. Len(events) - 1 : events'[n] = events[n + 1]
  BY <1>1, TailFacts
<1>3. ASSUME NEW n \in DOMAIN events', events'[n] = "SCAN_DONE"
      PROVE  n + 1 \in DOMAIN events /\ events[n + 1] = "SCAN_DONE" /\ n # 0 /\ n \in Nat
  BY <1>2, <1>3
<1>4. 1 \in DOMAIN events
  BY <1>2
<1>5. Pending("SCAN_DONE")' => Pending("SCAN_DONE")
  BY <1>2, <1>3, <1>4 DEF Pending
<1>6. ASSUME NEW m \in DOMAIN events', NEW n \in DOMAIN events',
             events'[m] = "SCAN_DONE", events'[n] = "SCAN_DONE"
      PROVE  m = n /\ job'[EventTask] # "SCAN_DONE"
  <2>1. m + 1 = n + 1
    BY <1>3, <1>6 DEF ScanInv
  <2>2. job'[EventTask] = "SCAN_DONE" => 1 = n + 1
    BY <1>2, <1>3, <1>4, <1>6 DEF ScanInv
  <2> QED
    BY <1>3, <1>6, <2>1, <2>2
<1> QED
  BY <1>1, <1>5, <1>6 DEF ScanInv, ScanTracked

(* Every step keeps the flag of the manager and the scan of the driver     *)
(* together.                                                               *)
LEMMA NextScan == TypeOK /\ ScanInv /\ [Next]_vars => ScanInv'
<1> SUFFICES ASSUME TypeOK, ScanInv, [Next]_vars PROVE ScanInv'
  OBVIOUS
<1> USE DEF Threads, manager, driver
<1>1. ASSUME NEW t \in Threads, Lock(t) \/ Unlock(t) PROVE ScanInv'
  <2>1. HandSame /\ UNCHANGED <<scanning, scanRun, events>>
    BY <1>1 DEF Lock, Unlock, HandSame, InHand, Goto, TypeOK
  <2> QED
    BY <2>1, ScanUntouched
<1>2. CASE OnEvent
  BY <1>2, ScanTaken
<1>3. CASE OnConnect \/ OnDisconnect
  <2>1. ~InHand' /\ UNCHANGED <<scanning, scanRun, events>>
    BY <1>3 DEF OnConnect, OnDisconnect, Holding, InHand, Goto, TypeOK
  <2> QED
    BY <2>1 DEF ScanInv, ScanTracked, Pending
<1>4. CASE OnScanDone
  <2>1. InHand /\ job[EventTask] = "SCAN_DONE" /\ ~InHand' /\ UNCHANGED <<scanRun, events>>
    BY <1>4 DEF OnScanDone, Holding, InHand, Goto, TypeOK
  <2>2. ~scanRun /\ ~Pending("SCAN_DONE")'
    BY <2>1 DEF ScanInv, ScanTracked, Pending
  <2> QED
    BY <2>1, <2>2 DEF ScanInv, ScanTracked
<1>5. CASE OnScanDoneSort
  <2>1. HandSame /\ UNCHANGED <<scanning, scanRun, events>>
    BY <1>5 DEF OnScanDoneSort, HandSame, InHand, Goto, TypeOK
  <2> QED
    BY <2>1, ScanUntouched
<1>6. CASE TimePasses \/ TimerExpires
  <2>1. HandSame /\ UNCHANGED <<scanning, scanRun, events>>
    BY <1>6 DEF TimePasses, TimerExpires, Call, HandSame, InHand, Goto, TypeOK
  <2> QED
    BY <2>1, ScanUntouched
<1>7. CASE OnTimeout
  <2>1. HandSame /\ events' = events
    BY <1>7 DEF OnTimeout, HandSame, InHand, Goto, TypeOK
  <2>2. \/ UNCHANGED <<scanning, scanRun>>
        \/ ~scanning /\ scanning' = TRUE
    BY <1>7 DEF OnTimeout, CountDown, Scan
  <2> QED
    BY <2>1, <2>2, ScanUntouched
<1>8. ASSUME NEW c \in Clients, JoinNetwork(c) \/ ListNetworks(c) \/ ListRows(c) \/ JoinConnect(c)
      PROVE  ScanInv'
  <2>1. HandSame /\ UNCHANGED <<scanning, scanRun, events>>
    BY <1>8, WifiAssumption DEF WifiAssumption, JoinNetwork, ListNetworks, ListRows, JoinConnect,
       Call, HandSame, InHand, Goto, TypeOK
  <2> QED
    BY <2>1, ScanUntouched
<1>9. ASSUME NEW c \in Clients, JoinDisconnect(c) PROVE ScanInv'
  <2>1. HandSame /\ UNCHANGED <<scanning, scanRun>>
    BY <1>9, WifiAssumption DEF WifiAssumption, JoinDisconnect, Disconnect, HandSame, InHand, Goto, TypeOK
  <2>2. events' = events \/ events' = Append(events, "STA_DISCONNECTED")
    BY <1>9 DEF JoinDisconnect, Disconnect
  <2> QED
    BY <2>1, <2>2, ScanUntouched, ScanBehind DEF LinkEvents
<1>10. CASE LinkUp \/ ConnectFail \/ LinkLost
  <2>1. HandSame /\ UNCHANGED <<scanning, scanRun>>
    BY <1>10 DEF LinkUp, ConnectFail, LinkLost, LinkChange, HandSame, InHand
  <2> QED
    BY <1>10, <2>1, ScanBehind DEF LinkUp, ConnectFail, LinkLost, LinkChange, LinkEvents
<1>11. CASE ScanFinish
  BY <1>11, ScanReported
<1>12. CASE UNCHANGED vars
  <2>1. HandSame /\ UNCHANGED <<scanning, scanRun, events>>
    BY <1>12 DEF vars, HandSame, InHand
  <2> QED
    BY <2>1, ScanUntouched
<1> QED
  BY <1>1, <1>2, <1>3, <1>4, <1>5, <1>6, <1>7, <1>8, <1>9, <1>10, <1>11, <1>12
  DEF Next, EventStep, ClientStep

(* While the driver scans, or the end of its scan is still to be handled,  *)
(* `scanning` is set: Scan never starts a second scan on top of the first. *)
THEOREM ScanCorrect == Spec => []ScanTracked
<1>1. Init => ScanInv
  BY DEF Init, ScanInv, ScanTracked, Pending, InHand, Threads
<1>2. ScanInv => ScanTracked
  BY DEF ScanInv
<1> QED
  BY <1>1, <1>2, NextScan, TypeCorrect, PTL DEF Spec
=============================================================================
