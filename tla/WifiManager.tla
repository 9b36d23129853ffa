---------------------------- MODULE WifiManager ----------------------------
(***************************************************************************)
(* The station / access-point manager of main/wifi_manager.cpp.            *)
(*                                                                         *)
(* Four kinds of threads call into one object: the event-loop task (link   *)
(* and scan events, one at a time and in order), the timer daemon (the     *)
(* periodic tick), the web tasks (JoinNetwork, ListNetworks) and the port  *)
(* 5000 server, which only reads `state` and needs no step of its own.     *)
(* `lock` is a queue of capacity one used as a mutex: 1 when it is full.   *)
(*                                                                         *)
(* mode, link, scanRun and events stand for the Wi-Fi driver, which is not *)
(* part of the repository; it is modelled from the calls and events here.  *)
(***************************************************************************)
EXTENDS Integers, Sequences

CONSTANTS
  Clients,                  \* web tasks that may join or list networks
  WIFI_DISC_SCAN_INTERVAL,  \* ticks between scans when not connected
  WIFI_CONN_SCAN_INTERVAL,  \* ticks between scans when connected
  TIMER_PERIOD,             \* length of a timer period, in units of `due`
  MaxEvents,                \* bound: the driver adds no event of its own past it
  MaxJoins,                 \* bound on the number of JoinNetwork calls
  ScanStartMayFail          \* whether esp_wifi_scan_start may refuse

ASSUME WifiAssumption ==
  /\ WIFI_DISC_SCAN_INTERVAL \in Nat \ {0}
  /\ WIFI_CONN_SCAN_INTERVAL \in Nat \ {0}
  /\ TIMER_PERIOD \in Nat
  /\ MaxEvents \in Nat
  /\ MaxJoins \in Nat
  /\ ScanStartMayFail \in BOOLEAN
  /\ "event_task" \notin Clients /\ "timer_task" \notin Clients

VARIABLES
  state,     \* wifi_state
  counter,   \* ticks left until the next scan
  scanning,  \* the manager believes a scan is under way
  networks,  \* "unset" heap garbage, "torn" being rebuilt, "sorted" complete
  lock,      \* 1 when the lock queue is full
  due,       \* time left until the periodic timer expires
  pc, job,   \* where each thread is, and the call it is executing
  joins,     \* number of JoinNetwork calls so far (bounds the model)
  mode,      \* radio mode: "STA" or "APSTA"
  link,      \* station link: "down", "connecting" or "up" (has an address)
  scanRun,   \* the driver is scanning
  events     \* the event loop's queue

manager == <<state, counter, scanning, networks>>
driver  == <<mode, link, scanRun, events>>
vars    == <<manager, lock, due, pc, job, joins, driver>>

EventTask == "event_task"
TimerTask == "timer_task"
Threads   == Clients \cup {EventTask, TimerTask}

States     == {"CONNECTING", "CONNECTED", "DISCONNECTED", "AP_MODE"}
LinkEvents == {"STA_GOT_IP", "STA_DISCONNECTED"}
EventIds   == LinkEvents \cup {"SCAN_DONE"}
Jobs       == EventIds \cup {"timeout", "join", "list", "none"}
\* Places between Lock() and Unlock(): `rebuild` and `connect` are the second
\* halves of OnScanDone and of JoinNetwork.
Critical   == {"body", "rebuild", "connect", "unlock"}
Places     == Critical \cup {"idle", "lock"}

TypeOK ==
  /\ state \in States
  /\ counter \in 0 .. (WIFI_CONN_SCAN_INTERVAL + WIFI_DISC_SCAN_INTERVAL)
  /\ scanning \in BOOLEAN
  /\ networks \in {"unset", "torn", "sorted"}
  /\ lock \in {0, 1}
  /\ due \in 0 .. TIMER_PERIOD
  /\ pc \in [Threads -> Places]
  /\ job \in [Threads -> Jobs]
  /\ joins \in 0 .. MaxJoins
  /\ mode \in {"STA", "APSTA"}
  /\ link \in {"down", "connecting", "up"}
  /\ scanRun \in BOOLEAN
  /\ events \in Seq(EventIds)

(***************************************************************************)
(* The constructor: every field is set except networks, the timer runs and *)
(* the first connection attempt has been issued.                           *)
(***************************************************************************)
Init ==
  /\ state = "CONNECTING"
  /\ counter = 0
  /\ scanning = FALSE
  /\ networks = "unset"
  /\ lock = 0
  /\ due = TIMER_PERIOD
  /\ pc = [t \in Threads |-> "idle"]
  /\ job = [t \in Threads |-> "none"]
  /\ joins = 0
  /\ mode = "STA"
  /\ link = "connecting"
  /\ scanRun = FALSE
  /\ events = <<>>

Goto(t, place) == pc' = [pc EXCEPT ![t] = place]

\* A thread enters handler j and arrives at its Lock().
Call(t, j) ==
  /\ pc[t] = "idle"
  /\ Goto(t, "lock")
  /\ job' = [job EXCEPT ![t] = j]

\* Thread t is inside the critical section of handler j.
Holding(t, j) == pc[t] = "body" /\ job[t] = j

-----------------------------------------------------------------------------
(* What the driver calls do to the driver.                                 *)

\* The link after esp_wifi_connect(): an attempt starts when there is none.
AfterConnect == IF link = "down" THEN "connecting" ELSE link

\* esp_wifi_disconnect(): leaving a network is reported by an event; giving
\* up an attempt may be reported or not.
Disconnect ==
  /\ link' = "down"
  /\ \/ events' = Append(events, "STA_DISCONNECTED") /\ link # "down"
     \/ events' = events /\ link # "up"

\* Two faulty variants of the operators that follow (see the next section).
ScanIgnoresScanning ==
  /\ scanning' = TRUE
  /\ \/ scanRun' = TRUE
     \/ ScanStartMayFail /\ UNCHANGED scanRun

\* Scan(): skipped while a scan is believed to be under way; the result of
\* esp_wifi_scan_start is not looked at.
Scan ==
  IF scanning
  THEN UNCHANGED <<scanning, scanRun>>
  ELSE /\ scanning' = TRUE
       /\ \/ scanRun' = TRUE
          \/ ScanStartMayFail /\ UNCHANGED scanRun

\* The tail of OnTimeout, with s the state it has arrived at.
CountDown(s) ==
  IF counter = 0
  THEN /\ counter' = (IF s = "CONNECTED" THEN WIFI_CONN_SCAN_INTERVAL
                                        ELSE WIFI_DISC_SCAN_INTERVAL) - 1
       /\ Scan
  ELSE /\ counter' = counter - 1
       /\ UNCHANGED <<scanning, scanRun>>

-----------------------------------------------------------------------------
(* Faulty variants of the handlers below. No specification uses them: each *)
(* one shows that a property notices the mistake its name describes.       *)

LockIgnoresFull(t) ==
  /\ pc[t] = "lock"
  /\ lock' = 1
  /\ Goto(t, "body")
  /\ UNCHANGED <<manager, due, job, joins, driver>>

OnConnectKeepsState ==
  /\ Holding(EventTask, "STA_GOT_IP")
  /\ mode' = IF state = "AP_MODE" THEN "STA" ELSE mode
  /\ state' = IF state = "AP_MODE" THEN "CONNECTED" ELSE state
  /\ counter' = WIFI_CONN_SCAN_INTERVAL
  /\ due' = TIMER_PERIOD
  /\ Goto(EventTask, "unlock")
  /\ UNCHANGED <<scanning, networks, lock, job, joins, link, scanRun, events>>

OnDisconnectKeepsCounter ==
  /\ Holding(EventTask, "STA_DISCONNECTED")
  /\ IF state = "CONNECTED"
     THEN /\ state' = "DISCONNECTED"
          /\ due' = TIMER_PERIOD
     ELSE UNCHANGED <<state, due>>
  /\ Goto(EventTask, "unlock")
  /\ UNCHANGED <<counter, scanning, networks, lock, job, joins, driver>>

OnScanDoneKeepsScanning ==
  /\ Holding(EventTask, "SCAN_DONE")
  /\ networks' = "torn"
  /\ Goto(EventTask, "rebuild")
  /\ UNCHANGED <<state, counter, scanning, lock, due, job, joins, driver>>

OnTimeoutForgetsAp ==
  /\ Holding(TimerTask, "timeout")
  /\ state' = IF state = "DISCONNECTED" THEN "CONNECTING" ELSE state
  /\ link' = IF state = "DISCONNECTED" THEN AfterConnect ELSE link
  /\ CountDown(state')
  /\ Goto(TimerTask, "unlock")
  /\ UNCHANGED <<networks, lock, due, job, joins, mode, events>>

OnTimeoutForgetsMode ==
  /\ Holding(TimerTask, "timeout")
  /\ state' = CASE state = "CONNECTING"   -> "AP_MODE"
                [] state = "DISCONNECTED" -> "CONNECTING"
                [] OTHER                  -> state
  /\ link' = IF state = "DISCONNECTED" THEN AfterConnect ELSE link
  /\ CountDown(state')
  /\ Goto(TimerTask, "unlock")
  /\ UNCHANGED <<networks, lock, due, job, joins, mode, events>>

OnTimeoutForgetsConnect ==
  /\ Holding(TimerTask, "timeout")
  /\ state' = IF state = "CONNECTING" THEN "AP_MODE" ELSE state
  /\ mode' = IF state = "CONNECTING" THEN "APSTA" ELSE mode
  /\ CountDown(state')
  /\ Goto(TimerTask, "unlock")
  /\ UNCHANGED <<networks, lock, due, job, joins, link, events>>

-----------------------------------------------------------------------------
(* Lock and Unlock: send to, and receive from, a queue of capacity one.    *)

Lock(t) ==
  /\ pc[t] = "lock"
  /\ lock = 0
  /\ lock' = 1
  /\ Goto(t, "body")
  /\ UNCHANGED <<manager, due, job, joins, driver>>

Unlock(t) ==
  /\ pc[t] = "unlock"
  /\ lock = 1
  /\ lock' = 0
  /\ Goto(t, "idle")
  /\ job' = [job EXCEPT ![t] = "none"]
  /\ UNCHANGED <<manager, due, joins, driver>>

-----------------------------------------------------------------------------
(* The event loop: OnEvent dispatches on the identifier of the oldest      *)
(* event; identifiers without a handler leave no trace and are left out.   *)

OnEvent ==
  /\ events # <<>>
  /\ Call(EventTask, Head(events))
  /\ events' = Tail(events)
  /\ UNCHANGED <<manager, lock, due, joins, mode, link, scanRun>>

OnConnect ==
  /\ Holding(EventTask, "STA_GOT_IP")
  /\ mode' = IF state = "AP_MODE" THEN "STA" ELSE mode
  /\ state' = "CONNECTED"
  /\ counter' = WIFI_CONN_SCAN_INTERVAL
  /\ due' = TIMER_PERIOD
  /\ Goto(EventTask, "unlock")
  /\ UNCHANGED <<scanning, networks, lock, job, joins, link, scanRun, events>>

OnDisconnect ==
  /\ Holding(EventTask, "STA_DISCONNECTED")
  /\ IF state = "CONNECTED"
     THEN /\ state' = "DISCONNECTED"
          /\ counter' = WIFI_DISC_SCAN_INTERVAL
          /\ due' = TIMER_PERIOD
     ELSE UNCHANGED <<state, counter, due>>
  /\ Goto(EventTask, "unlock")
  /\ UNCHANGED <<scanning, networks, lock, job, joins, driver>>

\* First half: the table is cleared and refilled in the driver's order ...
OnScanDone ==
  /\ Holding(EventTask, "SCAN_DONE")
  /\ scanning' = FALSE
  /\ networks' = "torn"
  /\ Goto(EventTask, "rebuild")
  /\ UNCHANGED <<state, counter, lock, due, job, joins, driver>>

\* ... second half: it is sorted (module ScanTable has the loops).
OnScanDoneSort ==
  /\ pc[EventTask] = "rebuild"
  /\ networks' = "sorted"
  /\ Goto(EventTask, "unlock")
  /\ UNCHANGED <<state, counter, scanning, lock, due, job, joins, driver>>

-----------------------------------------------------------------------------
(* The timer daemon. The timer reloads itself when it expires; a reset     *)
(* from another handler restarts the period.                               *)

TimePasses ==
  /\ due > 0
  /\ due' = due - 1
  /\ UNCHANGED <<manager, lock, pc, job, joins, driver>>

TimerExpires ==
  /\ due = 0
  /\ Call(TimerTask, "timeout")
  /\ due' = TIMER_PERIOD
  /\ UNCHANGED <<manager, lock, joins, driver>>

OnTimeout ==
  /\ Holding(TimerTask, "timeout")
  /\ state' = CASE state = "CONNECTING"   -> "AP_MODE"
                [] state = "DISCONNECTED" -> "CONNECTING"
                [] OTHER                  -> state
  /\ mode' = IF state = "CONNECTING" THEN "APSTA" ELSE mode
  /\ link' = IF state = "DISCONNECTED" THEN AfterConnect ELSE link
  /\ CountDown(state')
  /\ Goto(TimerTask, "unlock")
  /\ UNCHANGED <<networks, lock, due, job, joins, events>>

-----------------------------------------------------------------------------
(* The web tasks.                                                          *)

JoinNetwork(c) ==
  /\ joins < MaxJoins
  /\ Call(c, "join")
  /\ joins' = joins + 1
  /\ UNCHANGED <<manager, lock, due, driver>>

\* Under the lock: first leave the current network ...
JoinDisconnect(c) ==
  /\ Holding(c, "join")
  /\ IF state \in {"CONNECTING", "CONNECTED"}
     THEN Disconnect
     ELSE UNCHANGED <<link, events>>
  /\ Goto(c, "connect")
  /\ UNCHANGED <<manager, lock, due, job, joins, mode, scanRun>>

\* ... then configure the new one, connect and record it.
JoinConnect(c) ==
  /\ pc[c] = "connect"
  /\ link' = AfterConnect
  /\ state' = "CONNECTING"
  /\ counter' = WIFI_CONN_SCAN_INTERVAL
  /\ due' = TIMER_PERIOD
  /\ Goto(c, "unlock")
  /\ UNCHANGED <<scanning, networks, lock, job, joins, mode, scanRun, events>>

ListNetworks(c) ==
  /\ Call(c, "list")
  /\ UNCHANGED <<manager, lock, due, joins, driver>>

\* The rows are formatted under the lock; nothing is written.
ListRows(c) ==
  /\ Holding(c, "list")
  /\ Goto(c, "unlock")
  /\ UNCHANGED <<manager, lock, due, job, joins, driver>>

-----------------------------------------------------------------------------
(* The driver's own steps.                                                 *)

LinkChange(from, to, event) ==
  /\ link = from
  /\ Len(events) < MaxEvents
  /\ link' = to
  /\ events' = Append(events, event)
  /\ UNCHANGED <<manager, lock, due, pc, job, joins, mode, scanRun>>

LinkUp      == LinkChange("connecting", "up", "STA_GOT_IP")
ConnectFail == LinkChange("connecting", "down", "STA_DISCONNECTED")
LinkLost    == LinkChange("up", "down", "STA_DISCONNECTED")

ScanFinish ==
  /\ scanRun
  /\ Len(events) < MaxEvents
  /\ scanRun' = FALSE
  /\ events' = Append(events, "SCAN_DONE")
  /\ UNCHANGED <<manager, lock, due, pc, job, joins, mode, link>>

-----------------------------------------------------------------------------
EventStep == OnConnect \/ OnDisconnect \/ OnScanDone \/ OnScanDoneSort
ClientStep(c) == JoinDisconnect(c) \/ JoinConnect(c) \/ ListRows(c)

Next ==
  \/ \E t \in Threads : Lock(t) \/ Unlock(t)
  \/ OnEvent \/ EventStep
  \/ TimePasses \/ TimerExpires \/ OnTimeout
  \/ \E c \in Clients : JoinNetwork(c) \/ ListNetworks(c) \/ ClientStep(c)
  \/ LinkUp \/ ConnectFail \/ LinkLost \/ ScanFinish

Spec == Init /\ [][Next]_vars

(***************************************************************************)
(* Fairness: the scheduler runs every ready thread, so handlers finish.    *)
(* Tasks blocked on the lock queue are served by priority and then in the  *)
(* order of arrival, which gives strong fairness of Lock. Time advances,   *)
(* and the driver ends every scan. Nothing is assumed about clients, nor   *)
(* about a link ever coming up or failing.                                 *)
(***************************************************************************)
Fairness ==
  /\ \A t \in Threads : SF_vars(Lock(t)) /\ WF_vars(Unlock(t))
  /\ WF_vars(OnEvent) /\ WF_vars(EventStep)
  /\ WF_vars(TimePasses) /\ WF_vars(TimerExpires) /\ WF_vars(OnTimeout)
  /\ \A c \in Clients : WF_vars(ClientStep(c))
  /\ WF_vars(ScanFinish)

FairSpec == Spec /\ Fairness

-----------------------------------------------------------------------------
(* Events that have been posted and not yet acted upon: the one the event  *)
(* task has taken but not processed, then the queue.                       *)

InHand == pc[EventTask] \in {"lock", "body"}
Pending(e) == (InHand /\ job[EventTask] = e)
              \/ \E i \in DOMAIN events : events[i] = e

\* Event i of the queue is the newest pending report about the link.
NewestInQueue(i) ==
  /\ events[i] \in LinkEvents
  /\ \A j \in DOMAIN events : j > i => events[j] \notin LinkEvents

\* So is the event in hand, when the queue has no later report.
NewestInHand ==
  /\ InHand /\ job[EventTask] \in LinkEvents
  /\ \A j \in DOMAIN events : events[j] \notin LinkEvents

\* No scan runs or is to be reported, but the manager believes so.
ScanRefused == scanning /\ ~scanRun /\ ~Pending("SCAN_DONE")

Reports(e) == (e = "STA_GOT_IP") = (link = "up")

-----------------------------------------------------------------------------
(* Safety.                                                                 *)

\* The newest unprocessed link event tells the truth about the link, and when
\* there is none the manager is CONNECTED exactly while the link is up: no
\* interleaving of JoinNetwork, the tick, late and stale events loses a
\* disconnection or a connection (OnConnect, OnDisconnect, JoinNetwork).
LinkTracked ==
  /\ \A i \in DOMAIN events : NewestInQueue(i) => Reports(events[i])
  /\ NewestInHand => Reports(job[EventTask])
  /\ ~Pending("STA_GOT_IP") /\ ~Pending("STA_DISCONNECTED")
       => (state = "CONNECTED") = (link = "up")

\* While the driver scans, or its SCAN_DONE is still to be handled, `scanning`
\* is set, so a second scan is never requested on top of the first (Scan).
ScanTracked ==
  /\ scanRun \/ Pending("SCAN_DONE") => scanning
  /\ ~(scanRun /\ Pending("SCAN_DONE"))

\* A listing formats rows only from a table that OnScanDone is not rebuilding.
ListingNotTorn ==
  \A c \in Clients : Holding(c, "list") => networks # "torn"

\* In AP_MODE the access point really is on (OnTimeout, OnConnect).
ApModeHasAp == state = "AP_MODE" => mode = "APSTA"

\* A scan never starts in a state where the manager has just asked the driver
\* to connect: OnTimeout calls esp_wifi_connect and Scan in one tick only if
\* the counter is zero while DISCONNECTED, which OnDisconnect rules out.
ScanNotDuringConnect ==
  [][scanning' /\ ~scanning => state' # "CONNECTING"]_vars

\* OnConnect logs "switching off AP" and the port 5000 server treats CONNECTED
\* as the safe state: once connected, the access point should be off.
ApOffWhenConnected == state = "CONNECTED" => mode = "STA"

\* Lock and Unlock implement a mutex: the handlers of all threads run one at a
\* time, from the end of Lock() to the end of Unlock().
Exclusion == INSTANCE Mutex
  WITH Users <- Threads, holders <- {t \in Threads : pc[t] \in Critical}
HandlersExclude == Exclusion!Spec

-----------------------------------------------------------------------------
(* Liveness, under FairSpec.                                               *)

\* A lost network is dialled again.
Reconnects == state = "DISCONNECTED" ~> state # "DISCONNECTED"

\* A connection attempt ends in a connection or in the access point, whatever
\* the network does: the user can always reach the setup page.
ApOffered == state = "CONNECTING" ~> state \in {"CONNECTED", "AP_MODE"}

\* A link that comes up for good is eventually recognised, and for good.
StableLinkIsSafe == <>[](link = "up") => <>[](state = "CONNECTED")

\* Scans keep being started while the link does not flap, until the driver refuses
\* one: Scan has set `scanning` by then, and nothing clears it. A scan that was not
\* refused does not block the next: its SCAN_DONE clears `scanning`.
ScansRecur ==
  /\ (<>[](link = "up") \/ <>[](link = "down")) => []<>scanRun \/ <>[]ScanRefused
  /\ Pending("SCAN_DONE") ~> ~scanning
=============================================================================
