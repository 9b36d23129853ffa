------------------------------- MODULE Server -------------------------------
(***************************************************************************)
(* The port 5000 server (main/server.cpp): one task that serves one client *)
(* at a time, copying bytes between the TCP connection and the UART. It    *)
(* asks the Wi-Fi manager once per connection whether the connection is    *)
(* safe, and uses the UART without taking its lock.                        *)
(***************************************************************************)
EXTENDS SerialPort

CONSTANTS BUFF_SIZE   \* size of the copy buffer, in bytes

ASSUME ServerAssumption == BUFF_SIZE \in Nat \ {0}

VARIABLES
  spc,       \* where the server task is
  connSafe   \* what WifiManager::IsConnectionSafe() answers now

serverVars == <<spc, connSafe>>

ServerTypeOK ==
  /\ spc \in {"accept", "check", "flush", "wait", "copy", "close"}
  /\ connSafe \in BOOLEAN

ServerInit == spc = "accept" /\ connSafe = FALSE

At(place, next) == spc = place /\ spc' = next

AcceptBridge == At("accept", "check") /\ UNCHANGED <<connSafe, serialVars>>

\* An unsafe connection is closed at once; otherwise the attached device is
\* reset through GPIO 16.
CheckSafe ==
  /\ At("check", IF connSafe THEN "flush" ELSE "close")
  /\ UNCHANGED <<connSafe, serialVars>>

FlushBridge == At("flush", "wait") /\ Flush /\ UNCHANGED <<connSafe, serialLock>>

\* select() timed out, or recv() delivered bytes that were written to the UART.
WaitForData == At("wait", "copy") /\ UNCHANGED <<connSafe, serialVars>>

\* recv() failed or the peer closed.
BridgeReceiveFails == At("wait", "close") /\ UNCHANGED <<connSafe, serialVars>>

\* Read(buff, sizeof(buff), false) and send what was read: a failed send loses
\* it, and the loop goes round either way.
CopyToClient == At("copy", "wait") /\ Read(BUFF_SIZE) /\ UNCHANGED <<connSafe, serialLock>>

CloseBridge == At("close", "accept") /\ UNCHANGED <<connSafe, serialVars>>

\* The Wi-Fi manager becomes or stops being CONNECTED.
SafetyChanges == connSafe' = ~connSafe /\ UNCHANGED <<spc, serialVars>>

ServerNext ==
  \/ AcceptBridge \/ CheckSafe \/ FlushBridge
  \/ WaitForData \/ BridgeReceiveFails \/ CopyToClient \/ CloseBridge
  \/ SafetyChanges
=============================================================================
