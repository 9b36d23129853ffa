----------------------------- MODULE SerialPort -----------------------------
(***************************************************************************)
(* The UART shared by the /serial/ services and the port 5000 server       *)
(* (main/serial_port.cpp): the driver's receive buffer, of which only the  *)
(* fill level matters here, and the lock queue that callers may use to     *)
(* take the port for a whole session. Writing is left to the UART driver,  *)
(* which serialises it, and changes no state of the program.               *)
(***************************************************************************)
EXTENDS Integers

CONSTANTS UART_QUEUE_SIZE   \* capacity of the receive buffer, in bytes

ASSUME UartAssumption == UART_QUEUE_SIZE \in Nat \ {0}

VARIABLES
  rx,          \* bytes waiting in the receive buffer
  serialLock   \* 1 when the lock queue is full

serialVars == <<rx, serialLock>>

SerialTypeOK == rx \in 0 .. UART_QUEUE_SIZE /\ serialLock \in {0, 1}
SerialInit   == rx = 0 /\ serialLock = 0

AtMost(a, b) == IF a <= b THEN a ELSE b

\* A faulty variant, which only shows that the properties notice it.
LockSerialIgnoresFull == serialLock' = 1

LockSerial   == serialLock = 0 /\ serialLock' = 1
UnlockSerial == serialLock = 1 /\ serialLock' = 0

Flush   == rx' = 0
Count   == rx
\* A non-blocking Read of at most `size` bytes obtains this many of them.
ReadCount(size) == AtMost(size, rx)
Read(size)      == rx' = rx - ReadCount(size)

\* A byte arrives on the line; one that finds the buffer full is dropped.
UartReceives == rx < UART_QUEUE_SIZE /\ rx' = rx + 1 /\ UNCHANGED serialLock
=============================================================================
