----------------------------- MODULE Webserver -----------------------------
(***************************************************************************)
(* The HTTP server (main/webserver.cpp) with the services it creates       *)
(* (service_file, service_wifi, service_serial, service_gpio, service).    *)
(*                                                                         *)
(* WEB_CONNECTIONS identical tasks take turns in accept() and then serve a *)
(* connection each: receive a request, build a service for it, feed it the *)
(* content, ask for its code, replace it by an error page when the code is *)
(* an error, and stream header and body. A service owns resources from its *)
(* constructor to its destructor: an open file, the UART lock, or a        *)
(* network to join. A place of `pc` names the call a task makes next.      *)
(*                                                                         *)
(* A request is one of the kinds below, a body is a number of bytes, and a *)
(* chunk is at most CHUNK of them.                                         *)
(***************************************************************************)
EXTENDS SerialPort, FiniteSets

CONSTANTS
  Tasks,        \* the server tasks, WEB_CONNECTIONS of them
  Requests,     \* kinds of requests clients send
  MaxFds,       \* file descriptors SPIFFS is configured with
  FileLength,   \* length of a served file and of an error page
  Expected,     \* byte counts asked for in exchanges
  CHUNK,        \* room for the body in the response buffer
  MaxBacklog,   \* bound on the clients waiting to be accepted
  MaxResponses  \* bound on the responses sent on one connection

FileRequests   == {"file", "missing"}
SerialRequests == {"read", "write", "exchange", "serial_bad"}
WifiRequests   == {"join", "join_bad", "list"}
GpioRequests   == {"gpio_val", "gpio_dir", "gpio_bad"}
PlainRequests  == {"post_file", "bad_url"}
AllRequests    == FileRequests \cup SerialRequests \cup WifiRequests
                    \cup GpioRequests \cup PlainRequests

ASSUME WebAssumption ==
  /\ IsFiniteSet(Tasks)
  /\ Requests \subseteq AllRequests
  /\ MaxFds \in Nat /\ FileLength \in Nat /\ CHUNK \in Nat \ {0}
  /\ Expected \subseteq Nat
  /\ MaxBacklog \in Nat /\ MaxResponses \in Nat

VARIABLES
  acceptLock,  \* 1 when the queue used as accept mutex is full
  backlog,     \* clients waiting in the listen queue
  openFds,     \* file descriptors in use
  pc,          \* the next call of each task
  req,         \* the request being served, or "none"
  fd,          \* whether the live service holds an open file
  port,        \* whether the live service holds the UART lock
  code,        \* response code, 0 before GetRespCode
  length,      \* the announced Content-Length
  left,        \* bytes the service still has to produce
  chunk,       \* body bytes in the response buffer
  fresh,       \* the header has not been sent yet
  body,        \* body bytes sent to the client
  failed,      \* a send of this response failed
  joined,      \* the destructor of the request's service called JoinNetwork
  responses    \* responses on the current connection

service  == <<fd, port, left>>
response == <<code, length, chunk, fresh, body, failed, joined>>
shared   == <<acceptLock, backlog, openFds, serialVars>>
webVars  == <<shared, pc, req, service, response, responses>>

Places == {"lock", "accept", "unlock", "receive", "create", "setreq", "code",
           "error", "page", "length", "chunk", "send", "delete", "close"}
Codes  == {0, 200, 400, 404, 405}
Sizes  == 0 .. (FileLength + UART_QUEUE_SIZE + 1)

WebTypeOK ==
  /\ SerialTypeOK
  /\ acceptLock \in {0, 1}
  /\ backlog \in 0 .. MaxBacklog
  /\ openFds \in 0 .. MaxFds
  /\ pc \in [Tasks -> Places]
  /\ req \in [Tasks -> Requests \cup {"none"}]
  /\ fd \in [Tasks -> BOOLEAN] /\ port \in [Tasks -> BOOLEAN]
  /\ code \in [Tasks -> Codes]
  /\ length \in [Tasks -> Sizes] /\ left \in [Tasks -> Sizes]
  /\ chunk \in [Tasks -> Sizes] /\ body \in [Tasks -> Sizes]
  /\ fresh \in [Tasks -> BOOLEAN] /\ failed \in [Tasks -> BOOLEAN]
  /\ joined \in [Tasks -> BOOLEAN]
  /\ responses \in [Tasks -> 0 .. MaxResponses]

(***************************************************************************)
(* The constructor of Webserver, with the serial port already constructed. *)
(***************************************************************************)
WebInit ==
  /\ SerialInit
  /\ acceptLock = 0
  /\ backlog = 0
  /\ openFds = 0
  /\ pc = [t \in Tasks |-> "lock"]
  /\ req = [t \in Tasks |-> "none"]
  /\ fd = [t \in Tasks |-> FALSE] /\ port = [t \in Tasks |-> FALSE]
  /\ code = [t \in Tasks |-> 0]
  /\ length = [t \in Tasks |-> 0] /\ left = [t \in Tasks |-> 0]
  /\ chunk = [t \in Tasks |-> 0] /\ body = [t \in Tasks |-> 0]
  /\ fresh = [t \in Tasks |-> TRUE] /\ failed = [t \in Tasks |-> FALSE]
  /\ joined = [t \in Tasks |-> FALSE]
  /\ responses = [t \in Tasks |-> 0]

Goto(t, place) == pc' = [pc EXCEPT ![t] = place]
From(t, place, next) == pc[t] = place /\ Goto(t, next)

-----------------------------------------------------------------------------
(* Faulty variants of the definitions below. No specification uses them:   *)
(* each shows that a property notices the mistake its name describes.      *)

OpenFileOneShort(t, exists) ==
  IF exists /\ openFds + 1 < MaxFds
  THEN /\ openFds' = openFds + 1
       /\ fd' = [fd EXCEPT ![t] = TRUE]
  ELSE UNCHANGED <<openFds, fd>>

CloseFileForgotten(t) ==
  /\ fd' = [fd EXCEPT ![t] = FALSE]
  /\ UNCHANGED openFds

ReleasePortForgotten(t) ==
  /\ port' = [port EXCEPT ![t] = FALSE]
  /\ UNCHANGED serialLock

JoinsUnchecked(t) == req[t] \in {"join", "join_bad"}

ReceiveFailsRetries(t) ==
  /\ From(t, "receive", "receive")
  /\ UNCHANGED <<shared, req, service, response, responses>>

LengthsWithoutTimeout(t) ==
  CASE fd[t] -> {FileLength}
    [] ~fd[t] /\ code[t] >= 400 -> {0}
    [] ~fd[t] /\ code[t] < 400 ->
         CASE req[t] = "read"     -> {Count}
           [] req[t] = "exchange" -> {n \in Expected : n <= Count}
           [] req[t] = "list"     -> {0, FileLength}
           [] req[t] = "gpio_val" -> {1}
           [] OTHER               -> {0}

-----------------------------------------------------------------------------
(* Resources of a service.                                                 *)

\* spiffs_open succeeds when the file exists and a descriptor is free.
OpenFile(t, exists) ==
  IF exists /\ openFds < MaxFds
  THEN /\ openFds' = openFds + 1
       /\ fd' = [fd EXCEPT ![t] = TRUE]
  ELSE UNCHANGED <<openFds, fd>>

\* ~ServiceFile and ~ServiceSerial: an open file is closed, the port unlocked.
CloseFile(t) ==
  /\ openFds' = IF fd[t] THEN openFds - 1 ELSE openFds
  /\ fd' = [fd EXCEPT ![t] = FALSE]

ReleasePort(t) ==
  /\ IF port[t] THEN UnlockSerial ELSE UNCHANGED serialLock
  /\ port' = [port EXCEPT ![t] = FALSE]

\* ~ServiceWifi joins when the request named a network and a password.
Joins(t) == req[t] = "join"

\* `delete service`, for whichever service is alive.
Destroy(t) ==
  /\ CloseFile(t)
  /\ ReleasePort(t)
  /\ joined' = [joined EXCEPT ![t] = Joins(t)]

-----------------------------------------------------------------------------
(* Accepting connections.                                                  *)

LockMutex(t) ==
  /\ From(t, "lock", "accept")
  /\ acceptLock = 0
  /\ acceptLock' = 1
  /\ UNCHANGED <<backlog, openFds, serialVars, req, service, response, responses>>

Accept(t) ==
  /\ From(t, "accept", "unlock")
  /\ backlog > 0
  /\ backlog' = backlog - 1
  /\ UNCHANGED <<acceptLock, openFds, serialVars, req, service, response, responses>>

UnlockMutex(t) ==
  /\ From(t, "unlock", "receive")
  /\ acceptLock = 1
  /\ acceptLock' = 0
  /\ UNCHANGED <<backlog, openFds, serialVars, req, service, response, responses>>

CloseConnection(t) ==
  /\ From(t, "close", "lock")
  /\ responses' = [responses EXCEPT ![t] = 0]
  /\ UNCHANGED <<shared, req, service, response>>

-----------------------------------------------------------------------------
(* Receiving. A request whose method or URL is missing is dropped without  *)
(* an answer, which leaves the task where it was and needs no step.        *)

ReceiveRequest(t, r) ==
  /\ From(t, "receive", "create")
  /\ responses[t] < MaxResponses
  /\ req' = [req EXCEPT ![t] = r]
  /\ joined' = [joined EXCEPT ![t] = FALSE]
  /\ UNCHANGED <<shared, service, code, length, chunk, fresh, body, failed, responses>>

\* The peer closed, recv failed, or the request did not fit the buffer.
ReceiveFails(t) ==
  /\ From(t, "receive", "close")
  /\ UNCHANGED <<shared, req, service, response, responses>>

-----------------------------------------------------------------------------
(* Building the service and its answer.                                    *)

CreateService(t) ==
  /\ From(t, "create", "setreq")
  /\ OpenFile(t, req[t] = "file")
  /\ IF req[t] \in SerialRequests
     THEN LockSerial /\ port' = [port EXCEPT ![t] = TRUE]
     ELSE UNCHANGED <<serialLock, port>>
  /\ UNCHANGED <<acceptLock, backlog, rx, req, left, response, responses>>

\* An exchange drops what was buffered before it writes.
SetReqData(t) ==
  /\ From(t, "setreq", "code")
  /\ IF req[t] = "exchange" THEN Flush ELSE UNCHANGED rx
  /\ UNCHANGED <<acceptLock, backlog, openFds, serialLock, req, service, response, responses>>

RespCode(t) ==
  CASE req[t] \in FileRequests -> IF fd[t] THEN 200 ELSE 404
    [] req[t] = "post_file" -> 405
    [] req[t] \in {"bad_url", "join_bad", "serial_bad", "gpio_bad"} -> 400
    [] OTHER -> 200

GetRespCode(t) ==
  /\ From(t, "code", IF RespCode(t) >= 400 THEN "error" ELSE "length")
  /\ code' = [code EXCEPT ![t] = RespCode(t)]
  /\ UNCHANGED <<shared, req, service, length, chunk, fresh, body, failed, joined, responses>>

\* The service that reported an error is deleted ...
DeleteFailedService(t) ==
  /\ From(t, "error", "page")
  /\ Destroy(t)
  /\ UNCHANGED <<acceptLock, backlog, rx, req, left, code, length, chunk, fresh, body, failed, responses>>

\* ... and the file service of the error page takes its place.
CreateErrorService(t) ==
  /\ From(t, "page", "length")
  /\ OpenFile(t, TRUE)
  /\ UNCHANGED <<acceptLock, backlog, serialVars, req, port, left, response, responses>>

\* What GetLength may answer. An exchange polls Count() until enough bytes
\* have arrived or its time is over, and never polls if its time is negative.
Lengths(t) ==
  CASE fd[t] -> {FileLength}
    [] ~fd[t] /\ code[t] >= 400 -> {0}
    [] ~fd[t] /\ code[t] < 400 ->
         CASE req[t] = "read"     -> {Count}
           [] req[t] = "exchange" -> {AtMost(Count, n) : n \in Expected} \cup {0}
           [] req[t] = "list"     -> {0, FileLength}
           [] req[t] = "gpio_val" -> {1}
           [] OTHER               -> {0}

GetLength(t) ==
  /\ From(t, "length", "chunk")
  /\ \E n \in Lengths(t) : /\ length' = [length EXCEPT ![t] = n]
                           /\ left' = [left EXCEPT ![t] = n]
  /\ UNCHANGED <<shared, req, fd, port, code, chunk, fresh, body, failed, joined, responses>>

\* The first chunk shares the buffer with the header, so it is always sent;
\* after it, an empty chunk ends the response.
GetNextChunk(t) ==
  LET size == AtMost(CHUNK, left[t])
      n    == IF port[t] THEN ReadCount(size) ELSE size
  IN /\ From(t, "chunk", IF fresh[t] \/ n > 0 THEN "send" ELSE "delete")
     /\ IF port[t] THEN Read(size) ELSE UNCHANGED rx
     /\ left' = [left EXCEPT ![t] = left[t] - n]
     /\ chunk' = [chunk EXCEPT ![t] = n]
     /\ UNCHANGED <<acceptLock, backlog, openFds, serialLock, req, fd, port, code,
                    length, fresh, body, failed, joined, responses>>

Sent(t, ok) ==
  /\ From(t, "send", "chunk")
  /\ fresh' = [fresh EXCEPT ![t] = FALSE]
  /\ body' = IF ok THEN [body EXCEPT ![t] = body[t] + chunk[t]] ELSE body
  /\ failed' = [failed EXCEPT ![t] = ~ok]
  /\ chunk' = [chunk EXCEPT ![t] = 0]
  /\ UNCHANGED <<shared, req, service, code, length, joined, responses>>

Send(t)      == ~failed[t] /\ Sent(t, TRUE)
\* The connection is gone; the remaining chunks are produced all the same.
SendFails(t) == Sent(t, FALSE)

DeleteService(t) ==
  /\ From(t, "delete", "receive")
  /\ Destroy(t)
  /\ responses' = [responses EXCEPT ![t] = responses[t] + 1]
  /\ req' = [req EXCEPT ![t] = "none"]
  /\ left' = [left EXCEPT ![t] = 0]
  /\ code' = [code EXCEPT ![t] = 0] /\ length' = [length EXCEPT ![t] = 0]
  /\ chunk' = [chunk EXCEPT ![t] = 0] /\ body' = [body EXCEPT ![t] = 0]
  /\ fresh' = [fresh EXCEPT ![t] = TRUE] /\ failed' = [failed EXCEPT ![t] = FALSE]
  /\ UNCHANGED <<acceptLock, backlog, rx>>

-----------------------------------------------------------------------------
(* Clients and the line.                                                   *)

ClientConnects ==
  /\ backlog < MaxBacklog
  /\ backlog' = backlog + 1
  /\ UNCHANGED <<acceptLock, openFds, serialVars, pc, req, service, response, responses>>

ByteArrives ==
  /\ UartReceives
  /\ UNCHANGED <<acceptLock, backlog, openFds, pc, req, service, response, responses>>

ServeStep(t) ==
  \/ UnlockMutex(t) \/ SetReqData(t) \/ GetRespCode(t)
  \/ DeleteFailedService(t) \/ CreateErrorService(t) \/ GetLength(t)
  \/ GetNextChunk(t) \/ Send(t) \/ SendFails(t)
  \/ DeleteService(t) \/ CloseConnection(t)

TaskStep(t) ==
  \/ LockMutex(t) \/ Accept(t) \/ CreateService(t) \/ ServeStep(t)
  \/ \E r \in Requests : ReceiveRequest(t, r)
  \/ ReceiveFails(t)

WebNext ==
  \/ \E t \in Tasks : TaskStep(t)
  \/ ClientConnects \/ ByteArrives

WebSpec == WebInit /\ [][WebNext]_webVars

(***************************************************************************)
(* Fairness: tasks that can run do, and a send returns (the client reads   *)
(* or the connection breaks). Waiters on either lock queue are served in   *)
(* the order of arrival, hence strong fairness. An idle client closes its  *)
(* connection in the end: nothing in the server does that for it.          *)
(***************************************************************************)
WebFairness ==
  \A t \in Tasks :
    /\ SF_webVars(LockMutex(t)) /\ SF_webVars(CreateService(t))
    /\ WF_webVars(Accept(t)) /\ WF_webVars(ServeStep(t))
    /\ WF_webVars(ReceiveFails(t))

FairWebSpec == WebSpec /\ WebFairness

-----------------------------------------------------------------------------
(* Safety.                                                                 *)

\* The UART lock is full exactly while one live service holds it, and a task
\* without a live service holds none: every path through the response, the
\* error path included, gives the port back (ServiceSerial, ~ServiceSerial).
NoService == {"lock", "accept", "unlock", "receive", "create", "page", "close"}
PortAccounted ==
  /\ serialLock = Cardinality({t \in Tasks : port[t]})
  /\ \A t \in Tasks : pc[t] \in NoService => ~port[t]

\* The same seen from outside: sessions on the port exclude each other, and one
\* ends only by the destructor of the service that began it.
PortUse == INSTANCE Mutex WITH Users <- Tasks, holders <- {t \in Tasks : port[t]}
SessionsExclude == PortUse!Spec

\* The same for file descriptors (ServiceFile, ~ServiceFile).
FdsAccounted ==
  /\ openFds = Cardinality({t \in Tasks : fd[t]})
  /\ \A t \in Tasks : pc[t] \in NoService => ~fd[t]

\* With a descriptor per task no open ever fails for want of one: a file that
\* exists is never answered with 404, and an error is answered with its page.
FilesServed ==
  \A t \in Tasks :
    /\ req[t] = "file" /\ code[t] # 0 => code[t] = 200
    /\ pc[t] \in {"length", "chunk", "send"} /\ code[t] >= 400 => fd[t]

\* A response whose sends all succeeded carries exactly the number of bytes
\* its Content-Length announced (GetLength against GetNextChunk).
LengthDelivered ==
  \A t \in Tasks :
    pc[t] = "delete" /\ ~failed[t] => body[t] = length[t]

\* The device leaves its network only in the destructor that follows a
\* complete 200 answer, so the client that asked for it has been answered.
JoinAfterAnswer ==
  [][\A t \in Tasks : joined'[t] /\ ~joined[t]
       => pc[t] = "delete" /\ code[t] = 200 /\ left[t] = 0]_webVars

-----------------------------------------------------------------------------
(* Liveness, under FairWebSpec.                                            *)

\* A request waiting for the UART lock is served in the end.
ServiceStarts == \A t \in Tasks : pc[t] = "create" ~> pc[t] = "setreq"

\* A full listen queue drains: some task always returns to accept().
BacklogDrains == backlog = MaxBacklog ~> backlog < MaxBacklog
=============================================================================
