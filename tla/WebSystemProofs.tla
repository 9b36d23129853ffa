-------------------------- MODULE WebSystemProofs --------------------------
(***************************************************************************)
(* What holds of WebSystem for any finite number of server tasks, any kinds *)
(* of requests and any sizes: a service owns the UART lock and its file    *)
(* from its constructor to its destructor, and nobody else does.           *)
(*                                                                         *)
(* A step of a task does one of four things to what services own: a        *)
(* constructor takes, the constructor of an error page opens, a destructor *)
(* drops, and everything else is quiet, the port 5000 server included.     *)
(***************************************************************************)
EXTENDS WebSystem, FiniteSetTheorems, TLAPS

Types ==
  /\ serialLock \in {0, 1}
  /\ openFds \in Nat
  /\ pc \in [Tasks -> Places]
  /\ fd \in [Tasks -> BOOLEAN] /\ port \in [Tasks -> BOOLEAN]
  /\ req \in [Tasks -> Requests \cup {"none"}]
  /\ code \in [Tasks -> Codes]

\* PortAccounted without counting: one task at most holds the lock.
PortInv ==
  /\ \A s, t \in Tasks : port[s] /\ port[t] => s = t
  /\ serialLock = 1 <=> \E t \in Tasks : port[t]
  /\ \A t \in Tasks : pc[t] \in NoService => ~port[t]

\* A request has no code before its service is asked; a file that exists is open
\* by then; and so is an error page when it is sent.
Early == {"lock", "accept", "unlock", "receive", "create", "setreq", "code", "close"}
FileInv ==
  \A t \in Tasks :
    /\ pc[t] \in Early => code[t] = 0
    /\ req[t] = "file" /\ pc[t] \in {"setreq", "code"} => fd[t]
    /\ req[t] = "file" /\ code[t] # 0 => code[t] = 200
    /\ pc[t] \in {"length", "chunk", "send"} /\ code[t] >= 400 => fd[t]

-----------------------------------------------------------------------------
\* The kinds of steps.
Takes(t) ==
  /\ pc[t] = "create" /\ pc' = [pc EXCEPT ![t] = "setreq"]
  /\ OpenFile(t, req[t] = "file")
  /\ \/ serialLock = 0 /\ serialLock' = 1 /\ port' = [port EXCEPT ![t] = TRUE]
     \/ UNCHANGED <<serialLock, port>>

Opens(t) ==
  /\ pc[t] = "page" /\ pc' = [pc EXCEPT ![t] = "length"]
  /\ OpenFile(t, TRUE)
  /\ UNCHANGED <<serialLock, port>>

Drops(t) ==
  /\ pc[t] \in {"error", "delete"}
  /\ pc' = [pc EXCEPT ![t] = IF pc[t] = "error" THEN "page" ELSE "receive"]
  /\ CloseFile(t) /\ ReleasePort(t)

\* No task comes to a place where it may own nothing.
Quiet ==
  /\ UNCHANGED <<serialLock, port, openFds, fd>>
  /\ pc' \in [Tasks -> Places]
  /\ \A t \in Tasks : pc'[t] \in NoService => pc[t] \in NoService

\* A step of the HTTP server, alone or beside the port 5000 server, or of that one.
SystemStep ==
  WebNext \/ (ServerNext /\ UNCHANGED webPrivate) \/ UNCHANGED webVars

(* The steps of both specifications are steps of the system.               *)
LEMMA Steps == ([Next]_vars => SystemStep) /\ ([WebNext]_webVars => SystemStep)
  BY DEF Next, vars, SystemStep

(* Every step takes, opens, drops or is quiet.                             *)
LEMMA StepKinds ==
  ASSUME Types, SystemStep
  PROVE  Quiet \/ \E t \in Tasks : Takes(t) \/ Opens(t) \/ Drops(t)
<1> USE DEF Types, Quiet, Places, NoService, From, Goto, shared, service, serialVars
<1>1. ASSUME NEW t \in Tasks, LockMutex(t) \/ Accept(t) \/ UnlockMutex(t) \/ CloseConnection(t)
      PROVE  Quiet
  BY <1>1 DEF LockMutex, Accept, UnlockMutex, CloseConnection
<1>2. ASSUME NEW t \in Tasks, NEW r \in Requests, ReceiveRequest(t, r) PROVE Quiet
  BY <1>2 DEF ReceiveRequest
<1>3. ASSUME NEW t \in Tasks, ReceiveFails(t) \/ SetReqData(t) \/ GetRespCode(t) PROVE Quiet
  BY <1>3 DEF ReceiveFails, SetReqData, GetRespCode
<1>4. ASSUME NEW t \in Tasks, GetLength(t) \/ GetNextChunk(t) \/ Send(t) \/ SendFails(t)
      PROVE  Quiet
  BY <1>4 DEF GetLength, GetNextChunk, Send, SendFails, Sent
<1>5. ASSUME NEW t \in Tasks, CreateService(t) PROVE Takes(t)
  BY <1>5 DEF CreateService, Takes, LockSerial
<1>6. ASSUME NEW t \in Tasks, CreateErrorService(t) PROVE Opens(t)
  BY <1>6 DEF CreateErrorService, Opens
<1>7. ASSUME NEW t \in Tasks, DeleteFailedService(t) \/ DeleteService(t) PROVE Drops(t)
  BY <1>7 DEF DeleteFailedService, DeleteService, Destroy, Drops
<1>8. CASE ClientConnects \/ ByteArrives
  BY <1>8 DEF ClientConnects, ByteArrives, UartReceives
<1>9. CASE ServerNext /\ UNCHANGED webPrivate
  BY <1>9 DEF webPrivate, ServerNext, AcceptBridge, CheckSafe, FlushBridge, WaitForData,
     BridgeReceiveFails, CopyToClient, CloseBridge, SafetyChanges
<1>10. CASE UNCHANGED webVars
  BY <1>10 DEF webVars
<1> QED
  BY <1>1, <1>2, <1>3, <1>4, <1>5, <1>6, <1>7, <1>8, <1>9, <1>10
  DEF SystemStep, WebNext, TaskStep, ServeStep

-----------------------------------------------------------------------------
\* Nobody owns anything at start-up.
LEMMA InitTypes == WebInit => Types /\ PortInv /\ FileInv
<1> SUFFICES ASSUME WebInit PROVE Types /\ PortInv /\ FileInv
  OBVIOUS
<1>1. /\ serialLock = 0 /\ openFds = 0
      /\ pc = [t \in Tasks |-> "lock"] /\ req = [t \in Tasks |-> "none"]
      /\ fd = [t \in Tasks |-> FALSE] /\ port = [t \in Tasks |-> FALSE]
      /\ code = [t \in Tasks |-> 0]
  BY DEF WebInit, SerialInit
<1>2. Types
  BY <1>1 DEF Types, Places, Codes
<1>3. PortInv
  BY <1>1 DEF PortInv
<1>4. FileInv
  BY <1>1 DEF FileInv
<1> QED
  BY <1>2, <1>3, <1>4

\* The code and the request change in three steps only.
LEMMA Asked ==
  ASSUME Types, SystemStep
  PROVE  \/ UNCHANGED <<req, code>>
         \/ \E t \in Tasks :
              \/ /\ pc[t] = "receive" /\ pc' = [pc EXCEPT ![t] = "create"]
                 /\ \E r \in Requests : req' = [req EXCEPT ![t] = r]
                 /\ UNCHANGED <<code, fd>>
              \/ GetRespCode(t)
              \/ /\ pc[t] = "delete" /\ pc' = [pc EXCEPT ![t] = "receive"]
                 /\ req' = [req EXCEPT ![t] = "none"] /\ code' = [code EXCEPT ![t] = 0]
                 /\ CloseFile(t)
<1> USE DEF Types, From, Goto, service, response
<1>1. ASSUME NEW t \in Tasks, LockMutex(t) \/ Accept(t) \/ UnlockMutex(t) \/ CloseConnection(t)
                              \/ ReceiveFails(t) \/ SetReqData(t)
      PROVE  UNCHANGED <<req, code>>
  BY <1>1 DEF LockMutex, Accept, UnlockMutex, CloseConnection, ReceiveFails, SetReqData
<1>2. ASSUME NEW t \in Tasks, GetLength(t) \/ GetNextChunk(t) \/ Send(t) \/ SendFails(t)
      PROVE  UNCHANGED <<req, code>>
  BY <1>2 DEF GetLength, GetNextChunk, Send, SendFails, Sent
<1>3. ASSUME NEW t \in Tasks, CreateService(t) \/ CreateErrorService(t) \/ DeleteFailedService(t)
      PROVE  UNCHANGED <<req, code>>
  BY <1>3 DEF CreateService, CreateErrorService, DeleteFailedService
<1>4. ASSUME NEW t \in Tasks, NEW r \in Requests, ReceiveRequest(t, r)
      PROVE  /\ pc[t] = "receive" /\ pc' = [pc EXCEPT ![t] = "create"]
             /\ req' = [req EXCEPT ![t] = r]
             /\ UNCHANGED <<code, fd>>
  BY <1>4 DEF ReceiveRequest
<1>5. ASSUME NEW t \in Tasks, DeleteService(t)
      PROVE  /\ pc[t] = "delete" /\ pc' = [pc EXCEPT ![t] = "receive"]
             /\ req' = [req EXCEPT ![t] = "none"] /\ code' = [code EXCEPT ![t] = 0]
             /\ CloseFile(t)
  BY <1>5 DEF DeleteService, Destroy
<1>6. CASE ClientConnects \/ ByteArrives \/ (ServerNext /\ UNCHANGED webPrivate) \/ UNCHANGED webVars
  BY <1>6 DEF ClientConnects, ByteArrives, webPrivate, webVars
<1> QED
  BY <1>1, <1>2, <1>3, <1>4, <1>5, <1>6 DEF SystemStep, WebNext, TaskStep, ServeStep

(* The number of owners follows openFds through every kind of step.        *)
Owners == {t \in Tasks : fd[t]}

(* Finitely many tasks own files.                                          *)
LEMMA OwnersFinite == IsFiniteSet(Owners) /\ Cardinality(Owners) \in Nat
<1>1. IsFiniteSet(Owners)
  BY FS_Subset, WebAssumption DEF WebAssumption, Owners
<1> QED
  BY <1>1, FS_CardinalityType

\* A constructor that opens a file adds one owner, one that cannot adds none.
LEMMA OpenCounts ==
  ASSUME Types, NEW t \in Tasks, ~fd[t], openFds = Cardinality(Owners), NEW exists, OpenFile(t, exists)
  PROVE  openFds' = Cardinality(Owners)' /\ openFds' \in Nat /\ fd' \in [Tasks -> BOOLEAN]
<1>1. CASE UNCHANGED <<openFds, fd>>
  BY <1>1 DEF Types, Owners
<1>2. CASE openFds' = openFds + 1 /\ fd' = [fd EXCEPT ![t] = TRUE]
  <2>1. Owners' = Owners \cup {t} /\ t \notin Owners
    BY <1>2 DEF Types, Owners
  <2>2. Cardinality(Owners \cup {t}) = Cardinality(Owners) + 1
    BY <2>1, OwnersFinite, FS_AddElement
  <2> QED
    BY <1>2, <2>1, <2>2 DEF Types
<1> QED
  BY <1>1, <1>2 DEF OpenFile

\* A destructor takes its owner out of the count.
LEMMA CloseCounts ==
  ASSUME Types, NEW t \in Tasks, openFds = Cardinality(Owners), CloseFile(t)
  PROVE  openFds' = Cardinality(Owners)' /\ openFds' \in Nat /\ fd' \in [Tasks -> BOOLEAN] /\ ~fd'[t]
<1>1. fd' = [fd EXCEPT ![t] = FALSE] /\ fd' \in [Tasks -> BOOLEAN] /\ ~fd'[t]
  BY DEF CloseFile, Types
<1>2. Owners' = Owners \ {t}
  BY <1>1 DEF Types, Owners
<1>3. /\ IsFiniteSet(Owners \ {t})
      /\ Cardinality(Owners \ {t}) = IF t \in Owners THEN Cardinality(Owners) - 1 ELSE Cardinality(Owners)
  BY OwnersFinite, FS_RemoveElement
<1>4. Cardinality(Owners \ {t}) \in Nat
  BY <1>3, FS_CardinalityType
<1>5. openFds' = IF t \in Owners THEN openFds - 1 ELSE openFds
  BY DEF CloseFile, Owners
<1> QED
  BY <1>1, <1>2, <1>3, <1>4, <1>5

-----------------------------------------------------------------------------
FdInv ==
  /\ openFds = Cardinality(Owners)
  /\ \A t \in Tasks : pc[t] \in NoService => ~fd[t]

(* No descriptor is in use at the start.                                   *)
LEMMA InitFds == WebInit => FdInv
<1> SUFFICES ASSUME WebInit PROVE FdInv
  OBVIOUS
<1>1. fd = [t \in Tasks |-> FALSE] /\ openFds = 0
  BY DEF WebInit
<1>2. Owners = {}
  BY <1>1 DEF Owners
<1> QED
  BY <1>1, <1>2, FS_EmptySet DEF FdInv

\* Every kind of step keeps the count, and an owner is never left behind.
LEMMA NextFds ==
  ASSUME Types, FdInv, SystemStep
  PROVE  FdInv' /\ openFds' \in Nat /\ fd' \in [Tasks -> BOOLEAN]
<1> USE DEF Types, FdInv, NoService, Places
<1>1. CASE Quiet
  BY <1>1 DEF Quiet, Owners, NoService
<1>2. ASSUME NEW t \in Tasks, Takes(t) \/ Opens(t)
      PROVE  FdInv' /\ openFds' \in Nat /\ fd' \in [Tasks -> BOOLEAN]
  <2>1. ~fd[t] /\ (OpenFile(t, req[t] = "file") \/ OpenFile(t, TRUE))
    BY <1>2 DEF Takes, Opens
  <2>2. openFds' = Cardinality(Owners)' /\ openFds' \in Nat /\ fd' \in [Tasks -> BOOLEAN]
    BY <2>1, OpenCounts
  <2>3. \A s \in Tasks : pc'[s] \in NoService => ~fd'[s]
    BY <1>2, <2>1 DEF Takes, Opens, OpenFile
  <2> QED
    BY <2>2, <2>3
<1>3. ASSUME NEW t \in Tasks, Drops(t)
      PROVE  FdInv' /\ openFds' \in Nat /\ fd' \in [Tasks -> BOOLEAN]
  <2>1. /\ openFds' = Cardinality(Owners)' /\ openFds' \in Nat
        /\ fd' \in [Tasks -> BOOLEAN] /\ ~fd'[t]
    BY <1>3, CloseCounts DEF Drops
  <2>2. \A s \in Tasks : pc'[s] \in NoService => ~fd'[s]
    BY <1>3, <2>1 DEF Drops, CloseFile
  <2> QED
    BY <2>1, <2>2
<1> QED
  BY <1>1, <1>2, <1>3, StepKinds

\* A lock is taken by one task only while no other has it.
LEMMA NextPort ==
  ASSUME Types, PortInv, SystemStep
  PROVE  PortInv' /\ serialLock' \in {0, 1} /\ port' \in [Tasks -> BOOLEAN]
<1> USE DEF Types, PortInv, NoService, Places
<1>1. CASE Quiet
  BY <1>1 DEF Quiet
<1>2. ASSUME NEW t \in Tasks, Takes(t) \/ Opens(t)
      PROVE  PortInv' /\ serialLock' \in {0, 1} /\ port' \in [Tasks -> BOOLEAN]
  <2>1. \A s \in Tasks : pc'[s] \in NoService => pc[s] \in NoService /\ s # t
    BY <1>2 DEF Takes, Opens
  <2>2. CASE UNCHANGED <<serialLock, port>>
    BY <2>1, <2>2
  <2>3. CASE serialLock = 0 /\ serialLock' = 1 /\ port' = [port EXCEPT ![t] = TRUE]
    <3>1. \A s \in Tasks : port'[s] <=> s = t
      BY <2>3
    <3> QED
      BY <2>1, <2>3, <3>1
  <2> QED
    BY <1>2, <2>2, <2>3 DEF Takes, Opens
<1>3. ASSUME NEW t \in Tasks, Drops(t)
      PROVE  PortInv' /\ serialLock' \in {0, 1} /\ port' \in [Tasks -> BOOLEAN]
  BY <1>3 DEF Drops, ReleasePort, UnlockSerial
<1> QED
  BY <1>1, <1>2, <1>3, StepKinds

\* The types follow from the kinds of steps and from what is asked.
LEMMA NextTypes ==
  ASSUME Types, FdInv, PortInv, SystemStep
  PROVE  Types'
<1> USE DEF Types
<1>1. pc' \in [Tasks -> Places]
  BY StepKinds DEF Quiet, Takes, Opens, Drops, Places
<1>2. req' \in [Tasks -> Requests \cup {"none"}] /\ code' \in [Tasks -> Codes]
  BY Asked DEF GetRespCode, RespCode, Codes
<1> QED
  BY <1>1, <1>2, NextFds, NextPort

Inv == Types /\ FdInv /\ PortInv

\* The inductive invariant both accounts follow from.
LEMMA InvHolds == Spec => []Inv
<1>1. Init => Inv
  BY InitTypes, InitFds DEF Init, Inv
<1>2. Inv /\ [Next]_vars => Inv'
  BY Steps, NextTypes, NextFds, NextPort DEF Inv
<1> QED
  BY <1>1, <1>2, PTL DEF Spec

(* The UART lock is full exactly while a live service holds it, and every  *)
(* path through a response gives it back: for any number of tasks.         *)
THEOREM PortCorrect == Spec => []PortAccounted
<1> DEFINE holders == {t \in Tasks : port[t]}
<1>1. ASSUME Inv PROVE PortAccounted
  <2>1. CASE holders = {}
    BY <1>1, <2>1, FS_EmptySet DEF Inv, Types, PortInv, PortAccounted
  <2>2. ASSUME NEW t \in holders PROVE PortAccounted
    <3>1. holders = {t} /\ serialLock = 1
      BY <1>1, <2>2 DEF Inv, Types, PortInv
    <3>2. Cardinality({t}) = 1
      BY FS_Singleton
    <3> QED
      BY <1>1, <3>1, <3>2 DEF Inv, PortInv, PortAccounted
  <2> QED
    BY <2>1, <2>2
<1> QED
  BY <1>1, InvHolds, PTL

(* A descriptor is in use exactly for each live service that has a file.   *)
THEOREM FdsCorrect == Spec => []FdsAccounted
<1>1. Inv => FdsAccounted
  BY DEF Inv, FdInv, FdsAccounted, Owners
<1> QED
  BY <1>1, InvHolds, PTL

(* Sessions on the port implement the mutex: one begins when there is none *)
(* and ends by the destructor of the service that began it.                *)
THEOREM SessionsImplementMutex == Spec => SessionsExclude
<1> DEFINE inside == {t \in Tasks : port[t]}
<1>1. Init => inside = {}
  BY DEF Init, WebInit
<1>2. Inv /\ [Next]_vars => [PortUse!Next]_inside
  <2> SUFFICES ASSUME Inv, [Next]_vars PROVE PortUse!Next \/ inside' = inside
    OBVIOUS
  <2> USE DEF Inv, Types, PortInv
  <2>1. CASE Quiet
    BY <2>1 DEF Quiet
  <2>2. ASSUME NEW t \in Tasks, Takes(t) \/ Opens(t)
        PROVE  inside' = inside \/ (inside = {} /\ inside' = {t})
    <3>1. CASE UNCHANGED port
      BY <3>1
    <3>2. CASE serialLock = 0 /\ port' = [port EXCEPT ![t] = TRUE]
      <4>1. inside = {}
        BY <3>2
      <4> QED
        BY <3>2, <4>1
    <3> QED
      BY <2>2, <3>1, <3>2 DEF Takes, Opens
  <2>3. ASSUME NEW t \in Tasks, Drops(t)
        PROVE  inside' = inside \/ (inside = {t} /\ inside' = {})
    BY <2>3 DEF Drops, ReleasePort, UnlockSerial
  <2> QED
    BY <2>1, <2>2, <2>3, Steps, StepKinds DEF PortUse!Next, PortUse!Enter, PortUse!Leave
<1> QED
  BY <1>1, <1>2, InvHolds, PTL DEF Spec, SessionsExclude, PortUse!Spec, PortUse!Init

-----------------------------------------------------------------------------
(* With a descriptor for each task, whoever opens a file gets one.         *)
LEMMA RoomLeft ==
  ASSUME Inv, Cardinality(Tasks) <= MaxFds, NEW t \in Tasks, ~fd[t]
  PROVE  openFds < MaxFds
<1>1. /\ IsFiniteSet(Tasks \ {t})
      /\ Cardinality(Tasks \ {t}) = Cardinality(Tasks) - 1
  BY FS_RemoveElement, WebAssumption DEF WebAssumption
<1>2. Owners \subseteq Tasks \ {t}
  BY DEF Owners
<1>3. Cardinality(Owners) <= Cardinality(Tasks \ {t})
  BY <1>1, <1>2, FS_Subset
<1>4. Cardinality(Tasks) \in Nat
  BY FS_CardinalityType, WebAssumption DEF WebAssumption
<1> QED
  BY <1>1, <1>3, <1>4, OwnersFinite, WebAssumption DEF WebAssumption, Inv, FdInv

\* What the constructor opened is still open when the code is asked for.
LEMMA NextFile ==
  ASSUME Inv, FileInv, Cardinality(Tasks) <= MaxFds, SystemStep
  PROVE  FileInv'
<1> USE DEF Inv, Types, FileInv, Early, From, Goto, service, response, shared
<1>1. ASSUME NEW t \in Tasks, LockMutex(t) \/ Accept(t) \/ UnlockMutex(t) \/ CloseConnection(t)
                              \/ ReceiveFails(t) \/ SetReqData(t)
      PROVE  FileInv'
  BY <1>1 DEF LockMutex, Accept, UnlockMutex, CloseConnection, ReceiveFails, SetReqData
<1>2. ASSUME NEW t \in Tasks, NEW r \in Requests, ReceiveRequest(t, r) PROVE FileInv'
  BY <1>2 DEF ReceiveRequest
<1>3. ASSUME NEW t \in Tasks, CreateService(t) PROVE FileInv'
  <2>1. ~fd[t] /\ openFds < MaxFds
    BY <1>3, RoomLeft DEF CreateService, FdInv, NoService
  <2>2. fd' = IF req[t] = "file" THEN [fd EXCEPT ![t] = TRUE] ELSE fd
    BY <1>3, <2>1 DEF CreateService, OpenFile
  <2> QED
    BY <1>3, <2>2 DEF CreateService
<1>4. ASSUME NEW t \in Tasks, GetRespCode(t) PROVE FileInv'
  BY <1>4 DEF GetRespCode, RespCode, FileRequests, Codes
<1>5. ASSUME NEW t \in Tasks, DeleteFailedService(t) PROVE FileInv'
  BY <1>5 DEF DeleteFailedService, Destroy, CloseFile
<1>6. ASSUME NEW t \in Tasks, CreateErrorService(t) PROVE FileInv'
  <2>1. ~fd[t] /\ openFds < MaxFds
    BY <1>6, RoomLeft DEF CreateErrorService, FdInv, NoService
  <2>2. fd' = [fd EXCEPT ![t] = TRUE]
    BY <1>6, <2>1 DEF CreateErrorService, OpenFile
  <2> QED
    BY <1>6, <2>2 DEF CreateErrorService
<1>7. ASSUME NEW t \in Tasks, GetLength(t) \/ Send(t) \/ SendFails(t) PROVE FileInv'
  BY <1>7 DEF GetLength, Send, SendFails, Sent
<1>8. ASSUME NEW t \in Tasks, GetNextChunk(t) PROVE FileInv'
  BY <1>8 DEF GetNextChunk
<1>9. ASSUME NEW t \in Tasks, DeleteService(t) PROVE FileInv'
  BY <1>9 DEF DeleteService, Destroy, CloseFile
<1>10. CASE ClientConnects \/ ByteArrives \/ (ServerNext /\ UNCHANGED webPrivate) \/ UNCHANGED webVars
  BY <1>10 DEF ClientConnects, ByteArrives, webPrivate, webVars
<1> QED
  BY <1>1, <1>2, <1>3, <1>4, <1>5, <1>6, <1>7, <1>8, <1>9, <1>10
  DEF SystemStep, WebNext, TaskStep, ServeStep

(* With a descriptor for each task, a file that exists is never answered   *)
(* with 404, and an error is answered with its page.                       *)
THEOREM FilesAlwaysServed ==
  ASSUME Cardinality(Tasks) <= MaxFds
  PROVE  Spec => []FilesServed
<1>1. Init => FileInv
  BY InitTypes DEF Init
<1>2. Inv /\ FileInv /\ [Next]_vars => FileInv'
  BY Steps, NextFile
<1>3. FileInv => FilesServed
  BY DEF FileInv, FilesServed
<1> QED
  BY <1>1, <1>2, <1>3, InvHolds, PTL DEF Spec

-----------------------------------------------------------------------------
\* A request to join owns nothing, is answered with 200 and has no body.
JoinInv ==
  /\ left = [t \in Tasks |-> left[t]]
  /\ joined \in [Tasks -> BOOLEAN]
  /\ \A t \in Tasks : req[t] = "join" =>
       /\ ~port[t] /\ ~fd[t] /\ pc[t] \notin {"error", "page"}
       /\ pc[t] \in {"length", "chunk", "send", "delete"} => code[t] = 200
       /\ pc[t] \in {"chunk", "send", "delete"} => left[t] = 0

(* No join is under way at the start.                                      *)
LEMMA InitJoin == Init => JoinInv
<1> SUFFICES ASSUME Init PROVE JoinInv
  OBVIOUS
<1>1. /\ req = [t \in Tasks |-> "none"] /\ left = [t \in Tasks |-> 0]
      /\ joined = [t \in Tasks |-> FALSE]
  BY DEF Init, WebInit
<1> QED
  BY <1>1 DEF JoinInv

\* A join passes every call without owning or announcing anything.
LEMMA NextJoin ==
  ASSUME Inv, JoinInv, SystemStep
  PROVE  JoinInv'
<1> USE DEF Inv, Types, JoinInv, From, Goto, service, response, shared
<1>1. ASSUME NEW t \in Tasks, LockMutex(t) \/ Accept(t) \/ UnlockMutex(t) \/ CloseConnection(t)
                              \/ ReceiveFails(t) \/ SetReqData(t)
      PROVE  JoinInv'
  BY <1>1 DEF LockMutex, Accept, UnlockMutex, CloseConnection, ReceiveFails, SetReqData
<1>2. ASSUME NEW t \in Tasks, NEW r \in Requests, ReceiveRequest(t, r) PROVE JoinInv'
  <2>1. ~port[t] /\ ~fd[t]
    BY <1>2 DEF ReceiveRequest, FdInv, PortInv, NoService
  <2> QED
    BY <1>2, <2>1 DEF ReceiveRequest
<1>3. ASSUME NEW t \in Tasks, CreateService(t) PROVE JoinInv'
  <2>1. fd' \in [Tasks -> BOOLEAN] /\ port' \in [Tasks -> BOOLEAN]
    BY NextFds, NextPort
  <2>2. \A s \in Tasks : req[s] = "join" => fd'[s] = fd[s] /\ port'[s] = port[s]
    BY <1>3 DEF CreateService, OpenFile, SerialRequests
  <2> QED
    BY <1>3, <2>1, <2>2 DEF CreateService
<1>4. ASSUME NEW t \in Tasks, GetRespCode(t) PROVE JoinInv'
  BY <1>4 DEF GetRespCode, RespCode, FileRequests, Codes
<1>5. ASSUME NEW t \in Tasks, DeleteFailedService(t) PROVE JoinInv'
  BY <1>5 DEF DeleteFailedService, Destroy, CloseFile, ReleasePort, Joins
<1>6. ASSUME NEW t \in Tasks, CreateErrorService(t) PROVE JoinInv'
  BY <1>6 DEF CreateErrorService, OpenFile
<1>7. ASSUME NEW t \in Tasks, GetLength(t) PROVE JoinInv'
  <2>1. req[t] = "join" => Lengths(t) = {0}
    BY <1>7 DEF GetLength, Lengths
  <2>2. /\ pc[t] = "length" /\ pc' = [pc EXCEPT ![t] = "chunk"]
        /\ \E n \in Lengths(t) : left' = [left EXCEPT ![t] = n]
        /\ UNCHANGED <<req, fd, port, code, joined>>
    BY <1>7 DEF GetLength
  <2>3. /\ left' = [s \in Tasks |-> left'[s]]
        /\ \A s \in Tasks : s # t => left'[s] = left[s] /\ pc'[s] = pc[s]
        /\ pc'[t] = "chunk"
    BY <2>2
  <2>4. req[t] = "join" => left'[t] = 0
    BY <2>1, <2>2
  <2> QED
    BY <2>2, <2>3, <2>4
<1>8. ASSUME NEW t \in Tasks, Send(t) \/ SendFails(t) PROVE JoinInv'
  BY <1>8 DEF Send, SendFails, Sent
<1>9. ASSUME NEW t \in Tasks, GetNextChunk(t) PROVE JoinInv'
  <2>1. req[t] = "join" => left'[t] = 0
    BY <1>9, WebAssumption DEF GetNextChunk, AtMost
  <2>2. /\ left' = [s \in Tasks |-> left'[s]]
        /\ \A s \in Tasks : s # t => left'[s] = left[s]
    BY <1>9 DEF GetNextChunk
  <2>3. /\ pc[t] = "chunk" /\ pc' \in [Tasks -> {"send", "delete"} \cup Places]
        /\ pc'[t] \in {"send", "delete"}
        /\ \A s \in Tasks : s # t => pc'[s] = pc[s]
    BY <1>9 DEF GetNextChunk
  <2>4. UNCHANGED <<req, fd, port, code, joined>>
    BY <1>9 DEF GetNextChunk
  <2>5. ASSUME NEW s \in Tasks, req'[s] = "join"
        PROVE  /\ ~port'[s] /\ ~fd'[s] /\ pc'[s] \notin {"error", "page"}
               /\ pc'[s] \in {"length", "chunk", "send", "delete"} => code'[s] = 200
               /\ pc'[s] \in {"chunk", "send", "delete"} => left'[s] = 0
    <3>1. CASE s = t
      BY <2>1, <2>3, <2>4, <2>5, <3>1
    <3>2. CASE s # t
      BY <2>2, <2>3, <2>4, <2>5, <3>2
    <3> QED
      BY <3>1, <3>2
  <2> QED
    BY <2>2, <2>4, <2>5
<1>10. ASSUME NEW t \in Tasks, DeleteService(t) PROVE JoinInv'
  <2>1. /\ left' = [left EXCEPT ![t] = 0] /\ req' = [req EXCEPT ![t] = "none"]
        /\ code' = [code EXCEPT ![t] = 0] /\ pc' = [pc EXCEPT ![t] = "receive"]
    BY <1>10 DEF DeleteService
  <2>2. /\ joined' = [joined EXCEPT ![t] = Joins(t)]
        /\ fd' = [fd EXCEPT ![t] = FALSE] /\ port' = [port EXCEPT ![t] = FALSE]
    BY <1>10 DEF DeleteService, Destroy, CloseFile, ReleasePort
  <2>3. joined' \in [Tasks -> BOOLEAN]
    BY <2>2 DEF Joins
  <2>4. left' = [s \in Tasks |-> left'[s]]
    BY <2>1
  <2>5. ASSUME NEW s \in Tasks, req'[s] = "join"
        PROVE  /\ s # t /\ req[s] = "join" /\ pc'[s] = pc[s] /\ code'[s] = code[s]
               /\ left'[s] = left[s] /\ fd'[s] = fd[s] /\ port'[s] = port[s]
    <3>1. s # t /\ req[s] = "join"
      BY <2>1, <2>5
    <3>2. pc'[s] = pc[s] /\ code'[s] = code[s]
      BY <2>1, <3>1
    <3>3. left'[s] = left[s]
      BY <2>1, <3>1
    <3>4. fd'[s] = fd[s] /\ port'[s] = port[s]
      BY <2>2, <3>1
    <3> QED
      BY <3>1, <3>2, <3>3, <3>4
  <2> QED
    BY <2>3, <2>4, <2>5
<1>11. CASE ClientConnects \/ ByteArrives \/ (ServerNext /\ UNCHANGED webPrivate) \/ UNCHANGED webVars
  BY <1>11 DEF ClientConnects, ByteArrives, webPrivate, webVars
<1> QED
  BY <1>1, <1>2, <1>3, <1>4, <1>5, <1>6, <1>7, <1>8, <1>9, <1>10, <1>11
  DEF SystemStep, WebNext, TaskStep, ServeStep

(* JoinNetwork is called in the destructor that follows a complete 200     *)
(* answer, and in no other.                                                *)
THEOREM JoinsAfterAnswer == Spec => JoinAfterAnswer
<1> DEFINE Step == \A t \in Tasks : joined'[t] /\ ~joined[t]
                     => pc[t] = "delete" /\ code[t] = 200 /\ left[t] = 0
<1>1. Inv /\ JoinInv /\ [Next]_vars => JoinInv'
  BY Steps, NextJoin
<1>2. Inv /\ JoinInv /\ [Next]_vars => [Step]_webVars
  <2> SUFFICES ASSUME Inv, JoinInv, [Next]_vars PROVE Step \/ UNCHANGED webVars
    OBVIOUS
  <2>1. ASSUME NEW t \in Tasks, DeleteFailedService(t) \/ DeleteService(t) PROVE Step
    BY <2>1 DEF DeleteFailedService, DeleteService, Destroy, Joins, From, Inv, Types, JoinInv
  <2>2. ASSUME NEW t \in Tasks, NEW r \in Requests, ReceiveRequest(t, r) PROVE Step
    BY <2>2 DEF ReceiveRequest, JoinInv
  <2>3. CASE UNCHANGED joined
    BY <2>3 DEF JoinInv
  <2>4. ASSUME NEW t \in Tasks, TaskStep(t)
        PROVE  \/ DeleteFailedService(t) \/ DeleteService(t) \/ UNCHANGED joined
               \/ \E r \in Requests : ReceiveRequest(t, r)
    BY <2>4 DEF TaskStep, ServeStep, LockMutex, Accept, UnlockMutex, CloseConnection, ReceiveFails,
       CreateService, SetReqData, GetRespCode, CreateErrorService, GetLength, GetNextChunk,
       Send, SendFails, Sent, response
  <2>5. CASE ClientConnects \/ ByteArrives \/ (ServerNext /\ UNCHANGED webPrivate) \/ UNCHANGED vars
    BY <2>3, <2>5 DEF ClientConnects, ByteArrives, webPrivate, vars, webVars, response
  <2> QED
    BY <2>1, <2>2, <2>3, <2>4, <2>5 DEF Next, WebNext
<1> QED
  BY InitJoin, <1>1, <1>2, InvHolds, PTL DEF Spec, JoinAfterAnswer

-----------------------------------------------------------------------------
(* The HTTP server by itself: what the port 5000 server leaves in the UART *)
(* does not change.                                                        *)

\* Who holds the port has asked for it, has no file, and drops what is buffered
\* before the length is asked for only.
HolderInv ==
  \A t \in Tasks :
    /\ port[t] => ~fd[t] /\ req[t] \in SerialRequests
    /\ pc[t] = "setreq" /\ req[t] \in SerialRequests => port[t]

\* What has been sent, is in the buffer and is left adds up to what was announced,
\* and the bytes that are left wait in the UART.
LengthTypes ==
  /\ rx \in Nat
  /\ left \in [Tasks -> Nat] /\ chunk \in [Tasks -> Nat]
  /\ length \in [Tasks -> Nat] /\ body \in [Tasks -> Nat]
  /\ fresh \in [Tasks -> BOOLEAN] /\ failed \in [Tasks -> BOOLEAN]

Sending == {"chunk", "send", "delete"}
SumInv ==
  \A t \in Tasks :
    /\ pc[t] \notin Sending => body[t] = 0 /\ ~failed[t]
    /\ pc[t] # "send" => chunk[t] = 0
    /\ pc[t] \in Sending /\ ~failed[t] => body[t] + chunk[t] + left[t] = length[t]
    /\ pc[t] \in Sending /\ port[t] => left[t] <= rx
    /\ pc[t] = "delete" => left[t] = 0

LengthInv == HolderInv /\ LengthTypes /\ SumInv

(* Nothing has been announced at the start.                                *)
LEMMA InitLength == WebInit => LengthInv
<1> SUFFICES ASSUME WebInit PROVE LengthInv
  OBVIOUS
<1>1. /\ pc = [t \in Tasks |-> "lock"] /\ req = [t \in Tasks |-> "none"]
      /\ fd = [t \in Tasks |-> FALSE] /\ port = [t \in Tasks |-> FALSE]
      /\ length = [t \in Tasks |-> 0] /\ left = [t \in Tasks |-> 0]
      /\ chunk = [t \in Tasks |-> 0] /\ body = [t \in Tasks |-> 0]
      /\ fresh = [t \in Tasks |-> TRUE] /\ failed = [t \in Tasks |-> FALSE] /\ rx = 0
  BY DEF WebInit, SerialInit
<1>2. HolderInv
  BY <1>1 DEF HolderInv
<1>3. LengthTypes
  BY <1>1 DEF LengthTypes
<1>4. SumInv
  BY <1>1 DEF SumInv, Sending
<1> QED
  BY <1>2, <1>3, <1>4 DEF LengthInv

\* A service gets the port if its request needs it, and gives it back before an
\* error page is opened in its place.
LEMMA NextHolder ==
  ASSUME Inv, HolderInv, WebNext
  PROVE  HolderInv'
<1> USE DEF Inv, Types, HolderInv, From, Goto, service, response, shared, serialVars
<1>1. ASSUME NEW t \in Tasks, LockMutex(t) \/ Accept(t) \/ UnlockMutex(t) \/ CloseConnection(t)
                              \/ ReceiveFails(t) \/ SetReqData(t) \/ GetRespCode(t)
      PROVE  HolderInv'
  BY <1>1 DEF LockMutex, Accept, UnlockMutex, CloseConnection, ReceiveFails, SetReqData, GetRespCode
<1>2. ASSUME NEW t \in Tasks, NEW r \in Requests, ReceiveRequest(t, r) PROVE HolderInv'
  <2>1. ~port[t]
    BY <1>2 DEF ReceiveRequest, PortInv, NoService
  <2> QED
    BY <1>2, <2>1 DEF ReceiveRequest
<1>3. ASSUME NEW t \in Tasks, CreateService(t) PROVE HolderInv'
  <2>1. ~port[t] /\ ~fd[t]
    BY <1>3 DEF CreateService, PortInv, FdInv, NoService
  <2>2. "file" \notin SerialRequests
    BY DEF SerialRequests
  <2>3. /\ \A s \in Tasks \ {t} : fd'[s] = fd[s] /\ port'[s] = port[s] /\ pc'[s] = pc[s]
        /\ req[t] \in SerialRequests => port'[t] /\ ~fd'[t]
        /\ req[t] \notin SerialRequests => ~port'[t]
        /\ req' = req
    BY <1>3, <2>1, <2>2 DEF CreateService, OpenFile
  <2> QED
    BY <2>3
<1>4. ASSUME NEW t \in Tasks, DeleteFailedService(t) \/ DeleteService(t) PROVE HolderInv'
  <2>1. /\ fd' = [fd EXCEPT ![t] = FALSE] /\ port' = [port EXCEPT ![t] = FALSE]
        /\ pc'[t] # "setreq" /\ \A s \in Tasks \ {t} : pc'[s] = pc[s] /\ req'[s] = req[s]
    BY <1>4 DEF DeleteFailedService, DeleteService, Destroy, CloseFile, ReleasePort
  <2> QED
    BY <2>1
<1>5. ASSUME NEW t \in Tasks, CreateErrorService(t) PROVE HolderInv'
  <2>1. ~port[t]
    BY <1>5 DEF CreateErrorService, PortInv, NoService
  <2> QED
    BY <1>5, <2>1 DEF CreateErrorService, OpenFile
<1>6. ASSUME NEW t \in Tasks, GetLength(t) \/ GetNextChunk(t) \/ Send(t) \/ SendFails(t)
      PROVE  HolderInv'
  BY <1>6 DEF GetLength, GetNextChunk, Send, SendFails, Sent
<1>7. CASE ClientConnects \/ ByteArrives
  BY <1>7 DEF ClientConnects, ByteArrives, UartReceives
<1> QED
  BY <1>1, <1>2, <1>3, <1>4, <1>5, <1>6, <1>7 DEF WebNext, TaskStep, ServeStep

\* What may be announced, and that the port has it.
LEMMA LengthsCovered ==
  ASSUME Inv, HolderInv, LengthTypes, NEW t \in Tasks, NEW n \in Lengths(t)
  PROVE  n \in Nat /\ (port[t] => n <= rx)
<1>1. rx \in Nat /\ FileLength \in Nat /\ Expected \subseteq Nat
  BY WebAssumption DEF WebAssumption, LengthTypes
<1>2. fd[t] \in BOOLEAN /\ port[t] \in BOOLEAN /\ code[t] \in {0, 200, 400, 404, 405}
  BY DEF Inv, Types, Codes
<1>3. CASE fd[t]
  <2>1. n = FileLength /\ ~port[t]
    BY <1>3 DEF Lengths, HolderInv
  <2> QED
    BY <1>1, <2>1
<1>4. CASE ~fd[t] /\ code[t] >= 400
  <2>1. Lengths(t) = {0}
    BY <1>2, <1>4 DEF Lengths
  <2> QED
    BY <1>1, <2>1
<1>5. CASE ~fd[t] /\ code[t] < 400
  <2>1. n \in CASE req[t] = "read"     -> {Count}
                [] req[t] = "exchange" -> {AtMost(Count, m) : m \in Expected} \cup {0}
                [] req[t] = "list"     -> {0, FileLength}
                [] req[t] = "gpio_val" -> {1}
                [] OTHER               -> {0}
    BY <1>2, <1>5 DEF Lengths
  <2>2. CASE req[t] = "read"
    BY <1>1, <2>1, <2>2 DEF Count
  <2>3. CASE req[t] = "exchange"
    <3>1. \A m \in Expected : AtMost(Count, m) \in Nat /\ AtMost(Count, m) <= rx
      BY <1>1 DEF AtMost, Count
    <3>2. n = 0 \/ \E m \in Expected : n = AtMost(Count, m)
      BY <2>1, <2>3
    <3> QED
      BY <1>1, <3>1, <3>2
  <2>4. CASE req[t] = "list"
    <3>1. ~port[t]
      BY <2>4 DEF HolderInv, SerialRequests
    <3> QED
      BY <1>1, <2>1, <2>4, <3>1
  <2>5. CASE req[t] = "gpio_val"
    <3>1. ~port[t]
      BY <2>5 DEF HolderInv, SerialRequests
    <3> QED
      BY <1>1, <2>1, <2>5, <3>1
  <2>6. CASE req[t] \notin {"read", "exchange", "list", "gpio_val"}
    BY <1>1, <2>1, <2>6
  <2> QED
    BY <2>2, <2>3, <2>4, <2>5, <2>6
<1> QED
  BY <1>2, <1>3, <1>4, <1>5

\* Steps that come to no other sum, and leave the bytes in the UART where they are.
LEMMA SumUntouched ==
  ASSUME Inv, LengthTypes, SumInv, WebNext,
         UNCHANGED <<left, chunk, length, body, fresh, failed>>,
         NEW t \in Tasks, \A s \in Tasks \ {t} : pc'[s] = pc[s] /\ port'[s] = port[s],
         pc[t] \notin Sending, pc'[t] \notin Sending, rx' = rx
  PROVE  LengthTypes' /\ SumInv'
<1>1. chunk[t] = 0 /\ pc'[t] # "send" /\ pc'[t] # "delete"
  BY DEF SumInv, Sending
<1> QED
  BY <1>1 DEF LengthTypes, SumInv, Sending

(* Every step keeps the sum of what was sent, is in hand and is left.      *)
LEMMA NextSum ==
  ASSUME Inv, LengthInv, WebNext
  PROVE  LengthTypes' /\ SumInv'
<1> USE DEF Inv, Types, LengthInv, From, Goto, service, response, shared, serialVars
<1>1. ASSUME NEW t \in Tasks, LockMutex(t) \/ Accept(t) \/ UnlockMutex(t) \/ CloseConnection(t)
                              \/ ReceiveFails(t) \/ GetRespCode(t)
      PROVE  LengthTypes' /\ SumInv'
  <2>1. /\ UNCHANGED <<left, chunk, length, body, fresh, failed>>
        /\ \A s \in Tasks \ {t} : pc'[s] = pc[s] /\ port'[s] = port[s]
        /\ pc[t] \notin Sending /\ pc'[t] \notin Sending /\ rx' = rx
    BY <1>1 DEF LockMutex, Accept, UnlockMutex, CloseConnection, ReceiveFails, GetRespCode, Sending
  <2> QED
    BY <2>1, SumUntouched
<1>2. ASSUME NEW t \in Tasks, NEW r \in Requests, ReceiveRequest(t, r)
      PROVE  LengthTypes' /\ SumInv'
  <2>1. /\ UNCHANGED <<left, chunk, length, body, fresh, failed>>
        /\ \A s \in Tasks \ {t} : pc'[s] = pc[s] /\ port'[s] = port[s]
        /\ pc[t] \notin Sending /\ pc'[t] \notin Sending /\ rx' = rx
    BY <1>2 DEF ReceiveRequest, Sending
  <2> QED
    BY <2>1, SumUntouched
<1>3. ASSUME NEW t \in Tasks, CreateService(t) \/ CreateErrorService(t) \/ DeleteFailedService(t)
      PROVE  LengthTypes' /\ SumInv'
  <2>1. /\ UNCHANGED <<left, chunk, length, body, fresh, failed>>
        /\ \A s \in Tasks \ {t} : pc'[s] = pc[s] /\ port'[s] = port[s]
        /\ pc[t] \notin Sending /\ pc'[t] \notin Sending /\ rx' = rx
    BY <1>3 DEF CreateService, CreateErrorService, DeleteFailedService, Destroy, ReleasePort, Sending
  <2> QED
    BY <2>1, SumUntouched
\* An exchange drops what is buffered while nobody else has the port.
<1>4. ASSUME NEW t \in Tasks, SetReqData(t) PROVE LengthTypes' /\ SumInv'
  <2>1. /\ UNCHANGED <<left, chunk, length, body, fresh, failed, port>>
        /\ \A s \in Tasks \ {t} : pc'[s] = pc[s]
        /\ pc[t] = "setreq" /\ pc'[t] = "code"
        /\ rx' = IF req[t] = "exchange" THEN 0 ELSE rx
    BY <1>4 DEF SetReqData, Flush
  <2>2. CASE req[t] # "exchange"
    BY <2>1, <2>2, SumUntouched DEF Sending
  <2>3. CASE req[t] = "exchange"
    <3>1. port[t]
      BY <2>1, <2>3 DEF HolderInv, SerialRequests
    <3>2. \A s \in Tasks \ {t} : ~port'[s]
      BY <2>1, <3>1 DEF PortInv
    <3>3. chunk[t] = 0 /\ body[t] = 0 /\ ~failed[t]
      BY <2>1 DEF SumInv, Sending
    <3>4. rx' \in Nat
      BY <2>1, <2>3
    <3> QED
      BY <2>1, <3>2, <3>3, <3>4 DEF LengthTypes, SumInv, Sending
  <2> QED
    BY <2>2, <2>3
<1>5. ASSUME NEW t \in Tasks, GetLength(t) PROVE LengthTypes' /\ SumInv'
  <2>1. PICK n \in Lengths(t) : length' = [length EXCEPT ![t] = n] /\ left' = [left EXCEPT ![t] = n]
    BY <1>5 DEF GetLength
  <2>2. n \in Nat /\ (port[t] => n <= rx)
    BY LengthsCovered
  <2>3. /\ pc[t] = "length" /\ pc'[t] = "chunk" /\ \A s \in Tasks \ {t} : pc'[s] = pc[s]
        /\ UNCHANGED <<port, chunk, fresh, body, failed, rx>>
    BY <1>5 DEF GetLength
  <2>4. chunk[t] = 0 /\ body[t] = 0 /\ ~failed[t]
    BY <2>3 DEF SumInv, Sending
  <2>5. LengthTypes'
    BY <2>1, <2>2, <2>3 DEF LengthTypes
  <2>6. /\ \A s \in Tasks \ {t} : length'[s] = length[s] /\ left'[s] = left[s]
        /\ length'[t] = n /\ left'[t] = n
    BY <2>1 DEF LengthTypes
  <2> QED
    BY <2>2, <2>3, <2>4, <2>5, <2>6 DEF SumInv, Sending
\* A chunk moves bytes from what is left, and from the UART, to the buffer.
<1>6. ASSUME NEW t \in Tasks, GetNextChunk(t) PROVE LengthTypes' /\ SumInv'
  <2> DEFINE size == AtMost(CHUNK, left[t])
             n == IF port[t] THEN ReadCount(size) ELSE size
  <2>1. /\ pc[t] = "chunk" /\ pc'[t] = (IF fresh[t] \/ n > 0 THEN "send" ELSE "delete")
        /\ \A s \in Tasks \ {t} : pc'[s] = pc[s]
        /\ rx' = IF port[t] THEN rx - n ELSE rx
        /\ left' = [left EXCEPT ![t] = left[t] - n]
        /\ chunk' = [chunk EXCEPT ![t] = n]
        /\ UNCHANGED <<port, length, fresh, body, failed>>
    BY <1>6 DEF GetNextChunk, Read
  <2>2. /\ left[t] \in Nat /\ rx \in Nat /\ CHUNK \in Nat /\ CHUNK > 0
        /\ chunk[t] = 0 /\ body[t] \in Nat /\ length[t] \in Nat
        /\ port[t] => left[t] <= rx
        /\ ~failed[t] => body[t] + left[t] = length[t]
    BY <2>1, WebAssumption DEF WebAssumption, LengthTypes, SumInv, Sending
  <2>3. /\ size \in Nat /\ size <= left[t] /\ (size = 0 => left[t] = 0)
    BY <2>2 DEF AtMost
  <2>4. /\ n \in Nat /\ n <= left[t] /\ (port[t] => n <= rx) /\ (n = 0 => left[t] = 0)
    <3> HIDE DEF size
    <3> QED
      BY <2>2, <2>3 DEF ReadCount, AtMost
  <2> HIDE DEF size, n
  <2>5. rx' \in Nat /\ left[t] - n \in Nat
    BY <2>1, <2>2, <2>4
  <2>6. LengthTypes'
    BY <2>1, <2>4, <2>5 DEF LengthTypes
  <2>7. /\ \A s \in Tasks \ {t} : left'[s] = left[s] /\ chunk'[s] = chunk[s]
        /\ left'[t] = left[t] - n /\ chunk'[t] = n
    BY <2>1 DEF LengthTypes
  <2>8. \A s \in Tasks \ {t} : port[s] => rx' = rx
    BY <2>1 DEF PortInv
  <2>9. ASSUME NEW s \in Tasks \ {t}
        PROVE  /\ pc'[s] \notin Sending => body'[s] = 0 /\ ~failed'[s]
               /\ pc'[s] # "send" => chunk'[s] = 0
               /\ pc'[s] \in Sending /\ ~failed'[s] => body'[s] + chunk'[s] + left'[s] = length'[s]
               /\ pc'[s] \in Sending /\ port'[s] => left'[s] <= rx'
               /\ pc'[s] = "delete" => left'[s] = 0
    BY <2>1, <2>7, <2>8 DEF SumInv
  <2>10. /\ pc'[t] \in Sending
         /\ pc'[t] # "send" => chunk'[t] = 0 /\ left'[t] = 0
         /\ ~failed'[t] => body'[t] + chunk'[t] + left'[t] = length'[t]
         /\ port'[t] => left'[t] <= rx'
    <3>1. pc'[t] = "send" \/ (pc'[t] = "delete" /\ n = 0)
      BY <2>1, <2>4
    <3>2. ~failed'[t] => body'[t] + chunk'[t] + left'[t] = length'[t]
      BY <2>1, <2>2, <2>4, <2>7
    <3>3. port'[t] => left'[t] <= rx'
      BY <2>1, <2>2, <2>4, <2>7
    <3>4. n = 0 => left'[t] = 0
      BY <2>2, <2>4, <2>7
    <3> QED
      BY <2>7, <3>1, <3>2, <3>3, <3>4 DEF Sending
  <2> QED
    BY <2>6, <2>9, <2>10 DEF SumInv, Sending
<1>7. ASSUME NEW t \in Tasks, NEW ok \in BOOLEAN, Sent(t, ok), ok => ~failed[t]
      PROVE  LengthTypes' /\ SumInv'
  <2>1. /\ pc[t] = "send" /\ pc'[t] = "chunk" /\ \A s \in Tasks \ {t} : pc'[s] = pc[s]
        /\ fresh' = [fresh EXCEPT ![t] = FALSE] /\ failed' = [failed EXCEPT ![t] = ~ok]
        /\ body' = IF ok THEN [body EXCEPT ![t] = body[t] + chunk[t]] ELSE body
        /\ chunk' = [chunk EXCEPT ![t] = 0]
        /\ UNCHANGED <<port, left, length, rx>>
    BY <1>7 DEF Sent
  <2>2. /\ chunk[t] \in Nat /\ body[t] \in Nat /\ left[t] \in Nat
        /\ ~failed[t] => body[t] + chunk[t] + left[t] = length[t]
        /\ port[t] => left[t] <= rx
    BY <2>1 DEF LengthTypes, SumInv, Sending
  <2>3. LengthTypes'
    BY <2>1, <2>2 DEF LengthTypes
  <2>4. /\ \A s \in Tasks \ {t} : chunk'[s] = chunk[s] /\ body'[s] = body[s] /\ failed'[s] = failed[s]
        /\ chunk'[t] = 0 /\ failed'[t] = ~ok
        /\ body'[t] = IF ok THEN body[t] + chunk[t] ELSE body[t]
    BY <2>1 DEF LengthTypes
  <2>5. ~failed'[t] => body'[t] + chunk'[t] + left'[t] = length'[t]
    <3>1. CASE ok
      <4>1. /\ ~failed[t] /\ body'[t] = body[t] + chunk[t] /\ chunk'[t] = 0
            /\ left'[t] = left[t] /\ length'[t] = length[t]
        BY <1>7, <2>1, <2>4, <3>1
      <4> QED
        BY <2>2, <4>1
    <3>2. CASE ~ok
      BY <2>4, <3>2
    <3> QED
      BY <3>1, <3>2
  <2> QED
    BY <2>1, <2>2, <2>3, <2>4, <2>5 DEF SumInv, Sending
<1>8. ASSUME NEW t \in Tasks, DeleteService(t) PROVE LengthTypes' /\ SumInv'
  <2>1. /\ pc'[t] = "receive" /\ \A s \in Tasks \ {t} : pc'[s] = pc[s] /\ port'[s] = port[s]
        /\ left' = [left EXCEPT ![t] = 0] /\ length' = [length EXCEPT ![t] = 0]
        /\ chunk' = [chunk EXCEPT ![t] = 0] /\ body' = [body EXCEPT ![t] = 0]
        /\ fresh' = [fresh EXCEPT ![t] = TRUE] /\ failed' = [failed EXCEPT ![t] = FALSE]
        /\ rx' = rx
    BY <1>8 DEF DeleteService, Destroy, ReleasePort
  <2>2. LengthTypes'
    BY <2>1 DEF LengthTypes
  <2>3. /\ chunk'[t] = 0 /\ body'[t] = 0 /\ ~failed'[t]
        /\ \A s \in Tasks \ {t} : /\ left'[s] = left[s] /\ length'[s] = length[s]
                                  /\ chunk'[s] = chunk[s] /\ body'[s] = body[s]
                                  /\ failed'[s] = failed[s]
    BY <2>1 DEF LengthTypes
  <2> QED
    BY <2>1, <2>2, <2>3 DEF SumInv, Sending
<1>9. CASE ClientConnects
  BY <1>9 DEF ClientConnects, LengthTypes, SumInv
<1>10. CASE ByteArrives
  <2>1. /\ rx' = rx + 1
        /\ UNCHANGED <<pc, port, left, chunk, length, body, fresh, failed>>
    BY <1>10 DEF ByteArrives, UartReceives
  <2>2. rx \in Nat /\ rx' \in Nat /\ \A s \in Tasks : left[s] <= rx => left[s] <= rx'
    BY <2>1 DEF LengthTypes
  <2> QED
    BY <2>1, <2>2 DEF LengthTypes, SumInv
<1> QED
  BY <1>1, <1>2, <1>3, <1>4, <1>5, <1>6, <1>7, <1>8, <1>9, <1>10
  DEF WebNext, TaskStep, ServeStep, Send, SendFails

(* A response of which no send failed carries as many bytes as its         *)
(* Content-Length announced: while nobody reads the UART without its lock. *)
THEOREM AnnouncedIsDelivered == WebSpec => []LengthDelivered
<1> DEFINE All == Inv /\ LengthInv
<1>1. WebInit => All
  BY InitTypes, InitFds, InitLength DEF Inv
<1>2. All /\ [WebNext]_webVars => All'
  <2> SUFFICES ASSUME Inv, LengthInv, [WebNext]_webVars PROVE Inv' /\ LengthInv'
    OBVIOUS
  <2>1. Inv'
    BY Steps, NextTypes, NextFds, NextPort DEF Inv
  <2>2. CASE WebNext
    BY <2>1, <2>2, NextHolder, NextSum DEF LengthInv
  <2>3. CASE UNCHANGED webVars
    <3>1. LengthTypes' /\ HolderInv' /\ SumInv'
      BY <2>3 DEF webVars, shared, service, response, serialVars, LengthInv, HolderInv,
         LengthTypes, SumInv
    <3> QED
      BY <2>1, <3>1 DEF LengthInv
  <2> QED
    BY <2>1, <2>2, <2>3
<1>3. All => LengthDelivered
  <2> SUFFICES ASSUME Inv, LengthInv, NEW t \in Tasks, pc[t] = "delete", ~failed[t]
               PROVE  body[t] = length[t]
    BY DEF LengthDelivered
  <2>1. body[t] + chunk[t] + left[t] = length[t] /\ chunk[t] = 0 /\ left[t] = 0 /\ body[t] \in Nat
    BY DEF LengthInv, SumInv, LengthTypes, Sending
  <2> QED
    BY <2>1
<1> HIDE DEF All
<1> QED
  BY <1>1, <1>2, <1>3, PTL DEF WebSpec
=============================================================================
