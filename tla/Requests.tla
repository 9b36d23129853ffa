------------------------------ MODULE Requests ------------------------------
(***************************************************************************)
(* The way of a request through Webserver::ServerTask, from the socket to  *)
(* its service: the services are registered (cpp_main), then one task      *)
(* receives a request (RequestReader), parses it in place and has the      *)
(* service of its URL built (ServiceFactory) before it reads the next one. *)
(*                                                                         *)
(* To the characters of RequestReader come " ", the tokens of URLs, the    *)
(* methods, and "0", the end of a string that NextString has cut out.      *)
(***************************************************************************)
EXTENDS ServiceFactory

CONSTANTS
  Requests,    \* as in RequestReader; "method" and "url" say what the head asks for
  Announces,
  BUFF_SIZE

ASSUME RequestsAssumption ==
  /\ BUFF_SIZE \in Nat
  /\ \A a \in DOMAIN Announces : Announces[a] \in Nat
  /\ \A r \in Requests : r.head \in Seq(STRING) /\ r.body \in Seq(STRING)

VARIABLES
  pc, sent, stream, data, position, last_line_start, content_data, content_size,
  answer       \* the service built for the request, and for what, or why there is none

reader == <<pc, sent, stream, data, position, last_line_start, content_data, content_size>>
requestVars == <<vars, reader, answer>>

Reader == INSTANCE RequestReader

\* In the place of the number of a service: none yet, none without a method or a
\* URL, and the Service(500) of CreateService.
NoService == -1
Unparsed == -2
Service500 == -500

NoAnswer == [method |-> <<>>, url |-> <<>>, service |-> NoService]

RequestsInit == Init /\ Reader!Init /\ answer = NoAnswer

\* The services are registered before the tasks of the server are created.
Registration ==
  /\ pc = "idle"
  /\ Next
  /\ UNCHANGED <<reader, answer>>

ReceiveRequest ==
  /\ Len(service_list) = MaxRecords
  /\ \/ pc = "idle" /\ Reader!Start
     \/ pc = "done" /\ answer # NoAnswer /\ Reader!Start
     \/ Reader!ReadStep \/ Reader!ConnectionLost
  /\ answer' = IF pc = "done" THEN NoAnswer ELSE answer
  /\ UNCHANGED vars

-----------------------------------------------------------------------------
Blank == " "
Nul   == "0"

\* Faulty variant, which only shows that the properties notice it.
NextStringWithDelimiter(text, from) ==
  IF \A k \in from .. Len(text) : text[k] # Blank
  THEN [found |-> FALSE, string |-> <<>>, end |-> Len(text)]
  ELSE LET end == CHOOSE k \in from .. Len(text) :
                    text[k] = Blank /\ \A i \in from .. k - 1 : text[i] # Blank
       IN [found |-> TRUE, string |-> SubSeq(text, from, end), end |-> end]

\* Utils::NextString: the characters up to the next blank; all are used up when
\* there is none.
NextString(text, from) ==
  IF \A k \in from .. Len(text) : text[k] # Blank
  THEN [found |-> FALSE, string |-> <<>>, end |-> Len(text)]
  ELSE LET end == CHOOSE k \in from .. Len(text) :
                    text[k] = Blank /\ \A i \in from .. k - 1 : text[i] # Blank
       IN [found |-> TRUE, string |-> SubSeq(text, from, end - 1), end |-> end]

\* The number of the service that CreateService builds.
CreateService(url) ==
  LET created == {i \in 1 .. Len(service_list) : IsCreated(url, i)}
  IN IF created = {} THEN Service500 ELSE service_list[CHOOSE i \in created : TRUE].id

\* ParseRequest cuts the method and the URL out of the buffer, and CreateService
\* looks for the service.
ServeRequest ==
  /\ pc = "done" /\ answer = NoAnswer
  /\ LET method == NextString(data, 1)
         url == NextString(data, method.end + 1)
         Cut(k) == \/ method.found /\ k = method.end
                   \/ url.found /\ k = url.end
     IN /\ data' = [k \in DOMAIN data |-> IF Cut(k) THEN Nul ELSE data[k]]
        /\ answer' = [method |-> method.string, url |-> url.string,
                      service |-> IF url.found THEN CreateService(url.string) ELSE Unparsed]
  /\ UNCHANGED <<vars, pc, sent, stream, position, last_line_start, content_data, content_size>>

RequestsNext == Registration \/ ReceiveRequest \/ ServeRequest

RequestsSpec == RequestsInit /\ [][RequestsNext]_requestVars

\* The network delivers what was sent and the task runs; whether the client
\* closes the connection or sends another request is up to it.
ReadOn == ReceiveRequest /\ Reader!ReadStep
FairRequests ==
  RequestsSpec /\ WF_requestVars(ReadOn) /\ WF_requestVars(ServeRequest)

-----------------------------------------------------------------------------
(* What clients are expected to send.                                      *)

\* Where the lines of a head end, and in front of which characters one starts.
Ends(r)   == {p \in 2 .. Len(r.head) : r.head[p - 1] = "r" /\ r.head[p] = "n"}
Starts(r) == {0} \cup Ends(r)

\* The lines in front of the empty one that announce a length.
Announcing(r) == {s \in Starts(r) : s + 2 < Len(r.head) /\ r.head[s + 1] \in DOMAIN Announces}

\* The head ends with its only empty line and announces the length of the body, if
\* there is one, in which no line ends. A blank each follows the method and the URL.
WellFormed(r) ==
  /\ Len(r.head) \in Ends(r)
  /\ \A p \in Ends(r) : p - 2 \in Starts(r) <=> p = Len(r.head)
  /\ \A s \in Announcing(r) : Announces[r.head[s + 1]] = Len(r.body)
  /\ r.body # <<>> => Announcing(r) # {}
  /\ \A p \in 2 .. Len(r.body) : ~(r.body[p - 1] = "r" /\ r.body[p] = "n")
  /\ r.method # Blank /\ r.url \in Seq(STRING) /\ 3 + Len(r.url) <= Len(r.head)
  /\ r.head[1] = r.method /\ r.head[2] = Blank /\ r.head[3 + Len(r.url)] = Blank
  /\ \A k \in 1 .. Len(r.url) : r.url[k] # Blank /\ r.head[2 + k] = r.url[k]

-----------------------------------------------------------------------------
\* The content of a returned request is found where it is, also after ParseRequest
\* has written into the buffer.
ContentFound == Reader!ContentFound

\* Only a request longer than the buffer is given up for want of room.
FullOnlyWhenTooLong == Reader!FullOnlyWhenTooLong

\* A call never waits for more of a request of which nothing is left: it ends.
RequestReturned == Reader!RequestReturned

\* However its characters came, a request is answered by the best service that is
\* registered for the URL that its own head names, with the method it names.
AnsweredAsAsked ==
  pc = "done" /\ answer # NoAnswer =>
    /\ answer.method = <<sent.method>> /\ answer.url = sent.url
    /\ \E best \in {r \in {service_list[i] : i \in Fitting(sent.url)} :
                      \A i \in Fitting(sent.url) :
                         r = service_list[i] \/ Before(r, service_list[i])} :
         answer.service = best.id
=============================================================================
