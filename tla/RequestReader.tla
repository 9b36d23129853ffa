--------------------------- MODULE RequestReader ---------------------------
(***************************************************************************)
(* Webserver::ReceiveRequest of main/webserver.cpp, character by           *)
(* character: recv() delivers a request in segments of any length, the     *)
(* headers are scanned as they come, and the position and the size of the  *)
(* content are worked out on the way.                                      *)
(*                                                                         *)
(* Characters are "r" and "n" for CR and LF, "x" for any other, and the    *)
(* members of Announces, each of which stands for the beginning of a line, *)
(* "Content-Length: " with its number. The client sends a request, waits   *)
(* until it is returned and then may send the next one. The specification  *)
(* is in Requests, with what becomes of a request.                         *)
(***************************************************************************)
EXTENDS Integers, Sequences

CONSTANTS
  Requests,    \* well-formed requests: a head up to its empty line, and a body
  Announces,   \* the Content-Length characters, with the number each announces
  BUFF_SIZE    \* WEB_REQ_BUFF_SIZE, in characters

VARIABLES
  pc,               \* "idle", "recv", "scan", "check", or how the call returned
  sent,             \* ghost: the request being sent
  stream,           \* its characters that have not been received yet
  data,             \* the buffer, as far as recv has filled it
  position,         \* characters scanned, or received as content
  last_line_start,
  content_data,     \* offset of the content, or None
  content_size

None    == -1
Text(r) == r.head \o r.body

Init ==
  /\ pc = "idle"
  /\ sent = (CHOOSE r \in Requests : TRUE)
  /\ stream = <<>> /\ data = <<>>
  /\ position = 0 /\ last_line_start = 0
  /\ content_data = None /\ content_size = 0

\* The client sends a request and the task calls ReceiveRequest.
Start ==
  /\ pc \in {"idle", "done"}
  /\ pc' = "recv"
  /\ sent' \in Requests
  /\ stream' = Text(sent')
  /\ data' = <<>>
  /\ position' = 0 /\ last_line_start' = 0
  /\ content_data' = None /\ content_size' = 0

-----------------------------------------------------------------------------
(* Faulty variants, which only show that the properties notice them.       *)

FullEarly ==
  /\ pc = "recv"
  /\ BUFF_SIZE - position <= 1
  /\ pc' = "full"
  /\ UNCHANGED <<sent, stream, data, position, last_line_start, content_data, content_size>>

CheckHeadersOnly ==
  /\ pc = "check"
  /\ pc' = IF content_data # None THEN "done" ELSE "recv"
  /\ UNCHANGED <<sent, stream, data, position, last_line_start, content_data, content_size>>

CheckOneMore ==
  /\ pc = "check"
  /\ pc' = IF content_data # None /\ position > content_data + content_size
           THEN "done" ELSE "recv"
  /\ UNCHANGED <<sent, stream, data, position, last_line_start, content_data, content_size>>

-----------------------------------------------------------------------------
\* recv() returned `count` characters.
Receive(count) ==
  /\ pc = "recv"
  /\ position + count <= BUFF_SIZE
  /\ data' = data \o SubSeq(stream, 1, count)
  /\ stream' = SubSeq(stream, count + 1, Len(stream))
  /\ IF content_data = None
     THEN pc' = "scan" /\ UNCHANGED position
     ELSE pc' = "check" /\ position' = position + count
  /\ UNCHANGED <<sent, last_line_start, content_data, content_size>>

\* No room is left: the request is given up.
BufferFull ==
  /\ pc = "recv"
  /\ BUFF_SIZE - position <= 0
  /\ pc' = "full"
  /\ UNCHANGED <<sent, stream, data, position, last_line_start, content_data, content_size>>

\* The client closed the connection, or it broke.
ConnectionLost ==
  /\ pc = "recv"
  /\ position < BUFF_SIZE
  /\ pc' = "lost"
  /\ UNCHANGED <<sent, stream, data, position, last_line_start, content_data, content_size>>

\* The two characters in front of position p are CR LF.
LineEnds(p) == p >= 2 /\ data[p - 1] = "r" /\ data[p] = "n"

\* One turn of the loop over a received segment. The loop goes on to the end
\* of the segment after it has found the empty line.
ScanNext ==
  LET p == position + 1
      emptyLine == p - last_line_start = 2
      start == data[last_line_start + 1]
  IN /\ pc = "scan"
     /\ position < Len(data)
     /\ position' = p
     /\ last_line_start' = IF LineEnds(p) THEN p ELSE last_line_start
     /\ content_data' = IF LineEnds(p) /\ emptyLine THEN p ELSE content_data
     /\ content_size' = IF LineEnds(p) /\ ~emptyLine /\ start \in DOMAIN Announces
                        THEN Announces[start] ELSE content_size
     /\ UNCHANGED <<pc, sent, stream, data>>

EndScan ==
  /\ pc = "scan"
  /\ position = Len(data)
  /\ pc' = "check"
  /\ UNCHANGED <<sent, stream, data, position, last_line_start, content_data, content_size>>

Check ==
  /\ pc = "check"
  /\ pc' = IF content_data # None /\ position >= content_data + content_size
           THEN "done" ELSE "recv"
  /\ UNCHANGED <<sent, stream, data, position, last_line_start, content_data, content_size>>

-----------------------------------------------------------------------------
ReceiveSome == \E count \in 1 .. Len(stream) : Receive(count)
ReadStep    == ReceiveSome \/ BufferFull \/ ScanNext \/ EndScan \/ Check

-----------------------------------------------------------------------------
\* However the request was cut into segments, a call that returns it has found
\* its content where it is, with the announced size, and has all of it.
ContentFound ==
  pc = "done" =>
    /\ content_data = Len(sent.head)
    /\ content_size = Len(sent.body)
    /\ \A i \in 1 .. Len(sent.body) :
         content_data + i <= Len(data) /\ data[content_data + i] = sent.body[i]

\* Only a request longer than the buffer is given up for want of room.
FullOnlyWhenTooLong == pc = "full" => Len(Text(sent)) > BUFF_SIZE

\* A call never waits for more of a request of which nothing is left: it ends.
RequestReturned == pc = "recv" ~> pc \in {"done", "full", "lost"}
=============================================================================
