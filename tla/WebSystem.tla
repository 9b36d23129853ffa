----------------------------- MODULE WebSystem -----------------------------
(***************************************************************************)
(* The two network servers of the firmware on one UART, as cpp_main builds *)
(* them: the HTTP tasks take the UART lock for a /serial/ service, the     *)
(* port 5000 server uses the UART without it.                              *)
(***************************************************************************)
EXTENDS Webserver, Server

vars == <<webVars, serverVars>>

TypeOK == WebTypeOK /\ ServerTypeOK
Init   == WebInit /\ ServerInit

\* The state of the HTTP server that the port 5000 server cannot touch.
webPrivate == <<acceptLock, backlog, openFds, pc, req, service, response, responses>>

Next ==
  \/ WebNext /\ UNCHANGED serverVars
  \/ ServerNext /\ UNCHANGED webPrivate

Spec == Init /\ [][Next]_vars
=============================================================================
