------------------------------- MODULE Mutex -------------------------------
(***************************************************************************)
(* What the queues of capacity one in wifi_manager.cpp, webserver.cpp and  *)
(* serial_port.cpp are for: sessions of one user at a time.                *)
(***************************************************************************)
CONSTANT Users
VARIABLE holders   \* the users inside a session

Init     == holders = {}
Enter(u) == holders = {} /\ holders' = {u}
Leave(u) == holders = {u} /\ holders' = {}
Next     == \E u \in Users : Enter(u) \/ Leave(u)
Spec     == Init /\ [][Next]_holders
=============================================================================
