---------------------------- MODULE MCScanTable ----------------------------
(* ScanTable with networks of three strengths and rows of two lengths.      *)
EXTENDS ScanTable

MCNetworks == {[rssi |-> -2, width |-> 1], [rssi |-> -1, width |-> 2],
               [rssi |-> -3, width |-> 2]}
=============================================================================
