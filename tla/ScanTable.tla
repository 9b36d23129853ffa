----------------------------- MODULE ScanTable -----------------------------
(***************************************************************************)
(* The table of networks in main/wifi_manager.cpp: OnScanDone fills it     *)
(* from the driver and bubble-sorts it by signal strength, ListNetworks    *)
(* prints it, strongest first, into a buffer of limited size.              *)
(*                                                                         *)
(* Both run under the manager's lock (module WifiManager), so nothing here *)
(* interleaves. The loop variables of the sort are 16-bit unsigned; a      *)
(* record is its signal strength and the length of its printed row, and an *)
(* entry past the last record is the zeroes that memset left.              *)
(*                                                                         *)
(* A scan may find no network at all. Its sort starts at count - 1 = 65535 *)
(* and leaves the table: what that access does is undefined, and the model *)
(* stops there.                                                            *)
(***************************************************************************)
EXTENDS Integers, Sequences, FiniteSets

CONSTANTS
  SCAN_AP_MAX,  \* entries of the table
  WORD,         \* 2^16, the modulus of uint16_t
  Networks,     \* records the driver may report
  BufferSizes   \* sizes of the buffers ListNetworks is given

ASSUME TableAssumption ==
  /\ SCAN_AP_MAX \in Nat \ {0}
  /\ WORD \in Nat /\ WORD > SCAN_AP_MAX
  /\ Networks \subseteq [rssi : {n \in Int : n < 0}, width : Nat \ {0}]
  /\ BufferSizes \subseteq Nat

VARIABLES
  pc,        \* "idle", in a loop of the sort, in the listing, or past the table
  networks,  \* the table
  found,     \* what the driver reported last
  i, j,      \* loop variables of the sort
  k,         \* loop variable of the listing
  size,      \* room left in the buffer
  count,     \* characters listed so far
  rows       \* ghost: the rows listed, each with what became of its '\n'

table   == <<networks, found>>
sort    == <<i, j>>
listing == <<k, size, count, rows>>
vars    == <<pc, table, sort, listing>>

Index == 0 .. SCAN_AP_MAX - 1
Empty == [rssi |-> 0, width |-> 0]

\* The constructor does not set the table: until the first scan it may hold
\* anything, and ListNetworks prints it all the same.
Init ==
  /\ pc = "idle"
  /\ networks \in [Index -> Networks \cup {Empty}] /\ found = <<>>
  /\ i = 0 /\ j = 0
  /\ k = 0 /\ size = 0 /\ count = 0 /\ rows = <<>>

-----------------------------------------------------------------------------
(* Faulty variants, which only show that the properties notice them.       *)

CompareTooFar ==
  /\ pc = "inner"
  /\ j <= i
  /\ IF j + 1 \in Index
     THEN /\ pc' = "inner" /\ j' = (j + 1) % WORD
          /\ networks' =
               IF networks[j].rssi < networks[j + 1].rssi
               THEN [networks EXCEPT ![j] = networks[j + 1], ![j + 1] = networks[j]]
               ELSE networks
     ELSE pc' = "undefined" /\ UNCHANGED <<j, networks>>
  /\ UNCHANGED <<found, i, listing>>

CompareWithoutTemp ==
  /\ pc = "inner"
  /\ j < i
  /\ IF j + 1 \in Index
     THEN /\ pc' = "inner" /\ j' = (j + 1) % WORD
          /\ networks' =
               IF networks[j].rssi < networks[j + 1].rssi
               THEN [networks EXCEPT ![j] = networks[j + 1]]
               ELSE networks
     ELSE pc' = "undefined" /\ UNCHANGED <<j, networks>>
  /\ UNCHANGED <<found, i, listing>>

ListRowSkips ==
  LET row == networks[k] IN
  /\ pc = "list"
  /\ k < SCAN_AP_MAX
  /\ k' = k + 1
  /\ IF row # Empty /\ row.width <= size
     THEN /\ size' = size - row.width
          /\ count' = count + row.width
          /\ rows' = Append(rows, [network |-> row, ends |-> row.width < size])
     ELSE UNCHANGED <<size, count, rows>>
  /\ UNCHANGED <<pc, table, sort>>

ListRowKeepsSize ==
  LET row == networks[k] IN
  /\ pc = "list"
  /\ k < SCAN_AP_MAX
  /\ k' = k + 1
  /\ IF row.rssi = 0
     THEN UNCHANGED <<pc, count, rows>>
     ELSE IF row.width <= size
          THEN /\ count' = count + row.width
               /\ rows' = Append(rows, [network |-> row, ends |-> row.width < size])
               /\ UNCHANGED pc
          ELSE pc' = "idle" /\ UNCHANGED <<count, rows>>
  /\ UNCHANGED <<table, sort, size>>

-----------------------------------------------------------------------------
(* OnScanDone.                                                             *)

\* The table is cleared and filled; count comes back from the driver, and the
\* outer loop starts at count - 1, computed in an unsigned variable: WORD - 1
\* when nothing was found.
OnScanDone ==
  /\ pc = "idle"
  /\ \E n \in 0 .. SCAN_AP_MAX : \E s \in [1 .. n -> Networks] :
       /\ found' = s
       /\ networks' = [m \in Index |-> IF m < n THEN s[m + 1] ELSE Empty]
       /\ i' = (n - 1) % WORD
  /\ pc' = "outer"
  /\ UNCHANGED <<j, listing>>

\* The test of the outer loop.
Pass ==
  /\ pc = "outer"
  /\ IF i > 0
     THEN pc' = "inner" /\ j' = 0
     ELSE pc' = "idle" /\ UNCHANGED j
  /\ UNCHANGED <<table, i, listing>>

\* The inner loop: a comparison and the swap of two neighbours. Past the end
\* of the table it reads and writes the members behind it.
Compare ==
  /\ pc = "inner"
  /\ j < i
  /\ IF j + 1 \in Index
     THEN /\ pc' = "inner" /\ j' = (j + 1) % WORD
          /\ networks' =
               IF networks[j].rssi < networks[j + 1].rssi
               THEN [networks EXCEPT ![j] = networks[j + 1], ![j + 1] = networks[j]]
               ELSE networks
     ELSE pc' = "undefined" /\ UNCHANGED <<j, networks>>
  /\ UNCHANGED <<found, i, listing>>

EndPass ==
  /\ pc = "inner"
  /\ j >= i
  /\ i' = (i - 1) % WORD
  /\ pc' = "outer"
  /\ UNCHANGED <<table, j, listing>>

-----------------------------------------------------------------------------
(* ListNetworks.                                                           *)

ListNetworks ==
  /\ pc = "idle"
  /\ pc' = "list"
  /\ k' = 0 /\ count' = 0 /\ rows' = <<>>
  /\ size' \in BufferSizes
  /\ UNCHANGED <<table, sort>>

\* A row of `width` characters needs one more for the terminator: snprintf
\* ends a row that fills the buffer exactly with NUL in the place of '\n'.
ListRow ==
  LET row == networks[k] IN
  /\ pc = "list"
  /\ k < SCAN_AP_MAX
  /\ k' = k + 1
  /\ IF row.rssi = 0
     THEN UNCHANGED <<pc, size, count, rows>>
     ELSE IF row.width <= size
          THEN /\ size' = size - row.width
               /\ count' = count + row.width
               /\ rows' = Append(rows, [network |-> row, ends |-> row.width < size])
               /\ UNCHANGED pc
          ELSE pc' = "idle" /\ UNCHANGED <<size, count, rows>>
  /\ UNCHANGED <<table, sort>>

EndListing ==
  /\ pc = "list"
  /\ k = SCAN_AP_MAX
  /\ pc' = "idle"
  /\ UNCHANGED <<table, sort, listing>>

-----------------------------------------------------------------------------
SortStep == Pass \/ Compare \/ EndPass

Next ==
  \/ OnScanDone \/ SortStep
  \/ ListNetworks \/ ListRow \/ EndListing

Spec == Init /\ [][Next]_vars

-----------------------------------------------------------------------------
Scanned == found # <<>>
Sorting == pc \in {"outer", "inner"}

\* The loops of OnScanDone leave `networks` after an empty scan and after no other:
\* a sort that reaches past the table has nothing to sort, and one that returns had
\* something. `i`, that starts at count - 1, wraps in the former case only.
TableLeftIffEmpty ==
  [][Sorting => /\ pc' = "undefined" => ~Scanned
                /\ pc' = "idle" => Scanned]_vars

\* After a scan, between two calls, the table holds the records the driver reported, each as
\* often as it was reported, the strongest first (the swaps of OnScanDone).
SortedResult ==
  pc = "idle" /\ Scanned =>
    /\ \A r \in Networks : Cardinality({n \in Index : networks[n] = r})
                             = Cardinality({n \in DOMAIN found : found[n] = r})
    /\ \A m, n \in 1 .. Len(found) : m < n => networks[m - 1].rssi >= networks[n - 1].rssi

\* After a scan no network is listed in front of a stronger one, and none is left out in
\* favour of a weaker one: the rows are the first ones of the table, for any
\* size of the buffer (the break of ListNetworks).
StrongestListed ==
  pc = "list" /\ Scanned =>
    \A n \in 1 .. Len(rows) : rows[n].network = networks[n - 1]

\* A row as long as the room left passes `length <= size` although snprintf has put the
\* terminator over its '\n'. The setup page splits the listing at '\n', so a row that has
\* lost it must be the last one, or two networks would become one: the room it leaves
\* is too small for any other.
RowsApart == \A n \in 1 .. Len(rows) : ~rows[n].ends => n = Len(rows) /\ size = 0
=============================================================================
