-------------------------- MODULE ScanTableProofs --------------------------
(***************************************************************************)
(* What holds of ScanTable for a table of any size, any networks and any   *)
(* buffers.                                                                *)
(*                                                                         *)
(* The sort is the usual argument on bubble sort, in this code's terms:    *)
(* what lies behind `i` is in its final place, and `j` is at the weakest   *)
(* network seen in this pass. Neither loop variable leaves the table, so   *)
(* the 16-bit arithmetic never wraps. After an empty scan it has wrapped   *)
(* from the start: `i` stays where it is until `j` leaves the table, and   *)
(* neither the loops nor the call come to their end.                       *)
(***************************************************************************)
EXTENDS ScanTable, FunctionTheorems, FiniteSetTheorems, SequenceTheorems, TLAPS

Reported == Len(found)

Types ==
  /\ pc \in {"idle", "outer", "inner", "list", "undefined"}
  /\ networks \in [Index -> Networks \cup {Empty}]
  /\ found \in Seq(Networks) /\ Reported <= SCAN_AP_MAX
  /\ i \in Nat /\ j \in Nat /\ k \in Nat /\ size \in Nat
  /\ rows \in Seq([network : Networks, ends : BOOLEAN])

\* The table holds the reported networks in front and nothing behind them.
Filled ==
  Scanned => \A m \in Index : IF m < Reported THEN networks[m] \in Networks ELSE networks[m] = Empty

\* How often network r is in the table, and how often it was reported.
InTable(r)  == {m \in Index : networks[m] = r}
InReport(r) == {m \in DOMAIN found : found[m] = r}
Permuted ==
  Scanned => \A r \in Networks : Cardinality(InTable(r)) = Cardinality(InReport(r))

\* No network in front of m is weaker than the one at m.
Weakest(m) == \A l \in 0 .. m - 1 : networks[l].rssi >= networks[m].rssi

\* The networks behind place b are where they belong.
SortedBehind(b) == \A m \in b + 1 .. Reported - 1 : Weakest(m)

SortInv ==
  /\ Sorting /\ Scanned => i < Reported /\ SortedBehind(i)
  /\ pc = "inner" /\ Scanned => i > 0 /\ j <= i /\ Weakest(j)
  /\ pc \in {"idle", "list"} /\ Scanned => SortedBehind(0)

\* A sort without networks begins with the largest number there is, and stays in its
\* first pass.
EmptyInv ==
  /\ Sorting /\ ~Scanned => i = WORD - 1
  /\ pc = "inner" /\ ~Scanned => j < SCAN_AP_MAX
  /\ pc = "undefined" => ~Scanned

\* The rows listed so far are the first ones of the table.
ListInv ==
  pc = "list" /\ Scanned =>
    /\ k <= SCAN_AP_MAX
    /\ Len(rows) = IF k < Reported THEN k ELSE Reported
    /\ \A n \in 1 .. Len(rows) : rows[n].network = networks[n - 1]

Inv == Types /\ Filled /\ Permuted /\ SortInv /\ EmptyInv /\ ListInv /\ RowsApart

-----------------------------------------------------------------------------
(* Numbers below the modulus are what they are.                            *)
LEMMA Small ==
  ASSUME NEW a \in Nat, a < WORD
  PROVE  a % WORD = a
  BY TableAssumption DEF TableAssumption

(* One below zero is the largest number.                                   *)
LEMMA Wraps == (-1) % WORD = WORD - 1
  BY TableAssumption DEF TableAssumption

(* A network is stronger than the zeroes that memset left are weak.        *)
LEMMA Strength ==
  /\ \A r \in Networks : r.rssi \in Int /\ r.rssi < 0 /\ r # Empty
  /\ Empty.rssi = 0
  BY TableAssumption DEF TableAssumption, Empty

(* The table has finitely many entries.                                    *)
LEMMA IndexFinite == IsFiniteSet(Index)
  BY FS_Interval, TableAssumption DEF TableAssumption, Index

(* Swapping two entries changes no count.                                  *)
LEMMA SwapKeeps ==
  ASSUME NEW T, networks \in [Index -> T], NEW a \in Index, NEW b \in Index, NEW r,
         networks' = [networks EXCEPT ![a] = networks[b], ![b] = networks[a]]
  PROVE  Cardinality(InTable(r)') = Cardinality(InTable(r))
<1> DEFINE G == InTable(r)'
           F == InTable(r)
           h == [x \in G |-> IF x = a THEN b ELSE IF x = b THEN a ELSE x]
<1> USE DEF InTable
<1>1. \A x \in Index : networks'[x] = IF x = b THEN networks[a]
                                      ELSE IF x = a THEN networks[b] ELSE networks[x]
  OBVIOUS
<1>2. h \in [G -> F]
  BY <1>1
<1>3. \A x, y \in G : h[x] = h[y] => x = y
  OBVIOUS
<1>4. \A y \in F : \E x \in G : h[x] = y
  <2> SUFFICES ASSUME NEW y \in F PROVE \E x \in G : h[x] = y
    OBVIOUS
  <2> DEFINE x == IF y = a THEN b ELSE IF y = b THEN a ELSE y
  <2>1. x \in G
    BY <1>1
  <2>2. h[x] = y
    BY <2>1
  <2> QED
    BY <2>1, <2>2
<1>5. h \in Bijection(G, F)
  BY <1>2, <1>3, <1>4 DEF Bijection, Injection, Surjection, IsInjective
<1>6. IsFiniteSet(G)
  BY FS_Subset, IndexFinite
<1> QED
  BY <1>5, <1>6, FS_Bijection DEF ExistsBijection

(* Nothing has been found before the first scan.                           *)
LEMMA InitInv == Init => Inv
<1> SUFFICES ASSUME Init PROVE Inv
  OBVIOUS
<1>1. Types
  BY TableAssumption, EmptySeq DEF TableAssumption, Init, Types, Reported
<1> QED
  BY <1>1 DEF Init, Inv, Filled, Permuted, SortInv, EmptyInv, ListInv, RowsApart, Scanned, Sorting

-----------------------------------------------------------------------------
(* OnScanDone.                                                             *)

(* A scan starts the sort, whether it found a network or not.              *)
LEMMA FillInv ==
  ASSUME Inv, OnScanDone
  PROVE  Inv'
<1> USE TableAssumption DEF TableAssumption
<1> PICK n \in 0 .. SCAN_AP_MAX : \E s \in [1 .. n -> Networks] :
        /\ found' = s
        /\ networks' = [m \in Index |-> IF m < n THEN s[m + 1] ELSE Empty]
        /\ i' = (n - 1) % WORD
  BY DEF OnScanDone
<1>1. PICK s \in [1 .. n -> Networks] :
        /\ found' = s
        /\ networks' = [m \in Index |-> IF m < n THEN s[m + 1] ELSE Empty]
        /\ i' = (n - 1) % WORD
  OBVIOUS
<1>2. n \in Nat /\ n <= SCAN_AP_MAX /\ n < WORD
  OBVIOUS
<1>3. s \in Seq(Networks) /\ Len(s) = n /\ DOMAIN s = 1 .. n
  BY <1>2
<1>4. found' = s /\ Reported' = n /\ (Scanned' <=> n > 0)
  BY <1>1, <1>2, <1>3, EmptySeq DEF Reported, Scanned
<1>5. i' = IF n > 0 THEN n - 1 ELSE WORD - 1
  <2>1. CASE n > 0
    BY <1>1, <1>2, <2>1, Small
  <2>2. CASE n = 0
    BY <1>1, <2>2, Wraps
  <2> QED
    BY <1>2, <2>1, <2>2
<1>6. pc' = "outer" /\ UNCHANGED <<j, k, size, rows>>
  BY DEF OnScanDone, listing
<1>7. \A m \in Index : networks'[m] = IF m < n THEN s[m + 1] ELSE Empty
  BY <1>1
<1>8. \A m \in Index : m < n => s[m + 1] \in Networks
  BY <1>2, <1>3 DEF Index
<1>9. Types'
  BY <1>1, <1>2, <1>3, <1>4, <1>5, <1>6, <1>8 DEF Inv, Types
<1>10. Filled'
  BY <1>4, <1>7, <1>8 DEF Filled
<1>11. Permuted'
  <2> SUFFICES ASSUME NEW r \in Networks
               PROVE  Cardinality(InTable(r)') = Cardinality(InReport(r)')
    BY DEF Permuted
  <2> DEFINE T == InTable(r)'
             R == InReport(r)'
             h == [m \in T |-> m + 1]
  <2>1. T = {m \in Index : networks'[m] = r} /\ R = {m \in 1 .. n : s[m] = r}
    BY <1>3, <1>4 DEF InTable, InReport
  <2>2. \A m \in T : m \in 0 .. n - 1 /\ s[m + 1] = r
    <3> SUFFICES ASSUME NEW m \in T PROVE m \in 0 .. n - 1 /\ s[m + 1] = r
      OBVIOUS
    <3>1. m \in Index /\ networks'[m] = r /\ r # Empty
      BY <2>1, Strength
    <3>2. m < n
      BY <1>7, <3>1
    <3> QED
      BY <1>2, <1>7, <3>1, <3>2 DEF Index
  <2>3. h \in [T -> R]
    <3> SUFFICES ASSUME NEW m \in T PROVE m + 1 \in R
      OBVIOUS
    <3>1. m \in 0 .. n - 1 /\ s[m + 1] = r
      BY <2>2
    <3>2. m + 1 \in 1 .. n
      BY <1>2, <3>1
    <3> QED
      BY <2>1, <3>1, <3>2
  <2>4. \A x, y \in T : h[x] = h[y] => x = y
    BY <2>2
  <2>5. \A y \in R : \E x \in T : h[x] = y
    <3> SUFFICES ASSUME NEW y \in R PROVE \E x \in T : h[x] = y
      OBVIOUS
    <3>1. y \in 1 .. n /\ s[y] = r
      BY <2>1
    <3>2. y - 1 \in Index /\ y - 1 < n /\ y - 1 + 1 = y
      BY <1>2, <3>1 DEF Index
    <3>3. networks'[y - 1] = s[y]
      BY <1>7, <3>2
    <3>4. y - 1 \in T
      BY <2>1, <3>1, <3>2, <3>3
    <3>5. h[y - 1] = y
      BY <3>2, <3>4
    <3> QED
      BY <3>4, <3>5
  <2>6. h \in Bijection(T, R)
    BY <2>3, <2>4, <2>5 DEF Bijection, Injection, Surjection, IsInjective
  <2>7. IsFiniteSet(T)
    BY <2>1, IndexFinite, FS_Subset
  <2> QED
    BY <2>6, <2>7, FS_Bijection DEF ExistsBijection
<1>12. SortInv' /\ EmptyInv'
  BY <1>2, <1>4, <1>5, <1>6 DEF SortInv, EmptyInv, SortedBehind, Sorting
<1>13. ListInv' /\ RowsApart'
  BY <1>6 DEF Inv, ListInv, RowsApart
<1> QED
  BY <1>9, <1>10, <1>11, <1>12, <1>13 DEF Inv

-----------------------------------------------------------------------------
(* The sort.                                                               *)

(* The signal strengths of the reported networks are numbers.              *)
LEMMA RssiInt ==
  ASSUME Types, NEW m \in Index
  PROVE  networks[m].rssi \in Int
<1>1. networks[m] \in Networks \cup {Empty}
  BY DEF Types
<1> QED
  BY <1>1, Strength

(* Steps that leave the table alone.                                       *)
LEMMA TableKept ==
  ASSUME Types, Filled, Permuted, UNCHANGED table
  PROVE  Filled' /\ Permuted' /\ (Scanned' <=> Scanned) /\ Reported' = Reported
         /\ \A b : SortedBehind(b)' <=> SortedBehind(b)
  BY DEF table, Filled, Permuted, Scanned, Reported, InTable, InReport, SortedBehind, Weakest

(* A step of the sort keeps the invariant of a bubble sort.                *)
LEMMA PassInv ==
  ASSUME Inv, Pass
  PROVE  Inv'
<1> USE DEF Inv
<1>1. UNCHANGED <<networks, found, i, k, size, rows>>
  BY DEF Pass, table, listing
<1>2. Types' /\ Filled' /\ Permuted'
  BY <1>1, TableKept DEF Types, Pass, Reported, table
<1>3. ASSUME Scanned PROVE SortInv'
  <2>1. i < Reported /\ SortedBehind(i)
    BY <1>3 DEF Pass, SortInv, Sorting
  <2>2. SortedBehind(i)' /\ Scanned' /\ i' < Reported'
    BY <1>1, <1>3, <2>1 DEF SortedBehind, Weakest, Reported, Scanned
  <2>3. CASE i > 0
    <3>1. pc' = "inner" /\ j' = 0
      BY <2>3 DEF Pass
    <3>2. Weakest(0)'
      BY DEF Weakest
    <3> QED
      BY <1>1, <2>2, <2>3, <3>1, <3>2 DEF SortInv, Types
  <2>4. CASE i = 0
    BY <1>1, <2>2, <2>4 DEF SortInv, Pass
  <2> QED
    BY <2>3, <2>4 DEF Types
<1>4. SortInv'
  BY <1>1, <1>3 DEF SortInv, Scanned
<1>5. ASSUME ~Scanned PROVE i > 0 /\ pc' = "inner" /\ j' = 0
  BY <1>5, TableAssumption DEF TableAssumption, EmptyInv, Pass, Sorting
<1>6. EmptyInv'
  BY <1>1, <1>5, TableAssumption DEF TableAssumption, EmptyInv, Pass, Sorting, Scanned
<1>7. ListInv' /\ RowsApart'
  BY <1>1 DEF ListInv, RowsApart, Pass
<1> QED
  BY <1>2, <1>4, <1>6, <1>7

(* A comparison: what is behind i stays, and the weaker of the two moves   *)
(* on, so that j + 1 is now at the weakest seen.                           *)
LEMMA CompareScanned ==
  ASSUME Inv, Compare, Scanned
  PROVE  Inv'
<1> USE TableAssumption DEF TableAssumption, Inv
<1> DEFINE a == networks[j]
           b == networks[j + 1]
<1>1. /\ pc = "inner" /\ j < i /\ UNCHANGED <<found, i, k, size, rows>>
      /\ Scanned /\ i < Reported /\ SortedBehind(i) /\ Weakest(j)
  BY DEF Compare, listing, SortInv, Sorting
<1>2. j \in Nat /\ i \in Nat /\ Reported \in Nat /\ Reported <= SCAN_AP_MAX
  BY LenProperties DEF Types, Reported
<1>3. j \in Index /\ j + 1 \in Index /\ j + 1 < Reported
  BY <1>1, <1>2 DEF Index
<1>4. pc' = "inner" /\ j' = j + 1
  <2>1. j + 1 < WORD
    BY <1>1, <1>2
  <2>2. (j + 1) % WORD = j + 1
    BY <1>2, <2>1, Small
  <2> QED
    BY <1>3, <2>2 DEF Compare
<1>5. \/ networks' = networks /\ a.rssi >= b.rssi
      \/ networks' = [networks EXCEPT ![j] = b, ![j + 1] = a] /\ a.rssi < b.rssi
  BY <1>3, RssiInt DEF Compare
<1>6. a \in Networks /\ b \in Networks
  BY <1>1, <1>2, <1>3 DEF Filled
<1>7. networks = [m \in Index |-> networks[m]]
  BY DEF Types
<1>8. \A m \in Index : networks'[m] \in {networks[m], a, b}
                       /\ (m \notin {j, j + 1} => networks'[m] = networks[m])
  BY <1>2, <1>3, <1>5, <1>7
<1>9. /\ networks'[j].rssi >= networks'[j + 1].rssi
      /\ networks'[j + 1].rssi <= a.rssi
      /\ networks'[j + 1] \in {a, b} /\ networks'[j] \in {a, b}
      /\ networks'[j + 1].rssi \in Int /\ networks'[j].rssi \in Int
  BY <1>2, <1>3, <1>5, <1>6, <1>7, Strength
<1>10. networks' \in [Index -> Networks \cup {Empty}]
  BY <1>3, <1>5, <1>6 DEF Types
<1>11. Types'
  BY <1>1, <1>2, <1>4, <1>10 DEF Types, Reported
<1>12. Filled'
  BY <1>1, <1>2, <1>3, <1>6, <1>8, SMTT(30) DEF Filled, Reported, Scanned
<1>13. Permuted'
  <2> SUFFICES ASSUME NEW r \in Networks
               PROVE  Cardinality(InTable(r)') = Cardinality(InReport(r)')
    BY DEF Permuted
  <2>1. Cardinality(InTable(r)) = Cardinality(InReport(r)) /\ InReport(r)' = InReport(r)
    BY <1>1 DEF Permuted, InReport
  <2>2. CASE networks' = networks
    BY <2>1, <2>2 DEF InTable
  <2>3. CASE networks' = [networks EXCEPT ![j] = b, ![j + 1] = a]
    BY <1>3, <2>1, <2>3, SwapKeeps DEF Types
  <2> QED
    BY <1>5, <2>2, <2>3
<1>14. Weakest(j)'
  <2> SUFFICES ASSUME NEW l \in 0 .. (j + 1) - 1
               PROVE  networks'[l].rssi >= networks'[j + 1].rssi
    BY <1>4 DEF Weakest
  <2>1. CASE l = j
    BY <1>9, <2>1
  <2>2. CASE l # j
    <3>1. l \in 0 .. j - 1 /\ l \in Index /\ l \notin {j, j + 1}
      BY <1>2, <1>3, <2>2 DEF Index
    <3>2. networks[l].rssi >= a.rssi /\ networks'[l] = networks[l]
      BY <1>1, <1>8, <3>1 DEF Weakest
    <3>3. networks[l].rssi \in Int /\ a.rssi \in Int
      BY <1>3, <3>1, RssiInt
    <3> QED
      BY <1>9, <3>2, <3>3
  <2> QED
    BY <2>1, <2>2
<1>15. SortedBehind(i)'
  <2> SUFFICES ASSUME NEW m \in i + 1 .. Reported - 1, NEW l \in 0 .. m - 1
               PROVE  networks'[l].rssi >= networks'[m].rssi
    BY <1>1 DEF SortedBehind, Weakest, Reported
  <2>1. m \in Index /\ l \in Index /\ m \notin {j, j + 1} /\ j \in 0 .. m - 1 /\ j + 1 \in 0 .. m - 1
    BY <1>1, <1>2, <1>3 DEF Index
  <2>2. \A q \in 0 .. m - 1 : networks[q].rssi >= networks[m].rssi
    BY <1>1 DEF SortedBehind, Weakest
  <2>3. networks'[m] = networks[m]
    BY <1>8, <2>1
  <2>4. networks'[l] \in {networks[l], a, b}
    BY <1>8, <2>1
  <2> QED
    BY <2>1, <2>2, <2>3, <2>4
<1>16. SortInv'
  BY <1>1, <1>2, <1>4, <1>14, <1>15 DEF SortInv, Reported, Scanned, Sorting
<1>17. EmptyInv' /\ ListInv' /\ RowsApart'
  BY <1>1, <1>4 DEF EmptyInv, ListInv, RowsApart, Scanned
<1> QED
  BY <1>11, <1>12, <1>13, <1>16, <1>17

(* A comparison after an empty scan: `j` goes on to the end of the table,  *)
(* and then past it.                                                       *)
LEMMA CompareEmpty ==
  ASSUME Inv, Compare, ~Scanned
  PROVE  Inv'
<1> USE TableAssumption DEF TableAssumption, Inv
<1>1. /\ pc = "inner" /\ UNCHANGED <<found, i, k, size, rows>>
      /\ i = WORD - 1 /\ j \in Index
  BY DEF Compare, listing, EmptyInv, Sorting, Types, Index
<1>2. \/ pc' = "undefined" /\ UNCHANGED <<j, networks>>
      \/ /\ pc' = "inner" /\ j + 1 \in Index /\ j' = j + 1
         /\ networks' \in [Index -> Networks \cup {Empty}]
  <2>1. CASE j + 1 \in Index
    <3>1. (j + 1) % WORD = j + 1
      BY <1>1, <2>1, Small DEF Index
    <3>2. networks[j] \in Networks \cup {Empty} /\ networks[j + 1] \in Networks \cup {Empty}
      BY <1>1, <2>1 DEF Types
    <3> QED
      BY <1>1, <2>1, <3>1, <3>2 DEF Compare, Types
  <2>2. CASE j + 1 \notin Index
    BY <2>2 DEF Compare
  <2> QED
    BY <2>1, <2>2
<1>3. ~Scanned' /\ (pc' = "inner" => j' < SCAN_AP_MAX)
  BY <1>1, <1>2 DEF Scanned, Index
<1>4. Types'
  BY <1>1, <1>2 DEF Types, Reported, Index
<1> QED
  BY <1>1, <1>2, <1>3, <1>4 DEF Filled, Permuted, SortInv, EmptyInv, ListInv, RowsApart, Sorting

(* The end of a pass: place i has the weakest of the first i + 1.          *)
LEMMA EndPassInv ==
  ASSUME Inv, EndPass
  PROVE  Inv'
<1> USE TableAssumption DEF TableAssumption, Inv
<1>0. Scanned
  BY DEF EndPass, EmptyInv, Sorting, Types
<1>1. /\ pc = "inner" /\ j >= i /\ UNCHANGED <<networks, found, j, k, size, rows>> /\ pc' = "outer"
      /\ Scanned /\ i < Reported /\ SortedBehind(i) /\ Weakest(j) /\ j <= i
      /\ i' = (i - 1) % WORD
  BY <1>0 DEF EndPass, table, listing, SortInv, Sorting
<1>2. j \in Nat /\ i \in Nat /\ Reported \in Nat /\ Reported <= SCAN_AP_MAX /\ j = i
  BY <1>1, LenProperties DEF Types, Reported
<1>3. i > 0 /\ i < WORD
  BY <1>0, <1>1, <1>2 DEF SortInv
<1>4. i' = i - 1 /\ i' \in Nat
  BY <1>1, <1>2, <1>3, Small
<1>5. Types' /\ Filled' /\ Permuted'
  BY <1>1, <1>4, TableKept DEF Types, Reported, table
<1>6. SortedBehind(i)'
  <2>1. i' + 1 = i /\ Reported' = Reported
    BY <1>1, <1>2, <1>4 DEF Reported
  <2>2. \A m : Weakest(m)' <=> Weakest(m)
    BY <1>1 DEF Weakest
  <2>3. ASSUME NEW m \in i .. Reported - 1 PROVE Weakest(m)
    <3>1. CASE m = i
      BY <1>1, <1>2, <3>1
    <3>2. CASE m # i
      BY <1>1, <1>2, <3>2 DEF SortedBehind
    <3> QED
      BY <3>1, <3>2
  <2> QED
    BY <2>1, <2>2, <2>3 DEF SortedBehind
<1>7. SortInv' /\ EmptyInv' /\ ListInv' /\ RowsApart'
  BY <1>1, <1>2, <1>4, <1>6 DEF SortInv, EmptyInv, ListInv, RowsApart, Scanned, Reported, Sorting
<1> QED
  BY <1>5, <1>7

-----------------------------------------------------------------------------
(* ListNetworks.                                                           *)

(* A row that is printed is that of the next network of the table.         *)
LEMMA RowInv ==
  ASSUME Inv, ListRow
  PROVE  Inv'
<1> USE TableAssumption DEF TableAssumption, Inv
<1> DEFINE row == networks[k]
<1>1. pc = "list" /\ k < SCAN_AP_MAX /\ k' = k + 1 /\ UNCHANGED <<networks, found, i, j>>
  BY DEF ListRow, table, sort
<1>2. k \in Index /\ k \in Nat /\ Reported \in Nat /\ Reported <= SCAN_AP_MAX
  BY <1>1, LenProperties DEF Types, Index, Reported
<1>3. \/ row.rssi = 0 /\ pc' = "list" /\ UNCHANGED <<size, rows>>
      \/ pc' = "idle" /\ UNCHANGED <<size, rows>>
      \/ /\ row.rssi # 0 /\ pc' = "list" /\ row.width <= size /\ size' = size - row.width
         /\ \E b \in BOOLEAN : /\ b \/ row.width >= size
                              /\ rows' = Append(rows, [network |-> row, ends |-> b])
  <2>1. CASE row.rssi = 0
    BY <1>1, <2>1 DEF ListRow
  <2>2. CASE row.rssi # 0 /\ row.width <= size
    <3> DEFINE b == row.width < size
    <3>1. /\ pc' = "list" /\ size' = size - row.width
          /\ rows' = Append(rows, [network |-> row, ends |-> b])
      BY <1>1, <2>2 DEF ListRow
    <3>2. b \in BOOLEAN
      OBVIOUS
    <3>3. b \/ row.width >= size
      <4>1. row \in Networks
        BY <1>2, <2>2, Strength DEF Types
      <4> QED
        BY <4>1 DEF Types
    <3> HIDE DEF b
    <3> QED
      BY <2>2, <3>1, <3>2, <3>3, Zenon
  <2>3. CASE row.rssi # 0 /\ ~(row.width <= size)
    BY <1>1, <2>3 DEF ListRow
  <2> QED
    BY <2>1, <2>2, <2>3
<1>4. row.rssi # 0 => row \in Networks
  BY <1>2, Strength DEF Types
<1>5. rows' \in Seq([network : Networks, ends : BOOLEAN])
  <2>1. CASE rows' = rows
    BY <2>1 DEF Types
  <2>2. ASSUME NEW b \in BOOLEAN, row.rssi # 0, rows' = Append(rows, [network |-> row, ends |-> b])
        PROVE  rows' \in Seq([network : Networks, ends : BOOLEAN])
    BY <1>4, <2>2, AppendProperties DEF Types
  <2> QED
    BY <1>3, <2>1, <2>2
<1>6. Types' /\ Filled' /\ Permuted'
  <2>1. size' \in Nat
    BY <1>3, <1>4 DEF Types
  <2> QED
    BY <1>1, <1>2, <1>3, <1>5, <2>1, TableKept DEF Types, Reported, table
<1>7. SortInv' /\ EmptyInv'
  BY <1>1, <1>3 DEF SortInv, EmptyInv, Scanned, SortedBehind, Weakest, Reported, Sorting
<1>8. ASSUME pc' = "list", Scanned PROVE ListInv'
  <2>1. /\ Len(rows) = IF k < Reported THEN k ELSE Reported
        /\ \A n \in 1 .. Len(rows) : rows[n].network = networks[n - 1]
    BY <1>1, <1>8 DEF ListInv
  <2>2. CASE k < Reported
    <3>1. row.rssi # 0
      BY <1>2, <1>8, <2>2, Strength DEF Filled
    <3>2. PICK b \in BOOLEAN : rows' = Append(rows, [network |-> row, ends |-> b])
      BY <1>3, <1>8, <3>1
    <3>3. [network |-> row, ends |-> b] \in [network : Networks, ends : BOOLEAN]
      BY <1>4, <3>1
    <3>4. /\ Len(rows') = k + 1
          /\ \A n \in 1 .. k : rows'[n] = rows[n]
          /\ rows'[k + 1] = [network |-> row, ends |-> b]
      BY <2>1, <2>2, <3>2, <3>3, AppendProperties DEF Types
    <3>5. \A n \in 1 .. k + 1 : rows'[n].network = networks[n - 1]
      BY <1>2, <2>1, <2>2, <3>4
    <3>6. k' <= SCAN_AP_MAX /\ Len(rows') = IF k' < Reported' THEN k' ELSE Reported'
      BY <1>1, <1>2, <2>2, <3>4 DEF Reported
    <3>7. \A n \in 1 .. Len(rows') : rows'[n].network = networks'[n - 1]
      BY <1>1, <3>4, <3>5
    <3> QED
      BY <3>6, <3>7 DEF ListInv
  <2>3. CASE k >= Reported
    <3>1. row.rssi = 0
      BY <1>2, <1>8, <2>3, Strength DEF Filled
    <3>2. rows' = rows
      BY <1>3, <1>8, <3>1
    <3> QED
      BY <1>1, <1>2, <2>1, <2>3, <3>2 DEF ListInv, Reported
  <2> QED
    BY <1>2, <2>2, <2>3
<1>9. ListInv'
  BY <1>1, <1>8 DEF ListInv, Scanned
<1>10. RowsApart'
  <2>1. CASE UNCHANGED <<size, rows>>
    BY <2>1 DEF RowsApart
  <2>2. CASE /\ row.rssi # 0 /\ pc' = "list" /\ row.width <= size /\ size' = size - row.width
             /\ \E b \in BOOLEAN : /\ b \/ row.width >= size
                                  /\ rows' = Append(rows, [network |-> row, ends |-> b])
    <3>1. PICK b \in BOOLEAN : /\ b \/ row.width >= size
                               /\ rows' = Append(rows, [network |-> row, ends |-> b])
      BY <2>2
    <3>2. row.width \in Nat \ {0} /\ size \in Nat
      BY <1>4, <2>2 DEF Types
    <3>3. size > 0 /\ \A n \in 1 .. Len(rows) : rows[n].ends
      BY <2>2, <3>2 DEF RowsApart
    <3>4. [network |-> row, ends |-> b] \in [network : Networks, ends : BOOLEAN]
      BY <1>4, <2>2
    <3>5. /\ Len(rows') = Len(rows) + 1
          /\ \A n \in 1 .. Len(rows) : rows'[n] = rows[n]
          /\ rows'[Len(rows) + 1] = [network |-> row, ends |-> b]
      BY <3>1, <3>4, AppendProperties DEF Types
    <3>6. ~b => size' = 0
      BY <2>2, <3>1, <3>2
    <3>7. Len(rows) \in Nat
      BY LenProperties DEF Types
    <3> SUFFICES ASSUME NEW n \in 1 .. Len(rows'), ~rows'[n].ends
                 PROVE  n = Len(rows') /\ size' = 0
      BY DEF RowsApart
    <3>8. n = Len(rows) + 1
      BY <3>3, <3>5, <3>7
    <3> QED
      BY <3>5, <3>6, <3>8
  <2> QED
    BY <1>3, <2>1, <2>2
<1> QED
  BY <1>6, <1>7, <1>9, <1>10

(* Every step keeps the invariant.                                         *)
LEMMA NextInv ==
  ASSUME Inv, [Next]_vars
  PROVE  Inv'
<1> USE TableAssumption DEF TableAssumption
<1>1. CASE ListNetworks
  <2>1. pc = "idle" /\ pc' = "list" /\ k' = 0 /\ rows' = <<>> /\ UNCHANGED <<networks, found, i, j>>
    BY <1>1 DEF ListNetworks, table, sort
  <2>2. Types' /\ Filled' /\ Permuted'
    BY <1>1, <2>1, TableKept, EmptySeq DEF Inv, Types, Reported, table, ListNetworks
  <2>3. SortInv' /\ EmptyInv'
    BY <2>1 DEF Inv, SortInv, EmptyInv, Scanned, SortedBehind, Weakest, Reported, Sorting
  <2>4. ListInv' /\ RowsApart'
    BY <2>1, EmptySeq, LenProperties DEF Inv, Types, ListInv, RowsApart, Reported
  <2> QED
    BY <2>2, <2>3, <2>4 DEF Inv
<1>2. CASE EndListing
  <2>1. pc = "list" /\ pc' = "idle" /\ UNCHANGED <<networks, found, i, j, k, size, rows>>
    BY <1>2 DEF EndListing, table, sort, listing
  <2>2. Types' /\ Filled' /\ Permuted'
    BY <2>1, TableKept DEF Inv, Types, Reported, table
  <2>3. SortInv' /\ EmptyInv' /\ ListInv' /\ RowsApart'
    BY <2>1 DEF Inv, SortInv, EmptyInv, ListInv, RowsApart, Scanned, SortedBehind, Weakest, Reported,
       Sorting
  <2> QED
    BY <2>2, <2>3 DEF Inv
<1>3. CASE UNCHANGED vars
  BY <1>3 DEF vars, table, sort, listing, Inv, Types, Filled, Permuted, SortInv, EmptyInv,
     ListInv, RowsApart, Scanned, SortedBehind, Weakest, Reported, InTable, InReport, Sorting
<1> QED
  BY <1>1, <1>2, <1>3, FillInv, PassInv, CompareScanned, CompareEmpty, EndPassInv, RowInv
  DEF Next, SortStep

(* The invariant holds in every behaviour.                                 *)
LEMMA InvHolds == Spec => []Inv
  BY InitInv, NextInv, PTL DEF Spec

(* The loops of OnScanDone stay inside the table, and end, whenever the    *)
(* scan found a network; after a scan that found none they do not end, and *)
(* what leaves the table is always the sort of such a scan.                *)
THEOREM LoopsInBounds == Spec => TableLeftIffEmpty
<1>1. Inv /\ [Next]_vars =>
        [Sorting => /\ pc' = "undefined" => ~Scanned
                    /\ pc' = "idle" => Scanned]_vars
  <2> SUFFICES ASSUME Inv, [Next]_vars, Sorting
               PROVE  (pc' = "undefined" => ~Scanned) /\ (pc' = "idle" => Scanned)
    OBVIOUS
  <2>1. Inv' /\ found' = found
    BY NextInv DEF Sorting, Next, SortStep, OnScanDone, Pass, Compare, EndPass, ListNetworks,
       ListRow, EndListing, vars, table
  <2>2. pc' = "undefined" => ~Scanned
    BY <2>1 DEF Inv, EmptyInv, Scanned
  <2>3. ASSUME pc' = "idle" PROVE Scanned
    <3>1. Pass /\ ~(i > 0)
      BY <2>3 DEF Sorting, Next, SortStep, OnScanDone, Pass, Compare, EndPass, ListNetworks,
         ListRow, EndListing, vars
    <3> QED
      BY <3>1, TableAssumption DEF TableAssumption, Inv, EmptyInv
  <2> QED
    BY <2>2, <2>3
<1> QED
  BY <1>1, InvHolds, PTL DEF Spec, TableLeftIffEmpty

(* Between calls the table holds what was reported, each network as often  *)
(* as it was reported, the strongest first.                                *)
THEOREM SortCorrect == Spec => []SortedResult
<1>1. Inv => SortedResult
  <2> SUFFICES ASSUME Inv, pc = "idle", Scanned PROVE SortedResult
    BY DEF SortedResult
  <2>1. \A r \in Networks : Cardinality(InTable(r)) = Cardinality(InReport(r))
    BY DEF Inv, Permuted
  <2>2. ASSUME NEW m \in 1 .. Reported, NEW n \in 1 .. Reported, m < n
        PROVE  networks[m - 1].rssi >= networks[n - 1].rssi
    <3>1. m \in Nat /\ n \in Nat /\ Reported \in Nat
      BY LenProperties DEF Inv, Types, Reported
    <3>2. n - 1 \in 1 .. Reported - 1 /\ m - 1 \in 0 .. (n - 1) - 1
      BY <2>2, <3>1
    <3> QED
      BY <3>2 DEF Inv, SortInv, SortedBehind, Weakest
  <2> QED
    BY <2>1, <2>2 DEF SortedResult, InTable, InReport, Reported
<1> QED
  BY <1>1, InvHolds, PTL

(* Whatever the size of the buffer, the rows of a listing are those of the *)
(* first entries of the sorted table: no weaker network displaces one.     *)
THEOREM ListingCorrect == Spec => []StrongestListed
<1>1. Inv => StrongestListed
  <2> SUFFICES ASSUME Inv, pc = "list", Scanned,  NEW n \in 1 .. Len(rows)
               PROVE  rows[n].network = networks[n - 1]
    BY DEF StrongestListed
  <2> QED
    BY DEF Inv, ListInv
<1> QED
  BY <1>1, InvHolds, PTL

(* A row that lost its newline to the terminator filled the buffer: no row *)
(* is listed behind it that the setup page could take for a part of it.    *)
THEOREM ListedApart == Spec => []RowsApart
<1>1. Inv => RowsApart
  BY DEF Inv
<1> QED
  BY <1>1, InvHolds, PTL
=============================================================================
