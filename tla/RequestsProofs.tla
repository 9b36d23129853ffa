---------------------------- MODULE RequestsProofs ----------------------------
(***************************************************************************)
(* What holds of the dispatch table for any set of paths and priorities    *)
(* and any number of registrations: the list stays ordered, so the first   *)
(* record that fits a URL is the best one, and one always fits.            *)
(*                                                                         *)
(* What holds of the way of a request for any set of well-formed requests, *)
(* any size of the buffer and any segments that recv() delivers: its       *)
(* content is found where it is, and the service built is the best one for *)
(* the URL that the request itself names.                                  *)
(***************************************************************************)
EXTENDS Requests, Indices, TLAPS, FiniteSetTheorems, SequenceTheorems

(* ------------------------- the dispatch table ---------------------------*)

\* The record that fits every URL stays in the list.
CatchAll == \E i \in 1 .. Len(service_list) : service_list[i].path = <<>>

Inv == TypeOK /\ Ordered /\ CatchAll

-----------------------------------------------------------------------------
(* A record has a priority and a number.                                   *)
LEMMA RecordFields ==
  ASSUME NEW r \in Record
  PROVE  r.priority \in Int /\ r.id \in Nat
  BY DEF Record

(* The loop of RegisterService stops, at the place Position describes.     *)
LEMMA PositionFound ==
  ASSUME NEW list \in Seq(Record), NEW p \in Int
  PROVE  LET k == Position(list, p) IN
         /\ k \in 1 .. Len(list) + 1
         /\ k <= Len(list) => list[k].priority <= p
         /\ \A i \in 1 .. k - 1 : list[i].priority > p
<1> DEFINE n == Len(list)
           S == {k \in 1 .. n + 1 : k = n + 1 \/ list[k].priority <= p}
<1>1. n \in Nat /\ \A i \in 1 .. n : list[i] \in Record
  BY LenProperties, ElementOfSeq
<1>2. n + 1 \in S /\ S \in SUBSET (1 .. n + 1) /\ S # {} /\ n + 1 \in Nat
  BY <1>1
<1> HIDE DEF S
<1>3. PICK m \in S : \A x \in S : m <= x
  BY <1>2, LeastIndex
<1> USE DEF S
<1>4. m \in 1 .. n + 1 /\ (m <= n => list[m].priority <= p)
  BY <1>1, <1>3
<1>5. ASSUME NEW i \in 1 .. m - 1 PROVE list[i].priority > p
  <2>1. i \in 1 .. n /\ i \notin S
    BY <1>1, <1>3, <1>4
  <2>2. list[i].priority \in Int /\ ~ (list[i].priority <= p)
    BY <1>1, <2>1, RecordFields
  <2> QED
    BY <2>2
<1> QED
  BY <1>4, <1>5 DEF Position

-----------------------------------------------------------------------------
(* One element is a sequence.                                              *)
LEMMA SingletonSeq ==
  ASSUME NEW S, NEW e \in S
  PROVE  <<e>> \in Seq(S)
  OBVIOUS

(* The two built-in records are in order, the catch-all last.              *)
LEMMA InitInv == Init => Inv
<1> SUFFICES ASSUME Init PROVE Inv
  OBVIOUS
<1>1. /\ NewRecord(1, <<"/">>, 1) \in Record /\ NewRecord(0, <<>>, 0) \in Record
  <2>1. "/" \in Tokens
    BY FactoryAssumption DEF FactoryAssumption
  <2>2. <<"/">> \in Seq(Tokens) /\ <<>> \in Seq(Tokens)
    BY <2>1, SingletonSeq, EmptySeq
  <2> QED
    BY <2>2 DEF NewRecord, Record
<1>2. service_list \in Seq(Record) /\ Len(service_list) = 2
  BY <1>1 DEF Init
<1> QED
  BY <1>1, <1>2 DEF Init, Inv, TypeOK, Ordered, CatchAll, Before, NewRecord

(* Every step keeps the invariant of the list.                             *)
LEMMA NextInv == Inv /\ [Next]_vars => Inv'
<1> SUFFICES ASSUME Inv, [Next]_vars PROVE Inv'
  OBVIOUS
<1>1. CASE UNCHANGED vars
  BY <1>1 DEF vars, Inv, TypeOK, Ordered, CatchAll
<1>2. ASSUME NEW p \in Priorities, NEW path \in Paths, RegisterService(p, path)
      PROVE  Inv'
  <2> DEFINE list == service_list
             n == Len(list)
             k == Position(list, p)
             r == NewRecord(p, path, registered)
  <2>1. /\ list \in Seq(Record) /\ n \in Nat /\ \A i \in 1 .. n : list[i] \in Record
        /\ registered \in Nat
    BY LenProperties, ElementOfSeq DEF Inv, TypeOK
  <2>2. r \in Record /\ r.priority = p /\ r.id = registered /\ p \in Int
    BY <2>1, FactoryAssumption DEF FactoryAssumption, NewRecord, Record
  <2>3. /\ k \in 1 .. n + 1
        /\ k <= n => list[k].priority <= p
        /\ \A i \in 1 .. k - 1 : list[i].priority > p
    BY <2>1, <2>2, PositionFound
  <2> HIDE DEF k, r
  <2>4. /\ service_list' = [i \in 1 .. n + 1 |->
                              IF i < k THEN list[i] ELSE IF i = k THEN r ELSE list[i - 1]]
        /\ registered' = registered + 1
    BY <1>2 DEF RegisterService, Inserted, k, r
  <2>5. /\ service_list' \in Seq(Record) /\ Len(service_list') = n + 1
        /\ \A i \in 1 .. n + 1 : /\ i < k => service_list'[i] = list[i] /\ i \in 1 .. n
                                 /\ i = k => service_list'[i] = r
                                 /\ i > k => service_list'[i] = list[i - 1] /\ i - 1 \in 1 .. n
    BY <2>1, <2>2, <2>3, <2>4
  <2>6. TypeOK'
    <3>1. ASSUME NEW i \in 1 .. n + 1 PROVE service_list'[i].id < registered + 1
      <4>1. \A m \in 1 .. n : list[m].id < registered /\ list[m].id \in Nat
        BY <2>1, RecordFields DEF Inv, TypeOK
      <4>2. service_list'[i] = r \/ \E m \in 1 .. n : service_list'[i] = list[m]
        BY <2>3, <2>5
      <4> QED
        BY <2>1, <2>2, <4>1, <4>2
    <3> QED
      BY <2>1, <2>4, <2>5, <3>1 DEF TypeOK
  <2>7. Ordered'
    <3> SUFFICES ASSUME NEW i \in 1 .. n + 1, NEW j \in 1 .. n + 1, i < j
                 PROVE  Before(service_list'[i], service_list'[j])
      BY <2>5 DEF Ordered, Before
    <3>1. \A a, b \in 1 .. n : a < b => Before(list[a], list[b])
      BY DEF Inv, Ordered
    <3>2. CASE j < k \/ i > k \/ (i < k /\ j > k)
      <4>1. CASE j < k
        BY <2>3, <2>5, <3>1, <4>1
      <4>2. CASE i > k
        <5>1. /\ i - 1 \in 1 .. n /\ j - 1 \in 1 .. n /\ i - 1 < j - 1
              /\ service_list'[i] = list[i - 1] /\ service_list'[j] = list[j - 1]
          BY <2>1, <2>3, <2>5, <4>2
        <5> QED
          BY <3>1, <5>1
      <4>3. CASE i < k /\ j > k
        <5>1. i < j - 1
          BY <2>3, <4>3
        <5> QED
          BY <2>5, <3>1, <4>3, <5>1
      <4> QED
        BY <3>2, <4>1, <4>2, <4>3
    <3>3. CASE j = k
      BY <2>2, <2>3, <2>5, <3>3 DEF Before
    <3>4. CASE i = k
      <4> DEFINE m == j - 1
      <4>1. m \in 1 .. n /\ k <= n /\ k <= m /\ service_list'[j] = list[m]
        BY <2>1, <2>3, <2>5, <3>4
      <4>2. list[m].priority \in Int /\ list[k].priority \in Int /\ list[m].id \in Nat
        BY <2>1, <2>3, <4>1, RecordFields
      <4>3. list[m].priority <= list[k].priority
        BY <2>3, <3>1, <4>1, <4>2 DEF Before
      <4>4. list[m].priority <= p /\ list[m].id < registered
        BY <2>2, <2>3, <4>1, <4>2, <4>3 DEF Inv, TypeOK
      <4>5. service_list'[i] = r
        BY <2>5, <3>4
      <4>6. p > list[m].priority \/ (p = list[m].priority /\ registered > list[m].id)
        BY <2>1, <2>2, <4>2, <4>4
      <4>7. Before(r, list[m])
        BY <2>2, <4>6 DEF Before
      <4> QED
        BY <4>1, <4>5, <4>7
    <3> QED
      BY <2>3, <3>2, <3>3, <3>4
  <2>8. CatchAll'
    <3>1. PICK i \in 1 .. n : list[i].path = <<>>
      BY DEF Inv, CatchAll
    <3>2. CASE i < k
      BY <2>1, <2>3, <2>5, <3>1, <3>2 DEF CatchAll
    <3>3. CASE i >= k
      <4>1. i + 1 \in 1 .. n + 1 /\ i + 1 > k /\ (i + 1) - 1 = i
        BY <2>1, <2>3, <3>1, <3>3
      <4> QED
        BY <2>5, <3>1, <4>1 DEF CatchAll
    <3> QED
      BY <2>3, <3>2, <3>3
  <2> QED
    BY <2>6, <2>7, <2>8 DEF Inv
<1> QED
  BY <1>1, <1>2 DEF Next

(* The list holds well-formed records in order of priority, the later of   *)
(* equals first, and the catch-all record is among them.                   *)
THEOREM ListCorrect == Spec => []Inv
  BY InitInv, NextInv, PTL DEF Spec

(* CreateService builds from the record of highest priority that fits the  *)
(* URL, the most recent one among equals.                                  *)
THEOREM BestCreated == Spec => []BestIsCreated
<1>1. Inv => BestIsCreated
  <2> SUFFICES ASSUME Inv, NEW url \in Urls, NEW i \in Fitting(url), IsCreated(url, i),
                      NEW j \in Fitting(url), i # j
               PROVE  Before(service_list[i], service_list[j])
    BY DEF BestIsCreated
  <2>1. i \in 1 .. Len(service_list) /\ j \in 1 .. Len(service_list) /\ i < j
    BY LenProperties DEF IsCreated, Fitting, Inv, TypeOK
  <2> QED
    BY <2>1 DEF Inv, Ordered
<1> QED
  BY <1>1, ListCorrect, PTL

(* Every URL, whatever has been registered, is given some service other    *)
(* than the fallback Service(500).                                         *)
THEOREM EveryUrlServed == Spec => []AlwaysServed
<1>1. Inv => AlwaysServed
  <2> SUFFICES ASSUME Inv, NEW url \in Urls
               PROVE  \E i \in 1 .. Len(service_list) : IsCreated(url, i)
    BY DEF AlwaysServed
  <2>1. Len(service_list) \in Nat
    BY LenProperties DEF Inv, TypeOK
  <2>2. PICK c \in 1 .. Len(service_list) : service_list[c].path = <<>>
    BY DEF Inv, CatchAll
  <2>3. url \in Seq(Tokens)
    BY FactoryAssumption DEF FactoryAssumption
  <2>4. c \in Fitting(url)
    BY <2>2, <2>3, EmptySeq, LenProperties DEF Fitting, StartsWith
  <2>5. PICK m \in Fitting(url) : \A x \in Fitting(url) : m <= x
    BY <2>1, <2>4, LeastIndex DEF Fitting
  <2> QED
    BY <2>5 DEF IsCreated, Fitting
<1> QED
  BY <1>1, ListCorrect, PTL

-----------------------------------------------------------------------------
(* ------------------------ the way of a request --------------------------*)

\* The characters of a request, and what ParseRequest writes into the buffer.
Chars == STRING \cup {Nul}

HeadLen(r) == Len(r.head)
BodyLen(r) == Len(r.body)
TextLen(r) == HeadLen(r) + BodyLen(r)

\* The characters received and those still to come are those sent; ParseRequest
\* writes into the head only.
Delivered ==
  /\ sent \in Requests /\ data \in Seq(Chars) /\ stream \in Seq(Chars)
  /\ Len(data) + Len(stream) = TextLen(sent)
  /\ \A n \in 1 .. Len(data) :
       data[n] = Reader!Text(sent)[n] \/ (answer # NoAnswer /\ n <= HeadLen(sent))
  /\ \A n \in 1 .. Len(stream) : stream[n] = Reader!Text(sent)[Len(data) + n]

\* Where a call stands; it asks for more only while something is still to come.
Progress ==
  /\ pc \in {"recv", "scan", "check", "full", "lost", "done"}
  /\ position \in Nat /\ position <= Len(data)
  /\ pc # "scan" => position = Len(data)
  /\ pc \in {"recv", "full"} => position < TextLen(sent)
  /\ pc = "full" => position >= BUFF_SIZE
  /\ pc = "done" => content_data = HeadLen(sent) /\ position = TextLen(sent)

\* In front of the empty line: last_line_start is the last start of a line that
\* has been scanned, and a length that was not found is announced after it.
InHead ==
  /\ content_data = Reader!None /\ position < HeadLen(sent)
  /\ last_line_start \in Starts(sent) /\ last_line_start <= position
  /\ \A e \in Ends(sent) : e <= position => e <= last_line_start
  /\ \/ content_size = BodyLen(sent)
     \/ content_size = 0 /\ \A s \in Announcing(sent) : last_line_start <= s

InBody ==
  /\ content_data = HeadLen(sent) /\ HeadLen(sent) <= position
  /\ content_size = BodyLen(sent)

\* The record the answer was built from is the best one for the URL.
Answered ==
  answer # NoAnswer => pc = "done" /\ AnsweredAsAsked

ReadInv == Delivered /\ Progress /\ (InHead \/ InBody) /\ Answered

RequestsInv ==
  /\ Inv
  /\ pc = "idle" => answer = NoAnswer
  /\ pc # "idle" => ReadInv

-----------------------------------------------------------------------------
(* The characters of a request.                                            *)

(* Texts the parser makes are sequences of its characters.                 *)
LEMMA StringsAreChars == Seq(STRING) \subseteq Seq(Chars)
  BY DEF Chars

(* Where the elements of a concatenation come from.                        *)
LEMMA ConcatIndex ==
  ASSUME NEW s \in Seq(Chars), NEW t \in Seq(Chars)
  PROVE  /\ s \o t \in Seq(Chars) /\ Len(s \o t) = Len(s) + Len(t)
         /\ Len(s) \in Nat /\ Len(t) \in Nat
         /\ \A n \in 1 .. Len(s) : (s \o t)[n] = s[n]
         /\ \A n \in 1 .. Len(t) : (s \o t)[Len(s) + n] = t[n]
<1> DEFINE h == Len(s)
           b == Len(t)
<1>1. h \in Nat /\ b \in Nat
  BY LenProperties
<1>2. /\ s \o t \in Seq(Chars) /\ Len(s \o t) = h + b
      /\ \A i \in 1 .. h + b : (s \o t)[i] = IF i <= h THEN s[i] ELSE t[i - h]
  BY ConcatProperties
<1> HIDE DEF h, b
<1>3. \A n \in 1 .. h : (s \o t)[n] = s[n]
  BY <1>1, <1>2
<1>4. ASSUME NEW n \in 1 .. b PROVE (s \o t)[h + n] = t[n]
  <2>1. h + n \in 1 .. h + b /\ ~ (h + n <= h) /\ (h + n) - h = n
    BY <1>1
  <2> QED
    BY <1>2, <2>1
<1> QED
  BY <1>1, <1>2, <1>3, <1>4 DEF h, b

(* The text of a request is its head and then its body.                    *)
LEMMA TextFacts ==
  ASSUME NEW r \in Requests
  PROVE  /\ r.head \in Seq(Chars) /\ r.body \in Seq(Chars)
         /\ HeadLen(r) \in Nat /\ BodyLen(r) \in Nat
         /\ Reader!Text(r) \in Seq(Chars) /\ Len(Reader!Text(r)) = TextLen(r)
         /\ \A n \in 1 .. HeadLen(r) : Reader!Text(r)[n] = r.head[n]
         /\ \A n \in 1 .. BodyLen(r) : Reader!Text(r)[HeadLen(r) + n] = r.body[n]
<1>1. r.head \in Seq(Chars) /\ r.body \in Seq(Chars)
  BY RequestsAssumption, StringsAreChars DEF RequestsAssumption
<1> QED
  BY <1>1, ConcatIndex DEF HeadLen, BodyLen, TextLen, Reader!Text

(* In a well-formed request the lines end where those of the head do.      *)
LEMMA LinesEndInHead ==
  ASSUME NEW r \in Requests, WellFormed(r), NEW p \in 2 .. TextLen(r),
         Reader!Text(r)[p - 1] = "r", Reader!Text(r)[p] = "n"
  PROVE  p \in Ends(r) /\ p <= HeadLen(r)
<1>1. /\ HeadLen(r) \in Nat /\ BodyLen(r) \in Nat
      /\ \A n \in 1 .. HeadLen(r) : Reader!Text(r)[n] = r.head[n]
      /\ \A n \in 1 .. BodyLen(r) : Reader!Text(r)[HeadLen(r) + n] = r.body[n]
  BY TextFacts
<1>2. HeadLen(r) \in 2 .. HeadLen(r) /\ r.head[HeadLen(r)] = "n"
  BY DEF WellFormed, Ends, HeadLen
<1>3. CASE p <= HeadLen(r)
  BY <1>1, <1>3 DEF Ends, HeadLen
<1>4. CASE p = HeadLen(r) + 1
  <2>1. Reader!Text(r)[p - 1] = r.head[HeadLen(r)]
    BY <1>1, <1>2, <1>4
  <2> QED
    BY <1>2, <2>1
<1>5. CASE p > HeadLen(r) + 1
  <2>1. PICK q \in 2 .. BodyLen(r) : p = HeadLen(r) + q
    <3>1. p - HeadLen(r) \in 2 .. BodyLen(r) /\ p = HeadLen(r) + (p - HeadLen(r))
      BY <1>1, <1>5 DEF TextLen
    <3> QED
      BY <3>1
  <2>2. q - 1 \in 1 .. BodyLen(r) /\ q \in 1 .. BodyLen(r) /\ p - 1 = HeadLen(r) + (q - 1)
    BY <1>1, <2>1
  <2>3. r.body[q - 1] = "r" /\ r.body[q] = "n"
    BY <1>1, <2>1, <2>2
  <2> QED
    BY <2>1, <2>3 DEF WellFormed, BodyLen
<1> QED
  BY <1>1, <1>3, <1>4, <1>5 DEF TextLen

-----------------------------------------------------------------------------
(* What ParseRequest cuts out of the buffer.                               *)

(* GetNextString cuts off what stands before the next blank.               *)
LEMMA BlankFound ==
  ASSUME NEW text \in Seq(Chars), NEW from \in Nat \ {0}, NEW end \in from .. Len(text),
         text[end] = Blank, \A i \in from .. end - 1 : text[i] # Blank
  PROVE  NextString(text, from) =
           [found |-> TRUE, string |-> SubSeq(text, from, end - 1), end |-> end]
<1> DEFINE n == Len(text)
           First(k) == text[k] = Blank /\ \A i \in from .. k - 1 : text[i] # Blank
<1>1. n \in Nat /\ from \in Int /\ end \in from .. n
  BY LenProperties
<1>2. First(end)
  OBVIOUS
<1> HIDE DEF n
<1>3. ASSUME NEW k \in from .. n, First(k) PROVE k = end
  <2>1. CASE k < end
    <3>1. k \in from .. end - 1
      BY <1>1, <2>1
    <3> QED
      BY <1>2, <1>3, <3>1
  <2>2. CASE end < k
    <3>1. end \in from .. k - 1
      BY <1>1, <2>2
    <3> QED
      BY <1>2, <1>3, <3>1
  <2>3. k \in Int /\ end \in Int
    BY <1>1
  <2> QED
    BY <2>1, <2>2, <2>3
<1> HIDE DEF First
<1>4. (CHOOSE k \in from .. n : First(k)) = end
  BY <1>1, <1>2, <1>3
<1>5. ~ \A k \in from .. n : text[k] # Blank
  BY <1>1
<1> QED
  BY <1>4, <1>5 DEF NextString, First, n

(* What stands from the third character on is the URL, if the head has it  *)
(* there.                                                                  *)
LEMMA UrlCutOut ==
  ASSUME NEW text \in Seq(Chars), NEW url \in Seq(Chars),
         2 + Len(url) <= Len(text),
         \A k \in 1 .. Len(url) : text[2 + k] = url[k]
  PROVE  SubSeq(text, 3, 2 + Len(url)) = url
<1> DEFINE s == SubSeq(text, 3, 2 + Len(url))
           u == Len(url)
<1>1. u \in Nat /\ Len(text) \in Nat
  BY LenProperties
<1>2. s \in Seq(Chars) /\ Len(s) = u
  <2>1. \A i \in 3 .. 2 + u : text[i] \in Chars
    BY <1>1, ElementOfSeq
  <2>2. /\ s \in Seq(Chars)
        /\ Len(s) = IF 3 <= 2 + u THEN (2 + u) - 3 + 1 ELSE 0
    BY <1>1, <2>1, SubSeqProperties
  <2> HIDE DEF s
  <2> QED
    BY <1>1, <2>2
<1>3. ASSUME NEW k \in 1 .. u PROVE s[k] = url[k]
  <2>1. 3 <= 2 + u /\ k \in 1 .. (2 + u) - 3 + 1 /\ 3 + k - 1 = 2 + k
    BY <1>1
  <2>2. s[k] = text[3 + k - 1]
    BY <1>1, <2>1
  <2> QED
    BY <2>1, <2>2
<1> QED
  BY <1>2, <1>3, SeqEqual

(* The two strings are the method and the URL of the head, and the blanks  *)
(* that are written over lie in the head.                                  *)
LEMMA ParsedAsAsked ==
  ASSUME NEW r \in Requests, WellFormed(r), NEW text \in Seq(Chars),
         Len(text) = TextLen(r),
         \A n \in 1 .. Len(text) : text[n] = Reader!Text(r)[n]
  PROVE  /\ NextString(text, 1) = [found |-> TRUE, string |-> <<r.method>>, end |-> 2]
         /\ NextString(text, 3) =
              [found |-> TRUE, string |-> r.url, end |-> 3 + Len(r.url)]
         /\ 2 <= HeadLen(r) /\ 3 + Len(r.url) <= HeadLen(r)
<1> DEFINE u == Len(r.url)
           h == HeadLen(r)
           n == Len(text)
<1>1. h \in Nat /\ u \in Nat /\ 3 + u <= h /\ n \in Nat /\ h <= n
  <2>1. r.url \in Seq(Chars) /\ 3 + u <= h
    BY StringsAreChars DEF WellFormed, HeadLen
  <2> QED
    BY <2>1, TextFacts, LenProperties DEF TextLen
<1>2. /\ r.head[1] = r.method /\ r.head[2] = Blank /\ r.head[3 + u] = Blank
      /\ r.method # Blank /\ r.url \in Seq(Chars)
      /\ \A k \in 1 .. u : r.url[k] # Blank /\ r.head[2 + k] = r.url[k]
  BY StringsAreChars DEF WellFormed
<1>3. \A i \in 1 .. h : text[i] = r.head[i]
  <2>1. \A i \in 1 .. n : text[i] = Reader!Text(r)[i]
    OBVIOUS
  <2> QED
    BY <1>1, <2>1, TextFacts
<1> HIDE DEF u, h, n
<1>4. /\ 1 \in 1 .. h /\ 2 \in 1 .. h /\ 3 + u \in 1 .. h
      /\ \A k \in 1 .. u : 2 + k \in 1 .. h
  BY <1>1
<1>5. /\ text[1] = r.method /\ text[2] = Blank /\ text[3 + u] = Blank
      /\ \A k \in 1 .. u : text[2 + k] = r.url[k] /\ text[2 + k] # Blank
  BY <1>2, <1>3, <1>4
<1>6. NextString(text, 1) = [found |-> TRUE, string |-> <<r.method>>, end |-> 2]
  <2>1. 2 \in 1 .. Len(text) /\ \A i \in 1 .. 2 - 1 : text[i] # Blank
    <3>1. 2 \in 1 .. Len(text) /\ 1 .. 2 - 1 = {1}
      BY <1>1 DEF n
    <3> QED
      BY <1>2, <1>5, <3>1
  <2>2. NextString(text, 1) =
          [found |-> TRUE, string |-> SubSeq(text, 1, 2 - 1), end |-> 2]
    <3>1. 1 \in Nat \ {0}
      OBVIOUS
    <3> QED
      BY <1>5, <2>1, <3>1, BlankFound
  <2>3. SubSeq(text, 1, 2 - 1) = <<text[1]>>
    <3>1. 2 - 1 = 1 /\ 1 \in 1 .. Len(text) /\ 1 .. 1 = {1}
      BY <1>1 DEF n
    <3>2. SubSeq(text, 1, 1) = [i \in 1 .. 1 |-> text[i]]
      OBVIOUS
    <3>3. Len(<<text[1]>>) = 1 /\ <<text[1]>>[1] = text[1]
      OBVIOUS
    <3>4. <<text[1]>> = [i \in {1} |-> text[i]]
      BY <3>3
    <3> QED
      BY <3>1, <3>2, <3>4
  <2> QED
    BY <1>5, <2>2, <2>3
<1>7. NextString(text, 3) = [found |-> TRUE, string |-> r.url, end |-> 3 + u]
  <2>1. 3 + u \in 3 .. Len(text) /\ (3 + u) - 1 = 2 + u
    BY <1>1 DEF n
  <2>2. ASSUME NEW i \in 3 .. (3 + u) - 1 PROVE text[i] # Blank
    <3>1. i - 2 \in 1 .. u /\ 2 + (i - 2) = i
      BY <1>1
    <3> QED
      BY <1>5, <3>1
  <2>3. NextString(text, 3) =
          [found |-> TRUE, string |-> SubSeq(text, 3, (3 + u) - 1), end |-> 3 + u]
    <3>1. 3 \in Nat \ {0}
      OBVIOUS
    <3> QED
      BY <1>5, <2>1, <2>2, <3>1, BlankFound
  <2>4. SubSeq(text, 3, (3 + u) - 1) = r.url
    <3>1. 2 + u <= n
      BY <1>1
    <3>2. SubSeq(text, 3, 2 + Len(r.url)) = r.url
      BY <1>2, <1>5, <3>1, UrlCutOut DEF u, n
    <3> QED
      BY <2>1, <3>2 DEF u
  <2> QED
    BY <2>3, <2>4
<1> QED
  BY <1>1, <1>6, <1>7 DEF u, h

-----------------------------------------------------------------------------
(* What CreateService builds: the record that fits best, and there is one. *)
LEMMA BestBuilt ==
  ASSUME Inv, NEW url \in Seq(STRING)
  PROVE  \E i \in Fitting(url) :
           /\ CreateService(url) = service_list[i].id /\ service_list[i].id \in Nat
           /\ \A j \in Fitting(url) :
                service_list[i] = service_list[j] \/ Before(service_list[i], service_list[j])
<1> DEFINE n == Len(service_list)
           created == {i \in 1 .. n : IsCreated(url, i)}
<1>1. n \in Nat /\ \A i \in 1 .. n : service_list[i] \in Record
  BY LenProperties, ElementOfSeq DEF Inv, TypeOK
<1>2. PICK c \in 1 .. n : service_list[c].path = <<>>
  BY DEF Inv, CatchAll
<1>3. c \in Fitting(url) /\ Fitting(url) \subseteq 1 .. n
  BY <1>2, EmptySeq, LenProperties DEF Fitting, StartsWith
<1>4. PICK m \in Fitting(url) : \A x \in Fitting(url) : m <= x
  BY <1>1, <1>3, LeastIndex
<1>5. m \in created
  BY <1>3, <1>4 DEF IsCreated
<1>6. \A i \in created : i = m
  BY <1>1, <1>3, <1>4 DEF IsCreated
<1>7. CreateService(url) = service_list[CHOOSE i \in created : TRUE].id
  BY <1>5 DEF CreateService
<1>8. (CHOOSE i \in created : TRUE) = m
  BY <1>5, <1>6
<1>9. ASSUME NEW j \in Fitting(url)
      PROVE  service_list[m] = service_list[j] \/ Before(service_list[m], service_list[j])
  <2>1. m <= j /\ m \in 1 .. n /\ j \in 1 .. n
    BY <1>3, <1>4
  <2> QED
    BY <1>1, <2>1 DEF Inv, Ordered
<1> QED
  BY <1>1, <1>3, <1>7, <1>8, <1>9, RecordFields

-----------------------------------------------------------------------------
(* The steps of a call keep the invariant.                                 *)

(* A step that is not of the dispatch list keeps its invariant.            *)
LEMMA ListUntouched == Inv /\ UNCHANGED vars => Inv'
  BY DEF vars, Inv, TypeOK, Ordered, CatchAll

(* Registering a service happens before any request.                       *)
LEMMA RegistrationKeeps == RequestsInv /\ Registration => RequestsInv'
<1> SUFFICES ASSUME RequestsInv, Registration PROVE RequestsInv'
  OBVIOUS
<1>1. Inv'
  BY NextInv DEF Registration, RequestsInv
<1>2. pc' = "idle" /\ answer' = NoAnswer
  BY DEF Registration, RequestsInv, reader
<1> QED
  BY <1>1, <1>2 DEF RequestsInv, NoAnswer

(* The empty line is far away, and nothing has been found.                 *)
LEMMA StartReads ==
  ASSUME \A r \in Requests : WellFormed(r), RequestsInv, UNCHANGED vars, Reader!Start,
         answer' = NoAnswer
  PROVE  RequestsInv'
<1>1. /\ sent' \in Requests /\ pc' = "recv" /\ data' = <<>>
      /\ stream' = Reader!Text(sent') /\ position' = 0 /\ last_line_start' = 0
      /\ content_data' = Reader!None /\ content_size' = 0
  BY DEF Reader!Start
<1>2. PICK r \in Requests : r = sent'
  BY <1>1
<1>3. /\ HeadLen(r) \in Nat /\ BodyLen(r) \in Nat
      /\ Reader!Text(r) \in Seq(Chars) /\ Len(Reader!Text(r)) = TextLen(r)
  BY TextFacts
<1>4. HeadLen(r) >= 2
  BY <1>2 DEF WellFormed, Ends, HeadLen
<1>5. Delivered'
  <2>1. data' \in Seq(Chars) /\ Len(data') = 0
    BY <1>1, EmptySeq
  <2> HIDE DEF TextLen
  <2>2. Len(data') + Len(stream') = TextLen(r)
    BY <1>1, <1>2, <1>3, <2>1 DEF TextLen
  <2>3. \A n \in 1 .. Len(stream') : Len(data') + n = n
    BY <1>1, <1>2, <1>3, <2>1 DEF TextLen
  <2> QED
    BY <1>1, <1>2, <1>3, <2>1, <2>2, <2>3 DEF Delivered
<1>6. Progress'
  <2>1. Len(data') = 0
    BY <1>1, EmptySeq
  <2> QED
    BY <1>1, <1>2, <1>3, <1>4, <2>1 DEF Progress, TextLen
<1>7. InHead'
  <2>1. \A e \in Ends(r) : e >= 2
    BY DEF Ends
  <2>2. \A s \in Announcing(r) : s >= 0
    BY DEF Announcing, Starts, Ends
  <2>3. 0 \in Starts(r)
    BY DEF Starts
  <2>4. \A e \in Ends(r) : ~ (e <= 0)
    BY DEF Ends
  <2> QED
    BY <1>1, <1>2, <1>3, <1>4, <2>2, <2>3, <2>4 DEF InHead
<1>8. Inv'
  BY ListUntouched DEF RequestsInv
<1> QED
  BY <1>1, <1>5, <1>6, <1>7, <1>8 DEF RequestsInv, ReadInv, Answered, NoAnswer

(* What the steps of a call under way start from and leave to be shown.    *)
LEMMA UnderWay ==
  ASSUME RequestsInv, pc \in {"recv", "scan", "check"}
  PROVE  /\ Inv /\ Delivered /\ Progress /\ (InHead \/ InBody) /\ answer = NoAnswer
         /\ Len(data) \in Nat /\ Len(stream) \in Nat /\ TextLen(sent) \in Nat
         /\ HeadLen(sent) \in Nat /\ BodyLen(sent) \in Nat
         /\ Len(data) <= TextLen(sent)
<1>1. /\ Inv /\ Delivered /\ Progress /\ (InHead \/ InBody) /\ answer = NoAnswer
  BY DEF RequestsInv, ReadInv, Answered
<1>2. Len(data) \in Nat /\ Len(stream) \in Nat /\ Len(data) + Len(stream) = TextLen(sent)
  BY <1>1, LenProperties DEF Delivered
<1>3. HeadLen(sent) \in Nat /\ BodyLen(sent) \in Nat
  BY <1>1, TextFacts DEF Delivered
<1>4. TextLen(sent) \in Nat
  BY <1>3 DEF TextLen
<1> HIDE DEF TextLen
<1>5. Len(data) <= TextLen(sent)
  BY <1>2, <1>4
<1> QED
  BY <1>1, <1>2, <1>3, <1>4, <1>5

(* A step of the reader keeps what is true of a request on its way in.     *)
LEMMA StillUnderWay ==
  ASSUME RequestsInv, pc \in {"recv", "scan", "check"}, UNCHANGED vars, UNCHANGED answer,
         pc' # "idle", Delivered', Progress', InHead' \/ InBody'
  PROVE  RequestsInv'
<1>1. Inv' /\ answer' = NoAnswer
  BY UnderWay, ListUntouched
<1> QED
  BY <1>1 DEF RequestsInv, ReadInv, Answered, NoAnswer

(* A step that takes nothing off the stream keeps what is received.        *)
LEMMA SameText ==
  ASSUME Delivered, UNCHANGED <<sent, stream, data, answer>>
  PROVE  Delivered'
  BY DEF Delivered, TextLen, HeadLen, BodyLen, Reader!Text

(* A step that does not move in the buffer keeps where the scan is.        *)
LEMMA SamePlace ==
  ASSUME UNCHANGED <<sent, position, last_line_start, content_data, content_size>>
  PROVE  (InHead => InHead') /\ (InBody => InBody')
  BY DEF InHead, InBody, HeadLen, BodyLen, Starts, Ends, Announcing

(* A segment continues what has been received, whatever its length.        *)
LEMMA ReceiveReads ==
  ASSUME RequestsInv, UNCHANGED vars, UNCHANGED answer,
         NEW count \in 1 .. Len(stream), Reader!Receive(count)
  PROVE  RequestsInv'
<1> DEFINE d == Len(data)
           m == Len(stream)
           text == Reader!Text(sent)
<1>1. /\ pc = "recv" /\ position + count <= BUFF_SIZE
      /\ data' = data \o SubSeq(stream, 1, count)
      /\ stream' = SubSeq(stream, count + 1, m)
      /\ UNCHANGED <<sent, last_line_start, content_data, content_size>>
  BY DEF Reader!Receive
<1>2. /\ content_data = Reader!None => pc' = "scan" /\ position' = position
      /\ content_data # Reader!None => pc' = "check" /\ position' = position + count
  BY DEF Reader!Receive
<1>3. /\ Delivered /\ Progress /\ (InHead \/ InBody) /\ answer = NoAnswer
      /\ d \in Nat /\ m \in Nat /\ HeadLen(sent) \in Nat /\ BodyLen(sent) \in Nat
      /\ position = d /\ d + m = TextLen(sent)
  BY <1>1, UnderWay DEF Delivered, Progress
<1>4. /\ SubSeq(stream, 1, count) \in Seq(Chars) /\ Len(SubSeq(stream, 1, count)) = count
      /\ \A n \in 1 .. count : SubSeq(stream, 1, count)[n] = stream[n]
  <2>1. \A i \in 1 .. m : stream[i] \in Chars
    BY <1>3, ElementOfSeq DEF Delivered
  <2>2. /\ SubSeq(stream, 1, count) \in Seq(Chars)
        /\ Len(SubSeq(stream, 1, count)) = IF 1 <= count THEN count - 1 + 1 ELSE 0
        /\ \A i \in 1 .. count - 1 + 1 : SubSeq(stream, 1, count)[i] = stream[1 + i - 1]
    <3>1. 1 \in Int /\ count \in Int /\ \A i \in 1 .. count : i \in 1 .. m
      BY <1>3
    <3> QED
      BY <2>1, <3>1, SubSeqProperties
  <2>3. 1 <= count /\ count - 1 + 1 = count /\ \A i \in 1 .. count : 1 + i - 1 = i
    BY <1>3
  <2> QED
    BY <2>2, <2>3
<1>5. /\ stream' \in Seq(Chars) /\ Len(stream') = m - count
      /\ \A n \in 1 .. m - count : stream'[n] = stream[count + n]
  <2>1. \A i \in 1 .. m : stream[i] \in Chars
    BY <1>3, ElementOfSeq DEF Delivered
  <2>2. /\ stream' \in Seq(Chars)
        /\ Len(stream') = IF count + 1 <= m THEN m - (count + 1) + 1 ELSE 0
        /\ \A i \in 1 .. m - (count + 1) + 1 : stream'[i] = stream[count + 1 + i - 1]
    <3>1. m \in Int /\ count + 1 \in Int /\ \A i \in count + 1 .. m : i \in 1 .. m
      BY <1>3
    <3> QED
      BY <1>1, <2>1, <3>1, SubSeqProperties
  <2>3. /\ count <= m /\ m - (count + 1) + 1 = m - count
        /\ \A i \in 1 .. m - count : count + 1 + i - 1 = count + i
    BY <1>3
  <2>4. (IF count + 1 <= m THEN m - (count + 1) + 1 ELSE 0) = m - count
    <3>1. m \in Int /\ count \in Int /\ count <= m
      BY <1>3
    <3> HIDE DEF m
    <3>2. CASE count = m
      BY <3>1, <3>2
    <3>3. CASE count < m
      BY <3>1, <3>3
    <3> QED
      BY <3>1, <3>2, <3>3
  <2> QED
    BY <2>2, <2>3, <2>4
<1>6. /\ data' \in Seq(Chars) /\ Len(data') = d + count
      /\ \A n \in 1 .. d : data'[n] = data[n]
      /\ \A n \in 1 .. count : data'[d + n] = stream[n]
  <2>1. data \in Seq(Chars)
    BY <1>3 DEF Delivered
  <2>2. /\ \A n \in 1 .. count :
             (data \o SubSeq(stream, 1, count))[d + n] = SubSeq(stream, 1, count)[n]
        /\ \A n \in 1 .. d : (data \o SubSeq(stream, 1, count))[n] = data[n]
        /\ data \o SubSeq(stream, 1, count) \in Seq(Chars)
        /\ Len(data \o SubSeq(stream, 1, count)) = d + count
    BY <1>4, <2>1, ConcatIndex
  <2> QED
    BY <1>1, <1>4, <2>2
<1>7. count \in Nat /\ count >= 1 /\ count <= m
  BY <1>3
<1>8. /\ \A n \in 1 .. d : data[n] = text[n]
      /\ \A n \in 1 .. m : stream[n] = text[d + n]
      /\ sent \in Requests
  BY <1>3 DEF Delivered
<1>9. sent' = sent /\ answer' = NoAnswer
  BY <1>1, <1>3
<1> HIDE DEF d, m, text
<1>10. Delivered'
  <2>1. ASSUME NEW n \in 1 .. d + count PROVE data'[n] = text[n]
    <3>1. CASE n <= d
      BY <1>3, <1>6, <1>7, <1>8, <3>1
    <3>2. CASE n > d
      <4>1. n - d \in 1 .. count /\ n - d \in 1 .. m /\ d + (n - d) = n
        BY <1>3, <1>7, <3>2
      <4> QED
        BY <1>6, <1>8, <4>1
    <3> QED
      BY <1>3, <1>7, <3>1, <3>2
  <2>2. ASSUME NEW n \in 1 .. m - count PROVE stream'[n] = text[(d + count) + n]
    <3>1. count + n \in 1 .. m /\ d + (count + n) = (d + count) + n
      BY <1>3, <1>7
    <3> QED
      BY <1>5, <1>8, <3>1
  <2>3. (d + count) + (m - count) = TextLen(sent)
    <3> HIDE DEF TextLen
    <3> QED
      BY <1>3, <1>7
  <2> QED
    BY <1>5, <1>6, <1>8, <1>9, <2>1, <2>2, <2>3 DEF Delivered, text
<1>11. CASE content_data = Reader!None
  <2>1. InHead
    BY <1>3, <1>11 DEF InBody, Reader!None
  <2>2. InHead'
    BY <1>1, <1>2, <1>11, <2>1, SamePlace
  <2>3. Progress'
    BY <1>2, <1>3, <1>6, <1>7, <1>11 DEF Progress
  <2> QED
    BY <1>1, <1>2, <1>10, <1>11, <2>2, <2>3, StillUnderWay
<1>12. CASE content_data # Reader!None
  <2>1. InBody
    BY <1>3, <1>12 DEF InHead
  <2>2. InBody'
    BY <1>1, <1>2, <1>3, <1>7, <1>9, <1>12, <2>1 DEF InBody
  <2>3. Progress'
    BY <1>2, <1>3, <1>6, <1>7, <1>12 DEF Progress
  <2> QED
    BY <1>1, <1>2, <1>10, <1>12, <2>2, <2>3, StillUnderWay
<1> QED
  BY <1>11, <1>12

(* The steps that only move the call on, or end it.                        *)
LEMMA CallMovesOn ==
  ASSUME RequestsInv, UNCHANGED vars, UNCHANGED answer,
         Reader!BufferFull \/ Reader!ConnectionLost \/ Reader!EndScan \/ Reader!Check
  PROVE  RequestsInv'
<1>1. /\ pc \in {"recv", "scan", "check"} /\ pc' # "idle"
      /\ UNCHANGED <<sent, stream, data, position, last_line_start, content_data, content_size>>
  BY DEF Reader!BufferFull, Reader!ConnectionLost, Reader!EndScan, Reader!Check
<1>2. /\ Delivered /\ Progress /\ (InHead \/ InBody)
      /\ Len(data) \in Nat /\ Len(data) <= TextLen(sent)
      /\ HeadLen(sent) \in Nat /\ BodyLen(sent) \in Nat
  BY <1>1, UnderWay
<1>3. Delivered' /\ (InHead' \/ InBody')
  BY <1>1, <1>2, SameText, SamePlace
<1>4. /\ Len(data') = Len(data) /\ TextLen(sent') = TextLen(sent)
      /\ HeadLen(sent') = HeadLen(sent) /\ position' = position
      /\ content_data' = content_data
  BY <1>1
<1>5. Progress'
  <2>1. CASE Reader!BufferFull
    <3>1. pc = "recv" /\ pc' = "full" /\ BUFF_SIZE - position <= 0 /\ BUFF_SIZE \in Nat
      BY <2>1, RequestsAssumption DEF Reader!BufferFull, RequestsAssumption
    <3> QED
      BY <1>2, <1>4, <3>1 DEF Progress
  <2>2. CASE Reader!ConnectionLost
    BY <1>2, <1>4, <2>2 DEF Progress, Reader!ConnectionLost
  <2>3. CASE Reader!EndScan
    BY <1>2, <1>4, <2>3 DEF Progress, Reader!EndScan
  <2>4. CASE Reader!Check
    <3>1. /\ pc = "check" /\ position \in Nat /\ position = Len(data)
          /\ pc' = IF content_data # Reader!None /\ position >= content_data + content_size
                   THEN "done" ELSE "recv"
      BY <1>2, <2>4 DEF Progress, Reader!Check
    <3>2. CASE InHead
      <4>1. content_data = Reader!None /\ position < HeadLen(sent)
        BY <3>2 DEF InHead
      <4>2. pc' = "recv" /\ position < TextLen(sent)
        BY <1>2, <3>1, <4>1 DEF TextLen
      <4> QED
        BY <1>2, <1>4, <3>1, <4>2 DEF Progress
    <3>3. CASE InBody
      <4>1. content_data = HeadLen(sent) /\ content_data + content_size = TextLen(sent)
        BY <3>3 DEF InBody, TextLen
      <4>2. content_data # Reader!None /\ TextLen(sent) \in Nat
        BY <1>2, <4>1 DEF Reader!None, TextLen
      <4> HIDE DEF TextLen
      <4>3. CASE position >= TextLen(sent)
        <5>1. pc' = "done" /\ position = TextLen(sent)
          BY <1>2, <3>1, <4>1, <4>2, <4>3
        <5> QED
          BY <1>2, <1>4, <3>1, <4>1, <5>1 DEF Progress
      <4>4. CASE ~ (position >= TextLen(sent))
        <5>1. pc' = "recv" /\ position < TextLen(sent)
          BY <1>2, <3>1, <4>1, <4>2, <4>4
        <5> QED
          BY <1>2, <1>4, <3>1, <5>1 DEF Progress
      <4> QED
        BY <4>3, <4>4
    <3> QED
      BY <1>2, <3>2, <3>3
  <2> QED
    BY <2>1, <2>2, <2>3, <2>4
<1> QED
  BY <1>1, <1>3, <1>5, StillUnderWay

(* The scan sees a line end just where one of the head does.               *)
LEMMA LineEndsAsSent ==
  ASSUME \A r \in Requests : WellFormed(r), RequestsInv, pc = "scan",
         NEW p \in Nat, p = position + 1, p <= Len(data)
  PROVE  /\ p \in Ends(sent) => p <= HeadLen(sent)
         /\ Reader!LineEnds(p) <=> p \in Ends(sent)
<1>1. /\ Delivered /\ answer = NoAnswer /\ sent \in Requests
      /\ Len(data) \in Nat /\ Len(data) <= TextLen(sent)
      /\ HeadLen(sent) \in Nat /\ BodyLen(sent) \in Nat
  BY UnderWay DEF Delivered
<1>2. \A n \in 1 .. Len(data) : data[n] = Reader!Text(sent)[n]
  BY <1>1 DEF Delivered
<1>3. ASSUME p >= 2
      PROVE  data[p] = Reader!Text(sent)[p] /\ data[p - 1] = Reader!Text(sent)[p - 1]
  <2>1. p \in 1 .. Len(data) /\ p - 1 \in 1 .. Len(data)
    BY <1>1, <1>3
  <2> QED
    BY <1>2, <2>1
<1>4. ASSUME Reader!LineEnds(p) PROVE p \in Ends(sent)
  <2>1. p >= 2 /\ data[p - 1] = "r" /\ data[p] = "n"
    BY <1>4 DEF Reader!LineEnds
  <2>2. p \in 2 .. TextLen(sent)
    <3> HIDE DEF TextLen
    <3>1. TextLen(sent) \in Nat
      BY <1>1, UnderWay
    <3> QED
      BY <1>1, <2>1, <3>1
  <2> QED
    BY <1>1, <1>3, <2>1, <2>2, LinesEndInHead
<1>5. ASSUME p \in Ends(sent) PROVE Reader!LineEnds(p) /\ p <= HeadLen(sent)
  <2>1. /\ p \in 2 .. HeadLen(sent) /\ sent.head[p - 1] = "r" /\ sent.head[p] = "n"
    BY <1>5 DEF Ends, HeadLen
  <2>2. p \in 1 .. HeadLen(sent) /\ p - 1 \in 1 .. HeadLen(sent) /\ p >= 2
    BY <1>1, <2>1
  <2>3. Reader!Text(sent)[p - 1] = "r" /\ Reader!Text(sent)[p] = "n"
    BY <1>1, <2>1, <2>2, TextFacts
  <2> QED
    BY <1>3, <2>2, <2>3 DEF Reader!LineEnds
<1> QED
  BY <1>4, <1>5

(* The scan of the next character: a line, the announcement or the empty   *)
(* line may end there.                                                     *)
LEMMA ScanReads ==
  ASSUME \A r \in Requests : WellFormed(r), RequestsInv,
         UNCHANGED vars, UNCHANGED answer, Reader!ScanNext
  PROVE  RequestsInv'
<1> DEFINE p == position + 1
           h == HeadLen(sent)
           emptyLine == p - last_line_start = 2
           start == data[last_line_start + 1]
<1>1. /\ pc = "scan" /\ position < Len(data) /\ position' = p
      /\ last_line_start' = IF Reader!LineEnds(p) THEN p ELSE last_line_start
      /\ content_data' = IF Reader!LineEnds(p) /\ emptyLine THEN p ELSE content_data
      /\ content_size' = IF Reader!LineEnds(p) /\ ~ emptyLine /\ start \in DOMAIN Announces
                         THEN Announces[start] ELSE content_size
      /\ UNCHANGED <<pc, sent, stream, data>>
  BY DEF Reader!ScanNext
<1>2. /\ Delivered /\ Progress /\ (InHead \/ InBody) /\ answer = NoAnswer
      /\ Len(data) \in Nat /\ Len(data) <= TextLen(sent)
      /\ h \in Nat /\ BodyLen(sent) \in Nat
  BY <1>1, UnderWay
<1>3. position \in Nat /\ p \in Nat /\ p <= Len(data) /\ sent \in Requests
  BY <1>1, <1>2 DEF Progress, Delivered
<1>4. /\ p \in Ends(sent) => p <= h
      /\ Reader!LineEnds(p) <=> p \in Ends(sent)
  BY <1>1, <1>3, LineEndsAsSent
<1>5. Delivered'
  BY <1>1, <1>2, SameText
<1>6. Progress'
  <2>1. pc' = "scan" /\ Len(data') = Len(data) /\ position' = p
    BY <1>1
  <2> QED
    BY <1>3, <2>1 DEF Progress
<1>7. /\ WellFormed(sent) /\ h \in Ends(sent)
      /\ \A e \in Ends(sent) : e \in 2 .. h /\ sent.head[e - 1] = "r" /\ sent.head[e] = "n"
  BY <1>3 DEF WellFormed, Ends, HeadLen
<1>8. /\ HeadLen(sent') = h /\ BodyLen(sent') = BodyLen(sent) /\ Starts(sent') = Starts(sent)
      /\ Ends(sent') = Ends(sent) /\ Announcing(sent') = Announcing(sent)
  BY <1>1
<1> HIDE DEF p, h, emptyLine, start
<1>9. CASE InBody
  <2>1. content_data = h /\ h <= position /\ content_size = BodyLen(sent)
    BY <1>9 DEF InBody, h
  <2>2. ~ Reader!LineEnds(p)
    BY <1>2, <1>3, <1>4, <2>1 DEF p
  <2>3. InBody'
    BY <1>1, <1>2, <1>3, <1>8, <2>1, <2>2 DEF InBody, p
  <2> QED
    BY <1>1, <1>5, <1>6, <2>3, StillUnderWay
<1>10. CASE InHead
  <2> DEFINE l == last_line_start
  <2>1. /\ content_data = Reader!None /\ position < h /\ l \in Starts(sent) /\ l <= position
        /\ \A e \in Ends(sent) : e <= position => e <= l
        /\ \/ content_size = BodyLen(sent)
           \/ content_size = 0 /\ \A s \in Announcing(sent) : l <= s
    BY <1>10 DEF InHead, h
  <2>2. l \in Nat /\ (l = 0 \/ l \in Ends(sent))
    BY <1>7, <2>1 DEF Starts
  <2> HIDE DEF l
  <2>3. CASE ~ Reader!LineEnds(p)
    <3>1. p \notin Ends(sent) /\ p < h
      BY <1>2, <1>3, <1>4, <1>7, <2>1, <2>3 DEF p
    <3>2. \A e \in Ends(sent) : e <= p => e <= l
      <4>1. \A e \in Ends(sent) : e \in Nat
        BY <1>7
      <4> QED
        BY <1>3, <2>1, <3>1, <4>1 DEF p
    <3>3. /\ last_line_start' = l /\ content_data' = Reader!None /\ position' = p
          /\ content_size' = content_size
      BY <1>1, <2>1, <2>3 DEF l
    <3>4. l <= p
      BY <1>3, <2>1, <2>2 DEF p
    <3>5. InHead'
      BY <1>8, <2>1, <3>1, <3>2, <3>3, <3>4 DEF InHead, h
    <3> QED
      BY <1>1, <1>5, <1>6, <3>5, StillUnderWay
  <2>4. CASE Reader!LineEnds(p)
    <3>1. /\ p \in Ends(sent) /\ p \in 2 .. h
          /\ sent.head[p - 1] = "r" /\ sent.head[p] = "n"
      BY <1>4, <1>7, <2>4
    <3>2. l # p - 1
      <4>1. l \in Ends(sent) => sent.head[l] = "n"
        BY <1>7
      <4> QED
        BY <1>3, <2>2, <3>1, <4>1
    <3>3. l + 2 <= p
      BY <1>3, <2>1, <2>2, <3>1, <3>2 DEF p
    \* The line is empty just when it is the last one.
    <3>4. emptyLine <=> p = h
      <4>1. \A e \in Ends(sent) : e - 2 \in Starts(sent) <=> e = h
        BY <1>7 DEF WellFormed, HeadLen, h
      <4>2. ASSUME emptyLine PROVE p = h
        <5>1. p - 2 = l
          BY <1>3, <2>2, <4>2 DEF emptyLine, l
        <5> QED
          BY <2>1, <3>1, <4>1, <5>1
      <4>3. ASSUME p = h PROVE emptyLine
        <5>1. p - 2 \in Starts(sent)
          BY <3>1, <4>1, <4>3
        <5>2. p - 2 = 0 \/ p - 2 \in Ends(sent)
          BY <5>1 DEF Starts
        <5>3. p - 2 <= position /\ p - 2 \in Nat
          BY <1>3, <3>1 DEF p
        <5>4. p - 2 <= l
          BY <2>1, <2>2, <5>2, <5>3
        <5>5. p - 2 = l
          BY <1>3, <2>2, <3>3, <5>4
        <5> QED
          BY <1>3, <2>2, <5>5 DEF emptyLine, l
      <4> QED
        BY <4>2, <4>3
    \* No line starts between the start of this one and its end.
    <3>5. \A s \in Starts(sent) : s \in Nat /\ (l < s => p <= s)
      <4> SUFFICES ASSUME NEW s \in Starts(sent)
                   PROVE  s \in Nat /\ (l < s => p <= s)
        OBVIOUS
      <4>1. s \in Nat /\ (s = 0 \/ s \in Ends(sent))
        BY <1>7 DEF Starts
      <4>2. CASE s <= position
        BY <2>1, <2>2, <4>1, <4>2
      <4>3. CASE position < s
        BY <1>3, <4>1, <4>3 DEF p
      <4> QED
        BY <1>3, <4>1, <4>2, <4>3
    <3>6. Announcing(sent) \subseteq Starts(sent)
      BY DEF Announcing
    <3>7. last_line_start' = p /\ position' = p
      BY <1>1, <2>4
    <3>8. CASE p = h
      <4>1. content_data' = h /\ content_size' = content_size
        BY <1>1, <2>4, <3>4, <3>8
      <4>2. content_size = BodyLen(sent)
        <5>1. CASE content_size = 0 /\ \A s \in Announcing(sent) : l <= s
          <6>1. ASSUME NEW s \in Announcing(sent) PROVE FALSE
            <7>1. s + 2 < h /\ l <= s /\ s \in Nat
              BY <3>5, <3>6, <5>1 DEF Announcing, HeadLen, h
            <7>2. p = l + 2
              BY <1>3, <2>2, <3>4, <3>8 DEF emptyLine, l
            <7> QED
              BY <1>3, <2>2, <3>8, <7>1, <7>2
          <6>2. sent.body = <<>>
            BY <1>7, <6>1 DEF WellFormed
          <6> QED
            BY <5>1, <6>2, EmptySeq DEF BodyLen
        <5> QED
          BY <2>1, <5>1
      <4>3. InBody'
        BY <1>2, <1>8, <3>7, <3>8, <4>1, <4>2 DEF InBody, h
      <4> QED
        BY <1>1, <1>5, <1>6, <4>3, StillUnderWay
    <3>9. CASE p # h
      <4>1. p < h /\ content_data' = Reader!None
        BY <1>1, <1>2, <2>1, <3>1, <3>4, <3>9
      <4>2. start = sent.head[l + 1]
        <5>1. l + 1 \in 1 .. Len(data) /\ l + 1 \in 1 .. h
          BY <1>2, <1>3, <2>2, <3>1, <3>3
        <5>2. data[l + 1] = Reader!Text(sent)[l + 1]
          BY <1>2, <5>1 DEF Delivered
        <5>3. Reader!Text(sent)[l + 1] = sent.head[l + 1]
          BY <1>3, <5>1, TextFacts DEF h
        <5> QED
          BY <5>2, <5>3 DEF start, l
      <4>3. l \in Announcing(sent) <=> start \in DOMAIN Announces
        <5>1. l + 2 < h
          BY <1>2, <1>3, <2>2, <3>3, <4>1
        <5> QED
          BY <2>1, <4>2, <5>1 DEF Announcing, HeadLen, h
      <4>4. \/ content_size' = BodyLen(sent)
            \/ content_size' = 0 /\ \A s \in Announcing(sent) : p <= s
        <5>1. CASE start \in DOMAIN Announces
          <6>1. Announces[start] = BodyLen(sent)
            BY <1>7, <4>2, <4>3, <5>1 DEF WellFormed, BodyLen
          <6> QED
            BY <1>1, <2>4, <3>4, <3>9, <5>1, <6>1
        <5>2. CASE start \notin DOMAIN Announces
          <6>1. content_size' = content_size
            BY <1>1, <5>2
          <6>2. ASSUME \A s \in Announcing(sent) : l <= s
                PROVE  \A s \in Announcing(sent) : p <= s
            <7> SUFFICES ASSUME NEW s \in Announcing(sent) PROVE p <= s
              OBVIOUS
            <7>1. s # l /\ l <= s
              BY <4>3, <5>2, <6>2
            <7>2. s \in Nat /\ (l < s => p <= s)
              BY <3>5, <3>6
            <7> QED
              BY <2>2, <7>1, <7>2
          <6> QED
            BY <2>1, <6>1, <6>2
        <5> QED
          BY <5>1, <5>2
      <4>5. p \in Starts(sent) /\ \A e \in Ends(sent) : e <= p => e <= p
        BY <3>1 DEF Starts
      <4>6. InHead'
        BY <1>3, <1>8, <3>7, <4>1, <4>4, <4>5 DEF InHead, h
      <4> QED
        BY <1>1, <1>5, <1>6, <4>6, StillUnderWay
    <3> QED
      BY <3>8, <3>9
  <2> QED
    BY <2>3, <2>4
<1> QED
  BY <1>2, <1>9, <1>10

(* ParseRequest cuts out what the head names, and the service is the best  *)
(* of those that fit it.                                                   *)
LEMMA ServeKeeps ==
  ASSUME \A r \in Requests : WellFormed(r), RequestsInv, ServeRequest
  PROVE  RequestsInv'
<1> DEFINE method == NextString(data, 1)
           url == NextString(data, method.end + 1)
           Cut(k) == \/ method.found /\ k = method.end
                     \/ url.found /\ k = url.end
           text == Reader!Text(sent)
           n == Len(data)
<1>1. /\ pc = "done" /\ answer = NoAnswer
      /\ data' = [k \in DOMAIN data |-> IF Cut(k) THEN Nul ELSE data[k]]
      /\ answer' = [method |-> method.string, url |-> url.string,
                    service |-> IF url.found THEN CreateService(url.string) ELSE Unparsed]
      /\ UNCHANGED <<pc, sent, stream, position, last_line_start, content_data, content_size>>
      /\ UNCHANGED vars
  BY DEF ServeRequest
<1>2. /\ Inv /\ Delivered /\ Progress /\ (InHead \/ InBody) /\ sent \in Requests
      /\ WellFormed(sent)
  BY <1>1 DEF RequestsInv, ReadInv, Delivered
<1>3. HeadLen(sent) \in Nat /\ BodyLen(sent) \in Nat
  BY <1>2, TextFacts
<1>4. n \in Nat /\ Len(stream) \in Nat /\ n + Len(stream) = TextLen(sent)
  BY <1>2, LenProperties DEF Delivered
<1>5. n = TextLen(sent)
  <2>1. position = TextLen(sent) /\ position <= n
    BY <1>1, <1>2 DEF Progress
  <2>2. TextLen(sent) \in Nat
    BY <1>3 DEF TextLen
  <2> HIDE DEF TextLen, n
  <2> QED
    BY <1>4, <2>1, <2>2
<1>6. data \in Seq(Chars) /\ \A k \in 1 .. n : data[k] = text[k]
  BY <1>1, <1>2 DEF Delivered
<1>7. /\ method = [found |-> TRUE, string |-> <<sent.method>>, end |-> 2]
      /\ NextString(data, 3) =
           [found |-> TRUE, string |-> sent.url, end |-> 3 + Len(sent.url)]
      /\ 2 <= HeadLen(sent) /\ 3 + Len(sent.url) <= HeadLen(sent)
  BY <1>2, <1>5, <1>6, ParsedAsAsked
<1>8. url = [found |-> TRUE, string |-> sent.url, end |-> 3 + Len(sent.url)]
  <2> HIDE DEF method
  <2>1. method.end = 2 /\ 2 + 1 = 3
    BY <1>7
  <2> QED
    BY <1>7, <2>1
<1>9. \A k \in 1 .. n : Cut(k) => k <= HeadLen(sent)
  BY <1>7, <1>8
<1>10. /\ method.string = <<sent.method>> /\ url.string = sent.url /\ url.found
  BY <1>7, <1>8
<1> HIDE DEF method, url, Cut, text
<1>11. answer' = [method |-> <<sent.method>>, url |-> sent.url,
                  service |-> CreateService(sent.url)]
  BY <1>1, <1>10
<1>12. /\ data' \in Seq(Chars) /\ Len(data') = n
       /\ \A k \in 1 .. n : data'[k] = data[k] \/ k <= HeadLen(sent)
  <2>1. DOMAIN data = 1 .. n /\ \A k \in 1 .. n : data[k] \in Chars
    BY <1>4, <1>6, LenProperties, ElementOfSeq
  <2>2. data' = [k \in 1 .. n |-> IF Cut(k) THEN Nul ELSE data[k]]
    BY <1>1, <2>1
  <2> HIDE DEF n
  <2>3. data' \in [1 .. n -> Chars]
    <3>1. \A k \in 1 .. n : (IF Cut(k) THEN Nul ELSE data[k]) \in Chars
      BY <2>1 DEF Chars
    <3> QED
      BY <2>2, <3>1
  <2>4. data' \in Seq(Chars) /\ Len(data') = n
    BY <1>4, <2>3
  <2>5. \A k \in 1 .. n : data'[k] = data[k] \/ k <= HeadLen(sent)
    BY <1>9, <2>2
  <2> QED
    BY <2>4, <2>5
<1>13. PICK i \in Fitting(sent.url) :
          /\ CreateService(sent.url) = service_list[i].id /\ service_list[i].id \in Nat
          /\ \A j \in Fitting(sent.url) : \/ service_list[i] = service_list[j]
                                          \/ Before(service_list[i], service_list[j])
  <2>1. sent.url \in Seq(STRING)
    BY <1>2 DEF WellFormed
  <2> QED
    BY <1>2, <2>1, BestBuilt
<1>14. answer' # NoAnswer
  BY <1>11, <1>13 DEF NoAnswer, NoService
<1>15. Delivered'
  BY <1>1, <1>2, <1>6, <1>12, <1>14 DEF Delivered, text, HeadLen
<1>16. Progress'
  BY <1>1, <1>2, <1>12 DEF Progress
<1>17. InHead' \/ InBody'
  BY <1>1, <1>2, SamePlace
<1>18. Answered'
  <2>1. service_list' = service_list /\ sent' = sent
    BY <1>1 DEF vars
  <2>2. Fitting(sent.url)' = Fitting(sent.url)
    BY <2>1 DEF Fitting
  <2>3. /\ answer'.method = <<sent.method>> /\ answer'.url = sent.url
        /\ answer'.service = service_list[i].id
    BY <1>11, <1>13
  <2> QED
    BY <1>1, <1>13, <2>1, <2>2, <2>3 DEF Answered, AnsweredAsAsked
<1> QED
  BY <1>1, <1>2, <1>15, <1>16, <1>17, <1>18, ListUntouched DEF RequestsInv, ReadInv

-----------------------------------------------------------------------------
(* Nothing has been received at the start.                                 *)
LEMMA RequestsInitInv == RequestsInit => RequestsInv
<1> SUFFICES ASSUME RequestsInit PROVE RequestsInv
  OBVIOUS
<1>1. Init /\ pc = "idle" /\ answer = NoAnswer
  BY DEF RequestsInit, Reader!Init
<1> QED
  BY <1>1, InitInv DEF RequestsInv

(* Every step keeps the invariant.                                         *)
LEMMA RequestsNextInv ==
  ASSUME \A r \in Requests : WellFormed(r), RequestsInv, [RequestsNext]_requestVars
  PROVE  RequestsInv'
<1>1. CASE UNCHANGED requestVars
  <2>1. UNCHANGED vars /\ UNCHANGED reader /\ UNCHANGED answer
    BY <1>1 DEF requestVars
  <2>2. UNCHANGED <<pc, sent, stream, data, position, last_line_start, content_data, content_size>>
    BY <2>1 DEF reader
  <2>3. Inv'
    BY <2>1, ListUntouched DEF RequestsInv
  <2>4. CASE pc = "idle"
    BY <2>1, <2>2, <2>3, <2>4 DEF RequestsInv, NoAnswer
  <2>5. CASE pc # "idle"
    <3>1. Delivered' /\ (InHead' \/ InBody')
      BY <2>1, <2>2, <2>5, SameText, SamePlace DEF RequestsInv, ReadInv
    <3>2. Progress'
      BY <2>2, <2>5 DEF RequestsInv, ReadInv, Progress, HeadLen, BodyLen, TextLen
    <3>3. Answered'
      <4>1. Fitting(sent.url)' = Fitting(sent.url) /\ service_list' = service_list
        BY <2>1, <2>2 DEF Fitting, vars
      <4> QED
        BY <2>1, <2>2, <2>5, <4>1
        DEF RequestsInv, ReadInv, Answered, AnsweredAsAsked, NoAnswer
    <3> QED
      BY <2>2, <2>3, <2>5, <3>1, <3>2, <3>3 DEF RequestsInv, ReadInv
  <2> QED
    BY <2>4, <2>5
<1>2. CASE Registration
  BY <1>2, RegistrationKeeps
<1>3. CASE ReceiveRequest
  <2>1. UNCHANGED vars /\ answer' = IF pc = "done" THEN NoAnswer ELSE answer
    BY <1>3 DEF ReceiveRequest
  <2>2. CASE pc \in {"idle", "done"} /\ Reader!Start
    <3>1. answer' = NoAnswer
      BY <2>1, <2>2 DEF RequestsInv
    <3> QED
      BY <2>1, <2>2, <3>1, StartReads
  <2>3. CASE Reader!ReadStep \/ Reader!ConnectionLost
    <3>1. pc # "done"
      BY <2>3 DEF Reader!ReadStep, Reader!ReceiveSome, Reader!Receive, Reader!BufferFull,
         Reader!ScanNext, Reader!EndScan, Reader!Check, Reader!ConnectionLost
    <3>2. UNCHANGED answer
      BY <2>1, <3>1
    <3>3. CASE Reader!ReceiveSome
      BY <2>1, <3>2, <3>3, ReceiveReads DEF Reader!ReceiveSome
    <3>4. CASE Reader!ScanNext
      BY <2>1, <3>2, <3>4, ScanReads
    <3>5. CASE \/ Reader!BufferFull \/ Reader!ConnectionLost
               \/ Reader!EndScan \/ Reader!Check
      BY <2>1, <3>2, <3>5, CallMovesOn
    <3> QED
      BY <2>3, <3>3, <3>4, <3>5 DEF Reader!ReadStep
  <2> QED
    BY <1>3, <2>2, <2>3 DEF ReceiveRequest
<1>4. CASE ServeRequest
  BY <1>4, ServeKeeps
<1> QED
  BY <1>1, <1>2, <1>3, <1>4 DEF RequestsNext

(* The invariant holds in every behaviour.                                 *)
LEMMA RequestsInvHolds ==
  ASSUME \A r \in Requests : WellFormed(r)
  PROVE  RequestsSpec => []RequestsInv
<1>1. RequestsInv /\ [RequestsNext]_requestVars => RequestsInv'
  BY RequestsNextInv
<1> QED
  BY <1>1, RequestsInitInv, PTL DEF RequestsSpec

(* However a well-formed request is cut into segments, the call that       *)
(* returns it has found its content, of the announced size, where it is;   *)
(* ParseRequest leaves it there.                                           *)
THEOREM ContentIsFound ==
  ASSUME \A r \in Requests : WellFormed(r)
  PROVE  RequestsSpec => []ContentFound
<1>1. RequestsInv => ContentFound
  <2> SUFFICES ASSUME RequestsInv, pc = "done"
               PROVE  /\ content_data = HeadLen(sent) /\ content_size = BodyLen(sent)
                      /\ \A i \in 1 .. BodyLen(sent) :
                           /\ content_data + i <= Len(data)
                           /\ data[content_data + i] = sent.body[i]
    BY DEF ContentFound, Reader!ContentFound, HeadLen, BodyLen
  <2>1. /\ Delivered /\ Progress /\ (InHead \/ InBody) /\ sent \in Requests
        /\ content_data = HeadLen(sent) /\ position = TextLen(sent) /\ position = Len(data)
    BY DEF RequestsInv, ReadInv, Delivered, Progress
  <2>2. HeadLen(sent) \in Nat /\ BodyLen(sent) \in Nat
    BY <2>1, TextFacts
  <2>3. content_size = BodyLen(sent)
    BY <2>1, <2>2 DEF InHead, InBody, Reader!None
  <2>4. ASSUME NEW i \in 1 .. BodyLen(sent)
        PROVE  /\ content_data + i <= Len(data)
               /\ data[content_data + i] = sent.body[i]
    <3>1. /\ HeadLen(sent) + i \in 1 .. Len(data) /\ ~ (HeadLen(sent) + i <= HeadLen(sent))
          /\ HeadLen(sent) + i <= Len(data)
      BY <2>1, <2>2 DEF TextLen
    <3>2. data[HeadLen(sent) + i] = Reader!Text(sent)[HeadLen(sent) + i]
      BY <2>1, <3>1 DEF Delivered
    <3> QED
      BY <2>1, <3>1, <3>2, TextFacts
  <2> QED
    BY <2>1, <2>3, <2>4
<1> QED
  BY <1>1, RequestsInvHolds, PTL

(* A well-formed request is given up for want of room only when it is      *)
(* longer than the buffer.                                                 *)
THEOREM GivenUpOnlyWhenTooLong ==
  ASSUME \A r \in Requests : WellFormed(r)
  PROVE  RequestsSpec => []FullOnlyWhenTooLong
<1>1. RequestsInv => FullOnlyWhenTooLong
  <2> SUFFICES ASSUME RequestsInv, pc = "full"
               PROVE  Len(Reader!Text(sent)) > BUFF_SIZE
    BY DEF FullOnlyWhenTooLong, Reader!FullOnlyWhenTooLong
  <2>1. /\ position \in Nat /\ position >= BUFF_SIZE /\ position < TextLen(sent)
        /\ sent \in Requests
    BY DEF RequestsInv, ReadInv, Delivered, Progress
  <2>2. Len(Reader!Text(sent)) = TextLen(sent) /\ TextLen(sent) \in Nat
    BY <2>1, TextFacts DEF TextLen
  <2>3. BUFF_SIZE \in Nat
    BY RequestsAssumption DEF RequestsAssumption
  <2> HIDE DEF TextLen
  <2> QED
    BY <2>1, <2>2, <2>3
<1> QED
  BY <1>1, RequestsInvHolds, PTL

(* A well-formed request is answered, with the method it names, by the     *)
(* best service registered for the URL it names.                           *)
THEOREM BestServiceAnswers ==
  ASSUME \A r \in Requests : WellFormed(r)
  PROVE  RequestsSpec => []AnsweredAsAsked
<1>1. RequestsInv => AnsweredAsAsked
  BY DEF RequestsInv, ReadInv, Answered, AnsweredAsAsked
<1> QED
  BY <1>1, RequestsInvHolds, PTL

================================================================================
