--------------------------- MODULE ServiceFactory ---------------------------
(***************************************************************************)
(* The dispatch table of main/service_factory.cpp: a list of services kept *)
(* in order of priority by insertion, searched from the front for the      *)
(* first path that is a prefix of the URL. A path or URL is a sequence of  *)
(* tokens; a record carries the number of its registration in the place    *)
(* of its builder.                                                         *)
(***************************************************************************)
EXTENDS Integers, Sequences

CONSTANTS
  Tokens,      \* the pieces URLs are made of
  Priorities,  \* priorities services are registered with
  Paths,       \* paths they are registered under
  Urls,        \* URLs clients ask for
  MaxRecords   \* bound on the length of the list

ASSUME FactoryAssumption ==
  /\ Priorities \subseteq Int
  /\ "/" \in Tokens
  /\ Paths \subseteq Seq(Tokens) /\ Urls \subseteq Seq(Tokens)
  /\ MaxRecords \in Nat

VARIABLES
  service_list,  \* the records, from service_list along next
  registered     \* number of registrations so far

vars == <<service_list, registered>>

Record == [priority : Int, path : Seq(Tokens), id : Nat]

TypeOK ==
  /\ service_list \in Seq(Record)
  /\ registered \in Nat
  /\ \A i \in 1 .. Len(service_list) : service_list[i].id < registered

\* Utils::StartsWith.
StartsWith(url, path) ==
  /\ Len(path) <= Len(url)
  /\ \A k \in 1 .. Len(path) : url[k] = path[k]

-----------------------------------------------------------------------------
(* Faulty variant, which only shows that the properties notice it.         *)

PositionAtEnd(list, p) == Len(list) + 1

-----------------------------------------------------------------------------
\* Where the loop of RegisterService stops: in front of the first record whose
\* priority is not greater, else at the end.
Position(list, p) ==
  CHOOSE k \in 1 .. Len(list) + 1 :
    /\ k <= Len(list) => list[k].priority <= p
    /\ \A i \in 1 .. k - 1 : list[i].priority > p

Inserted(list, k, r) ==
  [i \in 1 .. Len(list) + 1 |->
     IF i < k THEN list[i] ELSE IF i = k THEN r ELSE list[i - 1]]

NewRecord(p, path, n) == [priority |-> p, path |-> path, id |-> n]

RegisterService(p, path) ==
  /\ Len(service_list) < MaxRecords
  /\ service_list' = Inserted(service_list, Position(service_list, p),
                              NewRecord(p, path, registered))
  /\ registered' = registered + 1

\* The records whose path fits, and the one CreateService builds from: the
\* first of them. There is none when it answers with Service(500).
Fitting(url) ==
  {i \in 1 .. Len(service_list) : StartsWith(url, service_list[i].path)}

IsCreated(url, i) == i \in Fitting(url) /\ \A j \in Fitting(url) : i <= j

\* The constructor registers 400 for any URL, then 404 for any path.
Init ==
  /\ service_list = <<NewRecord(1, <<"/">>, 1), NewRecord(0, <<>>, 0)>>
  /\ registered = 2

Next == \E p \in Priorities, path \in Paths : RegisterService(p, path)

Spec == Init /\ [][Next]_vars

-----------------------------------------------------------------------------
\* The list is ordered by priority, and the later of two registrations with
\* the same priority comes first (the strict comparison of RegisterService).
Before(r, s) == r.priority > s.priority \/ (r.priority = s.priority /\ r.id > s.id)
Ordered ==
  \A i, j \in 1 .. Len(service_list) :
    i < j => Before(service_list[i], service_list[j])

\* So the service created is, of all those registered for the URL, the one of
\* highest priority, the most recent one among equals.
BestIsCreated ==
  \A url \in Urls : \A i \in Fitting(url) :
    IsCreated(url, i) =>
      \A j \in Fitting(url) : i = j \/ Before(service_list[i], service_list[j])

\* No registration can take service away from a URL: the catch-all record of
\* the constructor stays, and Service(500) is never the answer.
AlwaysServed == \A url \in Urls : \E i \in 1 .. Len(service_list) : IsCreated(url, i)
=============================================================================
