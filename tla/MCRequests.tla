------------------------------ MODULE MCRequests ------------------------------
(* Requests with zero to two headers and short bodies, for URLs one or two *)
(* levels deep.                                                            *)
EXTENDS Requests, TLC

MCPaths == {<<"/">>, <<"/", "wifi", "/">>, <<"/", "gpio", "/">>}
MCUrls  == {<<>>, <<"file">>, <<"/">>, <<"/", "file">>, <<"/", "wifi">>,
            <<"/", "wifi", "/", "join">>, <<"/", "gpio", "/">>}

MCAnnounces == "len0" :> 0 @@ "len1" :> 1 @@ "len2" :> 2 @@ "len3" :> 3

Line(s) == s \o <<"r", "n">>
Length(n) == CASE n = 0 -> "len0" [] n = 1 -> "len1" [] n = 2 -> "len2" [] n = 3 -> "len3"

\* The Content-Length header is the only one, the first or the last; without
\* a body it may be missing.
HeaderSets(b) ==
  LET own == Line(<<Length(Len(b))>>) IN
  {own, Line(<<"x", " ">>) \o own, own \o Line(<<"x", "x">>)}
    \cup (IF b = <<>> THEN {<<>>, Line(<<"x">>)} ELSE {})

Request(m, u, h, b) ==
  [method |-> m, url |-> u, body |-> b,
   head |-> Line(<<m, " ">> \o u \o <<" ", "x">>) \o h \o <<"r", "n">>]

RequestsWith(bodies) ==
  UNION {{Request("GET", <<"/">>, h, b) : h \in HeaderSets(b)} : b \in bodies}

\* Bodies in which no line ends, and bodies in which one does.
PlainRequests ==
  RequestsWith({<<>>, <<"x">>, <<" ", "x">>, <<"r", "x", "n">>, <<"n", "r", "x">>})
    \cup {Request("GET", <<"/", "file">>, <<>>, <<>>),
          Request("PUT", <<"/", "wifi", "/", "join">>, Line(<<"len2">>), <<"x", " ">>)}
ASSUME PlainAreWellFormed == \A r \in PlainRequests : WellFormed(r)

LineRequests  == RequestsWith({<<"r", "n">>, <<"x", "r", "n">>})
===============================================================================
