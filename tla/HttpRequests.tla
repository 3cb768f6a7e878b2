---------------------------- MODULE HttpRequests ----------------------------
(***************************************************************************)
(* The requests that HttpConnection is checked with: with and without       *)
(* parameters, headers, a body, a newline in it, and a key for the upgrade. *)
(***************************************************************************)
EXTENDS HttpConnection

Get(query, lines)        == [post |-> FALSE, query |-> query, lines |-> lines, body |-> << >>]
Post(query, lines, body) == [post |-> TRUE, query |-> query, lines |-> lines, body |-> body]

Other  == <<"h">>
Key    == <<"k", "w">>
Size(digits) == <<"l">> \o digits

SomeRequests ==
    { Get(<< >>, << >>), Get(<<"Q">>, <<Other>>), Get(<< >>, <<Other, Other>>),
      Get(<< >>, <<Size(<<"0">>)>>), Get(<< >>, <<Key, Other>>),
      Post(<< >>, <<Size(<<"2">>)>>, <<"b", "b">>),
      Post(<<"Q">>, <<Size(<<"2">>), Other>>, <<"b", "n">>),
      Post(<< >>, <<Other, Size(<<"2">>)>>, <<"n", "b">>),
      Post(<< >>, <<Size(<<"1", "1">>)>>, <<"b", "b", "b", "b">>) }

\* a slot never used, or what a request that came in one read has left
SomeLeftovers ==
    {Empty} \cup {[Filled(Empty, Text(q)) EXCEPT ![0] = Nul] : q \in SomeRequests}
=============================================================================
