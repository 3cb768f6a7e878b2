---------------------------- MODULE MessageChannel ----------------------------
(***************************************************************************)
(* What the framing of qs_socket.c promises over one connection: every      *)
(* message that was sent whole is delivered, once, in the order of sending, *)
(* until one side ends the connection.  Messages are numbered in the order  *)
(* they were sent.  "broken" stands for the ways in which the code is known *)
(* to lose its place in the stream, after which nothing is promised;        *)
(* MessageFraming says what they are and is shown to implement this.        *)
(***************************************************************************)
EXTENDS Naturals, Sequences

VARIABLES sent,     \* how many messages were sent whole
          got,      \* the numbers of the messages delivered
          broken, ended

vars == <<sent, got, broken, ended>>

Init == sent = 0 /\ got = << >> /\ ~broken /\ ~ended

Send == sent' = sent + 1 /\ UNCHANGED <<got, broken, ended>>

Deliver ==
    /\ ~broken /\ ~ended /\ Len(got) < sent
    /\ got' = Append(got, Len(got) + 1)
    /\ UNCHANGED <<sent, broken>>

\* a connection may end with a delivery
End   == ~ended /\ ended' /\ UNCHANGED <<sent, got, broken>>
Break == ~ended /\ broken' /\ UNCHANGED <<sent, got, ended>>

\* nothing is promised any more, except that nothing follows the end
Stray == broken /\ broken' /\ ~ended

Next == Send \/ (Deliver /\ ended' \in BOOLEAN) \/ End \/ Break \/ Stray

Spec == Init /\ [][Next]_vars /\ WF_vars(Deliver /\ ended' = ended)

=============================================================================
