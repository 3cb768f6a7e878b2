---------------------------- MODULE MessageFraming ----------------------------
(***************************************************************************)
(* qs_socket.c: messages over a byte stream ("simple" protocol).  qs_send   *)
(* puts a header of 6, 8 or 14 bytes before each message, whose first bytes *)
(* say how long it is and whose last four its type.  The receiver gets the  *)
(* stream in reads of any size: qs_recv_event works through one read        *)
(* message by message, and a connection keeps in its QS_SOCKPARAM what it   *)
(* has of a header or a message that the read did not complete.             *)
(*                                                                          *)
(* Bytes are known by their place in the stream, so a message delivered is  *)
(* the place its first byte was taken from and a length.  A header read     *)
(* from a place where none begins would be made of bytes the sender chose:  *)
(* "lost" is set and the model follows the connection no further.           *)
(***************************************************************************)
EXTENDS Integers, Sequences, FiniteSetsExt

CONSTANTS
    Lengths,      \* lengths of the messages the application sends
    MaxBytes,     \* bound of the model: how many bytes it sends
    Short, Wide,  \* where the header grows: 125 and 65536 in the code
    MsgBuffer,    \* bytes of the buffer in which a message is put together
    RecvBuffer,   \* bytes of the buffer for one read
    FailAt        \* bound of the model: after how many bytes a send may fail

ASSUME FramingAssumption ==
    /\ Lengths \subseteq Nat /\ MaxBytes \in Nat
    /\ {Short, Wide, MsgBuffer, RecvBuffer} \subseteq Nat \ {0} /\ Short + 1 < Wide
    /\ FailAt \subseteq Nat

VARIABLES
    sent,     \* the messages given to qs_send: where each begins, how long it is
    wire,     \* how many bytes of them the connection took
    sending,  \* the sender still has the connection
    read,     \* how many bytes the receiver has read
    param,    \* its QS_SOCKPARAM
    event,    \* the read qs_recv_event is at: where it begins, its size, the place of the
              \* last message that followed another one
    got,      \* what the payload callback was given
    open,     \* the receiver still has the connection
    lost,     \* it took for a header what is none
    spoilt,   \* something happened of which the code is known to lose its place
    torn      \* the messages whose header was cut within its last four bytes

vars == <<sent, wire, sending, read, param, event, got, open, lost, spoilt, torn>>

\* qs_init_socket_param, qs_free_sockparam
FreshParam == [fin |-> TRUE, maskindex |-> 0, header |-> 0, at |-> 0, payloadlen |-> 0,
               tmpmsglen |-> 0, continue |-> 0, body |-> 0, type |-> 0]
NoEvent == [from |-> 0, size |-> 0, old |-> 0]

Init ==
    /\ sent = << >> /\ wire = 0 /\ sending = TRUE
    /\ read = 0 /\ param = FreshParam /\ event = NoEvent /\ got = << >> /\ open = TRUE
    /\ lost = FALSE /\ spoilt = FALSE /\ torn = {}

-----------------------------------------------------------------------------
\* qs_make_size_header: the size of the header of a message of n bytes
HeaderSize(n) == IF n < Short THEN 6 ELSE IF n > Short + 1 /\ n <= Wide THEN 8 ELSE 14

\* qs_make_msg: what the header says; the length field of the middle form has 16 bits
Announced(n) == IF HeaderSize(n) = 8 THEN n % Wide ELSE n

Places == 1 .. Len(sent)
\* where the body of the k-th message begins, and where the message ends
Body(k) == sent[k].at + HeaderSize(sent[k].len)
End(k)  == Body(k) + sent[k].len
\* the message whose header begins at a place, 0 if there is none
HeaderAt(place) ==
    IF \E k \in Places : sent[k].at = place
    THEN CHOOSE k \in Places : sent[k].at = place ELSE 0

\* qs_send_msg: qs_send_all does not return before it has sent everything
Send(n) ==
    /\ sending /\ wire + HeaderSize(n) + n <= MaxBytes
    /\ sent' = Append(sent, [at |-> wire, len |-> n])
    /\ wire' = wire + HeaderSize(n) + n
    /\ UNCHANGED <<sending, read, param, event, got, open, lost, spoilt, torn>>

\* ... or it fails after m bytes, and whoever called it closes the connection
SendFails(n, m) ==
    /\ sending /\ wire + HeaderSize(n) + n <= MaxBytes /\ m < HeaderSize(n) + n
    /\ sent' = Append(sent, [at |-> wire, len |-> n])
    /\ wire' = wire + m
    /\ sending' = FALSE
    /\ UNCHANGED <<read, param, event, got, open, lost, spoilt, torn>>

-----------------------------------------------------------------------------
\* What spoils a connection.  A read that ends in a header another one began, when the
\* two pieces together with the first once more are as long as the header; ...
BadCut(k, from, to) ==
    LET c == from - sent[k].at  d == to - sent[k].at  h == HeaderSize(sent[k].len)
    IN  0 < c /\ d < h /\ d >= h - 4 /\ c + d >= h
\* ... a message without a body with something behind it in the same read; ...
EmptyThenMore(k, from, to) == sent[k].len = 0 /\ from < Body(k) /\ Body(k) < to
\* ... a length the header cannot say, or too long for the receiver
Unsayable(k, to) ==
    /\ Announced(sent[k].len) # sent[k].len \/ Announced(sent[k].len) >= MsgBuffer
    /\ Body(k) - 4 <= to
Spoils(from, to) ==
    \E k \in Places : BadCut(k, from, to) \/ EmptyThenMore(k, from, to) \/ Unsayable(k, to)

Idle == open /\ ~lost /\ event.size = 0

\* recv: n bytes, as many as there are or fewer
Read(n) ==
    /\ Idle /\ n <= wire - read
    /\ event' = [from |-> read, size |-> n, old |-> 0]
    /\ read' = read + n
    /\ spoilt' = (spoilt \/ Spoils(read, read + n))
    /\ torn' = torn \cup {k \in Places : Body(k) - 4 < read + n /\ read + n < Body(k)}
    /\ UNCHANGED <<sent, wire, sending, param, got, open, lost>>

\* recv finds that the other side has closed the connection
Hangup ==
    /\ Idle /\ ~sending /\ read = wire
    /\ open' = FALSE /\ param' = FreshParam
    /\ UNCHANGED <<sent, wire, sending, read, event, got, lost, spoilt, torn>>

\* qs_close_socket_common between two reads, by a send that failed elsewhere: the socket
\* stays and is read on, from wherever the stream is
Reset ==
    /\ Idle
    /\ param' = FreshParam
    /\ spoilt' = (spoilt \/ read \notin {0} \cup {End(k) : k \in Places})
    /\ UNCHANGED <<sent, wire, sending, read, event, got, open, lost, torn>>

-----------------------------------------------------------------------------
\* qs_parse_socket_binary expects a header, or the rest of one
AtHeader(q) == q.header < q.maskindex \/ (q.fin /\ q.tmpmsglen = 0)

\* sizeof header
HeaderRoom == 64

\* get_parse_header, of a buffer of size bytes that begins at place u: a header in pieces
\* is put together, and maskindex becomes the place of the body in this buffer, once the
\* length is known
ParseHeader_NoShift(q, u, size) ==
    LET have  == q.header + size
        start == IF q.header = 0 THEN u ELSE q.at
        n     == sent[HeaderAt(start)].len
        r     == [q EXCEPT !.at = start, !.header = Min({have, HeaderRoom}), !.fin = FALSE,
                           !.payloadlen = 0, !.maskindex = HeaderSize(n)]
    IN  IF have < HeaderSize(n) - 4 THEN r ELSE [r EXCEPT !.payloadlen = Announced(n)]

ParseHeader(q, u, size) ==
    LET have  == q.header + size
        start == IF q.header = 0 THEN u ELSE q.at
        n     == sent[HeaderAt(start)].len
        r     == [q EXCEPT !.at = start, !.header = Min({have, HeaderRoom}), !.fin = FALSE,
                           !.payloadlen = 0]
    IN  IF have < 2 THEN [r EXCEPT !.maskindex = 32]
        ELSE IF have < HeaderSize(n) - 4 THEN [r EXCEPT !.maskindex = HeaderSize(n)]
        ELSE [r EXCEPT !.maskindex = HeaderSize(n) - q.header, !.payloadlen = Announced(n)]

\* the type is read from the four bytes before the body, wherever the header began: what
\* lies before the buffer is no part of the message
TypeRead_Unsplit(q, r) == IF q.header = 0 THEN HeaderAt(r.at) ELSE 0
TypeRead(q, r) == IF q.header = 0 \/ r.maskindex >= 4 THEN HeaderAt(r.at) ELSE 0

\* the place of the next message, counted from the one before
Continue_Relative(q, r, next) == next
\* continue_pos, when the buffer goes on behind a message that ends there
Continue(q, r, next) == r.continue + q.continue + next

\* the loop that copies the message, from byte "first" of the buffer of size bytes at u
Copy(q, r, u, size, first) ==
    LET had   == IF AtHeader(q) THEN 0 ELSE q.tmpmsglen
        left  == r.payloadlen - had
        stops == 0 < left /\ left < size - first
        cnt   == IF stops THEN r.payloadlen ELSE had + size - first
    IN  [r EXCEPT !.tmpmsglen = cnt,
                  !.body = IF had = 0 THEN u + first ELSE @,
                  !.continue = IF stops THEN Continue(q, r, first + left) ELSE @]

\* after a whole message the connection expects a header again
Complete_KeepHeader(r) ==
    [r EXCEPT !.fin = TRUE, !.maskindex = 0, !.tmpmsglen = 0]
Complete(r) ==
    [r EXCEPT !.fin = TRUE, !.maskindex = 0, !.tmpmsglen = 0, !.header = 0]

\* The end of a turn of qs_recv_event: another one, or the next read.
NextTurn(q) ==
    /\ param' = q
    /\ IF q.continue > 0 /\ event.old < q.continue
       THEN event' = [event EXCEPT !.old = q.continue] ELSE event' = NoEvent

InEvent == event.size > 0 /\ ~lost

\* the buffer that is left when the header branch has passed over continue_pos
Skipped == IF AtHeader(param) THEN param.continue ELSE 0
From    == event.from + Skipped
Size    == event.size - Skipped
Header  == ParseHeader([param EXCEPT !.continue = 0], From, Size)

\* the header branch is about to read what is not a header
Lose ==
    /\ InEvent /\ AtHeader(param)
    /\ HeaderAt(IF param.header = 0 THEN From ELSE param.at) = 0
    /\ lost' = TRUE
    /\ UNCHANGED <<sent, wire, sending, read, param, event, got, open, spoilt, torn>>

InHeader ==
    /\ InEvent /\ AtHeader(param)
    /\ HeaderAt(IF param.header = 0 THEN From ELSE param.at) # 0

\* the message would not fit: the connection is closed
TooLong ==
    /\ InHeader /\ Header.payloadlen >= MsgBuffer
    /\ open' = FALSE /\ param' = FreshParam /\ event' = NoEvent
    /\ UNCHANGED <<sent, wire, sending, read, got, lost, spoilt, torn>>

\* the header is not complete
PartHeader ==
    /\ InHeader /\ Header.payloadlen < MsgBuffer /\ Size < Header.maskindex
    /\ NextTurn(Header)
    /\ UNCHANGED <<sent, wire, sending, read, got, open, lost, spoilt, torn>>

\* the body, from the header on or going on with what an earlier read left: the message is
\* delivered when it is complete, and with "closes" the application ends the connection in
\* the callback, or a send to it fails there
Deliver(q, closes) ==
    /\ got' = Append(got, [body |-> q.body, len |-> q.payloadlen, type |-> q.type])
    /\ IF closes THEN open' = FALSE /\ param' = FreshParam /\ event' = NoEvent
       ELSE NextTurn(Complete(q)) /\ UNCHANGED open

Copied(q, closes) ==
    /\ IF q.tmpmsglen >= q.payloadlen THEN Deliver(q, closes)
       ELSE ~closes /\ NextTurn(q) /\ UNCHANGED <<got, open>>
    /\ UNCHANGED <<sent, wire, sending, read, lost, spoilt, torn>>

FirstPart(closes) ==
    /\ InHeader /\ Header.payloadlen < MsgBuffer /\ Size >= Header.maskindex
    /\ Copied(Copy(param, [Header EXCEPT !.type = TypeRead(param, Header)],
                   From, Size, Header.maskindex), closes)

NextPart(closes) ==
    /\ InEvent /\ ~AtHeader(param)
    /\ Copied(Copy(param, param, From, Size, 0), closes)

Turn(closes) ==
    \/ ~closes /\ (Lose \/ TooLong \/ PartHeader)
    \/ FirstPart(closes) \/ NextPart(closes)

Receive == \E n \in 1 .. RecvBuffer : Read(n)

Next ==
    \/ \E n \in Lengths : Send(n) \/ \E m \in FailAt : SendFails(n, m)
    \/ Receive \/ Hangup \/ Reset
    \/ \E closes \in BOOLEAN : Turn(closes)

\* the program calls qs_client_update, or qs_server_update, again and again
Spec == Init /\ [][Next]_vars /\ WF_vars(Receive) /\ WF_vars(Turn(FALSE))

-----------------------------------------------------------------------------
\* The receiver never takes for a header what is none, unless the connection was spoilt:
\* headers cut in two, messages cut anywhere and several of them in one read do no harm.
LostOnlyIfSpoilt == lost => spoilt

\* A message comes with the type it was sent with, unless its header was cut within the
\* type: then get_parse_header has the four bytes, but the caller looks for them in the
\* read that completed the header.
TypesKept ==
    ~spoilt => \A k \in 1 .. Len(got) : k \notin torn => got[k].type = k

\* Within one read every message begins behind the one before, so that qs_recv_event comes
\* to the end of the read and never gives it up as an "invalid packet".
ContinueAdvances == [][param' # param /\ param'.continue > 0 => param'.continue > event.old]_vars

\* which message it is that was delivered, 0 if none
WhichMessage(g) ==
    IF \E k \in Places : Body(k) = g.body /\ sent[k].len = g.len
    THEN CHOOSE k \in Places : Body(k) = g.body /\ sent[k].len = g.len ELSE 0

\* Until it is spoilt the connection is a channel that loses and reorders nothing.
Channel == INSTANCE MessageChannel WITH
    sent   <- Cardinality({k \in Places : End(k) <= wire}),
    got    <- [i \in 1 .. Len(got) |-> WhichMessage(got[i])],
    broken <- spoilt,
    ended  <- ~open
ChannelSpec == Channel!Spec
=============================================================================
