----------------------------- MODULE HttpRequest -----------------------------
(***************************************************************************)
(* qs_protocol.c: how a request is taken from the reads of a connection.    *)
(* The first read must hold the method; it and every later one are parsed   *)
(* line by line from the receive buffer up to a NUL, and the rest is copied  *)
(* as body until Content-Length bytes have come.  Only the first read gets  *)
(* a NUL behind it: after that the buffer still holds what earlier reads,   *)
(* of this connection or of the one before it in the slot, have left there. *)
(*                                                                          *)
(* A symbol stands for a piece of text that the parser treats as a whole:   *)
(* half a method, the path, the parameters, a header's name with its colon, *)
(* a digit, "r" and "n" for the newline, "b" for a byte of a body.          *)
(***************************************************************************)
EXTENDS Integers, Sequences, FiniteSetsExt, SequencesExt

CONSTANTS
    BufferSize,   \* symbols of the receive buffer
    Base          \* base of the digits in a Content-Length: 10 in the code

ASSUME RequestAssumption == BufferSize \in Nat \ {0, 1} /\ Base \in Nat \ {0, 1}

Nul      == "Nul"
Unknown  == "unknown"     \* what lies behind the buffer
Newlines == {"r", "n"}
LineEnds == Newlines \cup {Nul}
Digits   == "0" :> 0 @@ "1" :> 1 @@ "2" :> 2
Named    == {"l", "k", "h"}     \* Content-Length, Sec-WebSocket-Key, any other header
Absent   == <<Nul>>

\* what a client sends
FirstLine(q)  == <<IF q.post THEN "O" ELSE "G", "T", "P">> \o q.query \o <<"r", "n">>
HeaderPart(q) == FirstLine(q) \o FlattenSeq([i \in DOMAIN q.lines |-> q.lines[i] \o <<"r", "n">>])
                              \o <<"r", "n">>
Text(q)       == HeaderPart(q) \o q.body

-----------------------------------------------------------------------------
\* qs_socket.c: the receive buffer
Places == 0 .. BufferSize - 1
Filled(buf, bytes) == [i \in Places |-> IF i < Len(bytes) THEN bytes[i + 1] ELSE buf[i]]
Piece(buf, from, to) ==
    [i \in 1 .. to - from |-> IF from + i - 1 \in Places THEN buf[from + i - 1] ELSE Unknown]
NextIn(buf, p, stops) == Min({i \in Places : i >= p /\ buf[i] \in stops})

\* the end of qs_read_line_delimiter_core: at most one newline is passed over
AfterNewline(buf, p) ==
    LET q == IF buf[p] = "r" THEN p + 1 ELSE p IN IF buf[q] = "n" THEN q + 1 ELSE q

\* a header line: its name up to the colon, and the rest.  A line without a colon is all
\* name, and its value the line after it.
Line(buf, p) ==
    LET e     == NextIn(buf, p, LineEnds \cup Named)
        colon == buf[e] \in Named
        v     == IF colon THEN e + 1 ELSE AfterNewline(buf, e)
        f     == NextIn(buf, v, LineEnds)
    IN  [name |-> Piece(buf, p, IF colon THEN e + 1 ELSE e), value |-> Piece(buf, v, f),
         next |-> AfterNewline(buf, f)]

\* the lines from p on: up to a NUL, or to the newline behind which the body begins
HeaderLines(buf, p) ==
    LET from[i \in Places] ==
            IF buf[i] \in Newlines THEN [lines |-> << >>, at |-> i, body |-> TRUE]
            ELSE LET l == Line(buf, i) IN
                 IF buf[l.next] = Nul THEN [lines |-> <<l>>, at |-> l.next, body |-> FALSE]
                 ELSE [from[l.next] EXCEPT !.lines = <<l>> \o @]
    IN  from[p]

\* a name that comes again takes the new value
WithLines(headers, lines) ==
    [n \in DOMAIN headers |->
        LET of == {i \in DOMAIN lines : lines[i].name = <<n>>} IN
        IF of = {} THEN headers[n] ELSE lines[Max(of)].value]

\* atoi
Number(digits) ==
    LET upto[i \in 0 .. Len(digits)] ==
            IF i = 0 THEN 0 ELSE upto[i - 1] * Base + Digits[digits[i]]
        first == {i \in DOMAIN digits : digits[i] \notin DOMAIN Digits}
    IN  upto[IF first = {} THEN Len(digits) ELSE Min(first) - 1]

\* a buffer read as a string of C
CString(s) == IF Nul \in ToSet(s) THEN SubSeq(s, 1, Min({i \in DOMAIN s : s[i] = Nul}) - 1) ELSE s

-----------------------------------------------------------------------------
\* A connection: its phase, the headers so far, the opcode (1 in the body, 2 at its end)
\* and what has been put into the message buffer.
NewRequest == [phase |-> "continue", opcode |-> 0, post |-> FALSE, path |-> << >>, query |-> << >>,
               headers |-> [n \in {"l", "k"} |-> Absent], msg |-> << >>]

\* the newlines before it counted as body
Copied_All(n, newlines) == n

\* how many bytes of a read of n are taken for body: all of it but these newlines
Copied(n, newlines) == n - newlines

\* the body branch of qs_http_parse_header, at place p in a read of n
Body(c, buf, p, n) ==
    LET q      == Min({i \in Places : i >= p /\ buf[i] \notin Newlines})
        length == Number(c.headers["l"])
        count  == Copied(n, q - p)
        msg    == c.msg \o Piece(buf, q, q + count)
    IN  IF length = 0 THEN [c EXCEPT !.opcode = 2]
        ELSE IF q > p /\ buf[q] = Nul THEN c
        ELSE IF count < 0 THEN [c EXCEPT !.phase = "crashed"]
        ELSE [c EXCEPT !.msg = msg, !.opcode = IF Len(msg) >= length THEN 2 ELSE @]

\* qs_http_parse_header from place p on; a newline there begins the body, also again
ParseHeader(c, buf, p, n) ==
    LET begun == [c EXCEPT !.opcode = 1, !.msg = << >>]
        h     == HeaderLines(buf, p)
        given == [c EXCEPT !.headers = WithLines(@, h.lines)]
    IN  IF buf[p] \in Newlines THEN Body(begun, buf, p, n)
        ELSE IF c.opcode = 1 THEN Body(c, buf, p, n)
        ELSE IF h.body THEN Body([given EXCEPT !.opcode = 1, !.msg = << >>], buf, h.at, n)
        ELSE given

\* qs_http_parser: the first read
ParseFirst(c, buf, n) ==
    LET b == [buf EXCEPT ![n] = Nul]
        p == NextIn(b, 2, LineEnds)
        w == Piece(b, 2, p)
    IN  IF b[0] \notin {"G", "O"} \/ b[1] # "T" THEN [c EXCEPT !.phase = "dropped"]
        ELSE ParseHeader([c EXCEPT !.phase = "header", !.post = b[0] = "O",
                                   !.path = SelectSeq(w, LAMBDA x : x # "Q"),
                                   !.query = SelectSeq(w, LAMBDA x : x = "Q")],
                         b, AfterNewline(b, p), n)

\* the buffer after it, whose first byte qs_recv_event clears
Emptied(c, buf, n) ==
    LET ended == IF c.phase = "continue" THEN [buf EXCEPT ![n] = Nul] ELSE buf
    IN  [ended EXCEPT ![0] = Nul]

\* qs_http_protocol_filter
Filter(c, buf, n) ==
    IF c.phase = "continue" THEN ParseFirst(c, buf, n) ELSE ParseHeader(c, buf, 0, n)

\* the request as the handlers get it: the body of a POST only
Handled(c) == [path |-> c.path, query |-> c.query, post |-> c.post,
               body |-> IF c.post THEN CString(c.msg) ELSE << >>]

\* qs_send_handshake_param: a request with a key is answered by the handshake
WantsUpgrade(c) == c.headers["k"] # Absent /\ c.headers["k"] # << >>
=============================================================================
