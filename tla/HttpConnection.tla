---------------------------- MODULE HttpConnection ----------------------------
(***************************************************************************)
(* One connection of the API server, from the accept to its end: a client   *)
(* sends a request and, when the server has made the connection a WebSocket *)
(* one, frames.  The server sees the stream in reads of any size.  HttpRequest *)
(* is what it does with those of the request, WebSocketFrames with those of *)
(* the frames.                                                              *)
(*                                                                          *)
(* Frames are known by their places in the stream after the request.  Where *)
(* the server takes bytes for a frame's header that are none, "lost" is set *)
(* and the model follows the connection no further.  The client keeps to    *)
(* the protocol: fragments of a message are not mixed with another's, and   *)
(* every frame is masked.                                                   *)
(***************************************************************************)
EXTENDS HttpRequest, WebSocketFrames

CONSTANTS
    Requests,    \* the requests a client may send
    Leftovers,   \* what the connections before it may have left in the receive buffer
    Lengths,     \* lengths of the payloads of frames
    Header,      \* bytes of a frame's header
    MaxBytes     \* bound of the model: the bytes of all frames

ASSUME ConnectionAssumption ==
    /\ \A q \in Requests : Len(Text(q)) > 0
    /\ Leftovers \subseteq [0 .. BufferSize - 1 -> STRING]
    /\ Lengths \subseteq Nat /\ Header \in Nat \ {0} /\ MaxBytes \in Nat

VARIABLES
    request,   \* the request being sent
    buf,       \* the receive buffer
    conn,      \* what the server knows of the request, and its phase
    read,      \* how much of the request has been read
    handled,   \* what the handlers were given
    miscut,    \* a read came of which the request parser is known to go wrong
    frames,    \* the frames sent
    frame,     \* the server's place in a message, and in the stream of frames
    got,       \* the messages given to the application
    lost,      \* it took for a frame's header what is none
    spoilt     \* a read or a frame came of which the frame parser is known to go wrong

httpVars == <<request, buf, conn, read, handled, miscut>>
webVars  == <<frames, frame, got, lost, spoilt>>
vars     == <<httpVars, webVars>>

Nothing == [path |-> << >>]
Empty   == [i \in Places |-> Nul]

\* qs_init_socket_param, qs_free_sockparam; the buffer is not cleared
Init ==
    /\ request \in Requests /\ buf \in Leftovers /\ conn = NewRequest
    /\ read = 0 /\ handled = Nothing /\ miscut = FALSE
    /\ frames = << >> /\ frame = [param |-> NoMessage, read |-> 0] /\ got = << >>
    /\ lost = FALSE /\ spoilt = FALSE

-----------------------------------------------------------------------------
\* Reads that the request parser gets wrong, [a, b) being the part of the text read.
Stream    == Text(request)
LineBreak == {i \in 0 .. Len(HeaderPart(request)) :
                i = 0 \/ (Stream[i] = "n" /\ i # Len(HeaderPart(request)))}

Miscut(a, b) ==
    LET first == Len(FirstLine(request))
        head  == Len(HeaderPart(request))
        n     == b - a
        stale == a > 0 /\ buf[n] # Nul
    IN  \/ b < first
        \* within a line, or within the blank line
        \/ b < head /\ b \notin LineBreak
        \* a later read of headers, parsed on into what is left in the buffer
        \/ a < head - 2 /\ stale /\ (b < head \/ Len(Stream) > head)
        \* a part of the body with headers before it, which are counted as body
        \/ a < head - 2 /\ head < b /\ b < Len(Stream)
        \* the blank line alone, with a newline left in the buffer behind it
        \/ a = head - 2 /\ b = head /\ buf[2] \in Newlines /\ Len(Stream) > head
        \* a part of the body that begins with a newline
        \/ b > head /\ Stream[IF a > head THEN a + 1 ELSE head + 1] \in Newlines

\* a read of n symbols of the request: api_qs_on_recv up to the end of the request
ReadRequest(n) ==
    /\ conn.phase \in {"continue", "header"} /\ read + n <= Len(Stream) /\ n < BufferSize
    /\ LET bytes == SubSeq(Stream, read + 1, read + n)
           full  == Filled(buf, bytes)
           c     == Filter(conn, full, n)
       IN  /\ conn' = IF c.opcode = 2 /\ c.phase = "header"
                      THEN [c EXCEPT !.phase = "request", !.opcode = 0] ELSE c
           /\ buf' = Emptied(conn, full, n)
    /\ read' = read + n
    /\ miscut' = (miscut \/ Miscut(read, read + n))
    /\ UNCHANGED <<request, handled, webVars>>

\* api_qs_exec_http: the handlers answer and the connection ends
Answer ==
    /\ conn.phase = "request" /\ ~WantsUpgrade(conn)
    /\ handled' = Handled(conn)
    /\ conn' = [conn EXCEPT !.phase = "closed"]
    /\ UNCHANGED <<request, buf, read, miscut, webVars>>

\* qs_send_handshake_param.  What the buffer holds and what is known of the request do not
\* matter to frames; a part of the request that is still to be read will.
Handshake(fails) ==
    /\ conn.phase = "request" /\ WantsUpgrade(conn)
    /\ conn' = [NewRequest EXCEPT !.phase = IF fails THEN "closed" ELSE "websocket"]
    /\ buf' = Empty
    /\ lost' = (read < Len(Stream))
    /\ UNCHANGED <<request, read, handled, miscut, frames, frame, got, spoilt>>

-----------------------------------------------------------------------------
Frames  == DOMAIN frames
Begin(k) == frames[k].at + Header
End(k)   == Begin(k) + frames[k].len
Sent     == IF frames = << >> THEN 0 ELSE End(Len(frames))
Data     == SelectSeq(frames, LAMBDA f : f.opcode # "ping")
InMessage == Data # << >> /\ ~Data[Len(Data)].fin

AsksUpgrade == <<"k", "w">> \in ToSet(request.lines)

\* a client that asked for it sends a frame
SendFrame(opcode, len, fin) ==
    /\ conn.phase = "websocket" /\ AsksUpgrade /\ ~lost
    /\ Sent + Header + len <= MaxBytes
    /\ \A k \in Frames : frames[k].opcode # "close"
    /\ opcode # "text" => fin
    /\ frames' = Append(frames, [at |-> Sent, len |-> len, fin |-> fin, opcode |-> opcode])
    \* a ping is no message: the parser knows only one that is empty and on its own
    /\ spoilt' = (spoilt \/ (opcode = "ping" /\ (len > 0 \/ InMessage)))
    /\ UNCHANGED <<httpVars, frame, got, lost>>

\* Reads that the frame parser gets wrong: [a, b) must lie in one frame, k, and hold its
\* header whole; a fragment must come in one read and fill its words; and the first read
\* of a message must fill a word or end it.
Clean(a, b) ==
    \E k \in Frames :
        LET first == frame.param.msg = << >>
        IN  /\ frames[k].at <= a /\ b <= End(k)
            /\ a = frames[k].at => b >= Begin(k)
            /\ ~frames[k].fin => a = frames[k].at /\ b = End(k) /\ frames[k].len % Word = 0
            /\ frames[k].fin /\ first => b = End(k) \/ b >= Begin(k) + Word

\* qs_parse_websocket_binary and api_qs_exec_websocket, for a read of n bytes
ReadFrames(n) ==
    /\ conn.phase = "websocket" /\ ~lost /\ n < BufferSize
    /\ frame.read + n <= Sent
    /\ LET a      == frame.read
           p      == frame.param
           header == ExpectsHeader(p)
           here   == {k \in Frames : frames[k].at = a /\ n >= Header}
           start  == IF header THEN TakeHeader(p, frames[CHOOSE k \in here : TRUE]) ELSE p
           skip   == IF header THEN Header ELSE 0
           s      == TakeBytes(start, [i \in 1 .. n - skip |-> a + skip + i])
       IN  IF header /\ here = {}
           THEN lost' = TRUE /\ UNCHANGED <<conn, frame, got>>
           ELSE /\ IF TooLong(start) \/ s.opcode = "close"
                   THEN /\ conn' = [conn EXCEPT !.phase = "closed"]
                        /\ frame' = [frame EXCEPT !.read = a + n] /\ UNCHANGED got
                   ELSE /\ frame' = [param |-> IF IsWhole(s) THEN NoMessage ELSE s, read |-> a + n]
                        /\ got' = IF IsWhole(s) /\ Payload(s) # << >>
                                  THEN Append(got, Payload(s)) ELSE got
                        /\ UNCHANGED conn
                /\ UNCHANGED lost
    /\ spoilt' = (spoilt \/ ~Clean(frame.read, frame.read + n))
    /\ UNCHANGED <<request, buf, read, handled, miscut, frames>>

Next ==
    \/ \E n \in 1 .. BufferSize : ReadRequest(n) \/ ReadFrames(n)
    \/ Answer
    \/ \E fails \in BOOLEAN : Handshake(fails)
    \/ \E opcode \in {"text", "ping", "close"}, len \in Lengths, fin \in BOOLEAN :
            SendFrame(opcode, len, fin)

Spec == Init /\ [][Next]_vars

-----------------------------------------------------------------------------
\* While no read is one of Miscut, the handlers get the request that was sent, and none
\* before it has been read to its end; then it is answered, or the connection is made a
\* WebSocket one if it asks for that and only then; and no request is refused or crashes
\* the server.
RequestAsSent ==
    ~miscut =>
        /\ conn.phase \notin {"dropped", "crashed"}
        /\ conn.phase \notin {"continue", "header"} <=> read = Len(Stream)
        /\ handled # Nothing =>
            handled = [path |-> <<"P">>, query |-> request.query, post |-> request.post,
                       body |-> IF request.post THEN request.body ELSE << >>]
        /\ conn.phase = "websocket" => AsksUpgrade

\* the messages of the frames, the empty ones left out
Messages ==
    LET upto[k \in 0 .. Len(frames)] ==
            IF k = 0 THEN [done |-> << >>, part |-> << >>]
            ELSE LET f == frames[k]
                     m == upto[k - 1].part \o [i \in 1 .. f.len |-> Begin(k) + i]
                 IN  IF f.opcode # "text" THEN upto[k - 1]
                     ELSE IF ~f.fin THEN [upto[k - 1] EXCEPT !.part = m]
                     ELSE [done |-> IF m = << >> THEN upto[k - 1].done
                                    ELSE Append(upto[k - 1].done, m), part |-> << >>]
    IN  upto[Len(frames)].done

\* While every read is Clean and pings are empty and between messages, the application
\* gets the messages that were sent, each once, whole and in order, and has them all when
\* everything is read.
MessagesAsSent ==
    ~spoilt => /\ lost => miscut
               /\ IsPrefix(got, Messages)
               /\ conn.phase = "websocket" /\ frame.read = Sent => got = Messages
=============================================================================
