--------------------------- MODULE WebSocketFrames ---------------------------
(***************************************************************************)
(* qs_parse_websocket_binary of qs_protocol.c: what a read of a WebSocket   *)
(* connection adds to the message under way.  Payload bytes are gathered    *)
(* into words before the mask is taken off, and a word is written to the    *)
(* message when it is full or when the frame seems to end with it.          *)
(*                                                                          *)
(* A byte is known by its place in the stream; 0 stands for a byte that     *)
(* nobody sent: what the mask leaves of an empty part of a word.            *)
(***************************************************************************)
EXTENDS Integers, Sequences

CONSTANTS
    Word,        \* bytes of a word: 4 in the code
    MsgBuffer    \* bytes of the buffer in which a message is put together

ASSUME FramesAssumption == Word \in Nat \ {0} /\ MsgBuffer \in Nat \ {0}

\* the fields of a QS_SOCKPARAM that frames use; Len(msg) is tmpmsglen
NoMessage == [fin |-> TRUE, opcode |-> "text", payloadlen |-> 0, msg |-> << >>, pending |-> << >>]

\* a read is taken to begin with a header unless a message is under way
ExpectsHeader(s) == ~s.fin \/ s.msg = << >>

\* the header of a frame: the payload adds to that of the fragments before it
TakeHeader(s, f) ==
    [s EXCEPT !.fin = f.fin, !.opcode = f.opcode,
              !.payloadlen = IF s.fin THEN f.len ELSE @ + f.len]

TooLong(s) == s.payloadlen >= MsgBuffer

\* an unfinished word waits for the next read
Flushes_Never(s, msg, rest) == FALSE

\* the read ends within a word: it is written now if the message ends with it
Flushes(s, msg, rest) == rest # << >> /\ (~s.fin \/ Len(msg) + Len(rest) >= s.payloadlen)

\* the loop over the bytes of a read; a word written early keeps its place in the next
TakeBytes(s, bytes) ==
    LET all  == s.pending \o bytes
        full == Len(all) - (Len(all) % Word)
        rest == SubSeq(all, full + 1, Len(all))
        msg  == s.msg \o SubSeq(all, 1, full)
    IN  IF bytes = << >> THEN s
        ELSE IF Flushes(s, msg, rest)
        THEN [s EXCEPT !.msg = msg \o [i \in 1 .. Word |-> IF i <= Len(rest) THEN rest[i] ELSE 0],
                       !.pending = [i \in DOMAIN rest |-> 0]]
        ELSE [s EXCEPT !.msg = msg, !.pending = rest]

\* the message is whole
IsWhole(s)  == s.fin /\ Len(s.msg) >= s.payloadlen
Payload(s)  == SubSeq(s.msg, 1, s.payloadlen)
=============================================================================
