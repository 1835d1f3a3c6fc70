------------------------------ MODULE Framing ------------------------------
(***************************************************************************)
(* How frames are found in what a socket delivers: a length, then as many  *)
(* bytes.  TCP delivers any pieces of the stream, and the decoder keeps a  *)
(* begun frame for the next piece (msgCoder.ts decode).  A websocket       *)
(* delivers messages that hold whole frames (connectorProxyWs.ts onData).  *)
(*                                                                         *)
(* Registering raises the limit of the length, in the handler of the first *)
(* frame and before the next is looked at.  Closing the socket in a handler*)
(* stops neither loop: Connector has the handlers.                         *)
(***************************************************************************)
EXTENDS Integers, Sequences, SequencesExt

CONSTANTS
    Base,       \* 256: the values of a byte
    HeadLen,    \* 4: the bytes of a length
    FirstMax,   \* 50: the longest first frame
    MaxLen,     \* maxLen: the longest later one
    Transports, \* "tcp", "ws"
    StreamMax   \* bound: bytes received

ASSUME FramingAssumption ==
    /\ Base \in Nat \ {0, 1} /\ HeadLen \in Nat \ {0}
    /\ FirstMax \in Nat /\ MaxLen \in Nat /\ StreamMax \in Nat

VARIABLES
    transport,
    stream,     \* history: all bytes received
    socket      \* NetSocket or WsSocket, with what it has emitted

vars == <<transport, stream, socket>>

\* len is 0 while the length is not known; rest is what is left of the piece.
NewSocket == [len |-> 0, headBuf |-> <<>>, buffer |-> <<>>, rest |-> <<>>,
              frames |-> <<>>, die |-> FALSE]

Init == transport \in Transports /\ stream = <<>> /\ socket = NewSocket

-----------------------------------------------------------------------------
(* decode.                                                                 *)

\* readUInt32BE.
Value(head) == FoldLeft(LAMBDA v, b : v * Base + b, 0, head)

BadLength(n, frames) == n = 0 \/ n > (IF frames = <<>> THEN FirstMax ELSE MaxLen)

Emitted(s, body, rest) ==
    [s EXCEPT !.frames = Append(@, body), !.rest = rest, !.len = 0,
              !.headBuf = <<>>, !.buffer = <<>>]

\* One byte of the length; with the last of them, the frame if it is there.
HeadStep(s) ==
    LET head == Append(s.headBuf, Head(s.rest))
        rest == Tail(s.rest)
        len  == Value(head)
        read == [s EXCEPT !.headBuf = head, !.rest = rest]
    IN  IF Len(head) < HeadLen THEN read
        ELSE IF BadLength(len, s.frames) THEN [read EXCEPT !.die = TRUE]
        ELSE IF Len(rest) >= len
             THEN Emitted(s, SubSeq(rest, 1, len), SubSeq(rest, len + 1, Len(rest)))
             ELSE [read EXCEPT !.len = len]

\* Slip: what is still missing is not counted down.
BodyStepUncounted(s) ==
    IF Len(s.rest) < s.len
    THEN [s EXCEPT !.buffer = @ \o s.rest, !.rest = <<>>]
    ELSE Emitted(s, s.buffer \o SubSeq(s.rest, 1, s.len), SubSeq(s.rest, s.len + 1, Len(s.rest)))
\* The rest of the piece belongs to a begun frame, or its first part does.
BodyStep(s) ==
    IF Len(s.rest) < s.len
    THEN [s EXCEPT !.buffer = @ \o s.rest, !.len = @ - Len(s.rest), !.rest = <<>>]
    ELSE Emitted(s, s.buffer \o SubSeq(s.rest, 1, s.len), SubSeq(s.rest, s.len + 1, Len(s.rest)))

\* Every turn of the loop reads a byte or more.
Loop(step(_), s) ==
    FoldLeft(LAMBDA t, i : IF t.die \/ t.rest = <<>> THEN t ELSE step(t),
             s, [i \in DOMAIN s.rest |-> i])

TcpStep(s) == IF s.len = 0 THEN HeadStep(s) ELSE BodyStep(s)
Decode(s, piece) == Loop(TcpStep, [s EXCEPT !.rest = piece])

-----------------------------------------------------------------------------
(* WsSocket.                                                               *)

\* Slip: an empty frame is one.
WsStepEmpty(s) ==
    LET len == Value(SubSeq(s.rest, 1, HeadLen))
    IN  IF Len(s.rest) < HeadLen \/ Len(s.rest) < HeadLen + len
        THEN [s EXCEPT !.die = TRUE]
        ELSE Emitted(s, SubSeq(s.rest, HeadLen + 1, HeadLen + len),
                     SubSeq(s.rest, HeadLen + len + 1, Len(s.rest)))
\* One frame of a message, or the end of the connection.
WsStep(s) ==
    LET len == Value(SubSeq(s.rest, 1, HeadLen))
    IN  IF Len(s.rest) < HeadLen \/ Len(s.rest) < HeadLen + len \/ len = 0
        THEN [s EXCEPT !.die = TRUE]
        ELSE Emitted(s, SubSeq(s.rest, HeadLen + 1, HeadLen + len),
                     SubSeq(s.rest, HeadLen + len + 1, Len(s.rest)))

WsDecode(s, message) == Loop(WsStep, [s EXCEPT !.rest = message])

-----------------------------------------------------------------------------
\* A piece of the stream, or a message, arrives; a dead socket does not listen.
OnData ==
    /\ ~socket.die
    /\ \E n \in 1..StreamMax - Len(stream) : \E data \in [1..n -> 0..Base - 1] :
          /\ stream' = stream \o data
          /\ socket' = IF transport = "tcp" THEN Decode(socket, data) ELSE WsDecode(socket, data)
    /\ UNCHANGED transport

Next == OnData
Spec == Init /\ [][Next]_vars

-----------------------------------------------------------------------------
(* Properties.                                                             *)

\* The bytes of frames, the length most significant byte first, and what the
\* stream holds after those emitted.
Header(n) ==
    LET high[k \in 0..HeadLen] == IF k = 0 THEN n ELSE high[k - 1] \div Base
    IN  [i \in 1..HeadLen |-> high[HeadLen - i] % Base]
Encoded(frames) == FlattenSeq([i \in DOMAIN frames |-> Header(Len(frames[i])) \o frames[i]])
Remainder == SubSeq(stream, Len(Encoded(socket.frames)) + 1, Len(stream))
NextLen == Value(SubSeq(Remainder, 1, HeadLen))

\* Whichever pieces the stream comes in, its frames are emitted, whole, in order
\* and as soon as they are there, up to the first bad length, and only there is
\* the socket closed (decode).
DecodeExact ==
    transport = "tcp" =>
        LET begun == Len(Remainder) >= HeadLen
            fs    == socket.frames
        IN  /\ IsPrefix(Encoded(fs), stream)
            /\ \A n \in DOMAIN fs : ~BadLength(Len(fs[n]), SubSeq(fs, 1, n - 1))
            /\ socket.die <=> begun /\ BadLength(NextLen, fs)
            /\ begun /\ ~socket.die => Len(Remainder) < HeadLen + NextLen

\* Of messages each frame is emitted, none of them empty, up to the first message
\* that is anything but frames, which ends the connection (WsSocket.onData).
WsDecodeExact ==
    transport = "ws" =>
        /\ IsPrefix(Encoded(socket.frames), stream)
        /\ \A n \in DOMAIN socket.frames : socket.frames[n] # <<>>
        /\ socket.die <=> Remainder # <<>>
        /\ Len(Remainder) >= HeadLen => NextLen = 0 \/ Len(Remainder) < HeadLen + NextLen
=============================================================================
