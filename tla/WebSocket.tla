------------------------------ MODULE WebSocket ------------------------------
(***************************************************************************)
(* The WebSocket section of crates/open-runo-router/src/hyper_compat.rs    *)
(* and the echo endpoint of handlers_hyper.rs: a client sends messages in  *)
(* fragments, with control frames between them, and the server reassembles *)
(* every message and sends it back.  Masking, which both ends undo, and    *)
(* the bytes of a payload are left out: a fragment is a number and a size. *)
(***************************************************************************)
EXTENDS Integers, Sequences, SequencesExt

CONSTANTS
    MaxMessages,    \* bound: the messages the client sends
    MaxControls,    \* bound: the control and unknown frames it sends
    Sizes,          \* bound: the sizes a fragment may have
    Wire            \* bound: the frames a direction holds before a write waits

ASSUME WireAssumption == Wire \in Nat \ {0} /\ Sizes \subseteq Nat

VARIABLES
    up,         \* frames from the client to the server
    down,       \* frames from the server to the client
    line,       \* "asked", "open", "cut" (the client is gone) or "refused"
    draft,      \* the message the client is sending: its opcode and fragments
    said,       \* history: the messages the client has sent in full
    heard,      \* the messages the client has received
    echoer,     \* the handler's task: "recv", "send", "pong", "close", "ended"
    partial,    \* recv's fragment_opcode and fragments
    pings,      \* control frames sent, pongs awaited
    message     \* what the task is about to write

wsVars == <<up, down, line, draft, said, heard, echoer, partial, pings, message>>

NoMessage == [op |-> "continuation", parts |-> <<>>]

-----------------------------------------------------------------------------
(* Frames.  Operators marked "mutant" are plausible mistakes in the next.   *)

\* The length a frame's head carries: seven bits, or 126 and two bytes, or
\* 127 and eight bytes.
LengthHeadOver(n) ==                                     \* mutant
    IF n <= 126 THEN <<n>>
    ELSE IF n < 2 ^ 16 THEN <<126, n \div 256, n % 256>> ELSE <<127, n>>
LengthHead(n) ==
    IF n < 126 THEN <<n>>
    ELSE IF n < 2 ^ 16 THEN <<126, n \div 256, n % 256>> ELSE <<127, n>>

\* The length a reader takes from it; -1: it waits for bytes that are no length.
LengthRead(head) ==
    CASE head[1] < 126 -> head[1]
      [] head[1] = 126 -> IF Len(head) = 3 THEN head[2] * 256 + head[3] ELSE -1
      [] head[1] = 127 -> IF Len(head) = 2 THEN head[2] ELSE -1

\* A payload's length: its fragments lie one behind the other.
SizeOf(parts) ==
    LET upTo[i \in 0 .. Len(parts)] == IF i = 0 THEN 0 ELSE upTo[i - 1] + parts[i].size
    IN  upTo[Len(parts)]

\* write_frame: the server's frames are whole messages.
Frame(m) ==
    [op |-> m.op, fin |-> TRUE, parts |-> m.parts, head |-> LengthHead(SizeOf(m.parts))]

Readable(frame) == LengthRead(frame.head) >= 0

-----------------------------------------------------------------------------
(* The server.                                                              *)

\* websocket_handler: 101 and a task of its own, or 400 when a header of the
\* handshake is missing.
UpgradeSocket ==
    /\ line = "asked" /\ echoer = "none"
    /\ line' = "open" /\ echoer' = "recv"
    /\ UNCHANGED <<up, down, draft, said, heard, partial, pings, message>>
RefuseUpgrade ==
    /\ line = "asked"
    /\ line' = "refused"
    /\ UNCHANGED <<up, down, draft, said, heard, echoer, partial, pings, message>>

\* read_frame finds a frame; recv decides what it is.
Arrives(frame) ==
    /\ echoer = "recv" /\ line \in {"open", "cut"} /\ up # <<>>
    /\ frame = Head(up) /\ up' = Tail(up)

RecvPingForgets ==                                       \* mutant
    /\ \E frame \in Range(up) :
        /\ Arrives(frame) /\ frame.op = "ping"
        /\ message' = [op |-> "pong", parts |-> frame.parts]
    /\ echoer' = "pong" /\ partial' = NoMessage
    /\ UNCHANGED <<down, line, draft, said, heard, pings>>
RecvPing ==
    /\ \E frame \in Range(up) :
        /\ Arrives(frame) /\ frame.op = "ping"
        /\ message' = [op |-> "pong", parts |-> frame.parts]
    /\ echoer' = "pong"
    /\ UNCHANGED <<down, line, draft, said, heard, partial, pings>>

\* A pong nobody asked for and an opcode nobody knows.
RecvIgnored ==
    /\ \E frame \in Range(up) : Arrives(frame) /\ frame.op \in {"pong", "unknown"}
    /\ UNCHANGED <<down, line, draft, said, heard, echoer, partial, pings, message>>

RecvClose ==
    /\ \E frame \in Range(up) :
        /\ Arrives(frame) /\ frame.op = "close"
        /\ message' = [op |-> "close", parts |-> frame.parts]
    /\ echoer' = "close"
    /\ UNCHANGED <<down, line, draft, said, heard, partial, pings>>

\* A first frame replaces what was collected, a continuation is appended, and
\* the frame with FIN is the message's last; one that began with no opcode is
\* dropped, though its fragments stay until a first frame comes.
Collected(frame) ==
    IF frame.op = "continuation"
    THEN [partial EXCEPT !.parts = @ \o frame.parts]
    ELSE [op |-> frame.op, parts |-> frame.parts]

RecvData ==
    /\ \E frame \in Range(up) :
        /\ Arrives(frame) /\ frame.op \in {"text", "binary", "continuation"}
        /\ LET whole == Collected(frame) IN
           IF frame.fin /\ whole.op # "continuation"
           THEN /\ echoer' = "send" /\ message' = whole /\ partial' = NoMessage
           ELSE /\ partial' = whole /\ UNCHANGED <<echoer, message>>
    /\ UNCHANGED <<down, line, draft, said, heard, pings>>

\* recv's None: the connection is gone, and what it held has been read.
RecvNone ==
    /\ echoer = "recv" /\ line = "cut" /\ up = <<>>
    /\ echoer' = "ended" /\ partial' = NoMessage
    /\ UNCHANGED <<up, down, line, draft, said, heard, pings, message>>

\* write_frame returns when the socket has taken the frame.
Write ==
    /\ echoer \in {"send", "pong", "close"}
    /\ line = "open" /\ Len(down) < Wire
    /\ down' = Append(down, Frame(message))
    /\ echoer' = IF echoer = "close" THEN "ended" ELSE "recv"
    /\ partial' = IF echoer = "close" THEN NoMessage ELSE partial
    /\ message' = NoMessage
    /\ UNCHANGED <<up, line, draft, said, heard, pings>>

\* The client is gone: the echo ends at the error, a pong's is ignored.
WriteFails ==
    /\ echoer \in {"send", "pong", "close"} /\ line = "cut"
    /\ echoer' = IF echoer = "pong" THEN "recv" ELSE "ended"
    /\ partial' = IF echoer = "pong" THEN partial ELSE NoMessage
    /\ message' = NoMessage
    /\ UNCHANGED <<up, down, line, draft, said, heard, pings>>

-----------------------------------------------------------------------------
(* The client, external: it keeps the protocol, and stray continuations.    *)

Sends(frame) ==
    /\ line = "open" /\ Len(up) < Wire
    /\ up' = Append(up, frame)

Part(size) == [of |-> Len(said) + 1, place |-> Len(draft.parts) + 1, size |-> size]

ClientBegins ==
    /\ draft = NoMessage /\ Len(said) < MaxMessages
    /\ \E op \in {"text", "binary"}, size \in Sizes, fin \in BOOLEAN :
        LET whole == [op |-> op, parts |-> <<Part(size)>>] IN
        /\ Sends([Frame(whole) EXCEPT !.fin = fin])
        /\ IF fin THEN said' = Append(said, whole) /\ UNCHANGED draft
           ELSE draft' = whole /\ UNCHANGED said
    /\ UNCHANGED <<down, line, heard, echoer, partial, pings, message>>

\* The last fragment of two.
ClientEnds ==
    /\ draft.op \in {"text", "binary"}
    /\ \E size \in Sizes :
        LET rest == [op |-> "continuation", parts |-> <<Part(size)>>] IN
        /\ Sends(Frame(rest))
        /\ said' = Append(said, [draft EXCEPT !.parts = @ \o rest.parts])
    /\ draft' = NoMessage
    /\ UNCHANGED <<down, line, heard, echoer, partial, pings, message>>

ClientControls ==
    /\ pings.sent < MaxControls /\ draft.op # "close"
    /\ \E op \in {"ping", "pong", "unknown"} \cup
                 (IF draft = NoMessage THEN {"continuation"} ELSE {}) :
        /\ Sends(Frame([op |-> op,
                        parts |-> IF op = "continuation" THEN <<Part(0)>> ELSE <<>>]))
        /\ pings' = [sent |-> pings.sent + 1,
                     awaited |-> IF op = "ping" THEN pings.awaited + 1 ELSE pings.awaited]
    /\ UNCHANGED <<down, line, draft, said, heard, echoer, partial, message>>

ClientCloses ==
    /\ draft = NoMessage
    /\ Sends(Frame([op |-> "close", parts |-> <<>>]))
    /\ draft' = [op |-> "close", parts |-> <<>>]
    /\ UNCHANGED <<down, line, said, heard, echoer, partial, pings, message>>

ClientHears ==
    /\ line = "open" /\ down # <<>> /\ Readable(Head(down))
    /\ down' = Tail(down)
    /\ LET frame == Head(down) IN
       /\ heard' = IF frame.op \in {"text", "binary"}
                   THEN Append(heard, [op |-> frame.op, parts |-> frame.parts])
                   ELSE heard
       /\ pings' = IF frame.op = "pong" THEN [pings EXCEPT !.awaited = @ - 1] ELSE pings
    /\ UNCHANGED <<up, line, draft, said, echoer, partial, message>>

ClientDrops ==
    /\ line = "open"
    /\ line' = "cut" /\ down' = <<>> /\ draft' = NoMessage
    /\ UNCHANGED <<up, said, heard, echoer, partial, pings, message>>

-----------------------------------------------------------------------------

WebSocketInit ==
    /\ up = <<>> /\ down = <<>> /\ line = "asked"
    /\ draft = NoMessage /\ said = <<>> /\ heard = <<>>
    /\ echoer = "none" /\ partial = NoMessage /\ message = NoMessage
    /\ pings = [sent |-> 0, awaited |-> 0]

WebSocketServer ==
    \/ UpgradeSocket \/ RefuseUpgrade \/ RecvPing \/ RecvIgnored \/ RecvClose
    \/ RecvData \/ RecvNone \/ Write \/ WriteFails
WebSocketNext ==
    \/ WebSocketServer
    \/ ClientBegins \/ ClientEnds \/ ClientControls \/ ClientCloses
    \/ ClientHears \/ ClientDrops

\* The server's task is polled when it can go on; the client reads what comes.
WebSocketFair == WF_wsVars(WebSocketServer) /\ WF_wsVars(ClientHears)
WebSocketSpec == WebSocketInit /\ [][WebSocketNext]_wsVars

WebSocketTypeOK ==
    /\ line \in {"asked", "open", "cut", "refused"}
    /\ echoer \in {"none", "recv", "send", "pong", "close", "ended"}
    /\ Len(up) <= Wire /\ Len(down) <= Wire
    /\ pings.awaited \in 0 .. pings.sent
    /\ message # NoMessage <=> echoer \in {"send", "pong", "close"}

-----------------------------------------------------------------------------

\* What the client has heard is what it said, message by message and in order,
\* text as text and binary as binary, every fragment once and in its place,
\* however pings, unknown frames and stray continuations fall between them.
EchoesInOrder == IsPrefix(heard, said)

\* More than that, the connection is such a channel: a message heard is never taken
\* back or changed, and each step lets the client say, or hear, one message and no
\* other, though recv may have handled many frames for it.
Channel == INSTANCE EchoChannel WITH sent <- said, got <- heard
EchoesAsChannel == Channel!ChannelSpec

\* The length in the head of a frame the server has written is that of its payload,
\* whether it takes seven bits, two bytes or eight: the client finds the next frame.
LengthsAreTrue == \A i \in DOMAIN down : LengthRead(down[i].head) = SizeOf(down[i].parts)

\* A message said on a connection that stays up is heard, and a ping answered:
\* recv leaves nothing behind.
EchoesArrive ==
    \A n \in 1 .. MaxMessages :
        Len(said) >= n ~> (Len(heard) >= n \/ line = "cut")
=============================================================================
