------------------------------- MODULE Frames -------------------------------
(***************************************************************************)
(* One direction of a WebSocket: a peer that keeps to RFC 6455, and sends  *)
(* its messages in fragments with control frames between them; the bytes,  *)
(* which come in whatever pieces the connection delivers; and the          *)
(* frameParser that reads the copy (internal/proxy websocket.go).          *)
(*                                                                         *)
(* A frame is its opcode, FIN bit, header size in bytes and payload, which *)
(* emit and append see unmasked; `meant` is what the peer meant by it: the *)
(* opcode and payload of its message, how much of that has been sent with  *)
(* it, how many messages it and those before it end, and the byte it ends  *)
(* at.  Truncation is kept nowhere: emit drops the flag.  A frame of more  *)
(* than 2^31 bytes is not modelled.                                        *)
(***************************************************************************)
EXTENDS Naturals, Sequences

CONSTANTS
  Payloads, Heads,   \* what messages and control frames may say; sizes of headers
  Pieces,            \* how many bytes may come at once
  wsLimit,           \* frameParser.limit, MaxBody
  MaxFrames          \* bound on what the peer sends

ASSUME FramesAssumption ==
  /\ \A payload \in Payloads : payload \in Seq({payload[i] : i \in 1..Len(payload)})
  /\ Heads \subseteq Nat \ {0} /\ Pieces \subseteq Nat \ {0}
  /\ wsLimit \in Nat /\ MaxFrames \in Nat

VARIABLES
  frames,                  \* sent by the peer
  arrived,                 \* bytes of them that have come
  parsed, buf,             \* frames that have been read; bytes in p.buf
  msgOp, msg, msgLen,      \* the parser's message
  sink                     \* what it has logged

parser == <<parsed, buf, msgOp, msg, msgLen, sink>>
splice == <<frames, arrived, parser>>

-----------------------------------------------------------------------------
(* The peer. *)

Control == {"close", "ping", "pong"}
FrameSize(f) == f.head + Len(f.payload)

Upto(n) == IF n = 0 THEN 0 ELSE frames[n].meant.end
Ended(n) == IF n = 0 THEN 0 ELSE frames[n].meant.nth

\* The last data frame, which says what is left of a message; 0 if there is none.
DataFrames == {n \in DOMAIN frames : frames[n].op \notin Control}
LastData == IF DataFrames = {} THEN 0 ELSE CHOOSE n \in DataFrames : \A k \in DataFrames : k <= n
UnderWay == LastData # 0 /\ ~frames[LastData].fin

\* fin: whether it is the last of its message, or a control frame.
Sends(op, fin, head, payload, of, sent) ==
  frames' = Append(frames,
    [op |-> op, fin |-> fin, head |-> head, payload |-> payload,
     meant |-> [op |-> of.op, payload |-> of.payload, sent |-> sent,
                nth |-> Ended(Len(frames)) + (IF fin THEN 1 ELSE 0),
                end |-> Upto(Len(frames)) + head + Len(payload)]])

SendControl(op, head, payload) == Sends(op, TRUE, head, payload, [op |-> op, payload |-> payload], Len(payload))

\* The first n bytes of a message, or the next.
SendFirst(op, head, payload, n, fin) ==
  /\ ~UnderWay /\ n <= Len(payload) /\ (fin => n = Len(payload))
  /\ Sends(op, fin, head, SubSeq(payload, 1, n), [op |-> op, payload |-> payload], n)

SendNext(head, n, fin) ==
  /\ UnderWay
  /\ LET of == frames[LastData].meant
         all == of.sent + n
     IN /\ all <= Len(of.payload) /\ (fin => all = Len(of.payload))
        /\ Sends("continuation", fin, head, SubSeq(of.payload, of.sent + 1, all), of, all)

Send ==
  /\ Len(frames) < MaxFrames
  /\ \E head \in Heads, fin \in BOOLEAN :
       \/ \E op \in Control, payload \in Payloads : SendControl(op, head, payload)
       \/ \E op \in {"text", "binary"}, payload \in Payloads : \E n \in 0..Len(payload) :
            SendFirst(op, head, payload, n, fin)
       \/ \E n \in 0..(IF UnderWay THEN Len(frames[LastData].meant.payload) ELSE 0) : SendNext(head, n, fin)
  /\ UNCHANGED <<arrived, parser>>

-----------------------------------------------------------------------------
(* The parser. *)

\* A whole frame is there: the loop of Write goes on.
Here == parsed < Len(frames) /\ buf >= FrameSize(frames[parsed + 1])

\* frameParser.Write of n bytes.
Write(n) ==
  /\ ~Here /\ arrived + n <= Upto(Len(frames))
  /\ arrived' = arrived + n /\ buf' = buf + n
  /\ UNCHANGED <<frames, parsed, msgOp, msg, msgLen, sink>>

emit(op, payload, size) ==
  sink' = Append(sink, [seq |-> Len(sink) + 1, op |-> op, payload |-> payload, len |-> size])

Cut(payload) == IF Len(payload) > wsLimit THEN SubSeq(payload, 1, wsLimit) ELSE payload

\* append of a payload to what there is of a message, and, once FIN is set, emit and
\* the reset behind it.
AppendTo(op, m, len, f) ==
  LET all == Cut(m \o f.payload)
      size == len + Len(f.payload)
  IN IF f.fin THEN emit(op, all, size) /\ msg' = <<>> /\ msgLen' = 0
     ELSE msg' = all /\ msgLen' = size /\ UNCHANGED sink

parseOne ==
  /\ Here
  /\ LET f == frames[parsed + 1] IN
     /\ parsed' = parsed + 1 /\ buf' = buf - FrameSize(f)
     /\ \/ /\ f.op \in Control /\ emit(f.op, f.payload, Len(f.payload))
           /\ UNCHANGED <<msgOp, msg, msgLen>>
        \/ f.op = "continuation" /\ AppendTo(msgOp, msg, msgLen, f) /\ UNCHANGED msgOp
        \/ f.op \in {"text", "binary"} /\ AppendTo(f.op, <<>>, 0, f) /\ msgOp' = f.op
  /\ UNCHANGED <<frames, arrived>>

FramesInit ==
  /\ frames = <<>> /\ arrived = 0 /\ parsed = 0 /\ buf = 0
  /\ msgOp = "" /\ msg = <<>> /\ msgLen = 0 /\ sink = <<>>

FramesNext == Send \/ (\E n \in Pieces : Write(n)) \/ parseOne

-----------------------------------------------------------------------------
\* However messages are cut into frames and frames into pieces, what is logged is
\* each message and control frame that has wholly arrived, once, in order, whole or
\* cut at the limit (a control frame never is) and with its true length; and no frame that is there is left
\* in the buffer when Write returns (websocket.go frameParser).
FramesTrue ==
  /\ Len(sink) = Ended(parsed)
  /\ \A n \in 1..parsed : frames[n].fin =>
       LET of == frames[n].meant IN
       sink[of.nth] = [seq |-> of.nth, op |-> of.op, len |-> Len(of.payload),
                       payload |-> IF of.op \in Control THEN of.payload ELSE Cut(of.payload)]
  /\ ~Here => \A n \in (parsed + 1)..Len(frames) : arrived < frames[n].meant.end
=============================================================================
