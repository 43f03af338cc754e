----------------------------- MODULE FrameStream -----------------------------
(***************************************************************************)
(* How frames are cut out of what a peer sends: DefaultFramer.DeFrame as   *)
(* the TCP connector's readLoop calls it, with a read deadline (framer.go, *)
(* tcp_connector.go), wsDeframe as the WebSocket connector feeds it        *)
(* message by message, and wsExtractBodies of the WebSocket server.        *)
(*                                                                         *)
(* A byte is a cell of base Base.  A frame is its total length in LenSize  *)
(* cells, most significant first, and a body of a HeadSize-cell header and *)
(* a payload.                                                              *)
(***************************************************************************)
EXTENDS Naturals, SequencesExt

CONSTANTS
  Base,         \* 256
  LenSize,      \* 4, cells of the length
  HeadSize,     \* 6, cells of MsgId and Code
  MaxBody,      \* MaxPacketSize
  Streams,      \* what a peer may send that keeps to no format
  Sendings      \* sequences of bodies that a peer may send in frames

Cells == 0..(Base - 1)

\* What can be counted with k cells: 2^32 with the cells of a length.
Count[k \in 0..LenSize] == IF k = 0 THEN 1 ELSE Count[k - 1] * Base

ASSUME SizeAssumption ==
  Base \in Nat \ {0, 1} /\ LenSize \in Nat \ {0} /\ HeadSize \in Nat \ {0} /\ MaxBody \in Nat
ASSUME StreamAssumption == Streams \subseteq Seq(Cells)
\* A sender writes what a length can count.  A body may have no header: the empty
\* frame is one that DeFrame returns.
ASSUME SendingAssumption == \A bodies \in Sendings :
  /\ bodies \in Seq(Seq(Cells))
  /\ \A i \in DOMAIN bodies : LenSize + Len(bodies[i]) < Count[LenSize]

VARIABLES
  proto,        \* the receiver: "tcp" or "ws" connector, or WebSocket "server"
  sent,         \* the bodies sent, <<>> if stream is anything else
  stream,       \* the cells that the peer sends
  pos,          \* number of cells received
  have,         \* cells received of a frame that is not whole yet
  got,          \* history: the bodies handed to the decoder and decoded
  open,         \* the connection is open
  torn,         \* history: a read deadline has dropped a part of a frame
  cut           \* history: a message ended inside a frame

given == <<proto, sent, stream>>
vars == <<given, pos, have, got, open, torn, cut>>

-----------------------------------------------------------------------------
\* n shifted right by k cells.
Shifted(n) ==
  LET shifted[k \in 0..LenSize] == IF k = 0 THEN n ELSE shifted[k - 1] \div Base
  IN shifted

\* The length as written: it has LenSize cells, whatever n is.
MakeHeader(n) == [i \in 1..LenSize |-> Shifted(n)[LenSize - i] % Base]

Frame(body) == MakeHeader(LenSize + Len(body)) \o body

Encode(bodies) ==
  LET encoded[i \in 0..Len(bodies)] ==
        IF i = 0 THEN <<>> ELSE encoded[i - 1] \o Frame(bodies[i])
  IN encoded[Len(bodies)]

\* The total length at the head of buf.
Total(buf) ==
  LET value[i \in 0..LenSize] == IF i = 0 THEN 0 ELSE value[i - 1] * Base + buf[i]
  IN value[LenSize]

Body(buf) == SubSeq(buf, LenSize + 1, Total(buf))
BadTotal(buf) == Total(buf) < LenSize + HeadSize

-----------------------------------------------------------------------------
Init ==
  /\ proto \in {"tcp", "ws", "server"}
  /\ \/ sent = <<>> /\ stream \in Streams
     \/ sent \in Sendings /\ stream = Encode(sent)
  /\ pos = 0
  /\ have = <<>>
  /\ got = <<>>
  /\ open = TRUE
  /\ torn = FALSE
  /\ cut = FALSE

Receiving(p) == open /\ proto = p /\ UNCHANGED given

Deliver(bodies, rest) ==
  /\ got' = got \o bodies
  /\ have' = rest
  /\ UNCHANGED open

\* The connection is closed; readLoop starts afresh with a new one.
Refuse == open' = FALSE /\ UNCHANGED <<have, got>>

(***************************************************************************)
(* The TCP connector.  ReadFull collects the length, then the body.        *)
(***************************************************************************)
Refused(buf) ==
  Len(buf) = LenSize /\ Total(buf) \notin LenSize..(LenSize + MaxBody)

\* Mutant: the length is taken not to count itself.
Complete_Exclusive(buf) == Len(buf) > LenSize /\ Len(buf) = Total(buf) + LenSize

Complete(buf) == Len(buf) >= LenSize /\ Len(buf) = Total(buf)

\* Decode returns nil for a body without a whole header.
Undecodable(buf) == Complete(buf) /\ Len(buf) < LenSize + HeadSize

Read == Append(have, stream[pos + 1])

ReadCell ==
  /\ Receiving("tcp")
  /\ pos < Len(stream)
  /\ pos' = pos + 1
  /\ UNCHANGED <<torn, cut>>

ReadPart ==
  /\ ReadCell
  /\ ~Refused(Read) /\ ~Complete(Read)
  /\ Deliver(<<>>, Read)

ReadFrame ==
  /\ ReadCell
  /\ Complete(Read) /\ ~Refused(Read) /\ ~Undecodable(Read)
  /\ Deliver(<<SubSeq(Read, LenSize + 1, Len(Read))>>, <<>>)

ReadRefused ==
  /\ ReadCell
  /\ Refused(Read) \/ Undecodable(Read)
  /\ Refuse

\* The read deadline passes, and readLoop calls DeFrame again.
ReadTimeout ==
  /\ Receiving("tcp")
  /\ have' = <<>>
  /\ torn' = (torn \/ have # <<>>)
  /\ UNCHANGED <<pos, got, open, cut>>

(***************************************************************************)
(* The WebSocket connector and server: a message carries any part of the   *)
(* stream.                                                                 *)
(***************************************************************************)
\* The whole frames at the head of all, and what follows the last of them; not
\* ok if that is a frame with a length too small to be one.
Split(all) ==
  LET split[i \in 0..Len(all)] ==
        LET buf == SubSeq(all, i + 1, Len(all)) IN
        IF Len(buf) < LenSize THEN [ok |-> TRUE, bodies |-> <<>>, rest |-> buf]
        ELSE IF BadTotal(buf) THEN [ok |-> FALSE, bodies |-> <<>>, rest |-> buf]
        ELSE IF Len(buf) < Total(buf) THEN [ok |-> TRUE, bodies |-> <<>>, rest |-> buf]
        ELSE [split[i + Total(buf)] EXCEPT !.bodies = <<Body(buf)>> \o @]
  IN split[0]

Message(p, n) ==
  /\ Receiving(p)
  /\ n \in (pos + 1)..Len(stream)
  /\ pos' = n
  /\ UNCHANGED torn

\* Mutant: the part of a frame behind whole ones is forgotten.
WsDeframe_Forgets(buf) == [Split(buf) EXCEPT !.rest = <<>>]

\* On a bad length the frames before it are dropped as well.
WsDeframe(buf) == Split(buf)

WsReceive(n) ==
  /\ Message("ws", n)
  /\ LET frames == WsDeframe(have \o SubSeq(stream, pos + 1, n))
     IN IF frames.ok THEN Deliver(frames.bodies, frames.rest) ELSE Refuse
  /\ UNCHANGED cut

\* Frames do not continue from one message to the next.
WsExtractBodies(data) ==
  [Split(data) EXCEPT !.ok = @ /\ Split(data).rest = <<>>]

ServerReceive(n) ==
  /\ Message("server", n)
  /\ LET data == SubSeq(stream, pos + 1, n)
         frames == WsExtractBodies(data)
     IN /\ IF frames.ok THEN Deliver(frames.bodies, <<>>) ELSE Refuse
        /\ cut' = (Split(data).ok /\ ~frames.ok)

Next ==
  \/ ReadPart \/ ReadFrame \/ ReadRefused \/ ReadTimeout
  \/ \E n \in 1..Len(stream) : WsReceive(n) \/ ServerReceive(n)

Spec == Init /\ [][Next]_vars

-----------------------------------------------------------------------------
(***************************************************************************)
(* Properties                                                              *)
(***************************************************************************)
\* However the stream is cut into reads and messages, and whatever a peer sends:
\* unless a deadline has torn a frame, the frames of the bodies delivered are
\* the head of the stream, and what follows, up to the last cell received, is
\* the part of a frame that the receiver holds; it holds no whole frame.
InStep ==
  ~torn =>
    /\ IsPrefix(Encode(got), stream)
    /\ open => Encode(got) \o have = SubSeq(stream, 1, pos)
    /\ open /\ Len(have) >= LenSize => Len(have) < Total(have)

Conforming == stream = Encode(sent)

\* Why a connection whose peer sends frames may be closed: a frame beyond
\* MaxPacketSize, which only DeFrame refuses; a frame without a whole header, which
\* DeFrame returns and Decode refuses, and which the WebSocket functions refuse
\* together with what came in front of it; or, at the WebSocket server, a message
\* that ends inside a frame.
Oversize ==
  /\ proto = "tcp" /\ Len(got) < Len(sent)
  /\ Len(sent[Len(got) + 1]) > MaxBody

Headless ==
  \E i \in (Len(got) + 1)..Len(sent) :
    Len(sent[i]) < HeadSize /\ (proto = "tcp" => i = Len(got) + 1)

\* A peer that sends frames, none torn by a deadline, has every one of them
\* delivered, in order and unchanged, unless the connection is closed for one
\* of these reasons.
Faithful ==
  Conforming /\ ~torn =>
    /\ IsPrefix(got, sent)
    /\ ~open => Oversize \/ Headless \/ cut
    /\ open /\ pos = Len(stream) => got = sent

\* DeFrame "reads whole frames" (tcp_connector.go line 151) and a deadline that
\* passes means that the connection is idle (line 156): what is delivered of a
\* peer's frames are those frames.
ReadsWholeFrames == Conforming /\ proto = "tcp" => IsPrefix(got, sent)

=============================================================================
