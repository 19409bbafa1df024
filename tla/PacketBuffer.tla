---------------------------- MODULE PacketBuffer ----------------------------
(***************************************************************************)
(* Length-prefixed framing over a TCP byte stream, as the agent end of a   *)
(* tunnel link reads it.                                                   *)
(*                                                                         *)
(* The server end writes whole frames: a 2-byte big-endian size and then   *)
(* that many payload bytes.  The agent's reader goroutine,                 *)
(* handleBackendResponse (tunnel.go), loops on ReadRequest: a new          *)
(* BackendRequest with a new basePacketBuffer (backend_session.go), read   *)
(* by BaseConn.ReadPacket (conn.go), which sets the 10 s read deadline and *)
(* calls basePacketBuffer.ReadFrom (zd/packet.go).  ReadFrom is two        *)
(* io.ReadFull calls: the size header, then the payload into the buffer   *)
(* `alloc` made.  A read error that is a timeout makes the loop Free the   *)
(* request and read again; any other error breaks the loop.                *)
(*                                                                         *)
(* Bytes reach the agent's socket one at a time (TCP may cut a frame       *)
(* anywhere); ReadFull consumes them one at a time, and the deadline can   *)
(* fire whenever the reader waits for a byte that has not arrived.         *)
(***************************************************************************)
EXTENDS Integers, SequencesExt

CONSTANTS
    Payloads,   \* payloads the server end writes (sequences of bytes)
    MaxSize,    \* the buffer's maxSize (packet.MaxPacketSize)
    MaxWrites   \* bound on the frames the server end writes

VARIABLES
    sent,       \* the bytes the server end has written, in order
    pkts,       \* ghost: the payloads of the frames written, in order
    peerClosed, \* the server end closed its conn
    arrived,    \* how many bytes of `sent` reached the agent's socket
    pos,        \* how many bytes of `sent` the agent's reader consumed
    rpc,        \* the reader: "size" (first ReadFull), "body" (second), "exit"
    sizeHeader, \* ReadFrom's sizeHeader: the bytes of it read so far
    data,       \* the payload part of buf.data read so far
    forwarded   \* the packets handed to forwardToFrontend, in order

vars == <<sent, pkts, peerClosed, arrived, pos, rpc, sizeHeader, data,
          forwarded>>
peerVars == <<sent, pkts, peerClosed>>

Byte == 0..255

\* binary.BigEndian.PutUint16 of the payload length, then the payload.
Frame(p) == <<Len(p) \div 256, Len(p) % 256>> \o p

\* size := int(sizeHeader[0])<<8 + int(sizeHeader[1])
SizeOf(h) == h[1] * 256 + h[2]

\* alloc(size) sets buf.data to a buffer of len size (pool.Alloc or make)
\* unless size > maxSize, when it leaves buf.data nil.
Alloc(size) == size <= MaxSize

TypeOK ==
    /\ sent \in Seq(Byte)
    /\ pkts \in Seq(Payloads)
    /\ peerClosed \in BOOLEAN
    /\ arrived \in 0..Len(sent) /\ pos \in 0..arrived
    /\ rpc \in {"size", "body", "exit"}
    /\ sizeHeader \in Seq(Byte) /\ Len(sizeHeader) <= 2
    /\ data \in Seq(Byte)
    /\ forwarded \in Seq(Seq(Byte))

Init ==
    /\ sent = <<>> /\ pkts = <<>> /\ peerClosed = FALSE
    /\ arrived = 0 /\ pos = 0
    /\ rpc = "size" /\ sizeHeader = <<>> /\ data = <<>>
    /\ forwarded = <<>>

\* The next byte of the stream; it has reached the agent's socket.
NextByte == sent[pos + 1]
Available == pos < arrived

\* The reader waits on the socket: nothing has arrived that it has not read.
Blocked == pos = arrived

-----------------------------------------------------------------------------
(* The server end and the network.                                         *)

\* A Write of one whole frame.
Write(p) ==
    /\ ~peerClosed /\ Len(pkts) < MaxWrites
    /\ sent' = sent \o Frame(p)
    /\ pkts' = Append(pkts, p)
    /\ UNCHANGED <<peerClosed, arrived, pos, rpc, sizeHeader, data, forwarded>>

PeerClose ==
    /\ ~peerClosed
    /\ peerClosed' = TRUE
    /\ UNCHANGED <<sent, pkts, arrived, pos, rpc, sizeHeader, data, forwarded>>

\* TCP delivers the next byte, in order.
Arrive ==
    /\ arrived < Len(sent)
    /\ arrived' = arrived + 1
    /\ UNCHANGED <<sent, pkts, peerClosed, pos, rpc, sizeHeader, data,
                   forwarded>>

-----------------------------------------------------------------------------
(* The agent's reader goroutine.                                           *)

\* io.ReadFull(r, sizeHeader[:2]) takes one more byte.
ReadSizeByte ==
    /\ rpc = "size" /\ Len(sizeHeader) < 2 /\ Available
    /\ sizeHeader' = Append(sizeHeader, NextByte)
    /\ pos' = pos + 1
    /\ UNCHANGED <<peerVars, arrived, rpc, data, forwarded>>

\* The header is read: buf.alloc(2 + size) makes no buffer when 2 + size
\* exceeds maxSize, and ReadFrom then fails with "invalid packet size", an
\* error that is not a timeout, so the loop breaks.  Otherwise the payload
\* is read next (ReadFull of zero bytes returns at once).
AllocBody ==
    /\ rpc = "size" /\ Len(sizeHeader) = 2
    /\ rpc' = IF Alloc(2 + SizeOf(sizeHeader)) THEN "body" ELSE "exit"
    /\ UNCHANGED <<peerVars, arrived, pos, sizeHeader, data, forwarded>>

\* io.ReadFull(r, buf.data[2:2+size]) takes one more byte.
ReadBodyByte ==
    /\ rpc = "body" /\ Len(data) < SizeOf(sizeHeader) /\ Available
    /\ data' = Append(data, NextByte)
    /\ pos' = pos + 1
    /\ UNCHANGED <<peerVars, arrived, rpc, sizeHeader, forwarded>>

\* ReadFrom returns 2 + size: `go forwardToFrontend(sess, inRequest)`, and
\* the loop reads the next request into a new buffer.
Forward ==
    /\ rpc = "body" /\ Len(data) = SizeOf(sizeHeader)
    /\ forwarded' = Append(forwarded, data)
    /\ rpc' = "size" /\ sizeHeader' = <<>> /\ data' = <<>>
    /\ UNCHANGED <<peerVars, arrived, pos>>

\* The reader is inside a ReadFull and waits for a byte.
Waiting ==
    \/ rpc = "size" /\ Len(sizeHeader) < 2
    \/ rpc = "body" /\ Len(data) < SizeOf(sizeHeader)

\* The read deadline fires while the reader waits: ReadFull returns the
\* timeout with the bytes it consumed, ReadFrom returns it, the loop calls
\* inRequest.Free() and, IsNetTimeout being true, reads the next request.
\* The consumed bytes of the cut frame are gone.
ReadTimeout ==
    /\ Waiting /\ Blocked
    /\ ~(peerClosed /\ arrived = Len(sent))
    /\ rpc' = "size" /\ sizeHeader' = <<>> /\ data' = <<>>
    /\ UNCHANGED <<peerVars, arrived, pos, forwarded>>

\* The peer closed and everything it wrote was read: io.EOF (or
\* io.ErrUnexpectedEOF inside a frame), not a timeout: the loop breaks.
ReadEOF ==
    /\ Waiting /\ Blocked
    /\ peerClosed /\ arrived = Len(sent)
    /\ rpc' = "exit"
    /\ UNCHANGED <<peerVars, arrived, pos, sizeHeader, data, forwarded>>

Next ==
    \/ \E p \in Payloads : Write(p)
    \/ PeerClose \/ Arrive
    \/ ReadSizeByte \/ AllocBody \/ ReadBodyByte \/ Forward
    \/ ReadTimeout \/ ReadEOF

Spec == Init /\ [][Next]_vars

-----------------------------------------------------------------------------
(* Properties.                                                             *)

\* The reader hands forwardToFrontend exactly the payloads the server end
\* wrote, in order: the k-th packet forwarded is the k-th frame written.
\* This is what ReadFrom's framing is for: a packet cut out of the wrong
\* bytes carries a connID read from the wrong place.
FramesIntact == IsPrefix(forwarded, pkts)

=============================================================================
