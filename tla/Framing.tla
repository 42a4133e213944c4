------------------------------ MODULE Framing ------------------------------
(***************************************************************************)
(* One connection and its two ends: message_send_all and                   *)
(* message_receive_all (message.c) as network_send_receive calls them in a *)
(* client (network_client.c), and serve_conn, through network_receive and  *)
(* network_send, in a server.  The client of a connection may itself be a  *)
(* server that forwards a write.                                           *)
(*                                                                         *)
(* The two directions of the connection are byte streams: bytes arrive in  *)
(* order, and read returns as many of them as have arrived, one at least.  *)
(* A byte is a unit of the model, known by the message it belongs to and   *)
(* its place in it: places 1 and 2 are the size, the content follows.  The *)
(* contents of a message do not matter, so a message is its size.          *)
(***************************************************************************)
EXTENDS Integers, Sequences, FiniteSets

CONSTANTS Sizes,         \* what message_t__get_packed_size may return
          MAX_MSG,       \* bytes of a packet (2048 in the code)
          SHRT_MAX,      \* the greatest short
          Garbled,       \* a message that protobuf makes of other bytes
          MaxMessages,   \* bound: requests of the client
          MaxSignals     \* bound: reads and writes that a signal interrupts

ASSUME FramingAssumption ==
    /\ Sizes \subseteq Nat
    /\ MAX_MSG \in Nat \ {0}
    /\ SHRT_MAX \in Nat \ {0} /\ SHRT_MAX >= MAX_MSG
    /\ Garbled \notin Nat
    /\ {MaxMessages, MaxSignals} \subseteq Nat

Peers == {"client", "server"}
Other(p) == CHOOSE q \in Peers : q # p

VARIABLES pc,          \* where each end is in its call
          size,        \* content_size or response_size: what is left of it
          total,       \* ... and what it was at first
          wire,        \* the bytes on their way to each end
          sent,        \* the messages each end has called message_send_all with
          received,    \* the messages message_receive_all has returned to it
          signals      \* reads and writes that were interrupted

vars == <<pc, size, total, wire, sent, received, signals>>

\* Where message_send_all writes, and where message_receive_all reads.
Sending == {"write_size", "write_content"}
Receiving == {"read_size", "read_content"}
Ended == {"closed", "dead"}

\* The conversion of a size to a short.
Short(n) == ((n + SHRT_MAX + 1) % (2 * (SHRT_MAX + 1))) - (SHRT_MAX + 1)

Byte(k, place) == [of |-> k, place |-> place]
Bytes(k, from, to) == [j \in 1..(to - from + 1) |-> Byte(k, from + j - 1)]
SizeOf(k) == Bytes(k, 1, 2)
Content(k, n) == Bytes(k, 3, n + 2)

First(n, bytes) == SubSeq(bytes, 1, n)
Drop(n, bytes) == SubSeq(bytes, n + 1, Len(bytes))
Least(a, b) == IF a < b THEN a ELSE b

\* What an end reads first says the size, if it is in step with the other.
Announced(p, bytes) ==
    IF \E k \in DOMAIN sent[Other(p)] : bytes = SizeOf(k)
      THEN LET k == CHOOSE k \in DOMAIN sent[Other(p)] : bytes = SizeOf(k)
           IN {Short(sent[Other(p)][k])}
      ELSE 0..SHRT_MAX

\* message_t__unpack: the message whose content this is, or some other one.
Unpacked(p, bytes) ==
    LET whole == {k \in DOMAIN sent[Other(p)] : bytes = Content(k, sent[Other(p)][k])}
    IN  IF whole # {} THEN {sent[Other(p)][k] : k \in whole} ELSE {Garbled}

Init ==
    /\ pc = [p \in Peers |-> IF p = "client" THEN "turn" ELSE "read_size"]
    /\ size = [p \in Peers |-> 0]
    /\ total = [p \in Peers |-> 0]
    /\ wire = [p \in Peers |-> <<>>]
    /\ sent = [p \in Peers |-> <<>>]
    /\ received = [p \in Peers |-> <<>>]
    /\ signals = 0

Goto(p, l) == pc' = [pc EXCEPT ![p] = l]

-----------------------------------------------------------------------------
(* message_send_all                                                        *)

\* The sizes of the buffer and of the message differ when it does not fit in a
\* short: calloc fails and message_t__pack writes through NULL, or it writes
\* past the end of the buffer.
BeginSend(p) ==
    /\ pc[p] = "turn"
    /\ p = "client" => Len(sent[p]) < MaxMessages
    /\ \E n \in Sizes :
          /\ sent' = [sent EXCEPT ![p] = Append(@, n)]
          /\ IF Short(n) < 0
               THEN Goto(p, "dead") /\ UNCHANGED <<size, total>>
               ELSE /\ \/ Goto(p, "write_size")
                       \/ Short(n) < n /\ Goto(p, "dead")
                    /\ size' = [size EXCEPT ![p] = Short(n)]
                    /\ total' = [total EXCEPT ![p] = Short(n)]
    /\ UNCHANGED <<wire, received, signals>>

\* What the next write is given.
ToWrite(p) ==
    LET k == Len(sent[p])
        done == total[p] - size[p]
    IN  IF pc[p] = "write_size" THEN SizeOf(k)
        ELSE Bytes(k, done + 3, done + Least(size[p], MAX_MSG) + 2)

\* write, when it writes all it is given.  An end that has closed gets nothing.
Write(p) ==
    wire' = IF pc[Other(p)] \in Ended THEN wire
            ELSE [wire EXCEPT ![Other(p)] = @ \o ToWrite(p)]

WriteSize(p) ==
    /\ pc[p] = "write_size"
    /\ Write(p)
    /\ Goto(p, "write_content")
    /\ UNCHANGED <<size, total, sent, received, signals>>

\* (Mutant: packets are written until nothing is left, and more.)
WritePacketPastEnd(p) ==
    /\ pc[p] = "write_content" /\ size[p] > 0
    /\ Write(p)
    /\ size' = [size EXCEPT ![p] = @ - MAX_MSG]
    /\ UNCHANGED <<pc, total, sent, received, signals>>

WritePacket(p) ==
    /\ pc[p] = "write_content" /\ size[p] > MAX_MSG
    /\ Write(p)
    /\ size' = [size EXCEPT ![p] = @ - MAX_MSG]
    /\ UNCHANGED <<pc, total, sent, received, signals>>

\* free of a pointer that has been moved past a packet may end the process.
Free(p, next) ==
    \/ Goto(p, next)
    \/ total[p] > MAX_MSG /\ Goto(p, "dead")

\* The last packet.  The client then waits for the answer, the server for the
\* next request.
WriteLast(p) ==
    /\ pc[p] = "write_content" /\ size[p] <= MAX_MSG
    /\ Write(p)
    /\ Free(p, "read_size")
    /\ UNCHANGED <<size, total, sent, received, signals>>

\* (Mutant: what write returns is not looked at.)
WriteInterruptedUnseen(p) ==
    /\ pc[p] \in Sending
    /\ signals < MaxSignals
    /\ signals' = signals + 1
    /\ \E n \in 0..(Len(ToWrite(p)) - 1) :
          wire' = [wire EXCEPT ![Other(p)] = @ \o First(n, ToWrite(p))]
    /\ Goto(p, IF pc[p] = "write_size" THEN "write_content" ELSE "read_size")
    /\ UNCHANGED <<size, total, sent, received>>

\* write returns less: a signal interrupts it ...
WriteInterrupted(p) ==
    /\ pc[p] \in Sending
    /\ signals < MaxSignals
    /\ signals' = signals + 1
    /\ \E n \in 0..(Len(ToWrite(p)) - 1) :
          wire' = [wire EXCEPT ![Other(p)] = @ \o First(n, ToWrite(p))]
    /\ Goto(p, "close")
    /\ UNCHANGED <<size, total, sent, received>>

\* ... or the other end has closed.  Only a server ignores SIGPIPE.
WriteFails(p) ==
    /\ pc[p] \in Sending
    /\ pc[Other(p)] \in Ended
    /\ \/ Goto(p, "close")
       \/ p = "client" /\ Goto(p, "dead")
    /\ UNCHANGED <<size, total, wire, sent, received, signals>>

-----------------------------------------------------------------------------
(* message_receive_all                                                     *)

\* read is asked for n bytes: it returns some of those that have arrived, and
\* fewer than n are taken for the end of the connection.
Read(p, n, r) ==
    /\ r \in (IF n = 0 THEN {0} ELSE 1..Least(n, Len(wire[p])))
    /\ wire' = [wire EXCEPT ![p] = Drop(r, @)]

ReadShort(p, n) ==
    /\ \E r \in 1..(n - 1) : Read(p, n, r)
    /\ Goto(p, "close")
    /\ UNCHANGED <<size, total, sent, received, signals>>

ReadSize(p) ==
    /\ pc[p] = "read_size"
    /\ \/ ReadShort(p, 2)
       \/ /\ Read(p, 2, 2)
          /\ \E n \in Announced(p, First(2, wire[p])) :
                /\ size' = [size EXCEPT ![p] = n]
                /\ total' = [total EXCEPT ![p] = n]
          /\ Goto(p, "read_content")
          /\ UNCHANGED <<sent, received, signals>>

ReadPacket(p) ==
    /\ pc[p] = "read_content" /\ size[p] > MAX_MSG
    /\ \/ ReadShort(p, MAX_MSG)
       \/ /\ Read(p, MAX_MSG, MAX_MSG)
          /\ size' = [size EXCEPT ![p] = @ - MAX_MSG]
          /\ UNCHANGED <<pc, total, sent, received, signals>>

\* (Mutant: part of a packet is taken for all of it.)
ReadLastShort(p) ==
    /\ pc[p] = "read_content" /\ size[p] <= MAX_MSG
    /\ \E r \in 0..size[p] :
          /\ Read(p, size[p], r)
          /\ \E m \in Unpacked(p, First(r, wire[p])) :
                received' = [received EXCEPT ![p] = Append(@, m)]
    /\ Free(p, "turn")
    /\ UNCHANGED <<size, total, sent, signals>>

\* The last packet, which is all that is unpacked: response_buf has been moved
\* past the others.  Bytes that are no message make it return NULL.
ReadLast(p) ==
    /\ pc[p] = "read_content" /\ size[p] <= MAX_MSG
    /\ \/ ReadShort(p, size[p])
       \/ /\ Read(p, size[p], size[p])
          /\ \/ /\ \E m \in Unpacked(p, First(size[p], wire[p])) :
                      received' = [received EXCEPT ![p] = Append(@, m)]
                /\ Free(p, "turn")
             \/ /\ Unpacked(p, First(size[p], wire[p])) = {Garbled}
                /\ Free(p, "close")
                /\ UNCHANGED received
          /\ UNCHANGED <<size, total, sent, signals>>

\* read returns 0, or an error: the other end has closed ...
ReadEnds(p) ==
    /\ pc[p] \in Receiving
    /\ pc[p] = "read_content" => size[p] # 0
    /\ wire[p] = <<>>
    /\ pc[Other(p)] \in Ended
    /\ Goto(p, "close")
    /\ UNCHANGED <<size, total, wire, sent, received, signals>>

\* (Mutant: the call fails and the connection stays.)
ReadInterruptedKept(p) ==
    /\ pc[p] \in Receiving
    /\ signals < MaxSignals
    /\ signals' = signals + 1
    /\ Goto(p, "turn")
    /\ UNCHANGED <<size, total, wire, sent, received>>

\* ... or a signal interrupts it.
ReadInterrupted(p) ==
    /\ pc[p] \in Receiving
    /\ signals < MaxSignals
    /\ signals' = signals + 1
    /\ Goto(p, "close")
    /\ UNCHANGED <<size, total, wire, sent, received>>

-----------------------------------------------------------------------------
\* rtable_disconnect in a client, a request that invoke refuses in a server.
Hangup(p) ==
    /\ pc[p] = "turn"
    /\ Goto(p, "close")
    /\ UNCHANGED <<size, total, wire, sent, received, signals>>

\* network_close, or close in serve_conn.
Close(p) ==
    /\ pc[p] = "close"
    /\ Goto(p, "closed")
    /\ wire' = [wire EXCEPT ![p] = <<>>]
    /\ UNCHANGED <<size, total, sent, received, signals>>

\* What is still on its way from an end that has closed may be discarded.
Reset(p) ==
    /\ pc[Other(p)] \in Ended
    /\ wire[p] # <<>>
    /\ wire' = [wire EXCEPT ![p] = <<>>]
    /\ UNCHANGED <<pc, size, total, sent, received, signals>>

message_send_all(p) == WriteSize(p) \/ WritePacket(p) \/ WriteLast(p) \/ WriteInterrupted(p) \/ WriteFails(p)
message_receive_all(p) == ReadSize(p) \/ ReadPacket(p) \/ ReadLast(p) \/ ReadEnds(p) \/ ReadInterrupted(p)

Serve == BeginSend("server") \/ Hangup("server")
Call == BeginSend("client") \/ Hangup("client")
Run(p) == message_send_all(p) \/ message_receive_all(p) \/ Close(p)

Done == (\A p \in Peers : pc[p] \in Ended) /\ UNCHANGED vars

Next == \/ Call \/ Serve
        \/ \E p \in Peers : Run(p) \/ Reset(p)
        \/ Done

Spec == Init /\ [][Next]_vars

\* The two processes run, and invoke returns.  The client need not call.
Fairness == WF_vars(Serve) /\ \A p \in Peers : WF_vars(Run(p))

FairSpec == Spec /\ Fairness

-----------------------------------------------------------------------------
TypeOK ==
    /\ pc \in [Peers -> Sending \union Receiving \union Ended \union {"turn", "close"}]
    /\ size \in [Peers -> 0..SHRT_MAX]
    /\ total \in [Peers -> 0..SHRT_MAX]
    /\ wire \in [Peers -> Seq([of : Nat, place : Nat])]
    /\ sent \in [Peers -> Seq(Sizes)]
    /\ received \in [Peers -> Seq(Sizes \union {Garbled})]
    /\ signals \in 0..MaxSignals

Fits == {n \in Sizes : n <= MAX_MSG}

ToServer == INSTANCE MessageChannel
    WITH Messages <- Sizes, Whole <- Fits, sent <- sent["client"], received <- received["server"]
ToClient == INSTANCE MessageChannel
    WITH Messages <- Sizes, Whole <- Fits, sent <- sent["server"], received <- received["client"]

\* However read and write cut the streams, the messages of one packet arrive as
\* they were sent and in order, until the connection ends.
Channels == ToServer!Spec /\ ToClient!Spec

\* An answer is the answer to the last request: when a call has succeeded the
\* server has received every request and the client every answer, and when the
\* server has a request to serve, nothing else is under way.
InStep ==
    /\ pc["client"] = "turn" =>
          /\ Len(received["client"]) = Len(sent["client"])
          /\ Len(received["server"]) = Len(sent["client"])
    /\ pc["server"] = "turn" =>
          /\ Len(received["server"]) = Len(sent["server"]) + 1
          /\ wire["server"] = <<>>

\* A call of the client returns, whatever is lost: neither end waits for bytes
\* that the other will not send.
EveryCallReturns == pc["client"] \in Sending \union Receiving ~> pc["client"] \in Ended \union {"turn", "close"}

\* A message is received as it was sent, however many packets it needs: "it will
\* be read into the socket in packets and unpacked at the end" (message.c:90-91).
ReceivedAsSent ==
    \A p \in Peers : \A k \in DOMAIN received[p] : received[p][k] = sent[Other(p)][k]
=============================================================================
