---------------------------- MODULE Framing_proof ----------------------------
(***************************************************************************)
(* Proofs about Framing, for messages of any sizes, for packets and shorts *)
(* of any width and any number of interrupted calls: the two directions of *)
(* the connection are channels, and requests and answers stay in step.     *)
(* The bytes under way are a part of one message, the one that is being    *)
(* sent, and they begin where its receiver is in it.                       *)
(***************************************************************************)
EXTENDS Framing, SequenceTheorems, TLAPS

\* A message is under way to p, or p has received them all.
UnderWay(p) == Len(sent[Other(p)]) = Len(received[p]) + 1
Arrived(p) == Len(sent[Other(p)]) = Len(received[p])

\* Requests and answers alternate; an end that is in a call of message_send_all
\* or message_receive_all takes part in what is under way, but for a call that
\* has written all of an empty message and does not know that it has.
Turns ==
    /\ \A p \in Peers : Arrived(p) \/ UnderWay(p)
    /\ UnderWay("server") => Arrived("client") /\ Len(sent["client"]) = Len(sent["server"]) + 1
    /\ UnderWay("client") => Arrived("server") /\ Len(sent["client"]) = Len(sent["server"])
    /\ pc["client"] = "turn" => /\ Arrived("server") /\ Arrived("client")
                                /\ Len(sent["client"]) = Len(sent["server"])
    /\ pc["server"] = "turn" => Arrived("server") /\ Len(sent["client"]) = Len(sent["server"]) + 1
    /\ \A p \in Peers : /\ pc[p] \in Sending => \/ UnderWay(Other(p))
                                                \/ pc[p] = "write_content" /\ total[p] = 0
                        /\ pc[p] = "read_content" => UnderWay(p)

\* The size that the last message to p is announced with, and how many of its
\* bytes, those of the size included, p has read and the other end has written.
Announce(p) == Short(sent[Other(p)][Len(sent[Other(p)])])
Taken(p) == IF pc[p] = "read_content" THEN 2 + total[p] - size[p] ELSE 0
Written(p) == IF pc[p] = "write_size" THEN 0 ELSE 2 + total[p] - size[p]
Open(p) == pc[p] \notin Ended \union {"close"}

\* The bytes on their way to p.
Stream(p) ==
    /\ wire[p] = Bytes(Len(sent[Other(p)]), Taken(p) + 1, Taken(p) + Len(wire[p]))
    /\ wire[p] = <<>> \/ Taken(p) + Len(wire[p]) <= Announce(p) + 2
    /\ pc[Other(p)] \in Sending => Taken(p) + Len(wire[p]) = Written(Other(p))
    /\ pc[p] = "read_content" => total[p] = Announce(p)

\* What p is in the middle of.  Only a message of several packets is partly done
\* when a packet begins, and something is left of it.
Calls(p) ==
    /\ pc[p] \in Sending => total[p] = Announce(Other(p))
    /\ pc[p] = "write_size" => size[p] = total[p]
    /\ pc[p] \in {"write_content", "read_content"} =>
          \/ size[p] = total[p]
          \/ 0 < size[p] /\ size[p] < total[p] /\ MAX_MSG < total[p]

Streams == \A p \in Peers : /\ Arrived(p) => wire[p] = <<>>
                            /\ UnderWay(p) /\ Open(p) => Stream(p)
                            /\ Calls(p)

FramingInv == TypeOK /\ Turns /\ Streams

-----------------------------------------------------------------------------
LEMMA TwoPeers ==
    /\ Other("client") = "server" /\ Other("server") = "client"
    /\ \A p \in Peers : Other(p) \in Peers /\ Other(p) # p /\ Other(Other(p)) = p
BY DEF Other, Peers

\* A size that fits in a short is not changed by the conversion.
LEMMA ShortIs ==
    ASSUME NEW n \in Nat
    PROVE  /\ Short(n) \in Int /\ Short(n) <= SHRT_MAX
           /\ n <= SHRT_MAX => Short(n) = n
<1> USE FramingAssumption DEF FramingAssumption
<1> DEFINE M == SHRT_MAX + 1
<1>1. M \in Nat \ {0} /\ 2 * M \in Nat \ {0} /\ n + M \in Nat
    OBVIOUS
<1>2. (n + M) % (2 * M) \in 0..(2 * M - 1)
    BY <1>1
<1>3. n <= SHRT_MAX => (n + M) % (2 * M) = n + M
    BY <1>1
<1> QED
    BY <1>1, <1>2, <1>3 DEF Short

-----------------------------------------------------------------------------
(* Parts of a message.                                                     *)

ByteType == [of : Nat, place : Nat]

LEMMA BytesLength ==
    ASSUME NEW k \in Nat, NEW f \in Nat \ {0}, NEW b \in Nat, f <= b + 1
    PROVE  Bytes(k, f, b) \in Seq(ByteType) /\ Len(Bytes(k, f, b)) = b - f + 1
<1>1. Bytes(k, f, b) = [j \in 1..(b - f + 1) |-> Byte(k, f + j - 1)]
    BY DEF Bytes
<1>2. b - f + 1 \in Nat /\ \A j \in 1..(b - f + 1) : Byte(k, f + j - 1) \in ByteType
    BY DEF Byte, ByteType
<1>3. [j \in 1..(b - f + 1) |-> Byte(k, f + j - 1)] \in [1..(b - f + 1) -> ByteType]
    BY <1>2
<1> QED
    BY <1>1, <1>2, <1>3

LEMMA BytesFirst ==
    ASSUME NEW k \in Nat, NEW f \in Nat \ {0}, NEW b \in Nat, f <= b + 1, NEW r \in 0..(b - f + 1)
    PROVE  /\ First(r, Bytes(k, f, b)) = Bytes(k, f, f + r - 1)
           /\ Drop(r, Bytes(k, f, b)) = Bytes(k, f + r, b)
<1> DEFINE s == Bytes(k, f, b)
           h == Bytes(k, f, f + r - 1)
           d == Bytes(k, f + r, b)
<1>1. s \in Seq(ByteType) /\ Len(s) = b - f + 1
    BY BytesLength
<1>2. h \in Seq(ByteType) /\ Len(h) = r
  <2>1. f + r - 1 \in Nat /\ f <= (f + r - 1) + 1 /\ (f + r - 1) - f + 1 = r
      OBVIOUS
  <2> QED
      BY <2>1, BytesLength
<1>3. d \in Seq(ByteType) /\ Len(d) = b - f - r + 1
  <2>1. f + r \in Nat \ {0} /\ f + r <= b + 1 /\ b - (f + r) + 1 = b - f - r + 1
      OBVIOUS
  <2> QED
      BY <2>1, BytesLength
<1>4. /\ \A i \in 1..(b - f + 1) : s[i] = Byte(k, f + i - 1)
      /\ \A i \in 1..r : h[i] = Byte(k, f + i - 1)
      /\ \A i \in 1..(b - f - r + 1) : d[i] = Byte(k, f + r + i - 1)
    BY DEF Bytes
<1> HIDE DEF s, h, d
<1>5. First(r, s) = h
    BY <1>1, <1>2, <1>4 DEF First
<1>6. Drop(r, s) = d
    BY <1>1, <1>3, <1>4 DEF Drop
<1> QED
    BY <1>5, <1>6 DEF s, h, d

\* (By a name of its own: a lemma is cited more easily about it.)
Joined(s, t) == s \o t

LEMMA BytesJoin ==
    ASSUME NEW k \in Nat, NEW f \in Nat \ {0}, NEW b \in Nat, NEW g \in Nat, NEW c \in Nat,
           g = b + 1, f <= g, b <= c
    PROVE  Joined(Bytes(k, f, b), Bytes(k, g, c)) = Bytes(k, f, c)
<1> DEFINE s == Bytes(k, f, b)
           t == Bytes(k, g, c)
           u == Bytes(k, f, c)
           m == b - f + 1
           n == c - f + 1
<1>1. s \in Seq(ByteType) /\ Len(s) = m
    BY BytesLength
<1>2. t \in Seq(ByteType) /\ Len(t) = n - m
  <2>1. g \in Nat \ {0} /\ g <= c + 1 /\ c - g + 1 = n - m
      OBVIOUS
  <2> QED
      BY <2>1, BytesLength
<1>3. u \in Seq(ByteType) /\ Len(u) = n
  <2>1. f <= c + 1
      OBVIOUS
  <2> QED
      BY <2>1, BytesLength
<1>4. /\ \A i \in 1..m : s[i] = Byte(k, f + i - 1)
      /\ \A i \in 1..(n - m) : t[i] = Byte(k, g + i - 1)
      /\ \A i \in 1..n : u[i] = Byte(k, f + i - 1)
    BY DEF Bytes
<1>5. m \in Nat /\ n \in Nat /\ m <= n /\ g = f + m
    OBVIOUS
<1> HIDE DEF s, t, u, m, n
<1>6. s \o t \in Seq(ByteType) /\ Len(s \o t) = n
  <2>1. s \o t \in Seq(ByteType) /\ Len(s \o t) = Len(s) + Len(t)
      BY <1>1, <1>2, ConcatProperties
  <2> QED
      BY <1>1, <1>2, <1>5, <2>1
<1>7. ASSUME NEW i \in 1..n PROVE (s \o t)[i] = u[i]
  <2>1. (s \o t)[i] = IF i <= m THEN s[i] ELSE t[i - m]
      BY <1>1, <1>2, <1>5, ConcatProperties
  <2>2. CASE i <= m
      BY <1>4, <1>5, <2>1, <2>2
  <2>3. CASE i > m
    <3>1. i - m \in 1..(n - m) /\ g + (i - m) - 1 = f + i - 1
        BY <1>5, <2>3
    <3> QED
        BY <1>4, <2>1, <2>3, <3>1
  <2>4. i <= m \/ i > m
      BY <1>5
  <2> QED
      BY <2>2, <2>3, <2>4
<1>8. s \o t = u
    BY <1>3, <1>6, <1>7, SeqEqual
<1> QED
    BY <1>8 DEF s, t, u, Joined

\* The bytes of a size tell the message.
LEMMA SizeTells == ASSUME NEW k \in Nat, NEW l \in Nat, SizeOf(k) = SizeOf(l) PROVE k = l
<1>1. SizeOf(k)[1] = Byte(k, 1) /\ SizeOf(l)[1] = Byte(l, 1)
    BY DEF SizeOf, Bytes
<1>2. Byte(k, 1).of = k /\ Byte(l, 1).of = l
    BY DEF Byte
<1> QED
    BY <1>1, <1>2

LEMMA NoBytes ==
    ASSUME NEW k \in Nat, NEW f \in Nat \ {0}, NEW b \in Nat, f = b + 1
    PROVE  Bytes(k, f, b) = <<>>
<1>1. Bytes(k, f, b) \in Seq(ByteType) /\ Len(Bytes(k, f, b)) = 0
    BY BytesLength
<1> QED
    BY <1>1, EmptySeq

-----------------------------------------------------------------------------
(* Who is where.                                                           *)

LEMMA Typed ==
    ASSUME FramingInv, NEW p \in Peers
    PROVE  /\ Other(p) \in Peers /\ Other(p) # p /\ Other(Other(p)) = p
           /\ Len(sent[p]) \in Nat /\ Len(received[p]) \in Nat
           /\ size[p] \in 0..SHRT_MAX /\ total[p] \in 0..SHRT_MAX
           /\ wire[p] \in Seq(ByteType) /\ Len(wire[p]) \in Nat
           /\ MAX_MSG \in Nat \ {0} /\ SHRT_MAX \in Nat
           /\ Taken(p) \in Nat /\ (pc[p] \in Sending => Written(p) \in Nat)
           /\ ~(Arrived(p) /\ UnderWay(p)) /\ (Arrived(p) \/ UnderWay(p))
<1> USE DEF FramingInv, TypeOK
<1>1. Other(p) \in Peers /\ Other(p) # p /\ Other(Other(p)) = p
    BY TwoPeers
<1>2. Len(sent[p]) \in Nat /\ Len(received[p]) \in Nat /\ Len(sent[Other(p)]) \in Nat
    BY <1>1
<1>3. size[p] \in 0..SHRT_MAX /\ total[p] \in 0..SHRT_MAX /\ MAX_MSG \in Nat \ {0} /\ SHRT_MAX \in Nat
    BY FramingAssumption DEF FramingAssumption
<1>4. wire[p] \in Seq(ByteType) /\ Len(wire[p]) \in Nat
    BY DEF ByteType
<1>5. Calls(p)
    BY DEF Streams
<1>6. Taken(p) \in Nat /\ (pc[p] \in Sending => Written(p) \in Nat)
    BY <1>3, <1>5 DEF Taken, Written, Calls, Sending
<1>7. ~(Arrived(p) /\ UnderWay(p)) /\ (Arrived(p) \/ UnderWay(p))
  <2>1. Arrived(p) \/ UnderWay(p)
      BY DEF Turns
  <2>2. Len(received[p]) # Len(received[p]) + 1
      BY <1>2
  <2> QED
      BY <2>1, <2>2 DEF Arrived, UnderWay
<1> QED
    BY <1>1, <1>2, <1>3, <1>4, <1>5, <1>6, <1>7

\* An end goes on, or leaves, and does not send: what is under way to the other
\* end is what it was.
LEMMA OtherKept ==
    ASSUME FramingInv, NEW p \in Peers, UNCHANGED sent,
           \A q \in Peers \ {p} : UNCHANGED <<pc[q], size[q], total[q], wire[q], received[q]>>,
           pc'[p] \notin Sending
    PROVE  \A q \in Peers \ {p} : /\ Arrived(q)' => wire'[q] = <<>>
                                  /\ UnderWay(q)' /\ Open(q)' => Stream(q)'
                                  /\ Calls(q)'
<1> TAKE q \in Peers \ {p}
<1>1. Other(q) = p
    BY Typed, TwoPeers DEF Peers
<1>2. (Arrived(q) => wire[q] = <<>>) /\ (UnderWay(q) /\ Open(q) => Stream(q)) /\ Calls(q)
    BY DEF FramingInv, Streams
<1> QED
    BY <1>1, <1>2 DEF Arrived, UnderWay, Open, Stream, Calls, Announce, Taken

\* An end gives up, closes, or ends.
Leaves(p) ==
    /\ UNCHANGED <<size, total, sent, received>>
    /\ \E l \in Ended \union {"close"} : pc' = [pc EXCEPT ![p] = l]
    /\ \/ UNCHANGED wire
       \/ wire' = [wire EXCEPT ![p] = <<>>]
       \/ \E r \in 1..Len(wire[p]) : wire' = [wire EXCEPT ![p] = Drop(r, @)]
    /\ signals' \in 0..MaxSignals

LEMMA LeavesStep == ASSUME FramingInv, NEW p \in Peers, Leaves(p) PROVE FramingInv'
<1> USE DEF FramingInv
<1>1. PICK l \in Ended \union {"close"} : pc' = [pc EXCEPT ![p] = l]
    BY DEF Leaves
<1>2. /\ wire' \in [Peers -> Seq([of : Nat, place : Nat])]
      /\ \A q \in Peers \ {p} : wire'[q] = wire[q]
      /\ wire[p] = <<>> => wire'[p] = <<>>
  <2>1. CASE wire' = wire
      BY <2>1 DEF TypeOK
  <2>2. CASE wire' = [wire EXCEPT ![p] = <<>>]
    <3>1. <<>> \in Seq([of : Nat, place : Nat])
        BY EmptySeq
    <3> QED
        BY <2>2, <3>1 DEF TypeOK
  <2>3. CASE \E r \in 1..Len(wire[p]) : wire' = [wire EXCEPT ![p] = Drop(r, @)]
    <3>1. PICK r \in 1..Len(wire[p]) : wire' = [wire EXCEPT ![p] = Drop(r, @)]
        BY <2>3
    <3>2. wire[p] \in Seq([of : Nat, place : Nat]) /\ Len(wire[p]) \in Nat /\ Len(wire[p]) # 0
        BY <3>1 DEF TypeOK
    <3>3. Drop(r, wire[p]) \in Seq([of : Nat, place : Nat])
      <4>1. r + 1 \in Int /\ Len(wire[p]) \in Int
          BY <3>2
      <4>2. \A i \in (r + 1)..Len(wire[p]) : wire[p][i] \in [of : Nat, place : Nat]
        <5> TAKE i \in (r + 1)..Len(wire[p])
        <5>1. i \in 1..Len(wire[p])
            BY <3>1, <3>2
        <5> QED
            BY <3>2, <5>1, ElementOfSeq
      <4> QED
          BY <3>2, <4>1, <4>2, SubSeqProperties DEF Drop
    <3>4. wire[p] # <<>>
        BY <3>2
    <3> QED
        BY <3>1, <3>3, <3>4 DEF TypeOK
  <2> QED
      BY <2>1, <2>2, <2>3 DEF Leaves
<1>3. TypeOK'
    BY <1>1, <1>2 DEF Leaves, TypeOK
<1>4. pc'[p] = l /\ \A q \in Peers \ {p} : pc'[q] = pc[q]
    BY <1>1 DEF TypeOK
<1>5. Turns'
  <2>1. \A q \in Peers : (Arrived(q)' <=> Arrived(q)) /\ (UnderWay(q)' <=> UnderWay(q))
      BY DEF Leaves, Arrived, UnderWay
  <2>2. UNCHANGED <<sent, total>> /\ l \notin Sending \union {"turn", "read_content"}
      BY <1>1 DEF Leaves, Ended, Sending
  <2>3. \A q \in Peers : pc'[q] \in Sending \union {"turn", "read_content"} => pc'[q] = pc[q]
      BY <1>4, <2>2
  <2> QED
      BY <2>1, <2>2, <2>3, TwoPeers DEF Turns, Peers, Sending
<1>6. Streams'
  <2>1. Arrived(p)' => wire'[p] = <<>>
      BY <1>2 DEF Streams, Leaves, Arrived
  <2>2. ~Open(p)' /\ Calls(p)'
      BY <1>4 DEF Open, Calls, Ended, Sending
  <2>3. pc'[p] \notin Sending
      BY <1>4 DEF Ended, Sending
  <2> QED
      BY <1>2, <1>4, <2>1, <2>2, <2>3, OtherKept DEF Streams, Leaves
<1> QED
    BY <1>3, <1>5, <1>6

\* What has not arrived is discarded.
LEMMA ResetStep == ASSUME FramingInv, NEW p \in Peers, Reset(p) PROVE FramingInv'
<1> USE DEF FramingInv
<1>1. UNCHANGED <<pc, size, total, sent, received, signals>> /\ wire' = [wire EXCEPT ![p] = <<>>]
      /\ pc[Other(p)] \in Ended
    BY DEF Reset
<1>2. <<>> \in Seq([of : Nat, place : Nat]) /\ Len(<<>>) = 0
    BY EmptySeq
<1>3. TypeOK'
    BY <1>1, <1>2 DEF TypeOK
<1>4. Turns'
    BY <1>1 DEF Turns, Arrived, UnderWay
<1>5. wire'[p] = <<>> /\ \A q \in Peers \ {p} : wire'[q] = wire[q]
    BY <1>1 DEF TypeOK
<1>6. Stream(p) => Stream(p)'
  <2>1. Len(sent[Other(p)]) \in Nat /\ Taken(p) \in Nat
      BY Typed, TwoPeers
  <2>2. Bytes(Len(sent[Other(p)]), Taken(p) + 1, Taken(p)) = <<>>
      BY <2>1, NoBytes
  <2>3. pc[Other(p)] \notin Sending
      BY <1>1 DEF Ended, Sending
  <2>4. Taken(p)' = Taken(p) /\ Taken(p) + Len(wire'[p]) = Taken(p) /\ Announce(p)' = Announce(p)
      BY <1>1, <1>2, <1>5, <2>1 DEF Taken, Announce
  <2>5. Bytes(Len(sent[Other(p)]), Taken(p) + 1, Taken(p))' = <<>>
      BY <1>1, <2>2, <2>4 DEF Bytes, Byte
  <2> QED
      BY <1>1, <1>5, <2>2, <2>3, <2>4 DEF Stream
<1>7. ASSUME NEW q \in Peers
      PROVE  (Arrived(q)' => wire'[q] = <<>>) /\ (UnderWay(q)' /\ Open(q)' => Stream(q)') /\ Calls(q)'
  <2>1. (Arrived(q) => wire[q] = <<>>) /\ (UnderWay(q) /\ Open(q) => Stream(q)) /\ Calls(q)
      BY DEF Streams
  <2>2. CASE q = p
      BY <1>1, <1>5, <1>6, <2>1, <2>2 DEF Arrived, UnderWay, Open, Calls, Announce
  <2>3. CASE q # p
      BY <1>1, <1>5, <2>1, <2>3 DEF Arrived, UnderWay, Open, Stream, Calls, Announce, Taken, Written
  <2> QED
      BY <2>2, <2>3
<1> QED
    BY <1>3, <1>4, <1>7 DEF Streams

-----------------------------------------------------------------------------
(* message_send_all                                                        *)

LEMMA BeginSendStep == ASSUME FramingInv, NEW p \in Peers, BeginSend(p) PROVE FramingInv'
<1> USE DEF FramingInv
<1> DEFINE q == Other(p)
<1>1. PICK n \in Sizes : sent' = [sent EXCEPT ![p] = Append(@, n)]
         /\ IF Short(n) < 0
               THEN Goto(p, "dead") /\ UNCHANGED <<size, total>>
               ELSE /\ \/ Goto(p, "write_size")
                       \/ Short(n) < n /\ Goto(p, "dead")
                    /\ size' = [size EXCEPT ![p] = Short(n)]
                    /\ total' = [total EXCEPT ![p] = Short(n)]
    BY DEF BeginSend
<1>2. pc[p] = "turn" /\ UNCHANGED <<wire, received, signals>>
    BY DEF BeginSend
<1>3. n \in Nat /\ Short(n) \in Int /\ Short(n) <= SHRT_MAX /\ SHRT_MAX \in Nat
    BY FramingAssumption, ShortIs DEF FramingAssumption
<1>4. /\ sent[p] \in Seq(Sizes) /\ sent'[p] = Append(sent[p], n)
      /\ sent' \in [Peers -> Seq(Sizes)] /\ \A r \in Peers \ {p} : sent'[r] = sent[r]
      /\ Len(sent'[p]) = Len(sent[p]) + 1 /\ sent'[p][Len(sent'[p])] = n
    BY <1>1 DEF TypeOK
<1>5. PICK l \in {"write_size", "dead"} :
         /\ pc' = [pc EXCEPT ![p] = l]
         /\ l = "write_size" => /\ Short(n) >= 0
                                /\ size' = [size EXCEPT ![p] = Short(n)]
                                /\ total' = [total EXCEPT ![p] = Short(n)]
    BY <1>1, <1>3 DEF Goto
<1>6. size' \in [Peers -> 0..SHRT_MAX] /\ total' \in [Peers -> 0..SHRT_MAX]
      /\ \A r \in Peers \ {p} : size'[r] = size[r] /\ total'[r] = total[r]
  <2>1. CASE Short(n) < 0
      BY <1>1, <2>1 DEF TypeOK
  <2>2. CASE ~(Short(n) < 0)
    <3>1. Short(n) \in 0..SHRT_MAX
        BY <1>3, <2>2
    <3>2. size' = [size EXCEPT ![p] = Short(n)] /\ total' = [total EXCEPT ![p] = Short(n)]
        BY <1>1, <2>2
    <3> QED
        BY <3>1, <3>2 DEF TypeOK
  <2> QED
      BY <2>1, <2>2
<1>7. pc'[p] = l /\ \A r \in Peers \ {p} : pc'[r] = pc[r]
    BY <1>5 DEF TypeOK
<1>8. TypeOK'
    BY <1>2, <1>4, <1>5, <1>6 DEF TypeOK, Sending, Ended
<1>9. /\ Peers = {p, q} /\ p # q /\ Other(q) = p /\ q \in Peers
      /\ Len(sent[p]) \in Nat /\ Len(sent[q]) \in Nat
      /\ Len(received[p]) \in Nat /\ Len(received[q]) \in Nat
    BY Typed, TwoPeers DEF Peers
<1>10. Arrived(p) /\ Arrived(q) /\ ~UnderWay(p) /\ ~UnderWay(q)
  <2>1. CASE p = "client"
      BY <1>2, <1>9, <2>1, TwoPeers, Typed DEF Turns
  <2>2. CASE p = "server"
      BY <1>2, <1>9, <2>2, TwoPeers, Typed DEF Turns, Arrived, UnderWay
  <2> QED
      BY <2>1, <2>2 DEF Peers
<1>11. Arrived(p)' /\ ~UnderWay(p)' /\ ~Arrived(q)' /\ UnderWay(q)'
    BY <1>2, <1>4, <1>9, <1>10 DEF Arrived, UnderWay
<1>12. Turns'
  <2>1. pc'[q] # "turn" /\ pc[q] # "read_content" /\ pc'[p] \notin {"turn", "read_content"}
    <3>1. pc[q] # "turn"
        BY <1>2, <1>9, TwoPeers DEF Turns, Peers
    <3> QED
        BY <1>7, <1>9, <1>10, <3>1 DEF Turns
  <2>2. pc[q] \in Sending => pc[q] = "write_content" /\ total[q] = 0
      BY <1>9, <1>10 DEF Turns
  <2>3. CASE p = "client"
      BY <1>2, <1>4, <1>6, <1>7, <1>9, <1>11, <2>1, <2>2, <2>3, TwoPeers DEF Turns
  <2>4. CASE p = "server"
      BY <1>2, <1>4, <1>6, <1>7, <1>9, <1>11, <2>1, <2>2, <2>4, TwoPeers DEF Turns
  <2> QED
      BY <2>3, <2>4 DEF Peers
<1>13. Arrived(p)' => wire'[p] = <<>>
    BY <1>2, <1>10 DEF Streams
<1>14. Stream(q)' /\ wire'[q] = <<>>
  <2>1. wire[q] = <<>> /\ pc'[q] # "read_content"
      BY <1>7, <1>9, <1>10 DEF Streams, Turns
  <2>2. Taken(q)' = 0 /\ Len(wire'[q]) = 0
      BY <1>2, <2>1 DEF Taken
  <2>3. Bytes(Len(sent'[p]), 1, 0) = <<>>
    <3>1. Len(sent'[p]) \in Nat
        BY <1>4, <1>9
    <3> QED
        BY <3>1, NoBytes
  <2>4. pc'[p] \in Sending => Written(p)' = 0
      BY <1>7 DEF Written, Sending
  <2> QED
      BY <1>2, <1>9, <2>1, <2>2, <2>3, <2>4 DEF Stream, Bytes
<1>15. Calls(p)' /\ Calls(q)'
  <2>1. pc'[p] \in Sending => total'[p] = Short(n) /\ size'[p] = Short(n) /\ Announce(q)' = Short(n)
      BY <1>4, <1>5, <1>7, <1>9 DEF Announce, Sending, TypeOK
  <2>2. Calls(p)'
    <3>1. pc'[p] \notin {"write_content", "read_content"} /\ Announce(Other(p))' = Announce(q)'
        BY <1>7
    <3>2. pc'[p] = "write_size" => pc'[p] \in Sending
        BY DEF Sending
    <3> QED
        BY <2>1, <3>1, <3>2 DEF Calls
  <2>3. Calls(q)'
      BY <1>4, <1>6, <1>7, <1>9 DEF Streams, Calls, Announce
  <2> QED
      BY <2>2, <2>3
<1>16. Streams'
    BY <1>9, <1>11, <1>13, <1>14, <1>15 DEF Streams
<1> QED
    BY <1>8, <1>12, <1>16

\* What the next write is given is the next part of the message.
Length(p) == IF pc[p] = "write_size" THEN 2 ELSE Least(size[p], MAX_MSG)
Part(p, n) == Bytes(Len(sent[p]), Written(p) + 1, Written(p) + n)

LEMMA PartOf ==
    ASSUME NEW k \in Nat, NEW w \in Nat, NEW l \in Nat, NEW n \in 0..l
    PROVE  /\ Bytes(k, w + 1, w + n) \in Seq(ByteType) /\ Len(Bytes(k, w + 1, w + n)) = n
           /\ First(n, Bytes(k, w + 1, w + l)) = Bytes(k, w + 1, w + n)
<1>1. n \in Nat /\ w + 1 \in Nat \ {0} /\ w + n \in Nat /\ w + l \in Nat
    OBVIOUS
<1>2. Bytes(k, w + 1, w + n) \in Seq(ByteType) /\ Len(Bytes(k, w + 1, w + n)) = n
  <2>1. w + 1 <= (w + n) + 1 /\ (w + n) - (w + 1) + 1 = n
      OBVIOUS
  <2> QED
      BY <1>1, <2>1, BytesLength
<1>3. First(n, Bytes(k, w + 1, w + l)) = Bytes(k, w + 1, w + n)
  <2>1. w + 1 <= (w + l) + 1 /\ (w + l) - (w + 1) + 1 = l /\ (w + 1) + n - 1 = w + n
      OBVIOUS
  <2> QED
      BY <1>1, <2>1, BytesFirst
<1> QED
    BY <1>2, <1>3

LEMMA WritesAre ==
    ASSUME FramingInv, NEW p \in Peers, pc[p] \in Sending
    PROVE  /\ Length(p) \in Nat /\ ToWrite(p) = Part(p, Length(p)) /\ Len(ToWrite(p)) = Length(p)
           /\ \A n \in 0..Length(p) : First(n, ToWrite(p)) = Part(p, n)
<1>1. PICK k \in Nat, w \in Nat : k = Len(sent[p]) /\ w = Written(p)
    BY Typed
<1>2. size[p] \in Nat /\ total[p] \in Nat /\ MAX_MSG \in Nat
    BY Typed
<1>3. PICK l \in Nat : l = Length(p)
    BY <1>2 DEF Length, Least
<1>4. ToWrite(p) = Part(p, Length(p))
  <2>1. CASE pc[p] = "write_size"
    <3>1. Written(p) = 0 /\ Length(p) = 2
        BY <2>1 DEF Written, Length
    <3>2. Written(p) + 1 = 1 /\ Written(p) + 2 = 2
        BY <3>1
    <3> QED
        BY <2>1, <3>1, <3>2 DEF ToWrite, SizeOf, Part
  <2>2. CASE pc[p] = "write_content"
    <3>1. Length(p) = Least(size[p], MAX_MSG) /\ Written(p) = 2 + total[p] - size[p]
        BY <2>2 DEF Length, Written
    <3>2. (total[p] - size[p]) + 3 = Written(p) + 1
        BY <1>2, <3>1
    <3>3. (total[p] - size[p]) + Least(size[p], MAX_MSG) + 2 = Written(p) + Length(p)
        BY <1>2, <3>1 DEF Least
    <3> QED
        BY <2>2, <3>2, <3>3 DEF ToWrite, Part
  <2> QED
      BY <2>1, <2>2 DEF Sending
<1>5. Len(Part(p, l)) = l /\ \A n \in 0..l : First(n, Part(p, l)) = Part(p, n)
    BY <1>1, PartOf DEF Part
<1> QED
    BY <1>3, <1>4, <1>5

LEMMA Appended ==
    ASSUME FramingInv, NEW p \in Peers, pc[p] \in Sending, NEW n \in 0..Length(p),
           NEW q \in Peers, q = Other(p), NEW w, w = wire[q] \o Part(p, n)
    PROVE  /\ w \in Seq(ByteType)
           /\ Arrived(q) => w = <<>>
           /\ UnderWay(q) /\ Open(q) =>
                 /\ w = Bytes(Len(sent[p]), Taken(q) + 1, Written(p) + n)
                 /\ Taken(q) + Len(w) = Written(p) + n
                 /\ Written(p) + n <= Announce(q) + 2
<1>1. PICK k \in Nat, b \in Nat, a \in Nat, l \in Nat :
         k = Len(sent[p]) /\ b = Written(p) /\ a = Taken(q) /\ l = Length(p) /\ n \in 0..l /\ n \in Nat
    BY Typed, WritesAre
<1>2. /\ wire[q] \in Seq(ByteType) /\ Len(wire[q]) \in Nat /\ Other(q) = p
      /\ size[p] \in Nat /\ total[p] \in Nat /\ MAX_MSG \in Nat \ {0}
    BY Typed
<1>3. Part(p, n) \in Seq(ByteType) /\ Len(Part(p, n)) = n
    BY <1>1, PartOf DEF Part
<1>4. w \in Seq(ByteType)
    BY <1>2, <1>3, ConcatProperties
<1>5. Calls(p) /\ (Arrived(q) => wire[q] = <<>>) /\ (UnderWay(q) /\ Open(q) => Stream(q))
    BY DEF FramingInv, Streams
<1>6. Arrived(q) => w = <<>>
  <2> HAVE Arrived(q)
  <2>1. pc[p] = "write_content" /\ total[p] = 0
      BY Typed DEF FramingInv, Turns
  <2>2. size[p] = 0
      BY <1>2, <1>5, <2>1 DEF Calls
  <2>3. n = 0
      BY <1>1, <1>2, <2>1, <2>2 DEF Length, Least
  <2>4. Part(p, n) = <<>>
      BY <1>3, <2>3, EmptySeq
  <2> QED
      BY <1>5, <2>4, ConcatEmptySeq, EmptySeq
<1>7. ASSUME UnderWay(q), Open(q)
      PROVE  /\ w = Bytes(k, a + 1, b + n)
             /\ a + Len(w) = b + n
             /\ b + n <= Announce(q) + 2
  <2>1. Stream(q) /\ a + Len(wire[q]) = b
      BY <1>1, <1>2, <1>5, <1>7 DEF Stream
  <2>2. wire[q] = Bytes(k, a + 1, b) /\ a \in 0..b
      BY <1>1, <1>2, <2>1 DEF Stream
  <2>3. w = Bytes(k, a + 1, b + n) /\ Len(w) = b + n - a
    <3>1. w = Joined(Bytes(k, a + 1, b), Bytes(k, b + 1, b + n))
        BY <1>1, <2>2 DEF Part, Joined
    <3>2. /\ Joined(Bytes(k, a + 1, b), Bytes(k, b + 1, b + n)) = Bytes(k, a + 1, b + n)
          /\ Len(Bytes(k, a + 1, b + n)) = b + n - a
      <4>1. PICK f \in Nat \ {0}, g \in Nat, c \in Nat : f = a + 1 /\ g = b + 1 /\ c = b + n
          BY <1>1
      <4>2. f <= c + 1 /\ c - f + 1 = b + n - a
          BY <2>2, <4>1
      <4>3. g = b + 1 /\ f <= g /\ b <= c
          BY <2>2, <4>1
      <4>4. Joined(Bytes(k, f, b), Bytes(k, g, c)) = Bytes(k, f, c)
          BY <4>3, BytesJoin
      <4>5. Len(Bytes(k, f, c)) = b + n - a
          BY <4>2, BytesLength
      <4> QED
          BY <4>1, <4>4, <4>5
    <3> QED
        BY <3>1, <3>2
  <2>4. a + Len(w) = b + n
      BY <2>3
  <2>5. b + n <= Announce(q) + 2
    <3>1. total[p] = Announce(q) /\ size[p] <= total[p]
        BY <1>2, <1>5 DEF Calls, Sending
    <3>2. CASE pc[p] = "write_size"
        BY <1>1, <1>2, <3>1, <3>2 DEF Written, Length
    <3>3. CASE pc[p] # "write_size"
      <4>1. b = 2 + total[p] - size[p] /\ l = Least(size[p], MAX_MSG)
          BY <1>1, <3>3 DEF Written, Length
      <4>2. l <= size[p]
          BY <1>2, <4>1 DEF Least
      <4> QED
          BY <1>1, <1>2, <3>1, <4>1, <4>2
    <3> QED
        BY <3>2, <3>3
  <2> QED
      BY <2>3, <2>4, <2>5
<1> QED
    BY <1>1, <1>4, <1>6, <1>7

\* A call writes a part of the message, all that it meant to or less.
Sends(p) ==
    /\ pc[p] \in Sending
    /\ UNCHANGED <<total, sent, received>>
    /\ signals' \in 0..MaxSignals
    /\ \E n \in 0..Length(p) :
          /\ \/ wire' = wire /\ pc[Other(p)] \in Ended
             \/ wire' = [wire EXCEPT ![Other(p)] = @ \o Part(p, n)]
          /\ \/ /\ \E l \in {"read_size", "close", "dead"} : pc' = [pc EXCEPT ![p] = l]
                /\ UNCHANGED size
             \/ /\ pc' = [pc EXCEPT ![p] = "write_content"]
                /\ \E s \in 0..SHRT_MAX : size' = [size EXCEPT ![p] = s]
                /\ Written(p)' = Written(p) + n
                /\ Calls(p)'

LEMMA SendsStep == ASSUME FramingInv, NEW p \in Peers, Sends(p) PROVE FramingInv'
<1> USE DEF FramingInv
<1>1. pc[p] \in Sending /\ UNCHANGED <<total, sent, received>> /\ signals' \in 0..MaxSignals
    BY DEF Sends
<1>2. PICK n \in 0..Length(p) :
          /\ \/ wire' = wire /\ pc[Other(p)] \in Ended
             \/ wire' = [wire EXCEPT ![Other(p)] = @ \o Part(p, n)]
          /\ \/ /\ \E l \in {"read_size", "close", "dead"} : pc' = [pc EXCEPT ![p] = l]
                /\ UNCHANGED size
             \/ /\ pc' = [pc EXCEPT ![p] = "write_content"]
                /\ \E s \in 0..SHRT_MAX : size' = [size EXCEPT ![p] = s]
                /\ Written(p)' = Written(p) + n
                /\ Calls(p)'
    BY DEF Sends
<1>3. PICK q \in Peers : q = Other(p) /\ q # p /\ Other(q) = p /\ Peers = {p, q}
    BY TwoPeers DEF Peers
<1>4. PICK l \in {"read_size", "close", "dead", "write_content"} :
         /\ pc' = [pc EXCEPT ![p] = l]
         /\ l = "write_content" => Written(p)' = Written(p) + n /\ Calls(p)'
    BY <1>2
<1>5. pc'[p] = l /\ pc'[q] = pc[q]
    BY <1>3, <1>4 DEF TypeOK
<1>6. size' \in [Peers -> 0..SHRT_MAX] /\ size'[q] = size[q]
  <2>1. CASE UNCHANGED size
      BY <1>3, <2>1 DEF TypeOK
  <2>2. CASE \E s \in 0..SHRT_MAX : size' = [size EXCEPT ![p] = s]
      BY <1>3, <2>2 DEF TypeOK
  <2> QED
      BY <1>2, <2>1, <2>2
<1>7. PICK w : w = wire[q] \o Part(p, n)
    OBVIOUS
<1>8. /\ w \in Seq(ByteType)
      /\ Arrived(q) => w = <<>>
      /\ UnderWay(q) /\ Open(q) =>
            /\ w = Bytes(Len(sent[p]), Taken(q) + 1, Written(p) + n)
            /\ Taken(q) + Len(w) = Written(p) + n
            /\ Written(p) + n <= Announce(q) + 2
    BY <1>1, <1>3, <1>7, Appended
<1>9. /\ wire' \in [Peers -> Seq(ByteType)] /\ wire'[p] = wire[p]
      /\ (wire'[q] = wire[q] /\ pc[q] \in Ended) \/ wire'[q] = w
  <2>1. CASE wire' = wire /\ pc[Other(p)] \in Ended
      BY <1>3, <2>1 DEF TypeOK, ByteType
  <2>2. CASE wire' = [wire EXCEPT ![Other(p)] = @ \o Part(p, n)]
    <3>1. wire' = [wire EXCEPT ![q] = w]
        BY <1>3, <1>7, <2>2
    <3>2. wire \in [Peers -> Seq(ByteType)]
        BY DEF TypeOK, ByteType
    <3> QED
        BY <1>3, <1>8, <3>1, <3>2
  <2> QED
      BY <1>2, <2>1, <2>2
<1>10. TypeOK'
    BY <1>1, <1>4, <1>6, <1>9 DEF TypeOK, ByteType, Sending, Receiving, Ended
<1>11. \A r \in Peers : (Arrived(r)' <=> Arrived(r)) /\ (UnderWay(r)' <=> UnderWay(r))
    BY <1>1 DEF Arrived, UnderWay
<1>12. Turns'
  <2>1. pc'[p] # "turn" /\ pc'[p] # "read_content" /\ pc'[q] = pc[q]
      BY <1>4, <1>5
  <2>2. pc'[p] \in Sending => pc'[p] = "write_content"
      BY <1>4, <1>5 DEF Sending
  <2>3. /\ pc[p] \in Sending => UnderWay(q) \/ (pc[p] = "write_content" /\ total[p] = 0)
        /\ pc[q] \in Sending => UnderWay(p) \/ (pc[q] = "write_content" /\ total[q] = 0)
        /\ pc[q] = "read_content" => UnderWay(q)
      BY <1>3 DEF Turns
  <2>4. \A r \in Peers : /\ pc'[r] \in Sending => \/ UnderWay(Other(r))
                                                  \/ pc'[r] = "write_content" /\ total'[r] = 0
                         /\ pc'[r] = "read_content" => UnderWay(r)
    <3> TAKE r \in Peers
    <3>1. CASE r = p
        BY <1>1, <1>3, <2>1, <2>2, <2>3, <3>1
    <3>2. CASE r = q
        BY <1>1, <1>3, <2>1, <2>3, <3>2
    <3> QED
        BY <1>3, <3>1, <3>2
  <2>5. \A r \in Peers : pc'[r] = "turn" => pc[r] = "turn"
      BY <1>3, <2>1
  <2> QED
      BY <1>1, <1>11, <2>4, <2>5, TwoPeers DEF Turns, Peers
<1>13. Arrived(q)' => wire'[q] = <<>>
    BY <1>8, <1>9, <1>11 DEF Streams
<1>14. UnderWay(q)' /\ Open(q)' => Stream(q)'
  <2>1. SUFFICES ASSUME UnderWay(q), Open(q) PROVE Stream(q)'
      BY <1>5, <1>11 DEF Open
  <2>2. Stream(q) /\ wire'[q] = w
      BY <1>9, <2>1 DEF Streams, Open
  <2>3. Taken(q)' = Taken(q) /\ Announce(q)' = Announce(q)
      BY <1>1, <1>5, <1>6 DEF Taken, Announce
  <2>4. w = Bytes(Len(sent[p]), Taken(q) + 1, Taken(q) + Len(w))
      BY <1>8, <2>1
  <2>5. Taken(q) + Len(w) <= Announce(q) + 2
      BY <1>8, <2>1
  <2>6. pc'[p] \in Sending => Taken(q) + Len(w) = Written(p)'
    <3>1. pc'[p] \in Sending => l = "write_content"
        BY <1>4, <1>5 DEF Sending
    <3> QED
        BY <1>4, <1>8, <2>1, <3>1
  <2>7. pc'[q] = "read_content" => total'[q] = Announce(q)
      BY <1>1, <1>5, <2>2 DEF Stream
  <2>8. wire'[q] = Bytes(Len(sent'[Other(q)]), Taken(q)' + 1, Taken(q)' + Len(wire'[q]))
      BY <1>1, <1>3, <2>2, <2>3, <2>4
  <2>9. Taken(q)' + Len(wire'[q]) <= Announce(q)' + 2
      BY <2>2, <2>3, <2>5
  <2>10. pc'[Other(q)] \in Sending => Taken(q)' + Len(wire'[q]) = Written(Other(q))'
      BY <1>3, <2>2, <2>3, <2>6
  <2> QED
      BY <2>3, <2>7, <2>8, <2>9, <2>10 DEF Stream, Bytes
<1>15. UnderWay(p)' /\ Open(p)' => Stream(p)'
  <2>1. SUFFICES ASSUME UnderWay(p) PROVE Stream(p)'
      BY <1>11
  <2>2. Open(p) /\ pc[p] # "read_content" /\ pc'[p] # "read_content"
      BY <1>1, <1>4, <1>5 DEF Open, Sending, Ended
  <2>3. Stream(p)
      BY <2>1, <2>2 DEF Streams
  <2>4. Taken(p)' = 0 /\ Taken(p) = 0 /\ Announce(p)' = Announce(p) /\ (Written(q)' = Written(q))
      BY <1>1, <1>5, <1>6, <2>2 DEF Taken, Announce, Written
  <2> QED
      BY <1>1, <1>3, <1>5, <1>9, <2>2, <2>3, <2>4 DEF Stream, Bytes, Byte
<1>16. Arrived(p)' => wire'[p] = <<>>
    BY <1>9, <1>11 DEF Streams
<1>17. Calls(p)' /\ Calls(q)'
  <2>1. Calls(q)'
    <3>1. Announce(Other(q))' = Announce(Other(q)) /\ Calls(q)
        BY <1>1 DEF Announce, Streams
    <3> QED
        BY <1>1, <1>5, <1>6, <3>1 DEF Calls
  <2>2. CASE l = "write_content"
      BY <1>4, <2>1, <2>2
  <2>3. CASE l # "write_content"
    <3>1. pc'[p] \notin Sending /\ pc'[p] \notin {"write_size", "write_content", "read_content"}
        BY <1>4, <1>5, <2>3 DEF Sending
    <3> QED
        BY <2>1, <3>1 DEF Calls
  <2> QED
      BY <2>2, <2>3
<1> QED
    BY <1>3, <1>10, <1>12, <1>13, <1>14, <1>15, <1>16, <1>17 DEF Streams

\* Write writes all that is left of a packet.
LEMMA WriteIs ==
    ASSUME FramingInv, NEW p \in Peers, pc[p] \in Sending, Write(p)
    PROVE  /\ Length(p) \in Nat /\ Length(p) \in 0..Length(p)
           /\ \/ wire' = wire /\ pc[Other(p)] \in Ended
              \/ wire' = [wire EXCEPT ![Other(p)] = @ \o Part(p, Length(p))]
<1>1. Length(p) \in Nat /\ ToWrite(p) = Part(p, Length(p))
    BY WritesAre
<1> QED
    BY <1>1 DEF Write

LEMMA WriteSizeStep == ASSUME FramingInv, NEW p \in Peers, WriteSize(p) PROVE FramingInv'
<1>1. /\ pc[p] = "write_size" /\ pc[p] \in Sending /\ Write(p)
      /\ pc' = [pc EXCEPT ![p] = "write_content"]
      /\ UNCHANGED <<size, total, sent, received, signals>>
    BY DEF WriteSize, Goto, Sending
<1>2. size[p] \in 0..SHRT_MAX /\ size[p] = total[p] /\ total[p] = Announce(Other(p)) /\ signals \in 0..MaxSignals
      /\ pc'[p] = "write_content"
    BY <1>1, Typed DEF FramingInv, TypeOK, Streams, Calls, Sending
<1>3. Written(p)' = Written(p) + Length(p)
    BY <1>1, <1>2 DEF Written, Length
<1>4. Calls(p)'
    BY <1>1, <1>2 DEF Calls, Announce
<1>5. size' = [size EXCEPT ![p] = size[p]]
    BY <1>1 DEF FramingInv, TypeOK
<1>6. Sends(p)
  <2>1. /\ Length(p) \in 0..Length(p)
        /\ \/ wire' = wire /\ pc[Other(p)] \in Ended
           \/ wire' = [wire EXCEPT ![Other(p)] = @ \o Part(p, Length(p))]
      BY <1>1, WriteIs
  <2>2. \E s \in 0..SHRT_MAX : size' = [size EXCEPT ![p] = s]
      BY <1>2, <1>5
  <2>3. signals' \in 0..MaxSignals
      BY <1>1, <1>2
  <2> QED
      BY <1>1, <1>3, <1>4, <2>1, <2>2, <2>3 DEF Sends
<1> QED
    BY <1>6, SendsStep

LEMMA WritePacketStep == ASSUME FramingInv, NEW p \in Peers, WritePacket(p) PROVE FramingInv'
<1>1. /\ pc[p] = "write_content" /\ pc[p] \in Sending /\ Write(p) /\ size[p] > MAX_MSG
      /\ size' = [size EXCEPT ![p] = size[p] - MAX_MSG]
      /\ UNCHANGED <<pc, total, sent, received, signals>>
    BY DEF WritePacket, Sending
<1>2. /\ size[p] \in 0..SHRT_MAX /\ total[p] \in 0..SHRT_MAX /\ MAX_MSG \in Nat \ {0} /\ SHRT_MAX \in Nat
      /\ signals \in 0..MaxSignals
      /\ total[p] = Announce(Other(p)) /\ size[p] <= total[p]
  <2>1. size[p] \in 0..SHRT_MAX /\ total[p] \in 0..SHRT_MAX /\ MAX_MSG \in Nat \ {0} /\ SHRT_MAX \in Nat
        /\ signals \in 0..MaxSignals
      BY Typed DEF FramingInv, TypeOK
  <2>2. Calls(p)
      BY DEF FramingInv, Streams
  <2> QED
      BY <1>1, <2>1, <2>2 DEF Calls
<1>3. size[p] - MAX_MSG \in 0..SHRT_MAX /\ size'[p] = size[p] - MAX_MSG
    BY <1>1, <1>2 DEF FramingInv, TypeOK
<1>4. Length(p) = MAX_MSG /\ Written(p)' = Written(p) + Length(p)
    BY <1>1, <1>2, <1>3 DEF Written, Length, Least
<1>5. Calls(p)'
    BY <1>1, <1>2, <1>3 DEF Calls, Announce
<1>6. pc' = [pc EXCEPT ![p] = "write_content"]
    BY <1>1 DEF FramingInv, TypeOK
<1>7. Sends(p)
    BY <1>1, <1>2, <1>3, <1>4, <1>5, <1>6, WriteIs DEF Sends
<1> QED
    BY <1>7, SendsStep

LEMMA WriteLastStep == ASSUME FramingInv, NEW p \in Peers, WriteLast(p) PROVE FramingInv'
<1>1. /\ pc[p] \in Sending /\ Write(p) /\ UNCHANGED <<size, total, sent, received, signals>>
      /\ \E l \in {"read_size", "close", "dead"} : pc' = [pc EXCEPT ![p] = l]
    BY DEF WriteLast, Free, Goto, Sending
<1>2. signals \in 0..MaxSignals
    BY DEF FramingInv, TypeOK
<1>3. Sends(p)
    BY <1>1, <1>2, WriteIs DEF Sends
<1> QED
    BY <1>3, SendsStep

LEMMA WriteInterruptedStep == ASSUME FramingInv, NEW p \in Peers, WriteInterrupted(p) PROVE FramingInv'
<1>1. /\ pc[p] \in Sending /\ UNCHANGED <<size, total, sent, received>>
      /\ \E l \in {"read_size", "close", "dead"} : pc' = [pc EXCEPT ![p] = l]
    BY DEF WriteInterrupted, Goto
<1>2. signals' \in 0..MaxSignals
    BY FramingAssumption DEF WriteInterrupted, FramingInv, TypeOK, FramingAssumption
<1>3. PICK n \in 0..(Len(ToWrite(p)) - 1) : wire' = [wire EXCEPT ![Other(p)] = @ \o First(n, ToWrite(p))]
    BY DEF WriteInterrupted
<1>4. n \in 0..Length(p) /\ First(n, ToWrite(p)) = Part(p, n)
  <2>1. Length(p) \in Nat /\ Len(ToWrite(p)) = Length(p)
      BY <1>1, WritesAre
  <2>2. n \in 0..Length(p)
      BY <1>3, <2>1
  <2> QED
      BY <1>1, <2>2, WritesAre
<1>5. wire' = [wire EXCEPT ![Other(p)] = @ \o Part(p, n)]
    BY <1>3, <1>4
<1>6. Sends(p)
    BY <1>1, <1>2, <1>4, <1>5 DEF Sends
<1> QED
    BY <1>6, SendsStep

-----------------------------------------------------------------------------
(* message_receive_all                                                     *)

\* What read returns, and what it leaves, of the bytes of one message.
Piece(k, a, l) == Bytes(k, a + 1, a + l)

LEMMA Cut ==
    ASSUME NEW k \in Nat, NEW a \in Nat, NEW l \in Nat, NEW r \in Nat, r <= l
    PROVE  /\ Drop(r, Piece(k, a, l)) \in Seq(ByteType) /\ Len(Drop(r, Piece(k, a, l))) = l - r
           /\ Drop(r, Piece(k, a, l)) = Bytes(k, a + r + 1, a + l)
           /\ First(r, Piece(k, a, l)) = Piece(k, a, r)
<1>1. PICK f \in Nat \ {0}, b \in Nat, g \in Nat \ {0} : f = a + 1 /\ b = a + l /\ g = f + r
    OBVIOUS
<1>2. f <= b + 1 /\ g <= b + 1 /\ r \in 0..(b - f + 1)
    BY <1>1
<1>3. b - g + 1 = l - r /\ f + r - 1 = a + r /\ g = a + r + 1
    BY <1>1
<1>4. First(r, Bytes(k, f, b)) = Bytes(k, f, f + r - 1) /\ Drop(r, Bytes(k, f, b)) = Bytes(k, f + r, b)
    BY <1>2, BytesFirst
<1>5. Bytes(k, g, b) \in Seq(ByteType) /\ Len(Bytes(k, g, b)) = b - g + 1
    BY <1>2, BytesLength
<1> QED
    BY <1>1, <1>3, <1>4, <1>5 DEF Piece

LEMMA Reading ==
    ASSUME FramingInv, NEW p \in Peers, Stream(p), NEW r \in 0..Len(wire[p])
    PROVE  \E k \in Nat, a \in Nat, l \in Nat :
              /\ k = Len(sent[Other(p)]) /\ a = Taken(p) /\ l = Len(wire[p]) /\ r \in Nat /\ r <= l
              /\ Drop(r, wire[p]) \in Seq(ByteType) /\ Len(Drop(r, wire[p])) = l - r
              /\ Drop(r, wire[p]) = Bytes(k, a + r + 1, a + l)
              /\ First(r, wire[p]) = Piece(k, a, r)
<1>1. PICK k \in Nat, a \in Nat, l \in Nat : k = Len(sent[Other(p)]) /\ a = Taken(p) /\ l = Len(wire[p])
    BY Typed
<1>2. r \in Nat /\ r <= l
    BY <1>1
<1>3. wire[p] = Piece(k, a, l)
    BY <1>1 DEF Stream, Piece
<1>4. /\ Drop(r, Piece(k, a, l)) \in Seq(ByteType) /\ Len(Drop(r, Piece(k, a, l))) = l - r
      /\ Drop(r, Piece(k, a, l)) = Bytes(k, a + r + 1, a + l)
      /\ First(r, Piece(k, a, l)) = Piece(k, a, r)
    BY <1>2, Cut
<1> QED
    BY <1>1, <1>2, <1>3, <1>4

\* A call reads all that it has asked for, and goes on.
Takes(p) ==
    /\ UnderWay(p) /\ Stream(p)
    /\ UNCHANGED <<sent, received, signals>>
    /\ pc[p] \in Receiving /\ pc' = [pc EXCEPT ![p] = "read_content"]
    /\ \E s \in 0..SHRT_MAX : size' = [size EXCEPT ![p] = s]
    /\ total' = [total EXCEPT ![p] = Announce(p)] /\ Announce(p) \in 0..SHRT_MAX
    /\ \E r \in 0..Len(wire[p]) : /\ wire' = [wire EXCEPT ![p] = Drop(r, @)]
                                  /\ Taken(p)' = Taken(p) + r
    /\ Calls(p)'

LEMMA TakesStep == ASSUME FramingInv, NEW p \in Peers, Takes(p) PROVE FramingInv'
<1> USE DEF FramingInv
<1>1. /\ UnderWay(p) /\ Stream(p) /\ UNCHANGED <<sent, received, signals>>
      /\ pc[p] \in Receiving /\ pc' = [pc EXCEPT ![p] = "read_content"]
      /\ total' = [total EXCEPT ![p] = Announce(p)] /\ Announce(p) \in 0..SHRT_MAX
      /\ Calls(p)'
    BY DEF Takes
<1>2. PICK s \in 0..SHRT_MAX : size' = [size EXCEPT ![p] = s]
    BY DEF Takes
<1>3. PICK r \in 0..Len(wire[p]) : wire' = [wire EXCEPT ![p] = Drop(r, @)] /\ Taken(p)' = Taken(p) + r
    BY DEF Takes
<1>4. PICK q \in Peers : q = Other(p) /\ q # p /\ Other(q) = p /\ Peers = {p, q}
    BY TwoPeers DEF Peers
<1>5. PICK k \in Nat, a \in Nat, l \in Nat :
         /\ k = Len(sent[Other(p)]) /\ a = Taken(p) /\ l = Len(wire[p]) /\ r \in Nat /\ r <= l
         /\ Drop(r, wire[p]) \in Seq(ByteType) /\ Len(Drop(r, wire[p])) = l - r
         /\ Drop(r, wire[p]) = Bytes(k, a + r + 1, a + l)
    BY <1>1, Reading
<1>6. /\ Drop(r, wire[p]) \in Seq(ByteType) /\ Len(Drop(r, wire[p])) = l - r
      /\ Drop(r, wire[p]) = Bytes(k, a + r + 1, a + l) /\ k = Len(sent[q])
    BY <1>4, <1>5
<1>7. wire' \in [Peers -> Seq(ByteType)] /\ wire'[p] = Drop(r, wire[p]) /\ wire'[q] = wire[q]
    BY <1>3, <1>4, <1>6 DEF TypeOK, ByteType
<1>8. /\ pc'[p] = "read_content" /\ pc'[q] = pc[q] /\ size'[q] = size[q] /\ total'[q] = total[q]
      /\ total'[p] = Announce(p)
    BY <1>1, <1>2, <1>4 DEF TypeOK
<1>9. TypeOK'
    BY <1>1, <1>2, <1>7 DEF TypeOK, ByteType, Receiving
<1>10. \A x \in Peers : (Arrived(x)' <=> Arrived(x)) /\ (UnderWay(x)' <=> UnderWay(x))
    BY <1>1 DEF Arrived, UnderWay
<1>11. Turns'
  <2>1. \A x \in Peers : /\ pc'[x] = "turn" => pc[x] = "turn"
                         /\ pc'[x] \in Sending => x = q
                         /\ pc'[x] = "read_content" => x = p \/ pc[x] = "read_content"
      BY <1>4, <1>8 DEF Sending
  <2>2. \A x \in Peers : /\ pc'[x] \in Sending => \/ UnderWay(Other(x))
                                                  \/ pc'[x] = "write_content" /\ total'[x] = 0
                         /\ pc'[x] = "read_content" => UnderWay(x)
      BY <1>1, <1>4, <1>8, <2>1 DEF Turns
  <2> QED
      BY <1>1, <1>10, <2>1, <2>2, TwoPeers DEF Turns, Peers
<1>12. ~Arrived(p)'
    BY <1>1, <1>10, Typed
<1>13. Stream(p)'
  <2>1. Announce(p)' = Announce(p) /\ Taken(p)' = a + r /\ Len(wire'[p]) = l - r
      BY <1>1, <1>3, <1>5, <1>6, <1>7 DEF Announce
  <2>2. (a + r) + (l - r) = a + l /\ l \in Nat /\ r \in Nat
      BY <1>5
  <2>3. wire'[p] = Bytes(Len(sent'[Other(p)]), Taken(p)' + 1, Taken(p)' + Len(wire'[p]))
      BY <1>1, <1>4, <1>5, <1>6, <1>7, <2>1, <2>2
  <2>4. wire'[p] = <<>> \/ Taken(p)' + Len(wire'[p]) <= Announce(p)' + 2
    <3>1. CASE wire[p] = <<>>
      <4>1. l = 0 /\ r = 0
          BY <1>5, <3>1, EmptySeq
      <4>2. Len(wire'[p]) = 0
          BY <2>1, <4>1
      <4> QED
          BY <1>6, <1>7, <4>2, EmptySeq
    <3>2. CASE a + l <= Announce(p) + 2
        BY <2>1, <2>2, <3>2
    <3> QED
        BY <1>1, <1>5, <3>1, <3>2 DEF Stream
  <2>5. pc'[Other(p)] \in Sending => Taken(p)' + Len(wire'[p]) = Written(Other(p))'
    <3>1. Written(q)' = Written(q)
        BY <1>8 DEF Written
    <3> QED
        BY <1>1, <1>4, <1>5, <1>8, <2>1, <2>2, <3>1 DEF Stream
  <2> QED
      BY <1>8, <2>1, <2>3, <2>4, <2>5 DEF Stream, Bytes
<1>14. (Arrived(q)' => wire'[q] = <<>>) /\ (UnderWay(q)' /\ Open(q)' => Stream(q)') /\ Calls(q)'
  <2>1. UNCHANGED sent /\ pc'[p] \notin Sending
      BY <1>1, <1>8 DEF Sending
  <2>2. \A x \in Peers \ {p} : UNCHANGED <<pc[x], size[x], total[x], wire[x], received[x]>>
      BY <1>1, <1>4, <1>7, <1>8
  <2> QED
      BY <1>4, <2>1, <2>2, OtherKept
<1> QED
    BY <1>1, <1>4, <1>9, <1>11, <1>12, <1>13, <1>14 DEF Streams

\* What is on its way to an end that reads is part of the message under way.
LEMMA OnTheWay ==
    ASSUME FramingInv, NEW p \in Peers, pc[p] \in Receiving, Len(wire[p]) # 0 \/ pc[p] = "read_content"
    PROVE  UnderWay(p) /\ Stream(p)
<1>1. Arrived(p) => wire[p] = <<>>
    BY DEF FramingInv, Streams
<1>2. UnderWay(p)
    BY <1>1, Typed, EmptySeq DEF FramingInv, Turns
<1> QED
    BY <1>2 DEF FramingInv, Streams, Open, Receiving, Ended

\* The size that is read is the size that was announced.
LEMMA AnnouncedIs ==
    ASSUME FramingInv, NEW p \in Peers, pc[p] = "read_size", 2 <= Len(wire[p]),
           NEW n \in Announced(p, First(2, wire[p]))
    PROVE  UnderWay(p) /\ Stream(p) /\ n = Announce(p) /\ n \in 0..SHRT_MAX
<1> DEFINE s == sent[Other(p)]
           bytes == First(2, wire[p])
<1>1. Len(wire[p]) \in Nat
    BY Typed
<1>2. UnderWay(p) /\ Stream(p)
    BY <1>1, OnTheWay DEF Receiving
<1>3. PICK k \in Nat, a \in Nat, l \in Nat :
         /\ k = Len(s) /\ a = Taken(p) /\ l = Len(wire[p]) /\ First(2, wire[p]) = Piece(k, a, 2)
  <2>1. 2 \in 0..Len(wire[p])
      BY <1>1
  <2> QED
      BY <1>2, <2>1, Reading
<1>4. a = 0 /\ bytes = SizeOf(k)
    BY <1>3 DEF Taken, Piece, SizeOf
<1>5. k \in DOMAIN s /\ s[k] \in Nat /\ DOMAIN s \subseteq Nat
  <2>1. Len(received[p]) \in Nat /\ k = Len(received[p]) + 1
      BY <1>2, <1>3, Typed DEF UnderWay
  <2>2. s \in Seq(Sizes) /\ DOMAIN s = 1..Len(s)
    <3>1. Other(p) \in Peers /\ sent \in [Peers -> Seq(Sizes)]
        BY Typed DEF FramingInv, TypeOK
    <3> QED
        BY <3>1
  <2>3. k \in 1..Len(s)
      BY <1>3, <2>1
  <2>4. s[k] \in Sizes
      BY <2>2, <2>3, ElementOfSeq
  <2>5. s[k] \in Nat
      BY <2>4, FramingAssumption DEF FramingAssumption
  <2>6. 1..Len(s) \subseteq Nat
      BY <1>3
  <2> QED
      BY <2>2, <2>3, <2>5, <2>6
<1>6. \A j \in DOMAIN s : bytes = SizeOf(j) => j = k
    BY <1>4, <1>5, SizeTells
<1>7. n = Short(s[k])
    BY <1>4, <1>5, <1>6 DEF Announced
<1>8. n = Announce(p)
    BY <1>3, <1>7 DEF Announce
<1>9. l <= n + 2
  <2>1. wire[p] # <<>>
      BY <1>1, EmptySeq
  <2> QED
      BY <1>2, <1>3, <1>4, <1>8, <2>1 DEF Stream
<1>10. n \in Int /\ n <= SHRT_MAX
    BY <1>5, <1>7, ShortIs
<1>11. n \in 0..SHRT_MAX
    BY <1>3, <1>9, <1>10, FramingAssumption DEF FramingAssumption
<1> QED
    BY <1>2, <1>8, <1>11

LEMMA ReadIs ==
    ASSUME FramingInv, NEW p \in Peers, NEW n \in Nat, NEW r, Read(p, n, r)
    PROVE  /\ r \in 0..Len(wire[p]) /\ r <= n /\ (n # 0 => r \in 1..Len(wire[p]))
           /\ wire' = [wire EXCEPT ![p] = Drop(r, @)]
<1>1. Len(wire[p]) \in Nat
    BY Typed
<1> QED
    BY <1>1 DEF Read, Least

LEMMA ReadShortStep == ASSUME FramingInv, NEW p \in Peers, NEW n \in Nat, ReadShort(p, n) PROVE FramingInv'
<1>1. PICK r \in 1..(n - 1) : Read(p, n, r)
    BY DEF ReadShort
<1>2. r \in 1..Len(wire[p]) /\ wire' = [wire EXCEPT ![p] = Drop(r, @)]
    BY <1>1, ReadIs
<1>3. signals' \in 0..MaxSignals
    BY DEF ReadShort, FramingInv, TypeOK
<1>4. Leaves(p)
    BY <1>2, <1>3 DEF ReadShort, Goto, Leaves
<1> QED
    BY <1>4, LeavesStep

LEMMA ReadSizeStep == ASSUME FramingInv, NEW p \in Peers, ReadSize(p) PROVE FramingInv'
<1>1. CASE ReadShort(p, 2)
    BY <1>1, ReadShortStep
<1>2. CASE ~ReadShort(p, 2)
  <2>1. /\ pc[p] = "read_size" /\ Read(p, 2, 2) /\ Goto(p, "read_content")
        /\ UNCHANGED <<sent, received, signals>>
      BY <1>2 DEF ReadSize
  <2>2. PICK n \in Announced(p, First(2, wire[p])) :
           size' = [size EXCEPT ![p] = n] /\ total' = [total EXCEPT ![p] = n]
      BY <1>2 DEF ReadSize
  <2>3. 2 \in 0..Len(wire[p]) /\ wire' = [wire EXCEPT ![p] = Drop(2, @)]
      BY <2>1, ReadIs
  <2>4. UnderWay(p) /\ Stream(p) /\ n = Announce(p) /\ n \in 0..SHRT_MAX
      BY <2>1, <2>3, AnnouncedIs
  <2>5. pc'[p] = "read_content" /\ size'[p] = n /\ total'[p] = n
      BY <2>1, <2>2 DEF FramingInv, TypeOK, Goto
  <2>6. Taken(p)' = Taken(p) + 2
      BY <2>1, <2>4, <2>5 DEF Taken
  <2>7. Calls(p)'
      BY <2>5 DEF Calls, Sending
  <2>8. Takes(p)
      BY <2>1, <2>2, <2>3, <2>4, <2>6, <2>7 DEF Takes, Goto, Receiving
  <2> QED
      BY <2>8, TakesStep
<1> QED
    BY <1>1, <1>2

LEMMA ReadPacketStep == ASSUME FramingInv, NEW p \in Peers, ReadPacket(p) PROVE FramingInv'
<1>1. MAX_MSG \in Nat \ {0} /\ SHRT_MAX \in Nat /\ size[p] \in 0..SHRT_MAX /\ total[p] \in 0..SHRT_MAX
    BY Typed
<1>2. CASE ReadShort(p, MAX_MSG)
    BY <1>1, <1>2, ReadShortStep
<1>3. CASE ~ReadShort(p, MAX_MSG)
  <2>1. /\ pc[p] = "read_content" /\ size[p] > MAX_MSG /\ Read(p, MAX_MSG, MAX_MSG)
        /\ size' = [size EXCEPT ![p] = size[p] - MAX_MSG]
        /\ UNCHANGED <<pc, total, sent, received, signals>>
      BY <1>3 DEF ReadPacket
  <2>2. MAX_MSG \in 0..Len(wire[p]) /\ wire' = [wire EXCEPT ![p] = Drop(MAX_MSG, @)]
      BY <1>1, <2>1, ReadIs
  <2>3. UnderWay(p) /\ Stream(p) /\ total[p] = Announce(p)
      BY <2>1, OnTheWay DEF Receiving, Stream
  <2>4. size'[p] = size[p] - MAX_MSG /\ size[p] - MAX_MSG \in 0..SHRT_MAX
      BY <1>1, <2>1 DEF FramingInv, TypeOK
  <2>5. pc' = [pc EXCEPT ![p] = "read_content"] /\ total' = [total EXCEPT ![p] = Announce(p)]
      BY <2>1, <2>3 DEF FramingInv, TypeOK
  <2>6. Taken(p)' = Taken(p) + MAX_MSG
      BY <1>1, <2>1, <2>4 DEF Taken
  <2>7. Calls(p)'
    <3>1. Calls(p)
        BY DEF FramingInv, Streams
    <3>2. size[p] <= total[p]
        BY <1>1, <2>1, <3>1 DEF Calls
    <3>3. 0 < size'[p] /\ size'[p] < total'[p] /\ MAX_MSG < total'[p] /\ pc'[p] \notin Sending
          /\ pc'[p] # "write_size"
        BY <1>1, <2>1, <2>4, <3>2 DEF Sending
    <3> QED
        BY <3>3 DEF Calls
  <2>8. Takes(p)
      BY <1>1, <2>1, <2>2, <2>3, <2>4, <2>5, <2>6, <2>7 DEF Takes, Receiving
  <2> QED
      BY <2>8, TakesStep
<1> QED
    BY <1>2, <1>3

\* The last packet is all that is on the way, and all of the message is written.
LEMMA LastPacket ==
    ASSUME FramingInv, NEW p \in Peers, pc[p] = "read_content", Read(p, size[p], size[p])
    PROVE  /\ UnderWay(p) /\ Stream(p) /\ total[p] = Announce(p)
           /\ size[p] \in 0..Len(wire[p]) /\ Len(wire[p]) = size[p]
           /\ wire' \in [Peers -> Seq(ByteType)] /\ wire'[p] = <<>>
           /\ \A q \in Peers \ {p} : wire'[q] = wire[q]
           /\ pc[Other(p)] \in Sending => pc[Other(p)] = "write_content" /\ total[Other(p)] = 0
<1>1. size[p] \in Nat /\ total[p] \in Nat /\ Len(wire[p]) \in Nat
    BY Typed
<1>2. /\ size[p] \in 0..Len(wire[p]) /\ wire' = [wire EXCEPT ![p] = Drop(size[p], @)]
    BY <1>1, ReadIs
<1>3. UnderWay(p) /\ Stream(p) /\ total[p] = Announce(p)
    BY OnTheWay DEF Receiving, Stream
<1>4. Taken(p) = 2 + total[p] - size[p]
    BY DEF Taken
<1>5. Len(wire[p]) = size[p]
  <2>1. CASE wire[p] = <<>>
      BY <1>1, <1>2, <2>1, EmptySeq
  <2>2. CASE Taken(p) + Len(wire[p]) <= Announce(p) + 2
      BY <1>1, <1>2, <1>3, <1>4, <2>2
  <2> QED
      BY <1>3, <2>1, <2>2 DEF Stream
<1>6. /\ Drop(size[p], wire[p]) \in Seq(ByteType) /\ Len(Drop(size[p], wire[p])) = 0
  <2>1. PICK l \in Nat : /\ l = Len(wire[p]) /\ Drop(size[p], wire[p]) \in Seq(ByteType)
                         /\ Len(Drop(size[p], wire[p])) = l - size[p]
      BY <1>2, <1>3, Reading
  <2> QED
      BY <1>1, <1>5, <2>1
<1>7. Drop(size[p], wire[p]) = <<>>
    BY <1>6, EmptySeq
<1>8. wire \in [Peers -> Seq(ByteType)]
    BY DEF FramingInv, TypeOK, ByteType
<1>9. pc[Other(p)] \in Sending => pc[Other(p)] = "write_content" /\ total[Other(p)] = 0
  <2> HAVE pc[Other(p)] \in Sending
  <2>1. PICK q \in Peers : q = Other(p) /\ Other(q) = p
      BY Typed
  <2>2. Written(q) = 2 + total[p]
      BY <1>1, <1>3, <1>4, <1>5, <2>1 DEF Stream
  <2>3. size[q] \in Nat /\ total[q] \in Nat
      BY Typed
  <2>4. pc[q] = "write_content"
      BY <1>1, <2>1, <2>2 DEF Written, Sending
  <2>5. Calls(q)
      BY DEF FramingInv, Streams
  <2>6. total[q] = total[p]
      BY <1>3, <2>1, <2>5 DEF Calls
  <2>7. size[q] = 0
      BY <1>1, <2>2, <2>3, <2>4, <2>6 DEF Written
  <2> QED
      BY <2>1, <2>3, <2>4, <2>5, <2>7 DEF Calls
<1> QED
    BY <1>2, <1>3, <1>5, <1>6, <1>7, <1>8, <1>9

LEMMA ReceivesStep ==
    ASSUME FramingInv, NEW p \in Peers, pc[p] = "read_content", Read(p, size[p], size[p]),
           UNCHANGED <<size, total, sent, signals>>,
           NEW m \in Sizes \union {Garbled}, received' = [received EXCEPT ![p] = Append(@, m)],
           Free(p, "turn")
    PROVE  FramingInv'
<1> USE DEF FramingInv
<1>1. PICK q \in Peers : q = Other(p) /\ q # p /\ Other(q) = p /\ Peers = {p, q}
    BY TwoPeers DEF Peers
<1>2. /\ UnderWay(p) /\ wire' \in [Peers -> Seq(ByteType)] /\ wire'[p] = <<>> /\ wire'[q] = wire[q]
      /\ pc[q] \in Sending => pc[q] = "write_content" /\ total[q] = 0
    BY <1>1, LastPacket
<1>3. PICK l \in {"turn", "dead"} : pc' = [pc EXCEPT ![p] = l]
    BY DEF Free, Goto
<1>4. pc'[p] = l /\ pc'[q] = pc[q]
    BY <1>1, <1>3 DEF TypeOK
<1>5. /\ received' \in [Peers -> Seq(Sizes \union {Garbled})] /\ received'[q] = received[q]
      /\ Len(received'[p]) = Len(received[p]) + 1
    BY <1>1 DEF TypeOK
<1>6. TypeOK'
    BY <1>2, <1>3, <1>5 DEF TypeOK, ByteType, Ended
<1>7. /\ Len(sent[p]) \in Nat /\ Len(sent[q]) \in Nat /\ Len(received[p]) \in Nat /\ Len(received[q]) \in Nat
    BY Typed
<1>8. Arrived(q) /\ ~UnderWay(q)
  <2>1. Arrived(q)
      BY <1>1, <1>2, TwoPeers DEF Turns, Peers
  <2> QED
      BY <2>1, Typed
<1>9. Arrived(p)' /\ ~UnderWay(p)' /\ Arrived(q)' /\ ~UnderWay(q)'
    BY <1>1, <1>2, <1>5, <1>7, <1>8 DEF Arrived, UnderWay
<1>10. Turns'
  <2>1. pc[q] # "read_content" /\ pc[q] # "turn"
    <3>1. pc[q] # "read_content"
        BY <1>8 DEF Turns
    <3>2. pc[q] # "turn"
        BY <1>1, <1>2, <1>7, <1>8, TwoPeers DEF Turns, Peers, Arrived, UnderWay
    <3> QED
        BY <3>1, <3>2
  <2>2. pc'[p] \notin Sending \union {"read_content"}
      BY <1>4 DEF Sending
  <2>3. CASE p = "client"
    <3>1. q = "server" /\ Len(sent["client"]) = Len(sent["server"])
        BY <1>1, <1>2, <2>3, TwoPeers DEF Turns
    <3> QED
        BY <1>1, <1>2, <1>4, <1>9, <2>1, <2>2, <2>3, <3>1 DEF Turns
  <2>4. CASE p = "server"
    <3>1. q = "client" /\ Len(sent["client"]) = Len(sent["server"]) + 1
        BY <1>1, <1>2, <2>4, TwoPeers DEF Turns
    <3> QED
        BY <1>1, <1>2, <1>4, <1>9, <2>1, <2>2, <2>4, <3>1 DEF Turns
  <2> QED
      BY <2>3, <2>4 DEF Peers
<1>11. Calls(p)'
    BY <1>4 DEF Calls, Sending
<1>12. Calls(q)'
  <2>1. Calls(q) /\ Announce(Other(q))' = Announce(Other(q))
      BY DEF Streams, Announce
  <2> QED
      BY <1>4, <2>1 DEF Calls
<1>13. wire'[q] = <<>>
    BY <1>2, <1>8 DEF Streams
<1> QED
    BY <1>1, <1>2, <1>6, <1>9, <1>10, <1>11, <1>12, <1>13 DEF Streams

LEMMA ContentLength == ASSUME NEW k \in Nat, NEW n \in Nat PROVE Len(Content(k, n)) = n
<1>1. PICK b \in Nat : b = n + 2
    OBVIOUS
<1>2. 3 \in Nat \ {0} /\ 3 <= b + 1 /\ b - 3 + 1 = n
    BY <1>1
<1>3. Len(Bytes(k, 3, b)) = b - 3 + 1
    BY <1>2, BytesLength
<1> QED
    BY <1>1, <1>2, <1>3 DEF Content

\* What is received of a message that fits in one packet is that message.
LEMMA UnpackedIs ==
    ASSUME FramingInv, NEW p \in Peers, pc[p] = "read_content", size[p] <= MAX_MSG,
           Read(p, size[p], size[p]), NEW m \in Unpacked(p, First(size[p], wire[p]))
    PROVE  /\ m \in Sizes \union {Garbled}
           /\ LET k == Len(sent[Other(p)])
              IN  /\ k = Len(received[p]) + 1 /\ k \in DOMAIN sent[Other(p)]
                  /\ sent[Other(p)][k] \in Fits => m = sent[Other(p)][k]
<1> DEFINE s == sent[Other(p)]
           bytes == First(size[p], wire[p])
<1>1. /\ s \in Seq(Sizes) /\ Len(s) \in Nat /\ DOMAIN s = 1..Len(s) /\ Len(received[p]) \in Nat
      /\ size[p] \in Nat /\ total[p] \in Nat /\ MAX_MSG \in Nat /\ SHRT_MAX \in Nat /\ SHRT_MAX >= MAX_MSG
  <2>1. size[p] \in Nat /\ total[p] \in Nat /\ Len(received[p]) \in Nat /\ Other(p) \in Peers
      BY Typed
  <2>2. s \in Seq(Sizes)
      BY <2>1 DEF FramingInv, TypeOK
  <2> QED
      BY <2>1, <2>2, FramingAssumption DEF FramingAssumption
<1>2. m \in Sizes \union {Garbled}
  <2>1. \A k \in DOMAIN s : s[k] \in Sizes
      BY <1>1, ElementOfSeq
  <2> QED
      BY <2>1 DEF Unpacked
<1>3. UnderWay(p) /\ Stream(p) /\ total[p] = Announce(p) /\ size[p] \in 0..Len(wire[p])
    BY LastPacket
<1>4. PICK k \in Nat : k = Len(s)
    BY <1>1
<1>5. k = Len(received[p]) + 1 /\ k \in DOMAIN s /\ s[k] \in Sizes
  <2>1. k = Len(received[p]) + 1
      BY <1>3, <1>4 DEF UnderWay
  <2>2. k \in 1..Len(s)
      BY <1>1, <1>4, <2>1
  <2> QED
      BY <1>1, <2>1, <2>2, ElementOfSeq
<1>6. ASSUME s[k] \in Fits PROVE m = s[k]
  <2>1. s[k] \in Nat /\ s[k] <= MAX_MSG
      BY <1>6, FramingAssumption DEF Fits, FramingAssumption
  <2>2. total[p] = s[k]
    <3>1. s[k] <= SHRT_MAX
        BY <1>1, <2>1
    <3>2. Short(s[k]) = s[k]
        BY <2>1, <3>1, ShortIs
    <3> QED
        BY <1>3, <1>4, <3>2 DEF Announce
  <2>3. size[p] = s[k]
    <3>1. Calls(p)
        BY DEF FramingInv, Streams
    <3> QED
        BY <1>1, <2>1, <2>2, <3>1 DEF Calls
  <2>4. bytes = Piece(k, Taken(p), size[p])
      BY <1>3, <1>4, Reading
  <2>5. Taken(p) = 2
      BY <1>1, <2>2, <2>3 DEF Taken
  <2>6. bytes = Content(k, s[k])
      BY <2>1, <2>3, <2>4, <2>5 DEF Piece, Content
  <2>7. \A j \in DOMAIN s : bytes = Content(j, s[j]) => s[j] = s[k]
    <3> TAKE j \in DOMAIN s
    <3>1. j \in Nat /\ s[j] \in Sizes
        BY <1>1, ElementOfSeq
    <3>2. s[j] \in Nat
        BY <3>1, FramingAssumption DEF FramingAssumption
    <3>3. Len(Content(j, s[j])) = s[j] /\ Len(Content(k, s[k])) = s[k]
        BY <2>1, <3>1, <3>2, ContentLength
    <3> QED
        BY <2>6, <3>3
  <2> QED
      BY <1>5, <2>6, <2>7 DEF Unpacked
<1> QED
    BY <1>2, <1>4, <1>5, <1>6

LEMMA ReadLastStep == ASSUME FramingInv, NEW p \in Peers, ReadLast(p) PROVE FramingInv'
<1>1. size[p] \in Nat
    BY Typed
<1>2. CASE ReadShort(p, size[p])
    BY <1>1, <1>2, ReadShortStep
<1>3. CASE ~ReadShort(p, size[p])
  <2>1. /\ pc[p] = "read_content" /\ size[p] <= MAX_MSG /\ Read(p, size[p], size[p])
        /\ UNCHANGED <<size, total, sent, signals>>
      BY <1>3 DEF ReadLast
  <2>2. CASE /\ \E m \in Unpacked(p, First(size[p], wire[p])) :
                      received' = [received EXCEPT ![p] = Append(@, m)]
             /\ Free(p, "turn")
    <3>1. PICK m \in Unpacked(p, First(size[p], wire[p])) :
             received' = [received EXCEPT ![p] = Append(@, m)]
        BY <2>2
    <3>2. m \in Sizes \union {Garbled}
        BY <2>1, UnpackedIs
    <3> QED
        BY <2>1, <2>2, <3>1, <3>2, ReceivesStep
  <2>3. CASE Free(p, "close") /\ UNCHANGED received
    <3>1. size[p] \in 0..Len(wire[p]) /\ wire' = [wire EXCEPT ![p] = Drop(size[p], @)] /\ wire'[p] = <<>>
        BY <1>1, <2>1, ReadIs, LastPacket
    <3>2. wire' = [wire EXCEPT ![p] = <<>>]
        BY <3>1 DEF FramingInv, TypeOK
    <3>3. signals' \in 0..MaxSignals
        BY <2>1 DEF FramingInv, TypeOK
    <3>4. Leaves(p)
        BY <2>1, <2>3, <3>2, <3>3 DEF Leaves, Free, Goto, Ended
    <3> QED
        BY <3>4, LeavesStep
  <2> QED
      BY <1>3, <2>2, <2>3 DEF ReadLast
<1> QED
    BY <1>2, <1>3

-----------------------------------------------------------------------------
(* The invariant.                                                          *)

\* A call that fails, an end that hangs up or closes.
LEMMA LeavingStep ==
    ASSUME FramingInv, NEW p \in Peers,
           WriteFails(p) \/ ReadEnds(p) \/ ReadInterrupted(p) \/ Hangup(p) \/ Close(p)
    PROVE  FramingInv'
<1>1. signals' \in 0..MaxSignals
    BY FramingAssumption
    DEF WriteFails, ReadEnds, ReadInterrupted, Hangup, Close, FramingInv, TypeOK, FramingAssumption
<1>2. Leaves(p)
    BY <1>1 DEF WriteFails, ReadEnds, ReadInterrupted, Hangup, Close, Goto, Leaves, Ended
<1> QED
    BY <1>2, LeavesStep

LEMMA Initially == Init => FramingInv
<1> SUFFICES ASSUME Init PROVE FramingInv
    OBVIOUS
<1> USE DEF Init
<1>1. /\ <<>> \in Seq([of : Nat, place : Nat]) /\ <<>> \in Seq(Sizes) /\ <<>> \in Seq(Sizes \union {Garbled})
      /\ Len(<<>>) = 0
    BY EmptySeq
<1>2. 0 \in 0..SHRT_MAX /\ 0 \in 0..MaxSignals
    BY FramingAssumption DEF FramingAssumption
<1>3. TypeOK
    BY <1>1, <1>2 DEF TypeOK, Receiving
<1>4. \A p \in Peers : Arrived(p) /\ ~UnderWay(p) /\ wire[p] = <<>> /\ pc[p] \in {"turn", "read_size"}
    BY <1>1, TwoPeers DEF Arrived, UnderWay, Peers
<1>5. Turns
    BY <1>4, <1>1, TwoPeers DEF Turns, Peers, Sending
<1>6. Streams
    BY <1>4 DEF Streams, Calls, Sending
<1> QED
    BY <1>3, <1>5, <1>6 DEF FramingInv

LEMMA Inductive == FramingInv /\ [Next]_vars => FramingInv'
<1> SUFFICES ASSUME FramingInv, [Next]_vars PROVE FramingInv'
    OBVIOUS
<1>1. ASSUME NEW p \in Peers, Run(p) PROVE FramingInv'
  <2>1. CASE message_send_all(p)
      BY <2>1, WriteSizeStep, WritePacketStep, WriteLastStep, WriteInterruptedStep, LeavingStep
      DEF message_send_all
  <2>2. CASE message_receive_all(p)
      BY <2>2, ReadSizeStep, ReadPacketStep, ReadLastStep, LeavingStep DEF message_receive_all
  <2> QED
      BY <1>1, <2>1, <2>2, LeavingStep DEF Run
<1>2. CASE Call \/ Serve
    BY <1>2, BeginSendStep, LeavingStep DEF Call, Serve, Peers
<1>3. CASE UNCHANGED vars
    BY <1>3
    DEF vars, FramingInv, TypeOK, Turns, Streams, Stream, Calls, Arrived, UnderWay, Announce, Taken, Written, Open
<1> QED
    BY <1>1, <1>2, <1>3, ResetStep DEF Next, Done

LEMMA Invariant == Spec => []FramingInv
BY Initially, Inductive, PTL DEF Spec

\* The variables of the model have their types: no size is negative when it is
\* used, and bytes are the bytes of messages.
THEOREM FramingTyped == Spec => []TypeOK
<1>1. FramingInv => TypeOK
    BY DEF FramingInv
<1> QED
    BY <1>1, Invariant, PTL

\* An answer is the answer to the last request, for messages of any size and
\* calls that fail at any point (message_send_all, message_receive_all).
THEOREM CallsInStep == Spec => []InStep
<1>1. FramingInv => InStep
  <2> SUFFICES ASSUME FramingInv PROVE InStep
      OBVIOUS
  <2>1. \A p \in Peers : Arrived(p) => wire[p] = <<>>
      BY DEF FramingInv, Streams
  <2>2. \A p \in Peers : Len(sent[p]) \in Nat /\ Len(received[p]) \in Nat
      BY Typed
  <2>3. pc["client"] = "turn" => Len(received["client"]) = Len(sent["client"])
                                 /\ Len(received["server"]) = Len(sent["client"])
      BY TwoPeers DEF FramingInv, Turns, Arrived
  <2>4. pc["server"] = "turn" => Len(received["server"]) = Len(sent["server"]) + 1 /\ wire["server"] = <<>>
      BY <2>1, TwoPeers DEF FramingInv, Turns, Arrived, Peers
  <2> QED
      BY <2>3, <2>4 DEF InStep
<1> QED
    BY <1>1, Invariant, PTL

-----------------------------------------------------------------------------
(* The channels.                                                           *)

\* What a step is to the direction to p: another message is sent, or the next
\* one arrives, or nothing.
Sent(p) == (\E n \in Sizes : sent'[Other(p)] = Append(sent[Other(p)], n)) /\ received'[p] = received[p]
Arrives(p) ==
    LET q == Other(p)
        k == Len(received[p]) + 1
    IN  /\ k \in DOMAIN sent[q]
        /\ \/ received'[p] = Append(received[p], sent[q][k])
           \/ /\ sent[q][k] \notin Fits
              /\ \E m \in Sizes \union {Garbled} : received'[p] = Append(received[p], m)
        /\ sent'[q] = sent[q]
Nothing(p) == sent'[Other(p)] = sent[Other(p)] /\ received'[p] = received[p]

LEMMA Directions ==
    ASSUME FramingInv, [Next]_vars, NEW p \in Peers
    PROVE  Sent(p) \/ Arrives(p) \/ Nothing(p)
<1>1. sent \in [Peers -> Seq(Sizes)] /\ received \in [Peers -> Seq(Sizes \union {Garbled})]
    BY DEF FramingInv, TypeOK
<1>2. PICK q \in Peers : q = Other(p) /\ q # p /\ Other(q) = p /\ Peers = {p, q}
    BY TwoPeers DEF Peers
<1>3. CASE UNCHANGED <<sent, received>>
    BY <1>3 DEF Nothing
<1>4. ASSUME NEW x \in Peers, BeginSend(x) PROVE Sent(p) \/ Nothing(p)
  <2>1. PICK n \in Sizes : sent' = [sent EXCEPT ![x] = Append(@, n)]
      BY <1>4 DEF BeginSend
  <2>2. UNCHANGED received
      BY <1>4 DEF BeginSend
  <2>3. CASE x = q
      BY <1>1, <1>2, <2>1, <2>2, <2>3 DEF Sent
  <2>4. CASE x = p
      BY <1>1, <1>2, <2>1, <2>2, <2>4 DEF Nothing
  <2> QED
      BY <1>2, <2>3, <2>4
<1>5. ASSUME NEW x \in Peers, ReadLast(x) PROVE Arrives(p) \/ Nothing(p)
  <2>1. UNCHANGED sent
      BY <1>5 DEF ReadLast, ReadShort
  <2>2. CASE UNCHANGED received
      BY <2>1, <2>2 DEF Nothing
  <2>3. CASE ~UNCHANGED received
    <3>1. /\ pc[x] = "read_content" /\ size[x] <= MAX_MSG /\ Read(x, size[x], size[x])
        BY <1>5, <2>3 DEF ReadLast, ReadShort
    <3>2. PICK m \in Unpacked(x, First(size[x], wire[x])) :
             received' = [received EXCEPT ![x] = Append(@, m)]
        BY <1>5, <2>3 DEF ReadLast, ReadShort
    <3>3. CASE x = q
        BY <1>1, <1>2, <2>1, <3>2, <3>3 DEF Nothing
    <3>4. CASE x = p
      <4>1. PICK k : /\ k = Len(received[p]) + 1 /\ k \in DOMAIN sent[q]
                     /\ sent[q][k] \in Fits => m = sent[q][k]
                     /\ m \in Sizes \union {Garbled}
          BY <1>2, <3>1, <3>4, UnpackedIs
      <4>2. received'[p] = Append(received[p], m)
          BY <1>1, <3>2, <3>4
      <4>3. sent'[q] = sent[q]
          BY <2>1
      <4> QED
          BY <1>2, <4>1, <4>2, <4>3 DEF Arrives
    <3> QED
        BY <1>2, <3>3, <3>4
  <2> QED
      BY <2>2, <2>3
<1>6. ASSUME NEW x \in Peers, message_send_all(x) \/ ReadSize(x) \/ ReadPacket(x) \/ ReadEnds(x)
                              \/ ReadInterrupted(x) \/ Close(x) \/ Hangup(x) \/ Reset(x)
      PROVE  UNCHANGED <<sent, received>>
    BY <1>6
    DEF message_send_all, WriteSize, WritePacket, WriteLast, WriteInterrupted, WriteFails, ReadSize, ReadPacket,
        ReadShort, ReadEnds, ReadInterrupted, Close, Hangup, Reset
<1>7. CASE Call \/ Serve
    BY <1>3, <1>4, <1>6, <1>7 DEF Call, Serve, Peers
<1>8. ASSUME NEW x \in Peers, Run(x) \/ Reset(x) PROVE Sent(p) \/ Arrives(p) \/ Nothing(p)
    BY <1>3, <1>5, <1>6, <1>8 DEF Run, message_receive_all
<1>9. CASE UNCHANGED vars
    BY <1>3, <1>9 DEF vars
<1> QED
    BY <1>7, <1>8, <1>9 DEF Next, Done

\* Each direction of the connection is a channel (message_send_all,
\* message_receive_all): the messages that fit in one packet arrive as they were
\* sent, all of them in order, and what is lost is lost from the end.
THEOREM ChannelsImplemented == Spec => Channels
<1>1. Init => ToServer!Init /\ ToClient!Init
    BY DEF Init, ToServer!Init, ToClient!Init, Peers
<1>2. FramingInv /\ [Next]_vars => [ToServer!Next]_<<sent["client"], received["server"]>>
  <2> SUFFICES ASSUME FramingInv, [Next]_vars
               PROVE  [ToServer!Next]_<<sent["client"], received["server"]>>
      OBVIOUS
  <2>1. Sent("server") \/ Arrives("server") \/ Nothing("server")
      BY Directions DEF Peers
  <2> QED
      BY <2>1, TwoPeers DEF Sent, Arrives, Nothing, ToServer!Next, ToServer!Send, ToServer!Receive
<1>3. FramingInv /\ [Next]_vars => [ToClient!Next]_<<sent["server"], received["client"]>>
  <2> SUFFICES ASSUME FramingInv, [Next]_vars
               PROVE  [ToClient!Next]_<<sent["server"], received["client"]>>
      OBVIOUS
  <2>1. Sent("client") \/ Arrives("client") \/ Nothing("client")
      BY Directions DEF Peers
  <2> QED
      BY <2>1, TwoPeers DEF Sent, Arrives, Nothing, ToClient!Next, ToClient!Send, ToClient!Receive
<1> QED
    BY <1>1, <1>2, <1>3, Invariant, PTL DEF Spec, Channels, ToServer!Spec, ToClient!Spec
=============================================================================
