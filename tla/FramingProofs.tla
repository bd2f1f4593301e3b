----------------------------- MODULE FramingProofs -----------------------------
(***************************************************************************)
(* Theorems about Framing, for all messages, buffer sizes, capacities and  *)
(* faults: the types, and that a connection takes the steps of RemoteCall. *)
(*                                                                         *)
(* The invariant follows the bytes: what an end has collected, what is on  *)
(* the wire to it and what its peer has yet to write are together the one  *)
(* message that its peer sends.                                            *)
(***************************************************************************)
EXTENDS Framing, SequenceTheorems, TLAPS

Byte == Letter \cup {NL}

SentBy(e) == IF e = "caller" THEN request ELSE answer

(* What was collected, then what is on the wire, then what is yet to write. *)
InTransit(collected, written, unwritten) == collected \o written \o unwritten

(* The bytes from an end on their way to its peer. *)
Stream(e) ==
    IF SentBy(e) = None
    THEN buffer[Peer(e)] = <<>> /\ wire[e] = <<>> /\ outgoing[e] = <<>>
    ELSE InTransit(buffer[Peer(e)], wire[e], outgoing[e]) = Encoded(SentBy(e))

ByteTypes ==
    /\ state \in [Side -> State]
    /\ outgoing \in [Side -> Seq(Byte)]
    /\ wire \in [Side -> Seq(Byte)]
    /\ buffer \in [Side -> Seq(Byte)]
    /\ got \in [Side -> Message \cup {None}]
    /\ request \in Message
    /\ answer \in Message \cup {None}
    /\ \A e \in Side : Len(wire[e]) <= Capacity

(* Where an end is, and what it and its peer have received and said. *)
Progress ==
    /\ \A e \in Side : got[Peer(e)] \in {None, SentBy(e)}
    /\ got["caller"] # None <=> state["caller"] = "done"
    /\ state["callee"] = "receive" => got["callee"] = None /\ answer = None
    /\ state["callee"] = "handle" => got["callee"] # None /\ answer = None
    /\ state["callee"] = "send" => answer # None

FrameInv == ByteTypes /\ (\A e \in Side : Stream(e)) /\ Progress
-------------------------------------------------------------------------------
(* A piece of a sequence of bytes, and what is left of it. *)
LEMMA Cut ==
  ASSUME NEW x \in Seq(Byte), NEW n \in 1 .. Len(x)
  PROVE  /\ SubSeq(x, 1, n) \in Seq(Byte)
         /\ SubSeq(x, n + 1, Len(x)) \in Seq(Byte)
         /\ SubSeq(x, 1, n) \o SubSeq(x, n + 1, Len(x)) = x
         /\ Len(SubSeq(x, n + 1, Len(x))) = Len(x) - n
         /\ Len(SubSeq(x, 1, n)) = n
<1>1. Len(x) \in Nat /\ n \in Int
  BY LenProperties
<1>2. \A i \in 1 .. Len(x) : x[i] \in Byte
  BY ElementOfSeq
<1>3. (\A i \in 1 .. n : x[i] \in Byte) /\ (\A i \in n + 1 .. Len(x) : x[i] \in Byte)
  BY <1>1, <1>2
<1>4. SubSeq(x, 1, n) \in Seq(Byte) /\ Len(SubSeq(x, 1, n)) = n
  BY <1>1, <1>3, SubSeqProperties
<1>5. /\ SubSeq(x, n + 1, Len(x)) \in Seq(Byte)
      /\ Len(SubSeq(x, n + 1, Len(x))) = Len(x) - n
  BY <1>1, <1>3, SubSeqProperties
<1>6. SubSeq(x, 1, n) \o SubSeq(x, n + 1, Len(x)) = SubSeq(x, 1, Len(x))
  <2>1. 1 \in 1 .. Len(x) + 1 /\ n \in 1 - 1 .. Len(x) /\ Len(x) \in n .. Len(x)
    BY <1>1
  <2> QED  BY <2>1, ConcatAdjacentSubSeq
<1> QED  BY <1>4, <1>5, <1>6, SubSeqFull

(* An encoded message is the message and one newline, which is its last byte *)
(* and no other.                                                             *)
LEMMA EncodedMessage ==
  ASSUME NEW m \in Message
  PROVE  /\ m \in Seq(Byte)
         /\ Len(m) \in Nat
         /\ Encoded(m) \in Seq(Byte)
         /\ Len(Encoded(m)) = Len(m) + 1
         /\ \A i \in 1 .. Len(m) : Encoded(m)[i] = m[i]
         /\ \A i \in 1 .. Len(m) + 1 : Encoded(m)[i] = NL <=> i = Len(m) + 1
<1>1. m \in Seq(Letter)
  BY FramingAssumption
<1>2. m \in Seq(Byte) /\ NL \in Byte
  BY <1>1, SeqMonotonic DEF Byte
<1>3. Len(m) \in Nat /\ \A i \in 1 .. Len(m) : m[i] \in Letter
  BY <1>1, LenProperties, ElementOfSeq
<1>4. /\ Encoded(m) \in Seq(Byte)
      /\ Len(Encoded(m)) = Len(m) + 1
      /\ \A i \in 1 .. Len(m) : Encoded(m)[i] = m[i]
      /\ Encoded(m)[Len(m) + 1] = NL
  BY <1>2, AppendProperties DEF Encoded
<1>5. \A i \in 1 .. Len(m) : Encoded(m)[i] # NL
  BY <1>3, <1>4, FramingAssumption
<1> QED  BY <1>2, <1>3, <1>4, <1>5

(* When a newline is among the first bytes of an encoded message, what comes *)
(* before the newline is the message.                                        *)
LEMMA WholeMessage ==
  ASSUME NEW m \in Message, NEW bytes \in Seq(Byte), NEW rest \in Seq(Byte),
         bytes \o rest = Encoded(m), Complete(bytes)
  PROVE  FirstLine(bytes) = m
<1> DEFINE ends == {i \in DOMAIN bytes : bytes[i] = NL}
           k == Len(m) + 1
<1>1. /\ Len(bytes) \in Nat /\ Len(rest) \in Nat
      /\ DOMAIN bytes = 1 .. Len(bytes)
      /\ Len(bytes) + Len(rest) = k
      /\ \A i \in 1 .. Len(bytes) : bytes[i] = Encoded(m)[i]
  BY ConcatProperties, LenProperties, EncodedMessage
<1>2. \A i \in 1 .. Len(bytes) : bytes[i] = NL <=> i = k
  BY <1>1, EncodedMessage
<1>3. \E i \in 1 .. Len(bytes) : bytes[i] = NL
  BY DEF Complete, Contains
<1>4. Len(bytes) = k /\ ends = {k}
  <2>1. Len(m) \in Nat /\ k \in 1 .. Len(bytes)
    BY <1>2, <1>3, EncodedMessage
  <2>2. Len(bytes) = k
    <3>1. Len(bytes) \in Nat /\ Len(rest) \in Nat /\ Len(bytes) + Len(rest) = Len(m) + 1
      BY <1>1
    <3> QED  BY <2>1, <3>1
  <2>3. \A i : i \in ends <=> i = k
    BY <1>1, <1>2, <2>1
  <2> QED  BY <2>2, <2>3
<1>5. Min(ends) = k
  <2>1. Len(m) \in Nat
    BY EncodedMessage
  <2> QED  BY <1>4, <2>1 DEF Min
<1>6. FirstLine(bytes) = SubSeq(bytes, 1, Len(m))
  <2>1. FirstLine(bytes) = SubSeq(bytes, 1, Min(ends) - 1)
    BY <1>4 DEF FirstLine
  <2>2. Min(ends) - 1 = Len(m)
    BY <1>5, EncodedMessage
  <2> QED  BY <2>1, <2>2
<1>7. \A i \in 1 .. Len(m) : bytes[i] = m[i] /\ bytes[i] \in Byte
  BY <1>1, <1>4, EncodedMessage, ElementOfSeq
<1>8. /\ FirstLine(bytes) \in Seq(Byte)
      /\ Len(FirstLine(bytes)) = Len(m)
      /\ \A i \in 1 .. Len(m) : FirstLine(bytes)[i] = m[i]
  <2>1. Len(m) \in Nat
    BY EncodedMessage
  <2>2. /\ SubSeq(bytes, 1, Len(m)) \in Seq(Byte)
        /\ Len(SubSeq(bytes, 1, Len(m))) = IF 1 <= Len(m) THEN Len(m) - 1 + 1 ELSE 0
        /\ \A i \in 1 .. Len(m) - 1 + 1 : SubSeq(bytes, 1, Len(m))[i] = bytes[1 + i - 1]
    BY <1>7, <2>1, SubSeqProperties
  <2> QED  BY <1>6, <1>7, <2>1, <2>2
<1> QED  BY <1>8, EncodedMessage, SeqEqual

(* The library's ConcatAssociative, which the provers cannot apply to bytes. *)
LEMMA Associative ==
  \A x, y, z \in Seq(Byte) : (x \o y) \o z = x \o (y \o z)
<1> TAKE x \in Seq(Byte), y \in Seq(Byte), z \in Seq(Byte)
<1>1. (x \o y) \o z \in Seq(Byte) /\ x \o (y \o z) \in Seq(Byte)
  BY ConcatProperties
<1>2. Len((x \o y) \o z) = Len(x \o (y \o z))
  BY ConcatProperties
<1>3. \A i \in 1 .. Len((x \o y) \o z) : ((x \o y) \o z)[i] = (x \o (y \o z))[i]
  BY ConcatProperties
<1> QED  BY <1>1, <1>2, <1>3, SeqEqual

(* Writing, and receiving, move bytes within the transit. *)
LEMMA BytesWritten ==
  \A x, y, a, b \in Seq(Byte) : InTransit(x, y \o a, b) = InTransit(x, y, a \o b)
<1> TAKE x \in Seq(Byte), y \in Seq(Byte), a \in Seq(Byte), b \in Seq(Byte)
<1>1. x \o y \in Seq(Byte)
  BY ConcatProperties
<1>2. x \o (y \o a) = (x \o y) \o a
  BY Associative, ZenonT(40)
<1>3. ((x \o y) \o a) \o b = (x \o y) \o (a \o b)
  BY <1>1, Associative, ZenonT(40)
<1> QED  BY <1>2, <1>3, Zenon DEF InTransit

LEMMA BytesReceived ==
  \A x, a, b, z \in Seq(Byte) : InTransit(x \o a, b, z) = InTransit(x, a \o b, z)
<1> TAKE x \in Seq(Byte), a \in Seq(Byte), b \in Seq(Byte), z \in Seq(Byte)
<1>1. (x \o a) \o b = x \o (a \o b)
  BY Associative, ZenonT(40)
<1> QED  BY <1>1, Zenon DEF InTransit

-------------------------------------------------------------------------------
LEMMA TwoSides == \A e \in Side : Peer(e) \in Side /\ Peer(Peer(e)) = e /\ Peer(e) # e
BY DEF Side, Peer

LEMMA FrameInit == Init => FrameInv
<1> SUFFICES ASSUME Init PROVE FrameInv
  OBVIOUS
<1>1. request \in Message /\ request # None /\ answer = None
  BY FramingAssumption DEF Init
<1>2. Encoded(request) \in Seq(Byte) /\ <<>> \in Seq(Byte) /\ Len(<<>>) = 0
  BY <1>1, EncodedMessage, EmptySeq
<1>3. ByteTypes
  <2>1. outgoing \in [Side -> Seq(Byte)]
    <3>1. outgoing = [caller |-> Encoded(request), callee |-> <<>>]
      BY DEF Init
    <3>2. DOMAIN outgoing = Side /\ outgoing["caller"] = Encoded(request) /\ outgoing["callee"] = <<>>
      BY <3>1 DEF Side
    <3>3. outgoing = [e \in Side |-> outgoing[e]]
      BY <3>1 DEF Side
    <3> QED  BY <1>2, <3>2, <3>3 DEF Side
  <2>2. wire \in [Side -> Seq(Byte)] /\ buffer \in [Side -> Seq(Byte)]
    BY <1>2 DEF Init
  <2>3. \A e \in Side : Len(wire[e]) <= Capacity
    BY <1>2, FramingAssumption DEF Init
  <2>4. state \in [Side -> State] /\ got \in [Side -> Message \cup {None}]
    BY DEF Init, Side, State
  <2> QED  BY <1>1, <2>1, <2>2, <2>3, <2>4 DEF ByteTypes
<1>4. ASSUME NEW e \in Side PROVE Stream(e)
  <2>1. CASE e = "caller"
    <3>1. <<>> \o <<>> \o Encoded(request) = Encoded(request)
      BY <1>2, ConcatEmptySeq
    <3> QED  BY <1>1, <2>1, <3>1 DEF Init, Stream, InTransit, SentBy, Peer, Side
  <2>2. CASE e = "callee"
    BY <1>1, <2>2 DEF Init, Stream, SentBy, Peer, Side
  <2> QED  BY <2>1, <2>2 DEF Side
<1>5. Progress
  BY <1>1 DEF Init, Progress, Side, Peer
<1> QED  BY <1>3, <1>4, <1>5 DEF FrameInv

LEMMA WriteStep == ASSUME FrameInv, NEW e \in Side, Write(e) PROVE FrameInv'
<1> DEFINE out == outgoing[e]
<1>1. PICK n \in 1 .. Len(out) :
         /\ Len(wire[e]) + n <= Capacity
         /\ wire' = [wire EXCEPT ![e] = @ \o SubSeq(out, 1, n)]
         /\ outgoing' = [outgoing EXCEPT ![e] = SubSeq(@, n + 1, Len(@))]
  BY DEF Write
<1> DEFINE a == SubSeq(out, 1, n)
           b == SubSeq(out, n + 1, Len(out))
<1>2. /\ out \in Seq(Byte) /\ wire[e] \in Seq(Byte) /\ buffer[Peer(e)] \in Seq(Byte)
      /\ wire \in [Side -> Seq(Byte)] /\ outgoing \in [Side -> Seq(Byte)]
  BY TwoSides DEF FrameInv, ByteTypes
<1>3. a \in Seq(Byte) /\ b \in Seq(Byte) /\ a \o b = out /\ Len(a) = n
  BY <1>2, Cut
<1>4. /\ wire'[e] = wire[e] \o a /\ outgoing'[e] = b
      /\ \A f \in Side \ {e} : wire'[f] = wire[f] /\ outgoing'[f] = outgoing[f]
      /\ wire' \in [Side -> Seq(Byte)] /\ outgoing' \in [Side -> Seq(Byte)]
      /\ Len(wire'[e]) <= Capacity
  <2>1. wire[e] \o a \in Seq(Byte) /\ Len(wire[e] \o a) = Len(wire[e]) + n
    BY <1>2, <1>3, ConcatProperties
  <2>2. wire' = [wire EXCEPT ![e] = wire[e] \o a] /\ outgoing' = [outgoing EXCEPT ![e] = b]
    BY <1>1
  <2> HIDE DEF a, b, out
  <2>3. wire'[e] = wire[e] \o a /\ outgoing'[e] = b
    BY <1>2, <2>2
  <2>4. \A f \in Side \ {e} : wire'[f] = wire[f] /\ outgoing'[f] = outgoing[f]
    BY <1>2, <2>2
  <2>5. wire' \in [Side -> Seq(Byte)] /\ outgoing' \in [Side -> Seq(Byte)]
    BY <1>2, <1>3, <2>1, <2>2
  <2> QED  BY <1>1, <2>1, <2>3, <2>4, <2>5
<1>5. /\ state[e] = "send"
      /\ state' = [state EXCEPT ![e] = IF outgoing'[e] = <<>> THEN AfterSend[e] ELSE "send"]
      /\ UNCHANGED <<buffer, got, request, answer>>
  BY DEF Write, Goto
<1> HIDE DEF a, b
<1>6. ByteTypes'
  <2>1. state' \in [Side -> State]
    BY <1>5 DEF FrameInv, ByteTypes, Side, State, AfterSend
  <2>2. \A f \in Side : Len(wire'[f]) <= Capacity
    BY <1>4 DEF FrameInv, ByteTypes
  <2> QED  BY <1>4, <1>5, <2>1, <2>2 DEF FrameInv, ByteTypes
<1>7. ASSUME NEW f \in Side PROVE Stream(f)'
  <2>1. CASE f # e
    BY <1>4, <1>5, <2>1 DEF FrameInv, Stream, SentBy
  <2>2. ASSUME f = e PROVE Stream(e)'
    <3>1. out # <<>> /\ SentBy(e) # None
      <4>1. Len(out) # 0
        BY <1>1
      <4> QED  BY <4>1, EmptySeq DEF FrameInv, Stream
    <3>2. InTransit(buffer[Peer(e)], wire[e], out) = Encoded(SentBy(e))
      BY <3>1 DEF FrameInv, Stream
    <3>3. InTransit(buffer[Peer(e)], wire[e] \o a, b) = InTransit(buffer[Peer(e)], wire[e], a \o b)
      <4>1. /\ buffer[Peer(e)] \in Seq(Byte) /\ wire[e] \in Seq(Byte)
            /\ a \in Seq(Byte) /\ b \in Seq(Byte)
        BY <1>2, <1>3
      <4> QED  BY <4>1, BytesWritten
    <3> QED  BY <1>3, <1>4, <1>5, <3>1, <3>2, <3>3 DEF Stream, SentBy
  <2> QED  BY <2>1, <2>2
<1>8. Progress'
  BY <1>5, TwoSides DEF FrameInv, ByteTypes, Progress, Side, Peer, SentBy, AfterSend
<1> QED  BY <1>6, <1>7, <1>8 DEF FrameInv

LEMMA ReceiveStep == ASSUME FrameInv, NEW e \in Side, Receive(e) PROVE FrameInv'
<1> DEFINE p == Peer(e)
           in == wire[p]
<1>1. PICK n \in 1 .. Len(in) :
         /\ buffer' = [buffer EXCEPT ![e] = @ \o SubSeq(in, 1, n)]
         /\ wire' = [wire EXCEPT ![p] = SubSeq(@, n + 1, Len(@))]
  <2>1. PICK n \in 1 .. BUFFER_SIZE :
           /\ n <= Len(in)
           /\ buffer' = [buffer EXCEPT ![e] = @ \o SubSeq(in, 1, n)]
           /\ wire' = [wire EXCEPT ![p] = SubSeq(@, n + 1, Len(@))]
    BY DEF Receive
  <2>2. in \in Seq(Byte)
    BY TwoSides DEF FrameInv, ByteTypes
  <2>3. n \in 1 .. Len(in)
    BY <2>1, <2>2, LenProperties
  <2> QED  BY <2>1, <2>3
<1> DEFINE a == SubSeq(in, 1, n)
           b == SubSeq(in, n + 1, Len(in))
<1>2. /\ p \in Side /\ p # e /\ Peer(p) = e
      /\ in \in Seq(Byte) /\ outgoing[p] \in Seq(Byte) /\ buffer[e] \in Seq(Byte)
      /\ wire \in [Side -> Seq(Byte)] /\ buffer \in [Side -> Seq(Byte)]
  BY TwoSides DEF FrameInv, ByteTypes
<1>3. /\ a \in Seq(Byte) /\ b \in Seq(Byte) /\ a \o b = in
      /\ Len(b) = Len(in) - n /\ Len(in) \in Nat
  BY <1>2, Cut, LenProperties
<1>4. /\ buffer'[e] = buffer[e] \o a /\ wire'[p] = b
      /\ \A f \in Side \ {e} : buffer'[f] = buffer[f]
      /\ \A f \in Side \ {p} : wire'[f] = wire[f]
      /\ buffer' \in [Side -> Seq(Byte)] /\ wire' \in [Side -> Seq(Byte)]
      /\ Len(wire'[p]) <= Len(wire[p])
  <2>1. buffer[e] \o a \in Seq(Byte)
    BY <1>2, <1>3, ConcatProperties
  <2>2. buffer' = [buffer EXCEPT ![e] = buffer[e] \o a] /\ wire' = [wire EXCEPT ![p] = b]
    BY <1>1
  <2> HIDE DEF a, b, p
  <2>3. buffer'[e] = buffer[e] \o a /\ wire'[p] = b
    BY <1>2, <2>2
  <2>4. /\ \A f \in Side \ {e} : buffer'[f] = buffer[f]
        /\ \A f \in Side \ {p} : wire'[f] = wire[f]
    BY <1>2, <2>2
  <2>5. buffer' \in [Side -> Seq(Byte)] /\ wire' \in [Side -> Seq(Byte)]
    BY <1>2, <1>3, <2>1, <2>2
  <2>6. Len(wire'[p]) <= Len(wire[p])
    BY <1>3, <2>3
  <2> QED  BY <2>3, <2>4, <2>5, <2>6
<1>5. /\ state[e] = "receive"
      /\ UNCHANGED <<outgoing, request, answer>>
      /\ \/ /\ Complete(buffer'[e])
            /\ got' = [got EXCEPT ![e] = FirstLine(buffer'[e])]
            /\ state' = [state EXCEPT ![e] = AfterReceive[e]]
         \/ UNCHANGED <<got, state>>
  BY DEF Receive, Goto
<1> HIDE DEF a, b
<1>6. /\ SentBy(p) # None
      /\ InTransit(buffer'[e], wire'[p], outgoing'[p]) = Encoded(SentBy(p))
  <2>1. in # <<>>
    <3>1. Len(in) # 0
      BY <1>1
    <3> QED  BY <3>1, EmptySeq
  <2>2. SentBy(p) # None /\ InTransit(buffer[e], in, outgoing[p]) = Encoded(SentBy(p))
    BY <1>2, <2>1 DEF FrameInv, Stream
  <2>3. InTransit(buffer[e] \o a, b, outgoing[p]) = InTransit(buffer[e], a \o b, outgoing[p])
    <3>1. /\ buffer[e] \in Seq(Byte) /\ outgoing[p] \in Seq(Byte)
          /\ a \in Seq(Byte) /\ b \in Seq(Byte)
      BY <1>2, <1>3
    <3> QED  BY <3>1, BytesReceived
  <2> QED  BY <1>3, <1>4, <1>5, <2>2, <2>3
<1>7. ASSUME Complete(buffer'[e]) PROVE FirstLine(buffer'[e]) = SentBy(p)
  <2>1. SentBy(p) \in Message
    BY <1>6 DEF FrameInv, ByteTypes, SentBy
  <2>2. /\ buffer'[e] \in Seq(Byte)
        /\ wire'[p] \in Seq(Byte)
        /\ outgoing'[p] \in Seq(Byte)
    BY <1>2, <1>4, <1>5
  <2>3. wire'[p] \o outgoing'[p] \in Seq(Byte)
    BY <2>2, ConcatProperties
  <2>4. buffer'[e] \o (wire'[p] \o outgoing'[p]) = Encoded(SentBy(p))
    <3>1. \A x, y, z \in Seq(Byte) : (x \o y) \o z = x \o (y \o z)
      BY Associative
    <3>2. (buffer'[e] \o wire'[p]) \o outgoing'[p] = buffer'[e] \o (wire'[p] \o outgoing'[p])
      BY <2>2, <3>1
    <3> QED  BY <1>6, <3>2 DEF InTransit
  <2> QED  BY <1>7, <2>1, <2>2, <2>3, <2>4, WholeMessage
<1>8. SentBy(p) \in Message /\ SentBy(p)' = SentBy(p)
  BY <1>5, <1>6 DEF FrameInv, ByteTypes, SentBy
<1>9. \/ got' = [got EXCEPT ![e] = SentBy(p)] /\ state' = [state EXCEPT ![e] = AfterReceive[e]]
      \/ UNCHANGED <<got, state>>
  BY <1>5, <1>7
<1>10. ByteTypes'
  <2>1. state' \in [Side -> State]
    BY <1>9 DEF FrameInv, ByteTypes, Side, State, AfterReceive
  <2>2. got' \in [Side -> Message \cup {None}]
    BY <1>8, <1>9 DEF FrameInv, ByteTypes
  <2>3. ASSUME NEW f \in Side PROVE Len(wire'[f]) <= Capacity
    <3>1. CASE f # p
      BY <1>4, <3>1 DEF FrameInv, ByteTypes
    <3>2. CASE f = p
      <4>1. Len(wire'[p]) \in Nat /\ Len(wire[p]) \in Nat /\ Len(wire[p]) <= Capacity
        BY <1>2, <1>3, <1>4, LenProperties DEF FrameInv, ByteTypes
      <4> QED  BY <1>4, <3>2, <4>1, FramingAssumption
    <3> QED  BY <3>1, <3>2
  <2> QED  BY <1>4, <1>5, <2>1, <2>2, <2>3 DEF FrameInv, ByteTypes
<1>11. ASSUME NEW f \in Side PROVE Stream(f)'
  <2>1. CASE f # p
    <3>1. Peer(f) # e
      BY <1>2, <2>1, TwoSides
    <3> QED  BY <1>4, <1>5, <2>1, <3>1, TwoSides DEF FrameInv, Stream, SentBy
  <2>2. CASE f = p
    BY <1>2, <1>6, <1>8, <2>2 DEF Stream
  <2> QED  BY <2>1, <2>2
<1>12. Progress'
  <2>1. CASE e = "caller"
    BY <1>5, <1>8, <1>9, <2>1, FramingAssumption, TwoSides
       DEF FrameInv, ByteTypes, Progress, Side, Peer, SentBy, AfterReceive
  <2>2. CASE e = "callee"
    BY <1>5, <1>8, <1>9, <2>2, FramingAssumption, TwoSides
       DEF FrameInv, ByteTypes, Progress, Side, Peer, SentBy, AfterReceive
  <2> QED  BY <2>1, <2>2 DEF Side
<1> QED  BY <1>10, <1>11, <1>12 DEF FrameInv

LEMMA HandleStep == ASSUME FrameInv, HandleRequest PROVE FrameInv'
<1>1. /\ state["callee"] = "handle" /\ answer' \in Message
      /\ outgoing' = [outgoing EXCEPT !["callee"] = Encoded(answer')]
      /\ state' = [state EXCEPT !["callee"] = "send"]
      /\ UNCHANGED <<wire, buffer, got, request>>
  BY DEF HandleRequest, Goto
<1>2. answer = None /\ got["callee"] # None /\ got["caller"] = None
  BY <1>1 DEF FrameInv, Progress, Side, Peer, SentBy
<1>3. Encoded(answer') \in Seq(Byte) /\ answer' # None
  BY <1>1, EncodedMessage, FramingAssumption
<1> HIDE DEF Encoded
<1>4. ByteTypes'
  BY <1>1, <1>3 DEF FrameInv, ByteTypes, Side, State
<1>5. Stream("caller")'
  BY <1>1 DEF FrameInv, ByteTypes, Stream, SentBy, Peer, Side
<1>6. Stream("callee")'
  <2>1. buffer["caller"] = <<>> /\ wire["callee"] = <<>>
    BY <1>2 DEF FrameInv, Stream, SentBy, Peer, Side
  <2>2. outgoing'["callee"] = Encoded(answer')
    BY <1>1 DEF FrameInv, ByteTypes, Side
  <2>3. <<>> \o <<>> \o Encoded(answer') = Encoded(answer')
    BY <1>3, EmptySeq, ConcatEmptySeq
  <2> QED  BY <1>1, <1>3, <2>1, <2>2, <2>3 DEF Stream, InTransit, SentBy, Peer
<1>7. Progress'
  BY <1>1, <1>2, <1>3 DEF FrameInv, ByteTypes, Progress, Side, Peer, SentBy
<1> QED  BY <1>4, <1>5, <1>6, <1>7 DEF FrameInv, Side

(* An end that fails leaves the bytes as they are. *)
LEMMA FailStep ==
  ASSUME FrameInv, NEW e \in Side, ~Closed(e), Goto(e, "failed"),
         UNCHANGED <<outgoing, wire, buffer, got, request, answer>>
  PROVE  FrameInv'
<1>1. ByteTypes'
  BY DEF FrameInv, ByteTypes, Goto, Side, State
<1>2. ASSUME NEW f \in Side PROVE Stream(f)'
  BY DEF FrameInv, Stream, SentBy
<1>3. Progress'
  BY DEF FrameInv, ByteTypes, Progress, Goto, Closed, Side, Peer, SentBy
<1> QED  BY <1>1, <1>2, <1>3 DEF FrameInv

LEMMA FrameNext == FrameInv /\ [Next]_vars => FrameInv'
<1> SUFFICES ASSUME FrameInv, [Next]_vars PROVE FrameInv'
  OBVIOUS
<1>1. ASSUME NEW e \in Side, Write(e) PROVE FrameInv'
  BY <1>1, WriteStep
<1>2. ASSUME NEW e \in Side, Receive(e) PROVE FrameInv'
  BY <1>2, ReceiveStep
<1>3. ASSUME HandleRequest PROVE FrameInv'
  BY <1>3, HandleStep
<1>4. ASSUME NEW e \in Side, ConnectionFails(e) PROVE FrameInv'
  BY <1>4, FailStep DEF ConnectionFails, EndOfStream, Reset, Closed
<1>5. ASSUME NEW e \in Side, Crash(e) PROVE FrameInv'
  BY <1>5, FailStep DEF Crash
<1>6. ASSUME Timeout PROVE FrameInv'
  BY <1>6, FailStep DEF Timeout, Closed, Side
<1>7. ASSUME UNCHANGED vars PROVE FrameInv'
  <2>1. ByteTypes' /\ Progress'
    BY <1>7 DEF vars, FrameInv, ByteTypes, Progress, SentBy
  <2>2. ASSUME NEW f \in Side PROVE Stream(f)'
    BY <1>7 DEF vars, FrameInv, Stream, SentBy
  <2> QED  BY <2>1, <2>2 DEF FrameInv
<1> QED  BY <1>1, <1>2, <1>3, <1>4, <1>5, <1>6, <1>7 DEF Next, EndRuns

LEMMA FrameAlways == Spec => []FrameInv
BY FrameInit, FrameNext, PTL DEF Spec

(* What receiveMessage returns is some message and never a part of one, and  *)
(* the sockets never hold more than they can (protocol.py:17-39).            *)
THEOREM TypeCorrect == Spec => []TypeOK
<1>1. FrameInv => TypeOK
  BY DEF FrameInv, ByteTypes, TypeOK
<1> QED  BY <1>1, FrameAlways, PTL

(* Each end has nothing, or the very message that its peer sent.             *)
ReceivedIsSent ==
    /\ got["callee"] \in {None, request}
    /\ got["caller"] \in {None, answer}

(* What receiveMessage returns is the message that the peer sent, whole and  *)
(* nothing else, in whatever pieces it was written and read                  *)
(* (protocol.py:17-39).                                                      *)
THEOREM MessagesArriveWhole == Spec => []ReceivedIsSent
<1>1. FrameInv => ReceivedIsSent
  <2>1. Peer("caller") = "callee" /\ Peer("callee") = "caller"
    BY DEF Peer
  <2> QED  BY <2>1 DEF FrameInv, Progress, ReceivedIsSent, SentBy, Side
<1> QED  BY <1>1, FrameAlways, PTL

-------------------------------------------------------------------------------
LEMMA CallInit == Init => Call!Init
<1> SUFFICES ASSUME Init PROVE Call!Init
  OBVIOUS
<1>1. request \in Message /\ answer = None
  BY DEF Init
<1>2. state["caller"] = "send" /\ got = [e \in Side |-> None]
  BY DEF Init
<1> QED  BY <1>1, <1>2 DEF Side, Call!Init

LEMMA CallNext == FrameInv /\ [Next]_vars => [Call!Next]_(Call!callVars)
<1> SUFFICES ASSUME FrameInv, [Next]_vars PROVE [Call!Next]_(Call!callVars)
  OBVIOUS
<1> USE DEF Side
<1>1. ASSUME NEW e \in Side, Write(e) PROVE UNCHANGED Call!callVars
  BY <1>1 DEF Write, Goto, Call!callVars, FrameInv, ByteTypes, AfterSend
<1>2. ASSUME Receive("caller") PROVE Call!Return \/ UNCHANGED Call!callVars
  <2>1. state["caller"] = "receive" /\ got["caller"] = None
    BY <1>2 DEF Receive, FrameInv, Progress
  <2>2. UNCHANGED <<request, answer>> /\ got'["callee"] = got["callee"]
    BY <1>2 DEF Receive, FrameInv, ByteTypes
  <2>3. FrameInv'
    BY <1>2, ReceiveStep
  <2>4. got'["caller"] \in {None, answer}
    BY <2>2, <2>3 DEF FrameInv, Progress, Peer, SentBy
  <2>5. state'["caller"] # "failed"
    BY <1>2, <2>1 DEF Receive, Goto, FrameInv, ByteTypes, AfterReceive
  <2> QED  BY <2>1, <2>2, <2>4, <2>5 DEF Call!Return, Call!callVars
<1>3. ASSUME Receive("callee") PROVE Call!Handle \/ UNCHANGED Call!callVars
  <2>1. state["callee"] = "receive" /\ got["callee"] = None
    BY <1>3 DEF Receive, FrameInv, Progress
  <2>2. /\ UNCHANGED <<request, answer>>
        /\ got'["caller"] = got["caller"] /\ state'["caller"] = state["caller"]
    BY <1>3 DEF Receive, Goto, FrameInv, ByteTypes
  <2>3. FrameInv'
    BY <1>3, ReceiveStep
  <2>4. got'["callee"] \in {None, request}
    BY <2>2, <2>3 DEF FrameInv, Progress, Peer, SentBy
  <2> QED  BY <2>1, <2>2, <2>4 DEF Call!Handle, Call!callVars
<1>4. ASSUME HandleRequest PROVE Call!Answer
  <2>1. got["callee"] # None /\ answer = None
    BY <1>4 DEF HandleRequest, FrameInv, Progress
  <2> QED  BY <1>4, <2>1 DEF HandleRequest, Goto, FrameInv, ByteTypes, Call!Answer
<1>5. ASSUME NEW e \in Side, ~Closed(e), Goto(e, "failed"),
             UNCHANGED <<outgoing, wire, buffer, got, request, answer>>
      PROVE  Call!GiveUp \/ UNCHANGED Call!callVars
  <2>1. CASE e = "caller"
    BY <1>5, <2>1 DEF Closed, Goto, FrameInv, ByteTypes, Progress, Call!GiveUp
  <2>2. CASE e = "callee"
    BY <1>5, <2>2 DEF Goto, FrameInv, ByteTypes, Call!callVars
  <2> QED  BY <2>1, <2>2
<1>6. ASSUME NEW e \in Side, ConnectionFails(e) PROVE Call!GiveUp \/ UNCHANGED Call!callVars
  BY <1>5, <1>6 DEF ConnectionFails, EndOfStream, Reset, Closed
<1>7. ASSUME NEW e \in Side, Crash(e) PROVE Call!GiveUp \/ UNCHANGED Call!callVars
  BY <1>5, <1>7 DEF Crash
<1>8. ASSUME Timeout PROVE Call!GiveUp \/ UNCHANGED Call!callVars
  BY <1>5, <1>8 DEF Timeout, Closed
<1>9. ASSUME UNCHANGED vars PROVE UNCHANGED Call!callVars
  BY <1>9 DEF vars, Call!callVars
<1> QED
  BY <1>1, <1>2, <1>3, <1>4, <1>6, <1>7, <1>8, <1>9 DEF Next, EndRuns, Call!Next

(* One connection takes the steps of a remote call and no others: the callee *)
(* acts on the very request, once at most, and the caller is left with the   *)
(* very answer or with none (protocol.py:17-39, gateway.py:30-48).           *)
THEOREM ConnectionIsCall == Spec => Call!Steps
<1>1. Init => Call!Init
  BY CallInit
<1>2. FrameInv /\ [Next]_vars => [Call!Next]_(Call!callVars)
  BY CallNext
<1> QED  BY <1>1, <1>2, FrameAlways, PTL DEF Spec, Call!Steps
===============================================================================
