------------------------- MODULE PacketParser_proof -------------------------
(***************************************************************************)
(* Proofs about PacketParser, for any header lengths, alphabet and peers:  *)
(*   - what the parser has counted and what the constructors of the        *)
(*     packets count is the same, so no exception ends the receive thread; *)
(*   - the parser, which sees one byte at a time, hands out the packets    *)
(*     that a definition over the whole stream finds in it.                *)
(***************************************************************************)
EXTENDS PacketParser, SequenceTheorems, WellFoundedInduction, TLAPS

Length(v, s) == HeaderLength[v] + Trailer(v, s)

\* What the parser knows in each state.
Consistent ==
    /\ parser.state = "start" => parser.buffer = <<>>
    /\ parser.state = "header" =>
           /\ Len(parser.buffer) \in 1 .. HeaderLength[parser.version] - 1
           /\ parser.buffer[1] = StartByte[parser.version]
    /\ parser.state = "packet" =>
           /\ HeaderComplete(parser.version, parser.buffer)
           /\ parser.remaining > 0
           /\ Len(parser.buffer) + parser.remaining =
                  Length(parser.version, parser.buffer)

\* All packets handed out are complete and have known messages.
AllComplete ==
    \A i \in 1 .. Len(handed) : \E v \in Versions :
        PacketComplete(v, handed[i]) /\ Known(v, handed[i])

Parsers == [buffer : Seq(Bytes), state : {"start", "header", "packet"},
            version : Versions, remaining : 0 .. SizeMod - 1]

-----------------------------------------------------------------------------
\* A header has at least the bytes that Trailer looks at.
LEMMA HeaderBytes ==
    ASSUME NEW v \in Versions, NEW s \in Seq(Bytes), HeaderComplete(v, s)
    PROVE  /\ s[2] \in Bytes /\ s[2] \in Nat
           /\ v = "V2" => s[3] \in Nat
           /\ Trailer(v, s) \in 1 .. SizeMod - 1
           /\ HeaderLength[v] \in Nat
  <1>1. Len(s) \in Nat /\ HeaderLength[v] \in Nat /\ HeaderLength[v] >= 2
        /\ (v = "V2" => HeaderLength[v] >= 3)
    BY LengthsAssumption DEF Versions
  <1>2. Len(s) >= HeaderLength[v]
    BY DEF HeaderComplete
  <1>3. s[2] \in Bytes /\ (v = "V2" => s[3] \in Bytes)
    BY <1>1, <1>2
  <1>4. s[2] \in Nat /\ (v = "V2" => s[3] \in Nat)
    BY <1>3, BytesAssumption
  <1>5. s[2] + ChecksumLength + SignatureLength < SizeMod
    BY <1>3, LengthsAssumption
  <1>6. Trailer(v, s) \in {s[2] + ChecksumLength,
                           s[2] + ChecksumLength + SignatureLength}
    BY <1>4, LengthsAssumption DEF Trailer
  <1>7. /\ ChecksumLength \in Nat \ {0} /\ SignatureLength \in Nat
        /\ SizeMod \in Nat
    BY LengthsAssumption
  <1> QED
    BY <1>1, <1>3, <1>4, <1>5, <1>6, <1>7

\* What Trailer says depends on the header, and stays when bytes follow.
LEMMA TrailerStays ==
    ASSUME NEW v \in Versions, NEW s \in Seq(Bytes), HeaderComplete(v, s),
           NEW b \in Bytes
    PROVE  /\ HeaderComplete(v, Append(s, b))
           /\ Trailer(v, Append(s, b)) = Trailer(v, s)
  <1>1. /\ Len(s) \in Nat /\ Len(s) >= HeaderLength[v]
        /\ HeaderLength[v] >= 2 /\ (v = "V2" => HeaderLength[v] >= 3)
        /\ HeaderLength[v] \in Nat
    BY LengthsAssumption DEF Versions, HeaderComplete
  <1>2. /\ Len(Append(s, b)) = Len(s) + 1
        /\ \A i \in 1 .. Len(s) : Append(s, b)[i] = s[i]
    OBVIOUS
  <1>3. /\ Append(s, b)[1] = s[1] /\ Append(s, b)[2] = s[2]
        /\ v = "V2" => Append(s, b)[3] = s[3]
    BY <1>1, <1>2
  <1>4. HeaderComplete(v, Append(s, b))
    BY <1>1, <1>2, <1>3 DEF HeaderComplete
  <1>5. IsSigned(v, Append(s, b)) <=> IsSigned(v, s)
    BY <1>3 DEF IsSigned
  <1> QED
    BY <1>3, <1>4, <1>5 DEF Trailer

LEMMA ClearedInOrder == Cleared \in Parsers
  <1>1. StartByte["V1"] \in Bytes
    BY BytesAssumption DEF Versions
  <1>2. PICK b \in Bytes : b \in Nat
    BY <1>1, BytesAssumption
  <1>3. /\ ChecksumLength \in Nat /\ SignatureLength \in Nat
        /\ SizeMod \in Nat /\ b + ChecksumLength + SignatureLength < SizeMod
    BY LengthsAssumption
  <1>4. 0 \in 0 .. SizeMod - 1
    BY <1>2, <1>3
  <1> QED
    BY <1>4 DEF Cleared, Parsers, Versions

\* The parser as the next byte finds it is in order.
LEMMA CurrentInOrder ==
    ASSUME TypeOK, Consistent, NEW ip
    PROVE  /\ Current(ip) \in Parsers
           /\ Current(ip).state = "start" => Current(ip).buffer = <<>>
           /\ Current(ip).state # "start" => Current(ip) = parser
  <1>1. Cleared \in Parsers
    BY ClearedInOrder
  <1>2. parser \in Parsers
    BY DEF TypeOK, Parsers
  <1>3. CASE ip = last_ip
    BY <1>2, <1>3 DEF Current, Consistent
  <1>4. CASE ip # last_ip
    <2>1. Current(ip) = Cleared
      BY <1>4 DEF Current
    <2>2. Cleared.state = "start" /\ Cleared.buffer = <<>>
      BY DEF Cleared
    <2> QED
      BY <1>1, <2>1, <2>2
  <1> QED
    BY <1>3, <1>4

-----------------------------------------------------------------------------
LEMMA StartKeeps ==
    ASSUME TypeOK, Consistent, NEW ip \in Peers, NEW b \in Bytes,
           WaitingForStartByte(ip, b)
    PROVE  parser' \in Parsers /\ Consistent'
  <1> DEFINE p == Current(ip)
  <1>1. p \in Parsers /\ p.buffer = <<>> /\ p.state = "start"
    BY CurrentInOrder DEF WaitingForStartByte
  <1>2. parser' = TakeStart(p, b)
    BY DEF WaitingForStartByte
  <1> HIDE DEF p
  <1>3. CASE \A v \in Versions : b # StartByte[v]
    BY <1>1, <1>2, <1>3 DEF TakeStart, Consistent
  <1>4. CASE \E v \in Versions : b = StartByte[v]
    <2>1. PICK v \in Versions :
              /\ b = StartByte[v]
              /\ parser' = [p EXCEPT !.buffer = Append(@, b),
                                     !.state = "header", !.version = v]
      BY <1>2, <1>4 DEF TakeStart
    <2>2. parser' \in Parsers /\ parser'.buffer = <<b>>
      <3>1. Append(p.buffer, b) = <<b>> /\ <<b>> \in Seq(Bytes)
        BY <1>1
      <3>2. parser' = [p EXCEPT !.buffer = <<b>>, !.state = "header",
                                !.version = v]
        BY <2>1, <3>1, Zenon
      <3> QED
        BY <1>1, <3>1, <3>2 DEF Parsers
    <2>3. parser'.state = "header" /\ parser'.version = v
      BY <1>1, <2>1 DEF Parsers
    <2>4. HeaderLength[v] \in Nat /\ HeaderLength[v] >= 2
      BY LengthsAssumption DEF Versions
    <2>5. Len(<<b>>) = 1 /\ <<b>>[1] = b
      OBVIOUS
    <2> QED
      BY <2>1, <2>2, <2>3, <2>4, <2>5 DEF Consistent
  <1> QED
    BY <1>3, <1>4

LEMMA HeaderKeeps ==
    ASSUME TypeOK, Consistent, NEW ip \in Peers, NEW b \in Bytes,
           WaitingForHeader(ip, b)
    PROVE  parser' \in Parsers /\ Consistent'
  <1> DEFINE v == parser.version
             s == Append(parser.buffer, b)
  <1>1. /\ parser \in Parsers /\ parser.state = "header"
        /\ parser' = TakeHeader(parser, b)
    BY CurrentInOrder DEF WaitingForHeader
  <1>2. /\ v \in Versions /\ s \in Seq(Bytes)
        /\ HeaderLength[v] \in Nat /\ HeaderLength[v] >= 2
    BY <1>1, LengthsAssumption DEF Parsers, Versions
  <1>3. /\ Len(parser.buffer) \in 1 .. HeaderLength[v] - 1
        /\ parser.buffer[1] = StartByte[v] /\ parser.buffer \in Seq(Bytes)
    BY <1>1 DEF Consistent, Parsers
  <1>4. Len(s) = Len(parser.buffer) + 1 /\ s[1] = StartByte[v]
    BY <1>3
  <1>5. CASE HeaderComplete(v, s)
    <2>1. parser' = [parser EXCEPT !.buffer = s, !.state = "packet",
                                   !.remaining = Trailer(v, s)]
      BY <1>1, <1>5 DEF TakeHeader
    <2>2. Trailer(v, s) \in 1 .. SizeMod - 1 /\ SizeMod \in Nat
      BY <1>2, <1>5, HeaderBytes, LengthsAssumption
    <2>0. Trailer(v, s) \in 0 .. SizeMod - 1
      BY <2>2
    <2>3. Len(s) = HeaderLength[v]
      BY <1>2, <1>3, <1>4, <1>5 DEF HeaderComplete
    <2> HIDE DEF s, v
    <2>4. /\ parser' \in Parsers /\ parser'.buffer = s
          /\ parser'.state = "packet" /\ parser'.version = v
          /\ parser'.remaining = Trailer(v, s)
      BY <1>1, <1>2, <2>0, <2>1 DEF Parsers, v
    <2> QED
      BY <1>5, <2>2, <2>3, <2>4 DEF Consistent, Length
  <1>6. CASE ~HeaderComplete(v, s)
    <2>1. parser' = [parser EXCEPT !.buffer = s]
      BY <1>1, <1>6 DEF TakeHeader
    <2>2. Len(s) \in 1 .. HeaderLength[v] - 1
      BY <1>2, <1>3, <1>4, <1>6 DEF HeaderComplete
    <2> HIDE DEF s, v
    <2>3. /\ parser' \in Parsers /\ parser'.buffer = s
          /\ parser'.state = "header" /\ parser'.version = v
      BY <1>1, <1>2, <2>1 DEF Parsers, v
    <2> QED
      BY <1>4, <2>2, <2>3 DEF Consistent
  <1> QED
    BY <1>5, <1>6

\* In the last state the byte at hand is counted down, and the buffer and the
\* count keep adding up.
LEMMA PacketCounts ==
    ASSUME TypeOK, Consistent, parser.state = "packet", NEW b \in Bytes
    PROVE  LET p == TakePacket(parser, b) IN
               /\ p \in Parsers /\ p.state = "packet"
               /\ p.version = parser.version
               /\ HeaderComplete(p.version, p.buffer)
               /\ Len(p.buffer) + p.remaining = Length(p.version, p.buffer)
  <1> DEFINE v == parser.version
             s == parser.buffer
             p == TakePacket(parser, b)
  <1>1. /\ v \in Versions /\ s \in Seq(Bytes)
        /\ parser.remaining \in 0 .. SizeMod - 1 /\ SizeMod \in Nat
    BY LengthsAssumption DEF TypeOK
  <1>2. /\ HeaderComplete(v, s) /\ parser.remaining > 0
        /\ Len(s) + parser.remaining = Length(v, s)
    BY DEF Consistent
  <1>3. (parser.remaining - 1) % SizeMod = parser.remaining - 1
    BY <1>1, <1>2
  <1>4. /\ p.buffer = Append(s, b) /\ p.version = v /\ p.state = "packet"
        /\ p.remaining = parser.remaining - 1 /\ p \in Parsers
    <2>1. p = [parser EXCEPT !.buffer = Append(@, b),
                             !.remaining = parser.remaining - 1]
      BY <1>3 DEF TakePacket, TypeOK
    <2>2. Append(s, b) \in Seq(Bytes)
      BY <1>1
    <2>3. parser.remaining - 1 \in 0 .. SizeMod - 1
      BY <1>1, <1>2
    <2> QED
      BY <2>1, <2>2, <2>3 DEF TypeOK, Parsers
  <1>5. /\ HeaderComplete(v, Append(s, b))
        /\ Trailer(v, Append(s, b)) = Trailer(v, s)
    BY <1>1, <1>2, TrailerStays
  <1>6. Len(Append(s, b)) = Len(s) + 1 /\ Len(s) \in Nat
    BY <1>1
  <1>7. Len(Append(s, b)) + (parser.remaining - 1) = Length(v, Append(s, b))
    <2>1. Trailer(v, s) \in Nat /\ HeaderLength[v] \in Nat
      BY <1>1, <1>2, HeaderBytes
    <2>2. Len(s) + parser.remaining = HeaderLength[v] + Trailer(v, s)
      BY <1>2 DEF Length
    <2>3. Length(v, Append(s, b)) = HeaderLength[v] + Trailer(v, s)
      BY <1>5 DEF Length
    <2> QED
      BY <1>1, <1>6, <2>1, <2>2, <2>3
  <1> QED
    BY <1>4, <1>5, <1>7

\* So the constructor agrees with the parser about the end of the packet.
LEMMA ConstructorAgrees ==
    ASSUME TypeOK, Consistent, parser.state = "packet", NEW b \in Bytes,
           TakePacket(parser, b).remaining = 0
    PROVE  LET p == TakePacket(parser, b) IN
               PacketComplete(p.version, p.buffer)
  <1> DEFINE p == TakePacket(parser, b)
  <1>1. /\ p \in Parsers /\ HeaderComplete(p.version, p.buffer)
        /\ Len(p.buffer) + p.remaining = Length(p.version, p.buffer)
        /\ p.remaining = 0
    BY PacketCounts
  <1> HIDE DEF p
  <1>2. Len(p.buffer) = Length(p.version, p.buffer)
    BY <1>1 DEF Parsers
  <1>3. /\ p.buffer[2] \in Nat /\ HeaderLength[p.version] \in Nat
        /\ ChecksumLength \in Nat /\ SignatureLength \in Nat
    BY <1>1, HeaderBytes, LengthsAssumption DEF Parsers
  <1>4. PacketComplete(p.version, p.buffer)
    BY <1>1, <1>2, <1>3 DEF PacketComplete, Length, Trailer
  <1> QED
    BY <1>4 DEF p

LEMMA ParserKept ==
    ASSUME TypeOK, Consistent, NEW ip \in Peers, NEW b \in Bytes,
           ParseByte(ip, b)
    PROVE  parser' \in Parsers /\ Consistent' /\ thrown' = thrown
  <1>1. CASE WaitingForStartByte(ip, b)
    BY <1>1, StartKeeps DEF WaitingForStartByte
  <1>2. CASE WaitingForHeader(ip, b)
    BY <1>2, HeaderKeeps DEF WaitingForHeader
  <1>3. CASE WaitingForPacket(ip, b)
    <2>1. /\ Current(ip) = parser /\ parser.state = "packet"
          /\ parser' = TakePacket(parser, b) /\ parser'.remaining # 0
      BY <1>3, CurrentInOrder DEF WaitingForPacket
    <2>2. /\ parser' \in Parsers /\ parser'.state = "packet"
          /\ HeaderComplete(parser'.version, parser'.buffer)
          /\ Len(parser'.buffer) + parser'.remaining =
                 Length(parser'.version, parser'.buffer)
      BY <2>1, PacketCounts
    <2>3. parser'.remaining > 0
      BY <2>1, <2>2, LengthsAssumption DEF Parsers
    <2> QED
      BY <1>3, <2>2, <2>3 DEF WaitingForPacket, Consistent
  <1>4. CASE CompletePacket(ip, b)
    <2>1. /\ Current(ip) = parser /\ parser.state = "packet"
          /\ TakePacket(parser, b).remaining = 0 /\ parser' = Cleared
      BY <1>4, CurrentInOrder DEF CompletePacket
    <2> DEFINE p == TakePacket(parser, b)
    <2>2. PacketComplete(p.version, p.buffer)
      BY <2>1, ConstructorAgrees
    <2> HIDE DEF p
    <2>3. Construct(p.version, p.buffer) \in {"packet", "InvalidPacketIDError"}
      BY <2>2 DEF Construct, PacketComplete
    <2>4. thrown' = (Construct(p.version, p.buffer)
                         \notin {"packet", "InvalidPacketIDError"})
      BY <1>4, <2>1 DEF CompletePacket, p
    <2>5. thrown = FALSE /\ thrown' = FALSE
      BY <1>4, <2>3, <2>4 DEF CompletePacket, Receive, TypeOK
    <2>6. Consistent'
      BY <2>1 DEF Cleared, Consistent
    <2> QED
      BY <2>1, <2>5, <2>6, ClearedInOrder
  <1> QED
    BY <1>1, <1>2, <1>3, <1>4 DEF ParseByte

\* What is handed out is a packet, and complete.
LEMMA HandedKept ==
    ASSUME TypeOK, Consistent, AllComplete, NEW ip \in Peers, NEW b \in Bytes,
           ParseByte(ip, b)
    PROVE  handed' \in Seq(Seq(Bytes)) /\ AllComplete'
  <1> DEFINE h == HandedOf(ip)
  <1>1. /\ h \in Seq(Seq(Bytes))
        /\ \A i \in 1 .. Len(h) : \E v \in Versions :
               PacketComplete(v, h[i]) /\ Known(v, h[i])
    BY DEF TypeOK, AllComplete, HandedOf
  <1> HIDE DEF h
  <1>2. CASE handed' = h
    BY <1>1, <1>2 DEF AllComplete
  <1>3. CASE CompletePacket(ip, b) /\ handed' # h
    <2>1. /\ Current(ip) = parser /\ parser.state = "packet"
          /\ TakePacket(parser, b).remaining = 0
      BY <1>3, CurrentInOrder DEF CompletePacket
    <2> DEFINE p == TakePacket(parser, b)
    <2>2. /\ handed' = Append(h, p.buffer)
          /\ Construct(p.version, p.buffer) = "packet"
      BY <1>3, <2>1 DEF CompletePacket, h
    <2>3. p.version \in Versions /\ p.buffer \in Seq(Bytes)
      BY <2>1, PacketCounts DEF Parsers
    <2>4. PacketComplete(p.version, p.buffer)
      BY <2>1, ConstructorAgrees
    <2> HIDE DEF p
    <2>5. Known(p.version, p.buffer)
      BY <2>2, <2>4 DEF Construct, PacketComplete
    <2>6. /\ Len(handed') = Len(h) + 1 /\ handed'[Len(h) + 1] = p.buffer
          /\ \A i \in 1 .. Len(h) : handed'[i] = h[i]
          /\ handed' \in Seq(Seq(Bytes))
      BY <1>1, <2>2, <2>3
    <2>7. \A i \in 1 .. Len(handed') : i \in 1 .. Len(h) \/ i = Len(h) + 1
      BY <1>1, <2>6
    <2> QED
      BY <1>1, <2>3, <2>4, <2>5, <2>6, <2>7 DEF AllComplete
  <1> QED
    BY <1>2, <1>3
    DEF ParseByte, WaitingForStartByte, WaitingForHeader, WaitingForPacket, h

-----------------------------------------------------------------------------
Inv == TypeOK /\ Consistent /\ AllComplete /\ NeverThrows

LEMMA InvInductive == Spec => []Inv
  <1>1. Init => Inv
    <2> SUFFICES ASSUME Init PROVE Inv
      OBVIOUS
    <2>1. TypeOK
      <3>1. parser \in Parsers
        BY ClearedInOrder DEF Init
      <3>2. <<>> \in Seq(Bytes) /\ <<>> \in Seq(Seq(Bytes))
        OBVIOUS
      <3> QED
        BY <3>1, <3>2 DEF Init, TypeOK, Parsers
    <2>2. Consistent /\ AllComplete /\ NeverThrows
      BY DEF Init, Cleared, Consistent, AllComplete, NeverThrows
    <2> QED
      BY <2>1, <2>2 DEF Inv
  <1>2. Inv /\ [Next]_vars => Inv'
    <2>1. ASSUME Inv, NEW ip \in Peers, NEW b \in Bytes, ParseByte(ip, b)
          PROVE  Inv'
      <3>1. parser' \in Parsers /\ Consistent' /\ thrown' = thrown
        BY <2>1, ParserKept DEF Inv
      <3>2. handed' \in Seq(Seq(Bytes)) /\ AllComplete'
        BY <2>1, HandedKept DEF Inv
      <3>3. Receive(ip, b)
        BY <2>1 DEF ParseByte, WaitingForStartByte, WaitingForHeader,
           WaitingForPacket, CompletePacket
      <3>4. last_ip' \in Peers /\ run' \in Seq(Bytes)
        BY <2>1, <3>3 DEF Receive, RunOf, Inv, TypeOK
      <3>5. TypeOK'
        BY <2>1, <3>1, <3>2, <3>4 DEF Inv, TypeOK, Parsers
      <3> QED
        BY <2>1, <3>1, <3>2, <3>5 DEF Inv, NeverThrows
    <2>2. ASSUME Inv, UNCHANGED vars PROVE Inv'
      BY <2>2 DEF vars, Inv, TypeOK, Consistent, AllComplete, NeverThrows
    <2> QED
      BY <2>1, <2>2 DEF Next
  <1> QED
    BY <1>1, <1>2, PTL DEF Spec

(***************************************************************************)
(* The types of the parser's state; in particular bytes_remaining_, which  *)
(* is unsigned, never counts below zero and so never wraps.                *)
(***************************************************************************)
THEOREM TypeCorrect == Spec => []TypeOK
  BY InvInductive, PTL DEF Inv

(***************************************************************************)
(* No stream of bytes, from however many peers, makes the constructor of a *)
(* packet throw std::length_error or std::invalid_argument out of the      *)
(* receive thread.                                                         *)
(***************************************************************************)
THEOREM ParserNeverThrows == Spec => []NeverThrows
  BY InvInductive, PTL DEF Inv

(***************************************************************************)
(* Whatever the parser hands out is a packet of complete length, of either *)
(* version, with a message of the dialect.                                 *)
(***************************************************************************)
THEOREM OnlyCompletePackets == Spec => []AllComplete
  BY InvInductive, PTL DEF Inv

\* The count in the last state bounds the buffer by the longest packet.
LEMMA ConsistentIsBounded ==
    ASSUME TypeOK, Consistent
    PROVE  Bounded
  <1> DEFINE v == parser.version
             s == parser.buffer
  <1> SUFFICES ASSUME NEW longest \in Bytes, \A b \in Bytes : b <= longest
               PROVE  Len(s) < LongestPacket(v, longest)
    BY DEF Bounded
  <1>1. /\ v \in Versions /\ s \in Seq(Bytes) /\ Len(s) \in Nat
        /\ parser.remaining \in Nat
        /\ parser.state \in {"start", "header", "packet"}
    BY LengthsAssumption DEF TypeOK
  <1>2. /\ longest \in Nat /\ HeaderLength[v] \in Nat
        /\ HeaderLength[v] >= 2
        /\ ChecksumLength \in Nat \ {0} /\ SignatureLength \in Nat
    BY <1>1, BytesAssumption, LengthsAssumption DEF Versions
  <1> HIDE DEF v, s
  <1>3. LongestPacket(v, longest) >= HeaderLength[v] + longest + ChecksumLength
    BY <1>2 DEF LongestPacket
  <1>4. LongestPacket(v, longest) \in Int
    BY <1>2 DEF LongestPacket
  <1>5. CASE parser.state \in {"start", "header"}
    <2>1. Len(s) < HeaderLength[v]
      BY <1>2, <1>5 DEF Consistent, s, v
    <2> QED
      BY <1>1, <1>2, <1>3, <1>4, <2>1
  <1>6. CASE parser.state = "packet"
    <2>1. /\ HeaderComplete(v, s) /\ parser.remaining > 0
          /\ Len(s) + parser.remaining = HeaderLength[v] + Trailer(v, s)
      BY <1>6 DEF Consistent, Length, s, v
    <2>2. s[2] \in Bytes /\ s[2] \in Nat /\ s[2] <= longest
      BY <1>1, <2>1, HeaderBytes
    <2>3. HeaderLength[v] + Trailer(v, s) <= LongestPacket(v, longest)
      BY <1>2, <2>2 DEF Trailer, LongestPacket, IsSigned
    <2>4. Trailer(v, s) \in Nat
      BY <1>1, <2>1, HeaderBytes
    <2> QED
      BY <1>1, <1>2, <1>4, <2>1, <2>3, <2>4
  <1> QED
    BY <1>1, <1>5, <1>6

(***************************************************************************)
(* The parser never holds more than the longest packet less one byte, so   *)
(* garbage costs at most one packet's length before it looks for a start   *)
(* byte again.                                                             *)
(***************************************************************************)
THEOREM BufferBounded == Spec => []Bounded
  BY InvInductive, ConsistentIsBounded, PTL DEF Inv

-----------------------------------------------------------------------------
(* The reference definition has a solution *)

\* Induction over the naturals, as a fact about sets.
LEMMA NatSetInduction ==
    ASSUME NEW S \in SUBSET Nat, 0 \in S, \A n \in S : n + 1 \in S
    PROVE  \A n \in Nat : n \in S
  <1> SUFFICES ASSUME Nat \ S # {} PROVE FALSE
    OBVIOUS
  <1>1. PICK m \in Nat \ S : \A k \in Nat \ S : <<k, m>> \notin OpToRel(<, Nat)
    <2> DEFINE T == Nat \ S
    <2>1. T \subseteq Nat /\ T # {}
      OBVIOUS
    <2> HIDE DEF T
    <2>2. \E m \in T : \A k \in T : <<k, m>> \notin OpToRel(<, Nat)
      BY <2>1, WFMin, NatLessThanWellFounded, Zenon
    <2> QED
      BY <2>2 DEF T
  <1> DEFINE k == m - 1
  <1>2. m \in Nat /\ m \notin S /\ m # 0
    OBVIOUS
  <1>3. k \in Nat /\ k < m /\ k + 1 = m
    BY <1>2
  <1> HIDE DEF k
  <1>4. k \in S
    BY <1>1, <1>2, <1>3 DEF OpToRel
  <1> QED
    BY <1>2, <1>3, <1>4

\* Places of a stream, and those with fewer than n bytes from there on.
Places(s)  == 1 .. Len(s) + 1
Last(s, n) == {i \in Places(s) : Len(s) + 1 - i < n}

\* What a place asks of others: only later ones.
LEMMA PacketsAtLocal ==
    ASSUME NEW s \in Seq(Bytes), NEW i \in Places(s), NEW f, NEW g,
           \A j \in Places(s) : j > i => f[j] = g[j]
    PROVE  PacketsAt(s, i, f) = PacketsAt(s, i, g)
  <1>1. Len(s) \in Nat /\ i \in Nat /\ i >= 1
    BY DEF Places
  <1>2. CASE i > Len(s)
    BY <1>2 DEF PacketsAt
  <1>3. CASE i <= Len(s) /\ \A v \in Versions : s[i] # StartByte[v]
    <2>1. i + 1 \in Places(s) /\ i + 1 > i
      BY <1>1, <1>3 DEF Places
    <2>2. ~(i > Len(s))
      BY <1>1, <1>3
    <2> QED
      BY <1>3, <2>1, <2>2 DEF PacketsAt
  <1>4. CASE i <= Len(s) /\ ~\A v \in Versions : s[i] # StartByte[v]
    <2> DEFINE v == VersionAt(s, i)  n == CHOOSE n \in Ends(v, s, i) : TRUE
    <2>1. ~(i > Len(s))
      BY <1>1, <1>4
    <2>2. CASE Ends(v, s, i) = {}
      BY <1>4, <2>1, <2>2 DEF PacketsAt
    <2>3. CASE Ends(v, s, i) # {}
      <3>1. n \in Ends(v, s, i)
        BY <2>3
      <3>2. n \in 1 .. Len(s) + 1 - i
        BY <3>1 DEF Ends
      <3> HIDE DEF n
      <3>3. i + n \in Places(s) /\ i + n > i
        BY <1>1, <1>4, <3>2 DEF Places
      <3>4. f[i + n] = g[i + n]
        BY <3>3
      <3> QED
        BY <1>4, <2>1, <2>3, <3>4 DEF PacketsAt, n
    <2> QED
      BY <2>2, <2>3
  <1> QED
    BY <1>1, <1>2, <1>3, <1>4

\* The equations can be solved from the end of the stream backwards.
LEMMA SolvableLast ==
    ASSUME NEW s \in Seq(Bytes)
    PROVE  \A n \in Nat : \E f : f = [i \in Last(s, n) |-> PacketsAt(s, i, f)]
  <1> DEFINE S == {n \in Nat :
                     \E f : f = [i \in Last(s, n) |-> PacketsAt(s, i, f)]}
  <1>0. Len(s) \in Nat
    OBVIOUS
  <1>1. 0 \in S
    <2>1. Last(s, 0) = {}
      BY <1>0 DEF Last, Places
    <2> DEFINE f == [i \in Last(s, 0) |-> i]
    <2>2. f = [i \in Last(s, 0) |-> PacketsAt(s, i, f)]
      BY <2>1
    <2> QED
      BY <2>2
  <1>2. ASSUME NEW n \in S PROVE n + 1 \in S
    <2>1. PICK f : f = [i \in Last(s, n) |-> PacketsAt(s, i, f)]
      OBVIOUS
    <2> DEFINE h == [i \in Last(s, n + 1) |-> PacketsAt(s, i, f)]
    <2>2. ASSUME NEW i \in Last(s, n + 1)
          PROVE  PacketsAt(s, i, h) = PacketsAt(s, i, f)
      <3>1. i \in Places(s) /\ Len(s) + 1 - i < n + 1
        BY DEF Last
      <3>2. ASSUME NEW j \in Places(s), j > i PROVE h[j] = f[j]
        <4>1. j \in Last(s, n) /\ j \in Last(s, n + 1)
          BY <1>0, <3>1, <3>2 DEF Last, Places
        <4>2. f[j] = PacketsAt(s, j, f)
          BY <2>1, <4>1
        <4>3. h[j] = PacketsAt(s, j, f)
          BY <4>1
        <4> QED
          BY <4>2, <4>3
      <3> HIDE DEF h
      <3> QED
        BY <3>1, <3>2, PacketsAtLocal
    <2>3. h = [i \in Last(s, n + 1) |-> PacketsAt(s, i, h)]
      BY <2>2
    <2> HIDE DEF h
    <2>4. \E g : g = [i \in Last(s, n + 1) |-> PacketsAt(s, i, g)]
      BY <2>3
    <2>5. n + 1 \in Nat
      OBVIOUS
    <2> QED
      BY <2>4, <2>5
  <1>3. S \in SUBSET Nat
    OBVIOUS
  <1> HIDE DEF S
  <1>4. \A n \in Nat : n \in S
    BY <1>1, <1>2, <1>3, NatSetInduction
  <1> QED
    BY <1>4 DEF S

LEMMA PacketsUnfold ==
    ASSUME NEW s \in Seq(Bytes)
    PROVE  \A i \in Places(s) :
               PacketsFrom(s)[i] = PacketsAt(s, i, PacketsFrom(s))
  <1>0. Len(s) \in Nat
    OBVIOUS
  <1>1. \E f : f = [i \in Places(s) |-> PacketsAt(s, i, f)]
    <2> DEFINE n == Len(s) + 1
    <2>1. n \in Nat /\ Last(s, n) = Places(s)
      BY <1>0 DEF Last, Places
    <2> HIDE DEF n
    <2>2. \E f : f = [i \in Last(s, n) |-> PacketsAt(s, i, f)]
      BY <2>1, SolvableLast
    <2> QED
      BY <2>1, <2>2
  <1>2. PacketsFrom(s) =
            CHOOSE f : f = [i \in Places(s) |-> PacketsAt(s, i, f)]
    BY DEF PacketsFrom, Places
  <1>3. PacketsFrom(s) = [i \in Places(s) |-> PacketsAt(s, i, PacketsFrom(s))]
    BY <1>1, <1>2
  <1> QED
    BY <1>3

-----------------------------------------------------------------------------
(* Packets within a stream *)

LEMMA CutFacts ==
    ASSUME NEW s \in Seq(Bytes), NEW i \in 1 .. Len(s),
           NEW n \in 1 .. Len(s) + 1 - i
    PROVE  /\ Cut(s, i, n) \in Seq(Bytes) /\ Len(Cut(s, i, n)) = n
           /\ \A j \in 1 .. n : Cut(s, i, n)[j] = s[i + j - 1]
  <1> DEFINE m == i + n - 1
  <1>1. /\ Len(s) \in Nat /\ i \in Int /\ n \in Int /\ m \in Int
        /\ i <= m /\ m <= Len(s) /\ m - i + 1 = n
    OBVIOUS
  <1>2. \A j \in i .. m : s[j] \in Bytes
    BY <1>1
  <1>3. Cut(s, i, n) = SubSeq(s, i, m)
    BY DEF Cut
  <1> HIDE DEF m
  <1>4. /\ SubSeq(s, i, m) \in Seq(Bytes)
        /\ Len(SubSeq(s, i, m)) = IF i <= m THEN m - i + 1 ELSE 0
        /\ \A j \in 1 .. m - i + 1 : SubSeq(s, i, m)[j] = s[i + j - 1]
    BY <1>1, <1>2, SubSeqProperties
  <1> QED
    BY <1>1, <1>3, <1>4

\* Sequences with the same header are packets of the same length.
LEMMA SameHeader ==
    ASSUME NEW v \in Versions, NEW s \in Seq(Bytes), NEW t \in Seq(Bytes),
           HeaderComplete(v, s), HeaderComplete(v, t),
           \A j \in 1 .. HeaderLength[v] : s[j] = t[j]
    PROVE  Length(v, s) = Length(v, t)
  <1>1. /\ HeaderLength[v] \in Nat /\ HeaderLength[v] >= 2
        /\ v = "V2" => HeaderLength[v] >= 3
    BY LengthsAssumption DEF Versions
  <1>2. s[2] = t[2] /\ (v = "V2" => s[3] = t[3])
    BY <1>1
  <1> QED
    BY <1>2 DEF Length, Trailer, IsSigned

LEMMA CompleteLength ==
    ASSUME NEW v \in Versions, NEW s \in Seq(Bytes), HeaderComplete(v, s)
    PROVE  PacketComplete(v, s) <=> Len(s) = Length(v, s)
  <1>1. /\ s[2] \in Nat /\ HeaderLength[v] \in Nat
        /\ ChecksumLength \in Nat /\ SignatureLength \in Nat
    BY HeaderBytes, LengthsAssumption
  <1> QED
    BY <1>1 DEF PacketComplete, Length, Trailer

\* A packet has one end.
LEMMA OneEnd ==
    ASSUME NEW v \in Versions, NEW s \in Seq(Bytes), NEW i \in 1 .. Len(s),
           NEW n \in Ends(v, s, i)
    PROVE  Ends(v, s, i) = {n}
  <1> SUFFICES ASSUME NEW m \in Ends(v, s, i) PROVE m = n
    OBVIOUS
  <1> DEFINE a == Cut(s, i, n)  b == Cut(s, i, m)
  <1>1. /\ n \in 1 .. Len(s) + 1 - i /\ m \in 1 .. Len(s) + 1 - i
        /\ PacketComplete(v, a) /\ PacketComplete(v, b)
    BY DEF Ends
  <1>2. /\ a \in Seq(Bytes) /\ Len(a) = n
        /\ \A j \in 1 .. n : a[j] = s[i + j - 1]
    BY <1>1, CutFacts
  <1>3. /\ b \in Seq(Bytes) /\ Len(b) = m
        /\ \A j \in 1 .. m : b[j] = s[i + j - 1]
    BY <1>1, CutFacts
  <1> HIDE DEF a, b
  <1>4. /\ HeaderComplete(v, a) /\ HeaderComplete(v, b)
        /\ n >= HeaderLength[v] /\ m >= HeaderLength[v]
        /\ HeaderLength[v] \in Nat
    BY <1>1, <1>2, <1>3, LengthsAssumption DEF PacketComplete, HeaderComplete
  <1>5. \A j \in 1 .. HeaderLength[v] : a[j] = b[j]
    <2>1. \A j \in 1 .. HeaderLength[v] : j \in 1 .. n /\ j \in 1 .. m
      BY <1>1, <1>4
    <2> QED
      BY <1>2, <1>3, <2>1
  <1>6. Length(v, a) = Length(v, b)
    BY <1>2, <1>3, <1>4, <1>5, SameHeader
  <1> QED
    BY <1>1, <1>2, <1>3, <1>4, <1>6, CompleteLength

LEMMA VersionIsOne ==
    ASSUME NEW s, NEW i, NEW v \in Versions, s[i] = StartByte[v]
    PROVE  VersionAt(s, i) = v
  BY BytesAssumption DEF VersionAt, Versions

\* A packet is handed out if it is known, and the next begins after it.
LEMMA PacketThenRest ==
    ASSUME NEW v \in Versions, NEW s \in Seq(Bytes), NEW i \in 1 .. Len(s),
           s[i] = StartByte[v], NEW n \in Ends(v, s, i)
    PROVE  PacketsFrom(s)[i] =
               IfKnown(v, Cut(s, i, n)) \o PacketsFrom(s)[i + n]
  <1>1. i \in Places(s) /\ ~(i > Len(s))
    BY DEF Places
  <1>2. VersionAt(s, i) = v
    BY VersionIsOne
  <1>3. (CHOOSE m \in Ends(v, s, i) : TRUE) = n
    BY OneEnd
  <1>4. Ends(v, s, i) # {} /\ ~\A w \in Versions : s[i] # StartByte[w]
    OBVIOUS
  <1>5. PacketsFrom(s)[i] = PacketsAt(s, i, PacketsFrom(s))
    BY <1>1, PacketsUnfold
  <1> QED
    BY <1>1, <1>2, <1>3, <1>4, <1>5 DEF PacketsAt

\* Nothing comes of a packet that has not ended, and of no bytes.
LEMMA NoPacketYet ==
    ASSUME NEW v \in Versions, NEW s \in Seq(Bytes), NEW i \in 1 .. Len(s),
           s[i] = StartByte[v], Ends(v, s, i) = {}
    PROVE  PacketsFrom(s)[i] = <<>>
  <1>1. i \in Places(s) /\ ~(i > Len(s))
    BY DEF Places
  <1>2. VersionAt(s, i) = v
    BY VersionIsOne
  <1>3. ~\A w \in Versions : s[i] # StartByte[w]
    OBVIOUS
  <1>4. PacketsFrom(s)[i] = PacketsAt(s, i, PacketsFrom(s))
    BY <1>1, PacketsUnfold
  <1> QED
    BY <1>1, <1>2, <1>3, <1>4 DEF PacketsAt

LEMMA NothingAtTheEnd ==
    ASSUME NEW s \in Seq(Bytes)
    PROVE  PacketsFrom(s)[Len(s) + 1] = <<>>
  <1>1. Len(s) + 1 \in Places(s) /\ Len(s) + 1 > Len(s)
    BY DEF Places
  <1>2. PacketsFrom(s)[Len(s) + 1] = PacketsAt(s, Len(s) + 1, PacketsFrom(s))
    BY <1>1, PacketsUnfold
  <1> QED
    BY <1>1, <1>2 DEF PacketsAt

\* A byte that starts no packet is passed over.
LEMMA PassedOver ==
    ASSUME NEW s \in Seq(Bytes), NEW i \in 1 .. Len(s),
           \A v \in Versions : s[i] # StartByte[v]
    PROVE  PacketsFrom(s)[i] = PacketsFrom(s)[i + 1]
  <1>1. i \in Places(s) /\ ~(i > Len(s))
    BY DEF Places
  <1>2. PacketsFrom(s)[i] = PacketsAt(s, i, PacketsFrom(s))
    BY <1>1, PacketsUnfold
  <1> QED
    BY <1>1, <1>2 DEF PacketsAt

\* The packets from any place on are sequences of bytes.
LEMMA PacketsTyped ==
    ASSUME NEW s \in Seq(Bytes)
    PROVE  \A i \in Places(s) : PacketsFrom(s)[i] \in Seq(Seq(Bytes))
  <1> DEFINE P == PacketsFrom(s)
             S == {n \in Nat : \A i \in Last(s, n) : P[i] \in Seq(Seq(Bytes))}
  <1>0. Len(s) \in Nat /\ <<>> \in Seq(Seq(Bytes))
    OBVIOUS
  <1>1. 0 \in S
    BY <1>0 DEF Last, Places
  <1>2. ASSUME NEW n \in S, NEW i \in Last(s, n + 1)
        PROVE  P[i] \in Seq(Seq(Bytes))
    <2>1. /\ n \in Nat /\ i \in Places(s) /\ Len(s) + 1 - i < n + 1
          /\ i \in Nat /\ i >= 1 /\ i <= Len(s) + 1
      BY <1>0 DEF Last, Places
    <2>2. ASSUME NEW j \in Places(s), j > i PROVE P[j] \in Seq(Seq(Bytes))
      <3>1. j \in Last(s, n)
        BY <1>0, <2>1, <2>2 DEF Last, Places
      <3> QED
        BY <3>1
    <2>3. CASE i = Len(s) + 1
      BY <1>0, <2>3, NothingAtTheEnd
    <2>4. CASE i \in 1 .. Len(s) /\ \A v \in Versions : s[i] # StartByte[v]
      <3>1. i + 1 \in Places(s) /\ i + 1 > i
        BY <1>0, <2>4 DEF Places
      <3> QED
        BY <2>2, <2>4, <3>1, PassedOver
    <2>5. ASSUME i \in 1 .. Len(s), NEW v \in Versions, s[i] = StartByte[v]
          PROVE  P[i] \in Seq(Seq(Bytes))
      <3>1. CASE Ends(v, s, i) = {}
        BY <1>0, <2>5, <3>1, NoPacketYet
      <3>2. ASSUME NEW m \in Ends(v, s, i) PROVE P[i] \in Seq(Seq(Bytes))
        <4>1. m \in 1 .. Len(s) + 1 - i
          BY DEF Ends
        <4>2. i + m \in Places(s) /\ i + m > i
          BY <1>0, <2>1, <4>1 DEF Places
        <4>3. P[i + m] \in Seq(Seq(Bytes))
          BY <2>2, <4>2
        <4>4. IfKnown(v, Cut(s, i, m)) \in Seq(Seq(Bytes))
          <5>1. Cut(s, i, m) \in Seq(Bytes)
            BY <2>5, <4>1, CutFacts
          <5> QED
            BY <1>0, <5>1 DEF IfKnown
        <4>5. P[i] = IfKnown(v, Cut(s, i, m)) \o P[i + m]
          BY <2>5, PacketThenRest
        <4> HIDE DEF P
        <4> QED
          BY <4>3, <4>4, <4>5, ConcatProperties
      <3> QED
        BY <3>1, <3>2
    <2> QED
      BY <1>0, <2>1, <2>3, <2>4, <2>5
  <1>3. \A n \in S : n + 1 \in S
    BY <1>2
  <1>4. S \in SUBSET Nat
    OBVIOUS
  <1>5. Len(s) + 2 \in S
    <2> HIDE DEF S
    <2> QED
      BY <1>0, <1>1, <1>3, <1>4, NatSetInduction
  <1>6. \A i \in Places(s) : i \in Last(s, Len(s) + 2)
    BY <1>0 DEF Places, Last
  <1> QED
    BY <1>5, <1>6

-----------------------------------------------------------------------------
(* The place in the stream where the parser is *)

Begins(r, s) == Len(r) <= Len(s) /\ \A j \in 1 .. Len(r) : s[j] = r[j]

\* buf is the end of r.
Held(r, buf) ==
    /\ Len(buf) <= Len(r)
    /\ \A j \in 1 .. Len(buf) : buf[j] = r[Len(r) - Len(buf) + j]

\* However the stream r goes on, its packets are those of h and what the
\* definition finds from the first byte of buf on.
Reading(r, h, buf) ==
    /\ Held(r, buf)
    /\ \A s \in Seq(Bytes) : Begins(r, s) =>
           PacketsOf(s) = h \o PacketsFrom(s)[Len(r) + 1 - Len(buf)]

LEMMA NothingRead == Reading(<<>>, <<>>, <<>>)
  <1> SUFFICES ASSUME NEW s \in Seq(Bytes)
               PROVE  PacketsOf(s) = <<>> \o PacketsFrom(s)[1]
    BY DEF Reading, Held
  <1>1. 1 \in Places(s)
    BY DEF Places
  <1>2. PacketsFrom(s)[1] \in Seq(Seq(Bytes))
    BY <1>1, PacketsTyped
  <1> QED
    BY <1>2, ConcatEmptySeq DEF PacketsOf

LEMMA AppendByte ==
    ASSUME NEW r \in Seq(Bytes), NEW b \in Bytes
    PROVE  /\ Append(r, b) \in Seq(Bytes) /\ Len(Append(r, b)) = Len(r) + 1
           /\ \A j \in 1 .. Len(r) : Append(r, b)[j] = r[j]
           /\ Append(r, b)[Len(r) + 1] = b
           /\ Len(r) \in Nat
  OBVIOUS

\* A stream that goes on with b.
LEMMA BeginsFurther ==
    ASSUME NEW r \in Seq(Bytes), NEW b \in Bytes, NEW s \in Seq(Bytes),
           Begins(Append(r, b), s)
    PROVE  Begins(r, s) /\ Len(r) + 1 \in 1 .. Len(s) /\ s[Len(r) + 1] = b
  <1> DEFINE t == Append(r, b)
  <1>1. /\ Len(t) = Len(r) + 1 /\ Len(r) \in Nat /\ Len(s) \in Nat
        /\ \A j \in 1 .. Len(r) : t[j] = r[j]
        /\ t[Len(r) + 1] = b
    BY AppendByte
  <1>2. Len(t) <= Len(s) /\ \A j \in 1 .. Len(t) : s[j] = t[j]
    BY DEF Begins
  <1> HIDE DEF t
  <1>3. \A j \in 1 .. Len(r) : j \in 1 .. Len(t)
    BY <1>1
  <1>4. Len(r) + 1 \in 1 .. Len(t) /\ Len(r) <= Len(s)
    BY <1>1, <1>2
  <1> QED
    BY <1>1, <1>2, <1>3, <1>4 DEF Begins

LEMMA HeldFurther ==
    ASSUME NEW r \in Seq(Bytes), NEW buf \in Seq(Bytes), NEW b \in Bytes,
           Held(r, buf)
    PROVE  Held(Append(r, b), Append(buf, b))
  <1> DEFINE t == Append(r, b)  c == Append(buf, b)
  <1>1. /\ Len(t) = Len(r) + 1 /\ Len(r) \in Nat /\ t[Len(r) + 1] = b
        /\ \A j \in 1 .. Len(r) : t[j] = r[j]
    BY AppendByte
  <1>2. /\ Len(c) = Len(buf) + 1 /\ Len(buf) \in Nat /\ c[Len(buf) + 1] = b
        /\ \A j \in 1 .. Len(buf) : c[j] = buf[j]
    BY AppendByte
  <1>3. /\ Len(buf) <= Len(r)
        /\ \A j \in 1 .. Len(buf) : buf[j] = r[Len(r) - Len(buf) + j]
    BY DEF Held
  <1> HIDE DEF t, c
  <1>4. ASSUME NEW j \in 1 .. Len(c) PROVE c[j] = t[Len(t) - Len(c) + j]
    <2>1. Len(t) - Len(c) = Len(r) - Len(buf)
      BY <1>1, <1>2
    <2>2. CASE j = Len(buf) + 1
      <3>1. Len(r) - Len(buf) + j = Len(r) + 1
        BY <1>1, <1>2, <2>2
      <3> QED
        BY <1>1, <1>2, <2>1, <2>2, <3>1
    <2>3. CASE j # Len(buf) + 1
      <3>1. j \in 1 .. Len(buf) /\ Len(r) - Len(buf) + j \in 1 .. Len(r)
        BY <1>1, <1>2, <1>3, <2>3
      <3> QED
        BY <1>1, <1>2, <1>3, <2>1, <3>1
    <2> QED
      BY <2>2, <2>3
  <1>5. Held(t, c)
    BY <1>1, <1>2, <1>3, <1>4 DEF Held
  <1> QED
    BY <1>5 DEF t, c

\* A byte that starts no packet, when none has begun.
LEMMA ReadOver ==
    ASSUME NEW r \in Seq(Bytes), NEW h, NEW b \in Bytes, Reading(r, h, <<>>),
           \A v \in Versions : b # StartByte[v]
    PROVE  Reading(Append(r, b), h, <<>>)
  <1>1. Len(Append(r, b)) = Len(r) + 1 /\ Len(r) \in Nat
    BY AppendByte
  <1>2. ASSUME NEW s \in Seq(Bytes), Begins(Append(r, b), s)
        PROVE  PacketsOf(s) = h \o PacketsFrom(s)[Len(r) + 1 + 1]
    <2>1. /\ Begins(r, s) /\ Len(r) + 1 \in 1 .. Len(s)
          /\ s[Len(r) + 1] = b
      BY <1>2, BeginsFurther
    <2>2. PacketsOf(s) = h \o PacketsFrom(s)[Len(r) + 1]
      BY <1>1, <2>1 DEF Reading
    <2> QED
      BY <2>1, <2>2, PassedOver
  <1>3. Len(<<>>) = 0 /\ Len(r) + 1 + 1 - 0 = Len(r) + 1 + 1
    BY <1>1
  <1> QED
    BY <1>1, <1>2, <1>3 DEF Reading, Held

\* A byte that is collected.
LEMMA ReadOn ==
    ASSUME NEW r \in Seq(Bytes), NEW h, NEW buf \in Seq(Bytes),
           NEW b \in Bytes, Reading(r, h, buf)
    PROVE  Reading(Append(r, b), h, Append(buf, b))
  <1>1. /\ Len(Append(r, b)) = Len(r) + 1 /\ Len(r) \in Nat
        /\ Len(Append(buf, b)) = Len(buf) + 1 /\ Len(buf) \in Nat
    BY AppendByte
  <1>2. Held(Append(r, b), Append(buf, b))
    BY HeldFurther DEF Reading
  <1>3. Len(r) + 1 + 1 - (Len(buf) + 1) = Len(r) + 1 - Len(buf)
    BY <1>1
  <1>4. ASSUME NEW s \in Seq(Bytes), Begins(Append(r, b), s)
        PROVE  PacketsOf(s) = h \o PacketsFrom(s)[Len(r) + 1 - Len(buf)]
    BY <1>4, BeginsFurther DEF Reading
  <1> QED
    BY <1>1, <1>2, <1>3, <1>4 DEF Reading

\* What is held is what the definition cuts out.
LEMMA HeldIsCut ==
    ASSUME NEW r \in Seq(Bytes), NEW buf \in Seq(Bytes), buf # <<>>,
           Held(r, buf), NEW s \in Seq(Bytes), Begins(r, s)
    PROVE  LET i == Len(r) + 1 - Len(buf) IN
               /\ i \in 1 .. Len(s) /\ Len(buf) \in 1 .. Len(s) + 1 - i
               /\ i + Len(buf) = Len(r) + 1
               /\ s[i] = buf[1]
               /\ \A j \in 1 .. Len(buf) : s[i + j - 1] = buf[j]
               /\ Cut(s, i, Len(buf)) = buf
  <1> DEFINE i == Len(r) + 1 - Len(buf)  n == Len(buf)
  <1>1. Len(r) \in Nat /\ Len(s) \in Nat /\ n \in Nat /\ n >= 1
    OBVIOUS
  <1>2. n <= Len(r) /\ \A j \in 1 .. n : buf[j] = r[Len(r) - n + j]
    BY DEF Held
  <1>3. Len(r) <= Len(s) /\ \A j \in 1 .. Len(r) : s[j] = r[j]
    BY DEF Begins
  <1>4. /\ i \in 1 .. Len(s) /\ n \in 1 .. Len(s) + 1 - i
        /\ i + n = Len(r) + 1
    BY <1>1, <1>2, <1>3
  <1>5. \A j \in 1 .. n : s[i + j - 1] = buf[j]
    <2> SUFFICES ASSUME NEW j \in 1 .. n PROVE s[i + j - 1] = buf[j]
      OBVIOUS
    <2>1. i + j - 1 = Len(r) - n + j /\ i + j - 1 \in 1 .. Len(r)
      BY <1>1, <1>2
    <2> QED
      BY <1>2, <1>3, <2>1
  <1>6. s[i] = buf[1]
    <2>1. 1 \in 1 .. n /\ i + 1 - 1 = i
      BY <1>1
    <2> QED
      BY <1>5, <2>1
  <1> HIDE DEF i
  <1>7. /\ Cut(s, i, n) \in Seq(Bytes) /\ Len(Cut(s, i, n)) = n
        /\ \A j \in 1 .. n : Cut(s, i, n)[j] = s[i + j - 1]
    BY <1>4, CutFacts
  <1>8. Cut(s, i, n) = buf
    BY <1>5, <1>7, SeqEqual
  <1> QED
    BY <1>4, <1>5, <1>6, <1>8 DEF i

\* The byte that completes a packet.
LEMMA ReadPacket ==
    ASSUME NEW r \in Seq(Bytes), NEW h \in Seq(Seq(Bytes)),
           NEW buf \in Seq(Bytes), NEW b \in Bytes, Reading(r, h, buf),
           NEW v \in Versions, PacketComplete(v, Append(buf, b))
    PROVE  Reading(Append(r, b), h \o IfKnown(v, Append(buf, b)), <<>>)
  <1> DEFINE t == Append(r, b)  p == Append(buf, b)
  <1>1. /\ t \in Seq(Bytes) /\ p \in Seq(Bytes) /\ Len(t) \in Nat
        /\ p # <<>>
    <2>1. t \in Seq(Bytes) /\ p \in Seq(Bytes)
      BY AppendByte
    <2>2. Len(p) = Len(buf) + 1 /\ Len(buf) \in Nat
      BY AppendByte
    <2> HIDE DEF t, p
    <2> QED
      BY <2>1, <2>2
  <1>2. Reading(t, h, p)
    BY ReadOn
  <1>3. p[1] = StartByte[v] /\ PacketComplete(v, p)
    BY DEF PacketComplete, HeaderComplete
  <1> HIDE DEF t, p
  <1>4. IfKnown(v, p) \in Seq(Seq(Bytes))
    BY <1>1 DEF IfKnown
  <1>5. ASSUME NEW s \in Seq(Bytes), Begins(t, s)
        PROVE  PacketsOf(s) =
                   (h \o IfKnown(v, p)) \o PacketsFrom(s)[Len(t) + 1]
    <2> DEFINE i == Len(t) + 1 - Len(p)
    <2>1. /\ i \in 1 .. Len(s) /\ Len(p) \in 1 .. Len(s) + 1 - i
          /\ i + Len(p) = Len(t) + 1 /\ s[i] = p[1]
          /\ Cut(s, i, Len(p)) = p
      BY <1>1, <1>2, <1>5, HeldIsCut DEF Reading
    <2>2. PacketsOf(s) = h \o PacketsFrom(s)[i]
      BY <1>2, <1>5 DEF Reading
    <2>3. Len(s) \in Nat /\ Len(p) \in Nat
      BY <1>1
    <2>4. Len(t) + 1 \in Places(s)
      BY <1>1, <2>1, <2>3 DEF Places
    <2> HIDE DEF i
    <2>5. Len(p) \in Ends(v, s, i)
      BY <1>3, <2>1 DEF Ends
    <2>6. PacketsFrom(s)[i] = IfKnown(v, p) \o PacketsFrom(s)[Len(t) + 1]
      BY <1>3, <2>1, <2>5, PacketThenRest
    <2>7. PacketsFrom(s)[Len(t) + 1] \in Seq(Seq(Bytes))
      BY <2>4, PacketsTyped
    <2> DEFINE x == IfKnown(v, p)  y == PacketsFrom(s)[Len(t) + 1]
    <2>8. x \in Seq(Seq(Bytes)) /\ y \in Seq(Seq(Bytes))
      BY <1>4, <2>7
    <2> HIDE DEF x, y
    <2>9. (h \o x) \o y = h \o (x \o y)
      <3> DEFINE S == Seq(Bytes)
      <3>1. h \in Seq(S) /\ x \in Seq(S) /\ y \in Seq(S)
        BY <2>8
      <3> HIDE DEF S
      <3> QED
        BY ONLY <3>1, SMT
    <2> QED
      BY <2>2, <2>6, <2>9 DEF x, y
  <1>6. Len(<<>>) = 0 /\ Len(t) + 1 - 0 = Len(t) + 1
    BY <1>1
  <1>7. Held(t, <<>>)
    BY <1>1, <1>6 DEF Held
  <1> QED
    BY <1>5, <1>6, <1>7 DEF Reading, t, p

-----------------------------------------------------------------------------
(* The specification *)

\* The inductive invariant.
RInv == Inv /\ Reading(run, handed, parser.buffer)

\* The place as the next byte finds it.
LEMMA CurrentReading ==
    ASSUME RInv, NEW ip
    PROVE  /\ Reading(RunOf(ip), HandedOf(ip), Current(ip).buffer)
           /\ RunOf(ip) \in Seq(Bytes) /\ HandedOf(ip) \in Seq(Seq(Bytes))
           /\ Current(ip).buffer \in Seq(Bytes)
  <1>1. CASE ip = last_ip
    BY <1>1 DEF RInv, Inv, TypeOK, RunOf, HandedOf, Current
  <1>2. CASE ip # last_ip
    BY <1>2, NothingRead DEF RunOf, HandedOf, Current, Cleared
  <1> QED
    BY <1>1, <1>2

LEMMA ReadingKept ==
    ASSUME RInv, NEW ip \in Peers, NEW b \in Bytes, ParseByte(ip, b)
    PROVE  Reading(run', handed', parser'.buffer)
  <1> DEFINE r == RunOf(ip)  h == HandedOf(ip)  p == Current(ip)
  <1>1. /\ Reading(r, h, p.buffer) /\ r \in Seq(Bytes)
        /\ h \in Seq(Seq(Bytes)) /\ p.buffer \in Seq(Bytes)
    BY CurrentReading
  <1>2. /\ p \in Parsers
        /\ p.state = "start" => p.buffer = <<>>
        /\ p.state # "start" => p = parser
    BY CurrentInOrder DEF RInv, Inv
  <1>3. run' = Append(r, b)
    BY DEF ParseByte, WaitingForStartByte, WaitingForHeader, WaitingForPacket,
       CompletePacket, Receive
  <1>4. Reading(Append(r, b), h, Append(p.buffer, b))
    BY <1>1, ReadOn
  <1>5. CASE WaitingForStartByte(ip, b)
    <2>1. /\ p.buffer = <<>> /\ handed' = h /\ parser' = TakeStart(p, b)
      BY <1>2, <1>5 DEF WaitingForStartByte
    <2> HIDE DEF p, r, h
    <2>2. CASE \E v \in Versions : b = StartByte[v]
      <3>1. parser'.buffer = Append(p.buffer, b)
        BY <1>2, <2>1, <2>2 DEF TakeStart, Parsers
      <3> QED
        BY <1>3, <1>4, <2>1, <3>1
    <2>3. CASE \A v \in Versions : b # StartByte[v]
      <3>1. parser' = p
        BY <2>1, <2>3 DEF TakeStart
      <3> QED
        BY <1>1, <1>3, <2>1, <2>3, <3>1, ReadOver
    <2> QED
      BY <2>2, <2>3
  <1>6. CASE WaitingForHeader(ip, b)
    <2>1. handed' = h /\ parser' = TakeHeader(p, b)
      BY <1>6 DEF WaitingForHeader
    <2> HIDE DEF p, r, h
    <2>2. parser'.buffer = Append(p.buffer, b)
      BY <1>2, <2>1 DEF TakeHeader, Parsers
    <2> QED
      BY <1>3, <1>4, <2>1, <2>2
  <1>7. CASE WaitingForPacket(ip, b)
    <2>1. handed' = h /\ parser' = TakePacket(p, b)
      BY <1>7 DEF WaitingForPacket
    <2> HIDE DEF p, r, h
    <2>2. parser'.buffer = Append(p.buffer, b)
      BY <1>2, <2>1 DEF TakePacket, Parsers
    <2> QED
      BY <1>3, <1>4, <2>1, <2>2
  <1>8. CASE CompletePacket(ip, b)
    <2> DEFINE q == TakePacket(p, b)
    <2>1. /\ p = parser /\ parser.state = "packet" /\ q.remaining = 0
          /\ parser' = Cleared
          /\ handed' = IF Construct(q.version, q.buffer) = "packet"
                         THEN Append(h, q.buffer) ELSE h
      BY <1>2, <1>8 DEF CompletePacket
    <2>2. PacketComplete(q.version, q.buffer)
      BY <2>1, ConstructorAgrees DEF RInv, Inv
    <2>3. q.buffer = Append(p.buffer, b) /\ q.version \in Versions
      BY <1>2 DEF TakePacket, Parsers
    <2> HIDE DEF p, q, r, h
    <2>4. q.buffer \in Seq(Bytes)
      BY <1>1, <2>3, AppendByte
    <2>5. Construct(q.version, q.buffer) = "packet" <=>
              Known(q.version, q.buffer)
      BY <2>2 DEF Construct, PacketComplete
    <2>6. handed' = h \o IfKnown(q.version, q.buffer)
      BY <1>1, <2>1, <2>4, <2>5, AppendIsConcat, ConcatEmptySeq DEF IfKnown
    <2>7. parser'.buffer = <<>>
      BY <2>1 DEF Cleared
    <2> QED
      BY <1>1, <1>3, <2>2, <2>3, <2>6, <2>7, ReadPacket
  <1> QED
    BY <1>5, <1>6, <1>7, <1>8 DEF ParseByte

\* What is held is not a whole packet yet.
LEMMA NothingMissed ==
    ASSUME RInv
    PROVE  HandsOutThePackets
  <1> DEFINE v == parser.version  buf == parser.buffer  n == Len(buf)
             i == Len(run) + 1 - n
  <1>1. /\ run \in Seq(Bytes) /\ handed \in Seq(Seq(Bytes))
        /\ buf \in Seq(Bytes) /\ v \in Versions
        /\ parser.state \in {"start", "header", "packet"}
        /\ Len(run) \in Nat /\ n \in Nat
        /\ parser.remaining \in Nat
    BY LengthsAssumption DEF RInv, Inv, TypeOK
  <1>2. Begins(run, run)
    BY <1>1 DEF Begins
  <1>3. PacketsOf(run) = handed \o PacketsFrom(run)[i] /\ Held(run, buf)
    BY <1>1, <1>2 DEF RInv, Reading
  <1>4. PacketsFrom(run)[i] = <<>>
    <2>1. CASE buf = <<>>
      <3>1. i = Len(run) + 1
        BY <1>1, <2>1
      <3> QED
        BY <1>1, <3>1, NothingAtTheEnd
    <2>2. CASE buf # <<>>
      <3>1. /\ buf[1] = StartByte[v]
            /\ parser.state # "start"
        BY <1>1, <2>2 DEF RInv, Inv, Consistent, HeaderComplete
      <3>2. /\ i \in 1 .. Len(run) /\ n \in 1 .. Len(run) + 1 - i
            /\ i + n = Len(run) + 1 /\ run[i] = buf[1]
            /\ \A j \in 1 .. n : run[i + j - 1] = buf[j]
        BY <1>1, <1>2, <1>3, <2>2, HeldIsCut
      <3>3. HeaderLength[v] \in Nat
        BY <1>1, LengthsAssumption
      <3>4. ASSUME NEW m \in Ends(v, run, i) PROVE FALSE
        <4> DEFINE a == Cut(run, i, m)
        <4>1. m \in 1 .. Len(run) + 1 - i /\ PacketComplete(v, a)
          BY DEF Ends
        <4>2. /\ a \in Seq(Bytes) /\ Len(a) = m
              /\ \A j \in 1 .. m : a[j] = run[i + j - 1]
          BY <1>1, <3>2, <4>1, CutFacts
        <4> HIDE DEF a, i, n, v, buf
        <4>3. m \in Nat /\ m <= n
          BY <1>1, <3>2, <4>1 DEF i
        <4>4. HeaderComplete(v, a) /\ m >= HeaderLength[v]
          BY <4>1, <4>2 DEF PacketComplete, HeaderComplete
        <4>5. CASE parser.state = "header"
          <5>1. n < HeaderLength[v]
            BY <1>1, <3>3, <4>5 DEF RInv, Inv, Consistent, n, v, buf
          <5> QED
            BY <1>1, <3>3, <4>3, <4>4, <5>1
        <4>6. CASE parser.state = "packet"
          <5>1. /\ HeaderComplete(v, buf) /\ parser.remaining > 0
                /\ n + parser.remaining = Length(v, buf)
            BY <4>6 DEF RInv, Inv, Consistent, n, v, buf
          <5>2. \A j \in 1 .. HeaderLength[v] : j \in 1 .. m /\ j \in 1 .. n
            BY <1>1, <3>3, <4>3, <4>4
          <5>3. \A j \in 1 .. HeaderLength[v] : a[j] = buf[j]
            BY <3>2, <4>2, <5>2
          <5>4. Length(v, a) = Length(v, buf)
            BY <1>1, <4>2, <4>4, <5>1, <5>3, SameHeader
          <5>5. m = Length(v, a)
            BY <1>1, <4>1, <4>2, <4>4, CompleteLength
          <5> QED
            BY <1>1, <4>3, <5>1, <5>4, <5>5
        <4> QED
          BY <1>1, <3>1, <4>5, <4>6
      <3>5. Ends(v, run, i) = {}
        BY <3>4
      <3> HIDE DEF i, v
      <3> QED
        BY <1>1, <3>1, <3>2, <3>5, NoPacketYet
    <2> QED
      BY <2>1, <2>2
  <1> QED
    BY <1>1, <1>3, <1>4, ConcatEmptySeq DEF HandsOutThePackets

(***************************************************************************)
(* For every stream of bytes and however the datagrams of several peers    *)
(* mix: what the byte-wise parser hands out is the sequence of packets     *)
(* that the definition over the whole stream finds in it.                  *)
(***************************************************************************)
THEOREM HandsOutEveryPacket == Spec => []HandsOutThePackets
  <1>1. Init => Reading(run, handed, parser.buffer)
    BY NothingRead DEF Init, Cleared
  <1>2. Inv /\ Reading(run, handed, parser.buffer) /\ [Next]_vars
            => Reading(run, handed, parser.buffer)'
    <2>1. ASSUME RInv, NEW ip \in Peers, NEW b \in Bytes, ParseByte(ip, b)
          PROVE  Reading(run', handed', parser'.buffer)
      BY <2>1, ReadingKept
    <2>2. ASSUME UNCHANGED vars, Reading(run, handed, parser.buffer)
          PROVE  Reading(run', handed', parser'.buffer)
      BY <2>2 DEF vars
    <2> QED
      BY <2>1, <2>2 DEF Next, RInv
  <1>3. Inv /\ Reading(run, handed, parser.buffer) => HandsOutThePackets
    BY NothingMissed DEF RInv
  <1> QED
    BY <1>1, <1>2, <1>3, InvInductive, PTL DEF Spec
=============================================================================
