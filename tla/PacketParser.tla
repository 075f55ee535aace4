---------------------------- MODULE PacketParser ----------------------------
(***************************************************************************)
(* The way from bytes to packets: PacketParser::parse_byte                 *)
(* (src/src/PacketParser.cpp), the constructors of the packets of both     *)
(* wire protocols (src/src/PacketVersion1.cpp, PacketVersion2.cpp), and    *)
(* the loops of receive_packet that feed the parser                        *)
(* (src/src/UDPInterface.cpp, SerialInterface.cpp).                        *)
(*                                                                         *)
(* A UDP interface has one parser for all its peers, and clears it when a  *)
(* datagram comes from another peer than the one before.  A serial         *)
(* interface is the case of one peer.  One thread does all this, so a step *)
(* is a byte; where a datagram ends does not matter to the next one of the *)
(* same peer.                                                              *)
(***************************************************************************)
EXTENDS Integers, Sequences

CONSTANTS
    Bytes,            \* values of a byte
    Peers,            \* IP addresses, or the one serial line
    NoPeer,           \* last_ip_address_ before the first datagram
    StartByte,        \* version -> START_BYTE
    HeaderLength,     \* version -> HEADER_LENGTH
    IdLength,         \* version -> bytes of the message ID, last in the header
    ChecksumLength,   \* CHECKSUM_LENGTH
    SignatureLength,  \* SIGNATURE_LENGTH
    KnownIds,         \* message IDs of the dialect, as sequences of bytes
    SizeMod,          \* 2^w for a size_t of w bits
    MaxRun            \* bound: bytes that one peer sends in a row

Versions == {"V1", "V2"}

ASSUME BytesAssumption ==
    /\ Bytes \subseteq Nat
    /\ StartByte \in [Versions -> Bytes] /\ StartByte["V1"] # StartByte["V2"]
    /\ NoPeer \notin Peers /\ MaxRun \in Nat

ASSUME LengthsAssumption ==
    /\ HeaderLength \in [Versions -> Nat] /\ IdLength \in [Versions -> Nat]
    /\ HeaderLength["V1"] >= 2 /\ HeaderLength["V2"] >= 3
    /\ \A v \in Versions : IdLength[v] <= HeaderLength[v]
    /\ ChecksumLength \in Nat \ {0} /\ SignatureLength \in Nat
    /\ SizeMod \in Nat
    /\ \A b \in Bytes : b + ChecksumLength + SignatureLength < SizeMod

VARIABLES
    parser,    \* the members of the parser
    last_ip,   \* last_ip_address_
    run,       \* history: what came from last_ip since another peer was heard
    handed,    \* history: the packets handed out meanwhile
    thrown     \* an exception has left receive_packet and ended the thread

vars == <<parser, last_ip, run, handed, thrown>>

\* PacketParser::clear.
Cleared == [buffer |-> <<>>, state |-> "start", version |-> "V2",
            remaining |-> 0]

TypeOK ==
    /\ parser \in [buffer : Seq(Bytes), state : {"start", "header", "packet"},
                   version : Versions, remaining : 0 .. SizeMod - 1]
    /\ last_ip \in Peers \cup {NoPeer}
    /\ run \in Seq(Bytes)
    /\ handed \in Seq(Seq(Bytes))
    /\ thrown \in BOOLEAN

Init ==
    /\ parser = Cleared
    /\ last_ip = NoPeer
    /\ run = <<>>
    /\ handed = <<>>
    /\ thrown = FALSE

-----------------------------------------------------------------------------
(* Packets *)

HeaderComplete(v, s) == Len(s) >= HeaderLength[v] /\ s[1] = StartByte[v]

IsSigned(v, s) == v = "V2" /\ s[3] % 2 = 1

\* Mutant of Trailer: the length is taken for that of the whole packet.
TrailerOfWhole(v, s) ==
    s[2] - HeaderLength[v] + (IF IsSigned(v, s) THEN SignatureLength ELSE 0)

\* Mutant of Trailer: the signature is forgotten.
TrailerUnsigned(v, s) == s[2] + ChecksumLength

\* The number of bytes after the header s.
Trailer(v, s) ==
    s[2] + ChecksumLength + (IF IsSigned(v, s) THEN SignatureLength ELSE 0)

PacketComplete(v, s) ==
    /\ HeaderComplete(v, s)
    /\ Len(s) = HeaderLength[v] + s[2] + ChecksumLength
                  + (IF IsSigned(v, s) THEN SignatureLength ELSE 0)

\* mavlink_get_message_info_by_id finds the ID.
Known(v, s) ==
    SubSeq(s, HeaderLength[v] - IdLength[v] + 1, HeaderLength[v]) \in KnownIds

\* What the constructor of a packet does.
Construct(v, s) ==
    CASE ~HeaderComplete(v, s) -> "invalid_argument or length_error"
      [] HeaderComplete(v, s) /\ ~Known(v, s) -> "InvalidPacketIDError"
      [] HeaderComplete(v, s) /\ Known(v, s) /\ ~PacketComplete(v, s) ->
             "length_error"
      [] OTHER -> "packet"

-----------------------------------------------------------------------------
(* PacketParser *)

\* waiting_for_start_byte_.
TakeStart(p, b) ==
    IF \E v \in Versions : b = StartByte[v]
      THEN [p EXCEPT !.buffer = Append(@, b), !.state = "header",
                     !.version = CHOOSE v \in Versions : b = StartByte[v]]
      ELSE p

\* waiting_for_header_.
TakeHeader(p, b) ==
    LET s == Append(p.buffer, b) IN
        IF HeaderComplete(p.version, s)
          THEN [p EXCEPT !.buffer = s, !.state = "packet",
                         !.remaining = Trailer(p.version, s)]
          ELSE [p EXCEPT !.buffer = s]

\* Mutant of TakePacket: the byte is counted twice.
TakePacketTwice(p, b) ==
    [p EXCEPT !.buffer = Append(@, b), !.remaining = (@ - 2) % SizeMod]

\* The beginning of waiting_for_packet_.
TakePacket(p, b) ==
    [p EXCEPT !.buffer = Append(@, b), !.remaining = (@ - 1) % SizeMod]

-----------------------------------------------------------------------------
(* receive_packet *)

\* Mutant of Current: the parser is not cleared for another peer.
CurrentUncleared(ip) == parser

\* The parser when a byte of ip comes, cleared if the last was another's.
Current(ip) == IF ip = last_ip THEN parser ELSE Cleared

\* What came from ip and was handed out, when a byte of ip comes.
RunOf(ip) == IF ip = last_ip THEN run ELSE <<>>

HandedOf(ip) == IF ip = last_ip THEN handed ELSE <<>>

Receive(ip, b) ==
    /\ ~thrown
    /\ Len(RunOf(ip)) < MaxRun
    /\ last_ip' = ip
    /\ run' = Append(RunOf(ip), b)

WaitingForStartByte(ip, b) ==
    /\ Current(ip).state = "start"
    /\ Receive(ip, b)
    /\ parser' = TakeStart(Current(ip), b)
    /\ handed' = HandedOf(ip)
    /\ UNCHANGED thrown

WaitingForHeader(ip, b) ==
    /\ Current(ip).state = "header"
    /\ Receive(ip, b)
    /\ parser' = TakeHeader(Current(ip), b)
    /\ handed' = HandedOf(ip)
    /\ UNCHANGED thrown

WaitingForPacket(ip, b) ==
    LET p == TakePacket(Current(ip), b) IN
        /\ Current(ip).state = "packet"
        /\ p.remaining # 0
        /\ Receive(ip, b)
        /\ parser' = p
        /\ handed' = HandedOf(ip)
        /\ UNCHANGED thrown

\* The last byte: the packet is constructed, and the parser cleared.  Of the
\* exceptions only InvalidPacketIDError is caught.
CompletePacket(ip, b) ==
    LET p == TakePacket(Current(ip), b)
        result == Construct(p.version, p.buffer)
    IN  /\ Current(ip).state = "packet"
        /\ p.remaining = 0
        /\ Receive(ip, b)
        /\ parser' = Cleared
        /\ handed' = IF result = "packet" THEN Append(HandedOf(ip), p.buffer)
                                          ELSE HandedOf(ip)
        /\ thrown' = (result \notin {"packet", "InvalidPacketIDError"})

ParseByte(ip, b) ==
    \/ WaitingForStartByte(ip, b)
    \/ WaitingForHeader(ip, b)
    \/ WaitingForPacket(ip, b)
    \/ CompletePacket(ip, b)

Next == \E ip \in Peers, b \in Bytes : ParseByte(ip, b)

Spec == Init /\ [][Next]_vars

-----------------------------------------------------------------------------
(* Properties *)

(***************************************************************************)
(* The constructor of a packet accepts the length that the parser has      *)
(* counted: both compute it, in different files, and a disagreement would  *)
(* throw out of the receive thread and end the program.                    *)
(***************************************************************************)
NeverThrows == ~thrown

(***************************************************************************)
(* The parser hands out the packets of the stream, for every stream: this  *)
(* is what they are, by a definition that looks at the whole stream of one *)
(* peer.  Bytes before a start byte are passed over, a packet with an      *)
(* unknown message is passed over as a whole, and the next packet begins   *)
(* after the last byte of this one.                                        *)
(***************************************************************************)
Cut(s, i, n) == SubSeq(s, i, i + n - 1)

Ends(v, s, i) == {n \in 1 .. Len(s) + 1 - i : PacketComplete(v, Cut(s, i, n))}

VersionAt(s, i) == CHOOSE v \in Versions : s[i] = StartByte[v]

IfKnown(v, packet) == IF Known(v, packet) THEN <<packet>> ELSE <<>>

\* The packets from the i-th byte on; later says the same of later bytes.
PacketsAt(s, i, later) ==
    IF i > Len(s) THEN <<>>
    ELSE IF \A v \in Versions : s[i] # StartByte[v] THEN later[i + 1]
    ELSE LET v == VersionAt(s, i)
             n == CHOOSE n \in Ends(v, s, i) : TRUE
         IN  IF Ends(v, s, i) = {} THEN <<>>
             ELSE IfKnown(v, Cut(s, i, n)) \o later[i + n]

PacketsFrom(s) ==
    LET from[i \in 1 .. Len(s) + 1] == PacketsAt(s, i, from)
    IN  from

PacketsOf(s) == PacketsFrom(s)[1]

HandsOutThePackets == handed = PacketsOf(run)

(***************************************************************************)
(* A stream cannot keep the parser from its next packet for long: it never *)
(* holds more bytes than the longest packet, less the one that ends it.    *)
(***************************************************************************)
LongestPacket(v, longest) ==
    HeaderLength[v] + longest + ChecksumLength
      + (IF v = "V2" THEN SignatureLength ELSE 0)

Bounded ==
    \A longest \in Bytes :
        (\A b \in Bytes : b <= longest) =>
            Len(parser.buffer) < LongestPacket(parser.version, longest)
=============================================================================
