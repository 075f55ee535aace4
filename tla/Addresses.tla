------------------------------ MODULE Addresses ------------------------------
(***************************************************************************)
(* MAVLink addresses and subnets and IP addresses, as read from text and   *)
(* printed (src/src/MAVAddress.cpp, MAVSubnet.cpp, IPAddress.cpp).         *)
(* A constructor gives a Value or Throws; printing gives a text.           *)
(***************************************************************************)
EXTENDS Text

-----------------------------------------------------------------------------
(* The operator & of numbers of 16 bits; a bit is known by its weight *)

Bit(n, weight) == (n \div weight) % 2
CommonBit(a, b, weight) == weight * (Bit(a, weight) * Bit(b, weight))
CommonBits(a, b, weight) ==
    CommonBit(a, b, weight) + CommonBit(a, b, 2 * weight)
    + CommonBit(a, b, 4 * weight) + CommonBit(a, b, 8 * weight)

a & b == CommonBits(a, b, 1) + CommonBits(a, b, 16)
         + CommonBits(a, b, 256) + CommonBits(a, b, 4096)

-----------------------------------------------------------------------------
(* MAVAddress: 16 bits, the system in the upper and the component in the   *)
(* lower byte                                                              *)

MAVAddress(address) ==
    IF address > 65535 THEN Throws("out_of_range") ELSE Value(address)

construct(system, component) ==
    IF system > 255 \/ component > 255
      THEN Throws("out_of_range")
      ELSE Value(256 * system + component)

\* The numbers up to one that does not fit, which ends the reading loop; the
\* stream is then at its end all the same when that one was the last.
Octets(t) == SelectSeq(NumbersIn(t), LAMBDA n : n # Huge)
ReadToEnd(numbers) ==
    \A i \in DOMAIN numbers : numbers[i] = Huge => i = Len(numbers)

Dotted(t) == /\ t # <<>>
             /\ IsNumber(t[1]) /\ IsNumber(Last(t))
             /\ \A i \in DOMAIN t : t[i] = "." \/ IsNumber(t[i])

\* MAVAddress(std::string).  A dotted text of two octets has three characters.
FromOctets(octets) == IF Len(octets) = 2 THEN construct(octets[1], octets[2])
                                         ELSE Throws("invalid_argument")
MAVAddressOf(t) ==
    IF Dotted(t) /\ ReadToEnd(NumbersIn(t)) THEN FromOctets(Octets(t))
                                            ELSE Throws("invalid_argument")

System(address) == (address \div 256) % 256
Component(address) == address % 256

MAVAddressEqual(a, b) == a = b
MAVAddressUnequal(a, b) == a # b
MAVAddressLess(a, b) == a < b
MAVAddressGreater(a, b) == a > b
MAVAddressAtMost(a, b) == a <= b
MAVAddressAtLeast(a, b) == a >= b

PrintMAVAddress(address) ==
    PrintInteger(System(address)) \o <<".">> \o
    PrintInteger(Component(address))

-----------------------------------------------------------------------------
(* MAVSubnet: an address and a mask of 16 bits *)

AddressType == {n \in Nat : n <= 65535}
SubnetType == [address : AddressType, mask : AddressType]

MAVSubnet(address, mask) ==
    IF mask > 65535 THEN Throws("out_of_range")
                    ELSE Value([address |-> address, mask |-> mask])

MAVSubnetOfBytes(address, systemMask, componentMask) ==
    IF systemMask > 255 \/ componentMask > 255
      THEN Throws("out_of_range")
      ELSE Value([address |-> address,
                  mask |-> 256 * systemMask + componentMask])

Separators == {":", "/", "\\"}

\* boost::tokenizer: the separators are parts of their own, no part is empty.
Parts(t) ==
    LET Take(acc, l) ==
          IF l \in Separators
            THEN [parts |-> Append(acc.parts, <<l>>), open |-> FALSE]
            ELSE [parts |-> IF acc.open
                            THEN Front(acc.parts) \o
                                   <<Append(Last(acc.parts), l)>>
                            ELSE Append(acc.parts, <<l>>),
                  open |-> TRUE]
    IN  FoldLeft(Take, [parts |-> <<>>, open |-> FALSE], t).parts

\* 0xFFFF << shift, within 16 bits.
ShiftedOnes(shift) == (65535 % 2 ^ (16 - shift)) * 2 ^ shift

\* The upper bits of a field of width bits.
UpperBits(bits, width) == ShiftedOnes(width - bits) & (2 ^ width - 1)

\* Mutant of SlashMask: the bits are counted in the system too.
SlashMaskOfAddress(bits, width) ==
    IF bits < 0 \/ bits > width
      THEN Throws("out_of_range")
      ELSE Value(UpperBits(bits, 16))

\* "/" counts 16 bits from the left, "\" the 8 of the component.
SlashMask(bits, width) ==
    IF bits < 0 \/ bits > width
      THEN Throws("out_of_range")
      ELSE Value(UpperBits(bits, width))

\* MAVSubnet(std::string): an address alone is an exact match.
MaskAfter(separator, t) ==
    CASE separator = ":"  -> MAVAddressOf(t)
      [] separator = "/"  -> SlashMask(ReadInteger(t), 16)
      [] separator = "\\" -> SlashMask(ReadInteger(t), 8)

OfAddressAndMask(address, mask) ==
    CASE ~ Good(address) -> address
      [] Good(address) /\ ~ Good(mask) -> mask
      [] OTHER -> Value([address |-> address.value, mask |-> mask.value])

OfParts(parts) ==
    IF Len(parts) # 3 THEN Throws("invalid_argument")
    ELSE OfAddressAndMask(MAVAddressOf(parts[1]),
                          MaskAfter(parts[2][1], parts[3]))

OfExactOr(exact, parts) ==
    IF Good(exact) THEN Value([address |-> exact.value, mask |-> 65535])
                   ELSE OfParts(parts)

MAVSubnetOf(t) == OfExactOr(MAVAddressOf(t), Parts(t))

\* Mutant of SubnetContains: the address of the subnet is not masked.
SubnetContainsUnmasked(subnet, address) ==
    (address & subnet.mask) = subnet.address

SubnetContains(subnet, address) ==
    (address & subnet.mask) = (subnet.address & subnet.mask)

MAVSubnetEqual(a, b) == a.address = b.address /\ a.mask = b.mask
MAVSubnetUnequal(a, b) == a.address # b.address \/ a.mask # b.mask

\* Mutant of PrintMAVSubnet: every mask with a slash.
PrintMAVSubnetSlashed(subnet) ==
    LET bits == {n \in 0 .. 16 : subnet.mask % 2 ^ (16 - n) = 0}
    IN  PrintMAVAddress(subnet.address) \o <<"/", ToString(Min(bits))>>

\* The shortest form there is; nothing for an exact match.
PrintMAVSubnet(subnet) ==
    LET slash == {n \in 0 .. 16 : subnet.mask = UpperBits(n, 16)}
        back == {n \in 1 .. 8 : subnet.mask = UpperBits(n, 8)}
    IN  PrintMAVAddress(subnet.address) \o
        CASE subnet.mask = 65535 -> <<>>
          [] subnet.mask # 65535 /\ slash # {} ->
                 <<"/", ToString(CHOOSE n \in slash : TRUE)>>
          [] back # {} -> <<"\\", ToString(CHOOSE n \in back : TRUE)>>
          [] OTHER -> <<":">> \o PrintMAVAddress(subnet.mask)

-----------------------------------------------------------------------------
(* IPAddress: four octets, the most significant first, and a port *)

FourOctets == [1 .. 4 -> 0 .. 255]
PortType == {n \in Nat : n <= 65535}
IPAddressType == [octets : FourOctets, port : PortType]

IPAddress(octets, port) ==
    IF port < 0 \/ port > 65535
      THEN Throws("out_of_range")
      ELSE Value([octets |-> octets, port |-> port])

\* IPAddress(const IPAddress &, port)
WithPort(ip, port) == IPAddress(ip.octets, port)

\* IPAddress(std::string)
IPAddressOf(t) ==
    LET colons == {i \in DOMAIN t : t[i] = ":"}
        colon == CHOOSE i \in colons : TRUE
        host == IF colons = {} THEN t ELSE SubSeq(t, 1, colon - 1)
        port == IF colons = {} THEN 0
                ELSE ReadInteger(SubSeq(t, colon + 1, Len(t)))
    IN  CASE \/ Cardinality(colons) > 1 \/ ~ Dotted(host)
             \/ Len(NumbersIn(host)) # 4 -> Throws("invalid_argument")
          [] OTHER -> IF \E i \in 1 .. 4 : NumbersIn(host)[i] > 255
                        THEN Throws("out_of_range")
                        ELSE IPAddress(NumbersIn(host), port)

IPAddressEqual(a, b) == a.octets = b.octets /\ a.port = b.port
IPAddressUnequal(a, b) == a.octets # b.octets \/ a.port # b.port

\* Comparison of the 32-bit numbers.
NumberLess(p, q) ==
    \E i \in 1 .. 4 : p[i] < q[i] /\ \A j \in 1 .. i - 1 : p[j] = q[j]

\* Mutant of IPAddressLess: the ports decide also between two addresses.
IPAddressLessByEither(a, b) ==
    NumberLess(a.octets, b.octets) \/ a.port < b.port

IPAddressLess(a, b) ==
    \/ NumberLess(a.octets, b.octets)
    \/ a.octets = b.octets /\ a.port < b.port
IPAddressGreater(a, b) ==
    \/ NumberLess(b.octets, a.octets)
    \/ a.octets = b.octets /\ a.port > b.port
IPAddressAtMost(a, b) == IPAddressLess(a, b) \/ IPAddressEqual(a, b)
IPAddressAtLeast(a, b) == IPAddressGreater(a, b) \/ IPAddressEqual(a, b)

PrintIPAddress(ip) ==
    LET o == [i \in 1 .. 4 |-> ToString(ip.octets[i])]
    IN  <<o[1], ".", o[2], ".", o[3], ".", o[4]>> \o
        (IF ip.port # 0 THEN <<":", ToString(ip.port)>> ELSE <<>>)
=============================================================================
