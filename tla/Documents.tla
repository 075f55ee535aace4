------------------------------ MODULE Documents ------------------------------
(***************************************************************************)
(* What the author of a configuration means (src/doc/configuration.md) and *)
(* how it is written down: the reference the parser is compared with.  A   *)
(* document is a sequence of elements; nothing here comes from the parser, *)
(* except for the values of Rules an application is made of.               *)
(***************************************************************************)
EXTENDS Rules

-----------------------------------------------------------------------------
(* Elements *)

DefaultAction(isAccept) == [kind |-> "default_action", isAccept |-> isAccept]
ChainBlock(name, rules) ==
    [kind |-> "chain", name |-> name, rules |-> rules]
InterfaceBlock(kind, settings) == [kind |-> kind, settings |-> settings]

\* A subnet: exact, bits from the left, bits of the component, or two masks.
Exact(s, c)        == [form |-> "exact", s |-> s, c |-> c]
Left(s, c, n)      == [form |-> "/", s |-> s, c |-> c, n |-> n]
Right(s, c, n)     == [form |-> "\\", s |-> s, c |-> c, n |-> n]
Masked(s, c, p, q) == [form |-> ":", s |-> s, c |-> c, p |-> p, q |-> q]

Anything == [type |-> Unset, from |-> Unset, to |-> Unset]
Statement(kind, name, priority, condition) ==
    [kind |-> kind, name |-> name, priority |-> priority,
     condition |-> condition]

-----------------------------------------------------------------------------
(* Text *)

TextOfSubnet(s) ==
    <<ToString(s.s), ".", ToString(s.c)>> \o
    CASE s.form = "exact" -> <<>>
      [] s.form = ":" -> <<":", ToString(s.p), ".", ToString(s.q)>>
      [] OTHER -> <<s.form, ToString(s.n)>>

Optional(o, Text(_)) == IF o.set THEN Text(o.value) ELSE <<>>

TextOfStatement(r) ==
    (IF r.name = <<>> THEN <<r.kind>> ELSE <<r.kind, " ">> \o r.name) \o
    Optional(r.priority, LAMBDA n :
             <<" ", "with", " ", "priority", " ">> \o PrintInteger(n)) \o
    (IF r.condition = Anything THEN <<>>
     ELSE <<" ", "if">> \o
          Optional(r.condition.type, LAMBDA t : <<" ", t>>) \o
          Optional(r.condition.from, LAMBDA s :
                   <<" ", "from", " ">> \o TextOfSubnet(s)) \o
          Optional(r.condition.to, LAMBDA s :
                   <<" ", "to", " ">> \o TextOfSubnet(s))) \o
    <<";", "\n">>

TextOf(element) ==
    CASE element.kind = "default_action" ->
           <<"default_action", " ",
             IF element.isAccept THEN "accept" ELSE "reject", ";", "\n">>
      [] element.kind = "chain" ->
           <<"chain", " ">> \o element.name \o <<"\n", "{">> \o
           FlattenSeq([i \in DOMAIN element.rules |->
                         TextOfStatement(element.rules[i])]) \o <<"}", "\n">>
      [] element.kind \in {"udp", "serial"} ->
           <<element.kind, "{", "\n">> \o
           FlattenSeq([i \in DOMAIN element.settings |->
                         <<element.settings[i][1], " ">> \o
                         element.settings[i][2] \o
                         <<" ", ";", "#", ";", "\n">>]) \o
           <<"}">>

Render(document) == FlattenSeq([i \in DOMAIN document |-> TextOf(document[i])])

-----------------------------------------------------------------------------
(* Meaning *)

OfKind(document, kind) == SelectSeq(document, LAMBDA e : e.kind = kind)
ChainBlocks(document, name) ==
    SelectSeq(OfKind(document, "chain"), LAMBDA e : e.name = name)
ChainNames(document) == {e.name : e \in ToSet(OfKind(document, "chain"))}

\* What is stated of a chain, in all of its blocks.
StatementsOf(document, name) ==
    LET blocks == ChainBlocks(document, name)
    IN  FlattenSeq([i \in DOMAIN blocks |-> blocks[i].rules])
Statements(document) ==
    UNION {ToSet(StatementsOf(document, n)) : n \in ChainNames(document)}

\* The table of masks: the upper n of 16 bits, the upper n of the last 8.
MaskOf(s) ==
    CASE s.form = "exact" -> 65535
      [] s.form = "/" -> 65536 - 2 ^ (16 - s.n)
      [] s.form = "\\" -> 256 - 2 ^ (8 - s.n)
      [] s.form = ":" -> 256 * s.p + s.q

MeantSubnet(s) == [address |-> 256 * s.s + s.c, mask |-> MaskOf(s)]

MeantOption(o, Meant(_)) == IF o.set THEN Set(Meant(o.value)) ELSE Unset

MeantCondition(condition) ==
    IF condition = Anything THEN Unset
    ELSE Set([type |-> condition.type,
              from |-> MeantOption(condition.from, MeantSubnet),
              to |-> MeantOption(condition.to, MeantSubnet)])

MeantRule(r) ==
    [kind |-> r.kind, chain |-> r.name,
     priority |-> IF r.kind = "reject" THEN Unset ELSE r.priority,
     condition |-> MeantCondition(r.condition)]

MeantChain(document, name) ==
    LET statements == StatementsOf(document, name)
    IN  [name |-> name,
         rules |-> [i \in DOMAIN statements |-> MeantRule(statements[i])]]

MeantFilter(document) ==
    LET last == OfKind(document, "default_action")
    IN  [default_chain |-> MeantChain(document, <<"default">>),
         chains |-> [n \in ChainNames(document) \cup {<<"default">>} |->
                       MeantChain(document, n)],
         accept |-> last # <<>> /\ Last(last).isAccept]

\* The settings of a block with a given name, and the last of them, which
\* counts.
Settings(e, name) == SelectSeq(e.settings, LAMBDA s : s[1] = name)
Given(e, name) == Settings(e, name) # <<>>
LastOf(e, name) == Last(Settings(e, name))[2]
NumberSet(e, name, default) ==
    IF Given(e, name) THEN ValueOf[LastOf(e, name)[1]] ELSE default

MeantUDP(e) ==
    LET octet(i) == ValueOf[LastOf(e, "address")[2 * i - 1]]
    IN  [kind |-> "udp",
         port |-> NumberSet(e, "port", 14500),
         address |-> IF Given(e, "address")
                     THEN Set([octets |-> <<octet(1), octet(2), octet(3),
                                            octet(4)>>, port |-> 0])
                     ELSE Unset,
         max_bitrate |-> NumberSet(e, "max_bitrate", 0)]

MeantSerial(e) ==
    LET preloads == Settings(e, "preload")
    IN  [kind |-> "serial",
         device |-> Set(LastOf(e, "device")),
         baudrate |-> NumberSet(e, "baudrate", 9600),
         flow_control |-> Given(e, "flow_control")
                          /\ LastOf(e, "flow_control") = <<"yes">>,
         preload |-> [i \in DOMAIN preloads |->
                        256 * ValueOf[preloads[i][2][1]]
                          + ValueOf[preloads[i][2][3]]]]

\* The application of a document, with what a serial block stands for.
Application(document, Serial(_)) ==
    LET blocks == SelectSeq(document,
                            LAMBDA e : e.kind \in {"udp", "serial"})
    IN  [filter |-> MeantFilter(document),
         interfaces |-> [i \in DOMAIN blocks |->
                           IF blocks[i].kind = "udp" THEN MeantUDP(blocks[i])
                                                     ELSE Serial(blocks[i])]]

Meaning(document) == Application(document, MeantSerial)

-----------------------------------------------------------------------------
(***************************************************************************)
(* Where the program departs from configuration.md.  It lets documents     *)
(* pass that leave out what "must exist", the default chain (:376), or     *)
(* "the only required statement" of a udp block, its port (:206), and      *)
(* takes an empty chain and port 14500 for them.  And "flow_control no"    *)
(* does not "turn off hardware flow control" (:314) that an earlier        *)
(* statement of the block turned on.                                       *)
(***************************************************************************)
Omissions(document) ==
    (IF <<"default">> \in ChainNames(document) THEN {} ELSE {"default"}) \cup
    (IF \A e \in ToSet(OfKind(document, "udp")) : Given(e, "port") THEN {}
     ELSE {"port"})

TakenSerial(e) ==
    [MeantSerial(e) EXCEPT
       !.flow_control = <<"yes">> \in {s[2] : s \in ToSet(Settings(e,
                                                          "flow_control"))}]

Taken(document) == Application(document, TakenSerial)

-----------------------------------------------------------------------------
(* Documents the program refuses, with the exception for each mistake; what *)
(* configuration.md asks for beyond that is in Omissions.                   *)

Subnets(document) ==
    UNION {{o.value : o \in {x \in {r.condition.from, r.condition.to} : x.set}}
             : r \in Statements(document)}

\* What a document may hold at all: subnets in one of the four forms.
IsDocument(document) ==
    /\ \A r \in Statements(document) :
           /\ r.condition.from.set \in BOOLEAN
           /\ r.condition.to.set \in BOOLEAN
    /\ \A s \in Subnets(document) : s.form \in {"exact", "/", "\\", ":"}

SubnetFits(s) ==
    /\ s.s \in 0 .. 255 /\ s.c \in 0 .. 255
    /\ s.form = "/" => s.n \in 0 .. 16
    /\ s.form = "\\" => s.n \in 0 .. 8
    /\ s.form = ":" => s.p \in 0 .. 255 /\ s.q \in 0 .. 255

References(document) ==
    {r.name : r \in {x \in Statements(document) : x.kind \in {"call", "goto"}}}

\* The rates of serial lines, of those the documents name.
BaudRates == {9600, 115200}

\* Addresses out of their range also show up as invalid arguments: a subnet
\* is tried as an address first and what is wrong with that is forgotten.
Faults(document) ==
    (IF \E s \in Subnets(document) : ~ SubnetFits(s)
       THEN {"out_of_range", "invalid_argument"} ELSE {}) \cup
    (IF \E n \in References(document) :
          n \notin ChainNames(document) \cup {<<"default">>}
       THEN {"out_of_range"} ELSE {}) \cup
    (IF <<"default">> \in References(document)
       THEN {"invalid_argument"} ELSE {}) \cup
    (IF \E r \in Statements(document) :
          r.condition.type.set /\ r.condition.type.value \notin KnownTypes
       THEN {"invalid_argument"} ELSE {}) \cup
    (IF \E e \in ToSet(OfKind(document, "serial")) :
          \/ ~ Given(e, "device")
          \/ NumberSet(e, "baudrate", 9600) \notin BaudRates
       THEN {"invalid_argument"} ELSE {})

-----------------------------------------------------------------------------
(* When an address is in a subnet, by the words of the document *)

UpperEqual(a, b, n, width) == a \div 2 ^ (width - n) = b \div 2 ^ (width - n)
BitsEqual(a, b, mask) ==
    \A k \in 0 .. 7 : (mask \div 2 ^ k) % 2 = 1 =>
        (a \div 2 ^ k) % 2 = (b \div 2 ^ k) % 2

Within(s, address) ==
    LET system == address \div 256
        component == address % 256
    IN  CASE s.form = "exact" -> system = s.s /\ component = s.c
          [] s.form = "/" -> UpperEqual(address, 256 * s.s + s.c, s.n, 16)
          [] s.form = "\\" -> UpperEqual(component, s.c, s.n, 8)
          [] s.form = ":" -> /\ BitsEqual(system, s.s, s.p)
                             /\ BitsEqual(component, s.c, s.q)

Concerns(condition, packet, address) ==
    /\ condition.type.set => packet.type = condition.type.value
    /\ condition.from.set => Within(condition.from.value, packet.source)
    /\ condition.to.set => Within(condition.to.value, address)
=============================================================================
