------------------------------ MODULE MCStartup ------------------------------
(* Instances of Startup for TLC: families of documents, each of which       *)
(* varies one part of the configuration, and every command line.            *)
EXTENDS Startup

G == INSTANCE Grammar
MCParsed(t) == G!Parse(t)

Printing == INSTANCE TreePrinting
MCTreeLines(node, t, depth) == Printing!PrintNode(node, t, depth)

MCNumbers == (0 .. 400) \cup {9600, 9601, 14500, 14555, 115200, 8388608}

Default == <<"default">>
Inner == <<"inner">>

S(kind, name, priority, condition) ==
    Statement(kind, name, priority, condition)
Plain(kind) == S(kind, <<>>, Unset, Anything)
OfType(t) == [Anything EXCEPT !.type = Set(t)]
FromOnly(s) == [Anything EXCEPT !.from = Set(s)]
ToOnly(s) == [Anything EXCEPT !.to = Set(s)]
Both(t, s, d) == [type |-> t, from |-> Set(s), to |-> Set(d)]

AddressText(a, b, c, d) ==
    <<ToString(a), ".", ToString(b), ".", ToString(c), ".", ToString(d)>>

-----------------------------------------------------------------------------
(* Subnets: every number of bits, one more than there are, and masks.  The  *)
(* address has bits outside of the mask, too.                               *)

Subnets1 ==
    {Exact(192, 168), Exact(0, 0), Exact(256, 1), Exact(1, 256)} \cup
    {Left(192, 168, n) : n \in 0 .. 17} \cup
    {Right(192, 168, n) : n \in 0 .. 9} \cup
    {Masked(192, 168, p, q) : p \in {0, 255, 254, 240}, q \in {0, 255, 96}}
    \cup {Masked(192, 168, 256, 0)}

SubnetDocuments ==
    {<<ChainBlock(Default, <<S("accept", <<>>, Unset, c)>>)>> :
       c \in {FromOnly(s) : s \in Subnets1} \cup {ToOnly(s) : s \in Subnets1}}

A == {49320, 49321, 49321 - 32, 49320 + 256, 49320 - 256, 168, 32936, 0}
MCProbes == [packet : [type : {"PING", "HEARTBEAT"}, source : A], address : A]

(* Chains: repeated blocks, forward and missing references, both default    *)
(* actions.                                                                 *)
Blocks ==
    {DefaultAction(TRUE), DefaultAction(FALSE),
     ChainBlock(Default, <<Plain("accept")>>),
     ChainBlock(Default, <<S("call", Inner, Unset, Anything),
                           Plain("reject")>>),
     ChainBlock(Inner, <<S("reject", <<>>, Unset, OfType("PING"))>>),
     ChainBlock(Inner, <<S("goto", Inner, Set(3), Anything)>>),
     ChainBlock(Inner, <<>>),
     ChainBlock(<<"x">>, <<S("goto", Default, Unset, Anything)>>)}
ChainDocuments == BoundedSeq(Blocks, 3) \ {<<>>}

(* Rules: every action with every priority and condition, and two of them.  *)
Conditions ==
    {Anything, OfType("PING"), OfType("BOGUS"), FromOnly(Left(192, 0, 8)),
     Both(Unset, Left(192, 0, 8), Exact(192, 168)),
     Both(Set("HEARTBEAT"), Right(192, 168, 3), Masked(192, 168, 254, 1))}
Rules1 == {S(kind, IF kind \in {"call", "goto"} THEN Inner ELSE <<>>, p, c) :
             kind \in {"accept", "reject", "call", "goto"},
             p \in {Unset, Set(0), Set(3), Set(-4)}, c \in Conditions}
Pairs == {r \in Rules1 : r.condition \in {Anything, OfType("PING")}
                         /\ r.priority \in {Unset, Set(3)}}
RuleDocuments ==
    {<<ChainBlock(Default, <<r>>), ChainBlock(Inner, <<>>)>> : r \in Rules1}
    \cup {<<ChainBlock(Default, <<p, q>>), ChainBlock(Inner, <<q>>)>> :
            p, q \in Pairs}

(* Interfaces: settings in any order, repeated or left out.                 *)
UDPSettings ==
    {<<"port", <<"14555">>>>, <<"port", <<"0">>>>,
     <<"address", AddressText(127, 0, 0, 1)>>,
     <<"address", AddressText(10, 0, 1, 0)>>,
     <<"max_bitrate", <<"8388608">>>>}
SerialSettings ==
    {<<"device", <<".", "/", "tty">>>>, <<"device", <<"tty", "1">>>>,
     <<"baudrate", <<"115200">>>>, <<"baudrate", <<"9601">>>>,
     <<"flow_control", <<"yes">>>>, <<"flow_control", <<"no">>>>,
     <<"preload", <<"1", ".", "1">>>>, <<"preload", <<"0", ".", "2">>>>}
InterfaceDocuments ==
    {<<InterfaceBlock("udp", s)>> : s \in BoundedSeq(UDPSettings, 3)} \cup
    {<<InterfaceBlock("serial", s)>> : s \in BoundedSeq(SerialSettings, 3)} \cup
    {<<InterfaceBlock("udp", <<<<"address", a>>, p>>),
       InterfaceBlock("serial", <<<<"device", <<"tty">>>>>>),
       InterfaceBlock("udp", <<<<"address", b>>, q>>)>> :
       a, b \in {AddressText(127, 0, 0, 1), AddressText(10, 0, 1, 0),
                 AddressText(10, 0, 0, 255)},
       p, q \in {<<"port", <<"14555">>>>, <<"port", <<"0">>>>}}

-----------------------------------------------------------------------------

Usual == [valid |-> TRUE, inform |-> FALSE, config |-> TRUE, ast |-> FALSE,
          loglevel |-> 3]
Read(document, n) ==
    [arguments |-> Usual, files |-> {"given"}, unset |-> {},
     document |-> document, slips |-> n]

\* What slips are made in: a bit of everything.
Typed ==
    {<<DefaultAction(TRUE),
       ChainBlock(Default, <<S("call", Inner, Set(-4), OfType("PING")),
                             S("accept", <<>>, Unset,
                               Both(Unset, Left(1, 2, 8), Exact(3, 4)))>>),
       ChainBlock(Inner, <<Plain("reject")>>)>>,
     <<InterfaceBlock("udp", <<<<"port", <<"14">>>>,
                               <<"address", AddressText(1, 2, 3, 4)>>>>),
       InterfaceBlock("serial", <<<<"device", <<"tty">>>>,
                                  <<"flow_control", <<"yes">>>>,
                                  <<"preload", <<"1", ".", "2">>>>>>)>>}
MCSlip == {" ", "\n", "#", ";", "{", "}", ".", "-", "/", "1", "accept",
           "call", "chain", "if", "to", "with", "port", "x", "PING"}

Short == <<ChainBlock(Default, <<Plain("accept")>>)>>

Starts ==
    [arguments : [valid : BOOLEAN, inform : BOOLEAN, config : BOOLEAN,
                  ast : BOOLEAN, loglevel : {0, 3}],
     files : SUBSET ({"given"} \cup ToSet(Candidates)),
     unset : SUBSET {"MAVTABLES_CONFIG_PATH", "$HOME/.mavtablesrc"},
     document : {Short}, slips : {0}]

MCSituations ==
    {Read(d, 0) : d \in SubnetDocuments \cup ChainDocuments
                        \cup RuleDocuments \cup InterfaceDocuments} \cup
    {Read(d, 1) : d \in Typed} \cup {Read(<<DefaultAction(TRUE)>>, 2)} \cup Starts

\* No default chain, no port, and flow control turned on and off again.
MCUndocumented ==
    {Read(<<InterfaceBlock("udp", <<>>),
            InterfaceBlock("serial", <<<<"device", <<"tty">>>>,
                                       <<"flow_control", <<"yes">>>>,
                                       <<"flow_control", <<"no">>>>>>)>>, 0)}
=============================================================================
