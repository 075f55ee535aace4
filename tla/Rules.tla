-------------------------------- MODULE Rules --------------------------------
(***************************************************************************)
(* The values a filter is made of: conditions, the four kinds of rules and *)
(* chains, as they are constructed, compared, copied and printed (If.cpp,  *)
(* Accept.cpp, Reject.cpp, Call.cpp, GoTo.cpp, Chain.cpp and Filter.cpp    *)
(* under src/src).  What a filter decides is in module Filter.             *)
(***************************************************************************)
EXTENDS Addresses

CONSTANT KnownTypes    \* the names of MAVLink messages
ASSUME KnownTypesAssumption == KnownTypes \subseteq Types

-----------------------------------------------------------------------------
(* Conditions; a packet type is its name, the ID one to one with it *)

\* mavlink::id
PacketType(t) ==
    IF Len(t) = 1 /\ t[1] \in KnownTypes THEN Value(t[1])
                                         ELSE Throws("invalid_argument")

If == [type |-> Unset, from |-> Unset, to |-> Unset]
ConditionType == [type : OptionalOf(STRING), from : OptionalOf(SubnetType),
                  to : OptionalOf(SubnetType)]

WithType(condition, t) ==
    Then(PacketType(t), LAMBDA v : Value([condition EXCEPT !.type = Set(v)]))
From(condition, t) ==
    Then(MAVSubnetOf(t), LAMBDA v : Value([condition EXCEPT !.from = Set(v)]))
To(condition, t) ==
    Then(MAVSubnetOf(t), LAMBDA v : Value([condition EXCEPT !.to = Set(v)]))

\* A packet is its type and its source; address is where it would be sent.
Check(condition, packet, address) ==
    /\ condition.type.set => packet.type = condition.type.value
    /\ condition.from.set =>
           SubnetContains(condition.from.value, packet.source)
    /\ condition.to.set => SubnetContains(condition.to.value, address)

\* std::optional's ==, with that of the values
Same(Equal(_, _), a, b) ==
    a.set = b.set /\ (a.set => Equal(a.value, b.value))
NotSame(Unequal(_, _), a, b) ==
    a.set # b.set \/ (a.set /\ Unequal(a.value, b.value))

Equals(a, b) == a = b
Differs(a, b) == a # b

IfEqual(a, b) ==
    /\ Same(Equals, a.type, b.type)
    /\ Same(MAVSubnetEqual, a.from, b.from)
    /\ Same(MAVSubnetEqual, a.to, b.to)
IfUnequal(a, b) ==
    \/ NotSame(Differs, a.type, b.type)
    \/ NotSame(MAVSubnetUnequal, a.from, b.from)
    \/ NotSame(MAVSubnetUnequal, a.to, b.to)

Preceded(words, t) == words \o <<" ">> \o t

PrintIf(c) ==
    IF ~ c.type.set /\ ~ c.from.set /\ ~ c.to.set
      THEN <<"if", " ", "any">>
      ELSE <<"if">> \o
           (IF c.type.set THEN <<" ", c.type.value>> ELSE <<>>) \o
           (IF c.from.set THEN Preceded(<<" ", "from">>,
                                        PrintMAVSubnet(c.from.value))
                          ELSE <<>>) \o
           (IF c.to.set THEN Preceded(<<" ", "to">>,
                                      PrintMAVSubnet(c.to.value))
                        ELSE <<>>)

-----------------------------------------------------------------------------
(* Rules; a chain that is called is known by its name, the program shares  *)
(* it by pointer                                                           *)

Accept(priority, condition) ==
    [kind |-> "accept", chain |-> <<>>, priority |-> priority,
     condition |-> condition]
Reject(condition) ==
    [kind |-> "reject", chain |-> <<>>, priority |-> Unset,
     condition |-> condition]
Call(c, priority, condition) ==
    [kind |-> "call", chain |-> c, priority |-> priority,
     condition |-> condition]
GoTo(c, priority, condition) ==
    [kind |-> "goto", chain |-> c, priority |-> priority,
     condition |-> condition]

\* A rule that is rejected has no priority; only call and goto name a chain.
IsRule(r) ==
    /\ r \in [kind : {"accept", "reject", "call", "goto"}, chain : Seq(STRING),
              priority : OptionalOf(Int), condition : OptionalOf(ConditionType)]
    /\ r.kind = "reject" => r.priority = Unset
    /\ r.kind \in {"accept", "reject"} => r.chain = <<>>

\* Mutant of CloneAccept: a copy without its priority.
CloneAcceptBare(r) == Accept(Unset, r.condition)

CloneAccept(r) == Accept(r.priority, r.condition)
CloneReject(r) == Reject(r.condition)
CloneCall(r) == Call(r.chain, r.priority, r.condition)
CloneGoTo(r) == GoTo(r.chain, r.priority, r.condition)
Clone(r) ==
    CASE r.kind = "accept" -> CloneAccept(r)
      [] r.kind = "reject" -> CloneReject(r)
      [] r.kind = "call" -> CloneCall(r)
      [] r.kind = "goto" -> CloneGoTo(r)

AcceptEqual(a, b) ==
    /\ a.kind = b.kind
    /\ Same(Equals, a.priority, b.priority)
    /\ Same(IfEqual, a.condition, b.condition)
AcceptUnequal(a, b) ==
    \/ a.kind # b.kind
    \/ NotSame(Differs, a.priority, b.priority)
    \/ NotSame(IfUnequal, a.condition, b.condition)
RejectEqual(a, b) ==
    a.kind = b.kind /\ Same(IfEqual, a.condition, b.condition)
RejectUnequal(a, b) ==
    a.kind # b.kind \/ NotSame(IfUnequal, a.condition, b.condition)
CallEqual(a, b) == a.chain = b.chain /\ AcceptEqual(a, b)
CallUnequal(a, b) == a.chain # b.chain \/ AcceptUnequal(a, b)
GoToEqual(a, b) == a.chain = b.chain /\ AcceptEqual(a, b)
GoToUnequal(a, b) == a.chain # b.chain \/ AcceptUnequal(a, b)

RuleEqual(a, b) ==
    CASE a.kind = "accept" -> AcceptEqual(a, b)
      [] a.kind = "reject" -> RejectEqual(a, b)
      [] a.kind = "call" -> CallEqual(a, b)
      [] a.kind = "goto" -> GoToEqual(a, b)
RuleUnequal(a, b) ==
    CASE a.kind = "accept" -> AcceptUnequal(a, b)
      [] a.kind = "reject" -> RejectUnequal(a, b)
      [] a.kind = "call" -> CallUnequal(a, b)
      [] a.kind = "goto" -> GoToUnequal(a, b)

PrintOptions(r) ==
    (IF r.priority.set THEN Preceded(<<" ", "with", " ", "priority">>,
                                     PrintInteger(r.priority.value))
                       ELSE <<>>) \o
    (IF r.condition.set THEN <<" ">> \o PrintIf(r.condition.value) ELSE <<>>)

PrintAccept(r) == <<"accept">> \o PrintOptions(r)
PrintReject(r) == <<"reject">> \o PrintOptions(r)
PrintCall(r) == <<"call", " ">> \o r.chain \o PrintOptions(r)
PrintGoTo(r) == <<"goto", " ">> \o r.chain \o PrintOptions(r)
PrintRule(r) ==
    CASE r.kind = "accept" -> PrintAccept(r)
      [] r.kind = "reject" -> PrintReject(r)
      [] r.kind = "call" -> PrintCall(r)
      [] r.kind = "goto" -> PrintGoTo(r)

-----------------------------------------------------------------------------
(* Chains and filters *)

Chain(name) == [name |-> name, rules |-> <<>>]
IsChain(c) ==
    /\ c = [name |-> c.name, rules |-> c.rules]
    /\ c.rules = [i \in 1 .. Len(c.rules) |-> c.rules[i]]
    /\ \A i \in DOMAIN c.rules : IsRule(c.rules[i])
IsFilter(f) ==
    /\ f.accept \in BOOLEAN
    /\ IsChain(f.default_chain)
    /\ \A n \in DOMAIN f.chains : IsChain(f.chains[n])
WithRule(c, r) == [c EXCEPT !.rules = Append(@, r)]

CopyOfChain(c) ==
    [name |-> c.name, rules |-> [i \in DOMAIN c.rules |-> Clone(c.rules[i])]]

ChainEqual(a, b) ==
    /\ a.name = b.name
    /\ Len(a.rules) = Len(b.rules)
    /\ \A i \in DOMAIN a.rules : ~ RuleUnequal(a.rules[i], b.rules[i])
ChainUnequal(a, b) == ~ ChainEqual(a, b)

PrintChain(c) ==
    <<"chain", " ">> \o c.name \o <<" ", "{", "\n">> \o
    FlattenSeq([i \in DOMAIN c.rules |->
                  <<" ">> \o PrintRule(c.rules[i]) \o <<";", "\n">>]) \o
    <<"}">>

FilterEqual(f, g) ==
    ChainEqual(f.default_chain, g.default_chain) /\ f.accept = g.accept
FilterUnequal(f, g) ==
    ChainUnequal(f.default_chain, g.default_chain) \/ f.accept # g.accept
=============================================================================
