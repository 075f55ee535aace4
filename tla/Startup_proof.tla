---------------------------- MODULE Startup_proof ----------------------------
(***************************************************************************)
(* Proofs about Startup: the file that is chosen, the comparisons of what  *)
(* was built, and the masks of subnets with the conditions made of them.   *)
(***************************************************************************)
EXTENDS Startup, TLAPS

-----------------------------------------------------------------------------
(* Which file *)

Found == {i \in DOMAIN Candidates :
            IsSet(Candidates[i]) /\ Exists(Candidates[i])}

\* The first of what was found, if there is any.
LEMMA FirstFound ==
    ASSUME Found # {}
    PROVE  /\ Min(Found) \in DOMAIN Candidates
           /\ IsSet(Candidates[Min(Found)]) /\ Exists(Candidates[Min(Found)])
           /\ \A j \in 1 .. Min(Found) - 1 :
                  ~ (IsSet(Candidates[j]) /\ Exists(Candidates[j]))
  <1>1. Found \subseteq 1 .. 4 /\ DOMAIN Candidates = 1 .. 4
    BY DEF Found, Candidates
  <1>2. \E i \in Found : \A j \in Found : i <= j
    <2>1. CASE 1 \in Found
      BY <1>1, <2>1
    <2>2. CASE 1 \notin Found /\ 2 \in Found
      BY <1>1, <2>2
    <2>3. CASE 1 \notin Found /\ 2 \notin Found /\ 3 \in Found
      BY <1>1, <2>3
    <2>4. CASE 1 \notin Found /\ 2 \notin Found /\ 3 \notin Found
      <3>1. PICK i \in Found : TRUE
        OBVIOUS
      <3>2. Found \subseteq {4}
        BY <1>1, <2>4
      <3> QED
        BY <3>1, <3>2
    <2> QED
      BY <2>1, <2>2, <2>3, <2>4
  <1>3. Min(Found) \in Found /\ \A j \in Found : Min(Found) <= j
    BY <1>2 DEF Min
  <1> QED
    BY <1>1, <1>3 DEF Found

\* The file that Options names, by the words of the documentation.
LEMMA FileNamed ==
    /\ ConfigFile.set <=>
           \/ Arguments.config /\ "given" \in situation.files
           \/ ~ Arguments.config /\ Found # {}
    /\ ConfigFile.set /\ Arguments.config =>
           ConfigFile.value = "given"
    /\ ConfigFile.set /\ ~ Arguments.config =>
           /\ Found # {}
           /\ ConfigFile.value = Candidates[Min(Found)]
  <1>1. find_config = IF Found = {} THEN Unset
                                   ELSE Set(Candidates[Min(Found)])
    BY DEF find_config, Found
  <1>2. CASE Arguments.config /\ "given" \in situation.files
    <2>1. ConfigFile = Set("given")
      BY <1>2 DEF ConfigFile, Exists
    <2> QED
      BY <1>2, <2>1 DEF Set
  <1>3. CASE Arguments.config /\ "given" \notin situation.files
    <2>1. ConfigFile = Unset
      BY <1>3 DEF ConfigFile, Exists
    <2> QED
      BY <1>3, <2>1 DEF Unset
  <1>4. CASE ~ Arguments.config
    <2>1. ConfigFile = find_config
      BY <1>4 DEF ConfigFile
    <2> QED
      BY <1>1, <1>4, <2>1 DEF Set, Unset
  <1> QED
    BY <1>2, <1>3, <1>4

(***************************************************************************)
(* The file is chosen in the first step that reads the options, and never  *)
(* again; the log level and the application are only set by make_app.      *)
(***************************************************************************)
Chosen ==
    /\ config_file # "none" =>
           /\ ConfigFile.set /\ config_file = ConfigFile.value
           /\ Arguments.valid /\ ~ Arguments.inform
    /\ config_file = "none" =>
           /\ phase \in {"start", "over"}
           /\ phase = "over" => \/ ~ Arguments.valid \/ Arguments.inform
                                \/ ~ ConfigFile.set

Built ==
    /\ phase # "running" => app = Nothing
    /\ phase \in {"start", "options", "tree"} => loglevel = 0
    /\ phase = "running" => app # Nothing /\ loglevel = Arguments.loglevel
    /\ Arguments.inform \/ Arguments.ast => app = Nothing /\ loglevel = 0
    /\ Arguments.inform => phase \in {"start", "over"}

FileInv == Chosen /\ Built

\* An application has interfaces, which nothing does not have.
LEMMA MadeIsSomething ==
    ASSUME NEW root, NEW t, Good(make_app(root, t))
    PROVE  make_app(root, t).value # Nothing
  <1> DEFINE f == parse_filter(root, t)
             made == parse_interfaces(root, t)
  <1>1. CASE ~ Good(f)
    BY <1>1 DEF make_app, Then
  <1>2. CASE Good(f) /\ ~ Good(made)
    BY <1>2 DEF make_app, Then
  <1>3. CASE Good(f) /\ Good(made)
    <2>1. make_app(root, t)
            = Value([filter |-> f.value, interfaces |-> made.value])
      BY <1>3 DEF make_app, Then
    <2>2. DOMAIN [filter |-> f.value, interfaces |-> made.value]
            # DOMAIN [filter |-> "none"]
      OBVIOUS
    <2> QED
      BY <2>1, <2>2 DEF Value, Nothing
  <1> QED
    BY <1>1, <1>2, <1>3

\* What is asked of the start, as values.
LEMMA SameFile ==
    ASSUME situation' = situation
    PROVE  /\ Arguments' = Arguments /\ ConfigFile' = ConfigFile
           /\ Found' = Found
  BY DEF Arguments, ConfigFile, find_config, Found, Exists, IsSet

LEMMA FileStep == FileInv /\ [Next]_vars => FileInv'
  <1> SUFFICES ASSUME FileInv, [Next]_vars PROVE FileInv'
    OBVIOUS
  <1>0. Arguments' = Arguments /\ ConfigFile' = ConfigFile
    <2>1. situation' = situation
      BY DEF Next, vars, Mistype, Inform, Refuse, Catch, Choose, Parse,
             PrintTree, Make
    <2> QED
      BY <2>1, SameFile
  <1>1. CASE Mistype
    BY <1>0, <1>1 DEF FileInv, Chosen, Built, Mistype
  <1>2. CASE Inform
    BY <1>0, <1>2 DEF FileInv, Chosen, Built, Inform
  <1>3. CASE Refuse
    BY <1>0, <1>3 DEF FileInv, Chosen, Built, Refuse, Catch
  <1>4. CASE Choose
    <2>1. Chosen'
      <3>1. ConfigFile.value # "none"
        BY <1>4, FileNamed, FirstFound DEF Choose, Candidates
      <3> QED
        BY <1>0, <1>4, <3>1 DEF FileInv, Chosen, Choose
    <2>2. Built'
      BY <1>0, <1>4 DEF FileInv, Built, Choose
    <2> QED
      BY <2>1, <2>2 DEF FileInv
  <1>5. CASE Parse
    <2>1. phase = "options" /\ phase' \in {"tree", "over"}
      BY <1>5 DEF Parse, Catch
    <2>2. UNCHANGED <<config_file, loglevel, app>>
      BY <1>5 DEF Parse, Catch
    <2> QED
      BY <1>0, <2>1, <2>2 DEF FileInv, Chosen, Built
  <1>6. CASE PrintTree
    BY <1>0, <1>6 DEF FileInv, Chosen, Built, PrintTree
  <1>7. CASE Make
    <2>1. /\ phase = "tree" /\ ~ Arguments.ast /\ loglevel' = Arguments.loglevel
          /\ config_file' = config_file
      BY <1>7 DEF Make
    <2>2. \/ phase' = "running" /\ app' # Nothing
          \/ phase' = "over" /\ app' = app
      BY <1>7, MadeIsSomething DEF Make, Begin
    <2>3. ~ Arguments.inform /\ app = Nothing /\ config_file # "none"
      BY <2>1 DEF FileInv, Chosen, Built
    <2> QED
      BY <1>0, <2>1, <2>2, <2>3 DEF FileInv, Chosen, Built
  <1>8. CASE UNCHANGED vars
    BY <1>0, <1>8 DEF FileInv, Chosen, Built, vars
  <1> QED
    BY <1>1, <1>2, <1>3, <1>4, <1>5, <1>6, <1>7, <1>8 DEF Next

(***************************************************************************)
(* The application is made of the file that was named on the command line, *)
(* or of the first that exists of those Options lists, for every set of    *)
(* files and of variables and whatever the parser makes of the text.       *)
(***************************************************************************)
THEOREM RightFileChosen == Spec => []RightFile
  <1>1. Init => FileInv
    BY DEF Init, FileInv, Chosen, Built
  <1>2. FileInv => RightFile
    <2> SUFFICES ASSUME FileInv PROVE RightFile
      OBVIOUS
    <2>1. CASE config_file = "none"
      <3>1. Arguments.config => "given" \notin situation.files \/ ConfigFile.set
        BY FileNamed
      <3>2. ~ Arguments.config /\ ~ ConfigFile.set =>
              (ToSet(Candidates) \ situation.unset) \cap situation.files = {}
        BY FileNamed DEF Found, IsSet, Exists, ToSet
      <3>3. \A i \in DOMAIN Candidates : config_file # Candidates[i]
        BY <2>1 DEF Candidates
      <3> QED
        BY <2>1, <3>1, <3>2, <3>3 DEF FileInv, Chosen, Built, RightFile
    <2>2. CASE config_file # "none" /\ Arguments.config
      <3>1. config_file = "given" /\ "given" \in situation.files
        BY <2>2, FileNamed DEF FileInv, Chosen
      <3>2. \A i \in DOMAIN Candidates : config_file # Candidates[i]
        BY <3>1 DEF Candidates
      <3> QED
        BY <2>2, <3>1, <3>2 DEF FileInv, Chosen, Built, RightFile
    <2>3. CASE config_file # "none" /\ ~ Arguments.config
      <3>1. Found # {} /\ config_file = Candidates[Min(Found)]
        BY <2>3, FileNamed DEF FileInv, Chosen
      <3>2. config_file # "given" /\ config_file \in situation.files
            /\ IsSet(config_file)
        BY <3>1, FirstFound DEF Candidates, Exists
      <3>3. ASSUME NEW i \in DOMAIN Candidates, config_file = Candidates[i]
            PROVE  Earlier(i) \cap situation.files = {}
        <4>1. i = Min(Found)
          BY <3>1, <3>3, FirstFound DEF Candidates
        <4> QED
          BY <3>1, <4>1, FirstFound DEF Earlier, IsSet, Exists
      <3> QED
        BY <2>3, <3>2, <3>3 DEF FileInv, Chosen, Built, RightFile
    <2> QED
      BY <2>1, <2>2, <2>3
  <1> QED
    BY <1>1, <1>2, FileStep, PTL DEF Spec

-----------------------------------------------------------------------------
(* Comparisons *)

\* The first octet that differs decides.
LEMMA NumbersOrdered ==
    ASSUME NEW p \in FourOctets, NEW q \in FourOctets
    PROVE  /\ ExactlyOne(NumberLess(p, q), p = q, NumberLess(q, p))
           /\ \A r \in FourOctets :
                  NumberLess(p, q) /\ NumberLess(q, r) => NumberLess(p, r)
  <1> DEFINE Less(x, y) ==
        \/ x[1] < y[1]
        \/ x[1] = y[1] /\ x[2] < y[2]
        \/ x[1] = y[1] /\ x[2] = y[2] /\ x[3] < y[3]
        \/ x[1] = y[1] /\ x[2] = y[2] /\ x[3] = y[3] /\ x[4] < y[4]
  <1>1. ASSUME NEW x, NEW y PROVE NumberLess(x, y) <=> Less(x, y)
    <2> DEFINE At(i) == x[i] < y[i] /\ \A j \in 1 .. i - 1 : x[j] = y[j]
    <2>1. NumberLess(x, y) <=> At(1) \/ At(2) \/ At(3) \/ At(4)
      <3>1. 1 .. 4 = {1, 2, 3, 4}
        OBVIOUS
      <3> QED
        BY <3>1 DEF NumberLess
    <2>2. /\ 1 .. 1 - 1 = {} /\ 1 .. 2 - 1 = {1} /\ 1 .. 3 - 1 = {1, 2}
          /\ 1 .. 4 - 1 = {1, 2, 3}
      OBVIOUS
    <2> QED
      BY <2>1, <2>2
  <1>2. ASSUME NEW x \in FourOctets
        PROVE  x[1] \in Int /\ x[2] \in Int /\ x[3] \in Int /\ x[4] \in Int
    BY DEF FourOctets
  <1>3. p = q <=> p[1] = q[1] /\ p[2] = q[2] /\ p[3] = q[3] /\ p[4] = q[4]
    <2>1. p = q <=> \A i \in {1, 2, 3, 4} : p[i] = q[i]
      <3>1. 1 .. 4 = {1, 2, 3, 4}
        OBVIOUS
      <3> QED
        BY <3>1 DEF FourOctets
    <2> QED
      BY <2>1
  <1>4. ExactlyOne(Less(p, q), p = q, Less(q, p))
    BY <1>2, <1>3 DEF ExactlyOne
  <1>5. ASSUME NEW r \in FourOctets, Less(p, q), Less(q, r)
        PROVE  Less(p, r)
    BY <1>2, <1>5
  <1> QED
    BY <1>1, <1>4, <1>5

\* An address is its octets and its port, which are comparable.
LEMMA SocketAddressFields ==
    ASSUME NEW x \in IPAddressType
    PROVE  /\ x.octets \in FourOctets /\ x.port \in Int
           /\ x = [octets |-> x.octets, port |-> x.port]
  <1>1. /\ x.octets \in FourOctets /\ x.port \in PortType
        /\ x = [octets |-> x.octets, port |-> x.port]
    BY DEF IPAddressType
  <1>2. PortType \subseteq Int
    BY DEF PortType
  <1> QED
    BY <1>1, <1>2

\* A socket address is in a total order with the others.
LEMMA SocketAddressesOrdered ==
    ASSUME NEW S \in SUBSET IPAddressType
    PROVE  Ordered(S, IPAddressLess, IPAddressGreater, IPAddressEqual,
                   IPAddressUnequal, IPAddressAtMost, IPAddressAtLeast)
  <1> SUFFICES ASSUME NEW a \in S, NEW b \in S
               PROVE  /\ ExactlyOne(IPAddressLess(a, b), a = b,
                                    IPAddressGreater(a, b))
                      /\ IPAddressLess(a, b) <=> IPAddressGreater(b, a)
                      /\ IPAddressEqual(a, b) <=> a = b
                      /\ IPAddressUnequal(a, b) <=> a # b
                      /\ IPAddressAtMost(a, b) <=> IPAddressLess(a, b) \/ a = b
                      /\ IPAddressAtLeast(a, b)
                           <=> IPAddressGreater(a, b) \/ a = b
                      /\ \A c \in S : IPAddressLess(a, b) /\ IPAddressLess(b, c)
                            => IPAddressLess(a, c)
    BY DEF Ordered
  <1>1. ASSUME NEW x \in S
        PROVE  /\ x.octets \in FourOctets /\ x.port \in Int
               /\ x = [octets |-> x.octets, port |-> x.port]
    BY SocketAddressFields
  <1>2. a = b <=> a.octets = b.octets /\ a.port = b.port
    BY <1>1
  <1>3. ExactlyOne(NumberLess(a.octets, b.octets), a.octets = b.octets,
                   NumberLess(b.octets, a.octets))
    BY <1>1, NumbersOrdered
  <1>4. /\ IPAddressLess(a, b) <=> IPAddressGreater(b, a)
        /\ IPAddressEqual(a, b) <=> a = b
        /\ IPAddressUnequal(a, b) <=> a # b
        /\ IPAddressAtMost(a, b) <=> IPAddressLess(a, b) \/ a = b
        /\ IPAddressAtLeast(a, b) <=> IPAddressGreater(a, b) \/ a = b
    BY <1>1, <1>2 DEF IPAddressLess, IPAddressGreater, IPAddressEqual,
                      IPAddressUnequal, IPAddressAtMost, IPAddressAtLeast
  <1>5. ExactlyOne(IPAddressLess(a, b), a = b, IPAddressGreater(a, b))
    BY <1>1, <1>2, <1>3 DEF ExactlyOne, IPAddressLess, IPAddressGreater
  <1>6. ASSUME NEW c \in S, IPAddressLess(a, b), IPAddressLess(b, c)
        PROVE  IPAddressLess(a, c)
    <2>1. NumberLess(a.octets, b.octets) /\ NumberLess(b.octets, c.octets)
             => NumberLess(a.octets, c.octets)
      BY <1>1, NumbersOrdered
    <2> QED
      BY <1>1, <1>6, <2>1 DEF IPAddressLess
  <1> QED
    BY <1>4, <1>5, <1>6

\* Addresses are the numbers of 16 bits.
LEMMA AddressRange ==
    \A n : n \in AddressType <=> n \in Int /\ 0 <= n /\ n <= 65535
  BY DEF AddressType

LEMMA MAVAddressesOrdered ==
    ASSUME NEW S \in SUBSET AddressType
    PROVE  Ordered(S, MAVAddressLess, MAVAddressGreater, MAVAddressEqual,
                   MAVAddressUnequal, MAVAddressAtMost, MAVAddressAtLeast)
  <1>1. \A a \in S : a \in Int
    BY AddressRange
  <1>2. ASSUME NEW a \in S, NEW b \in S
        PROVE  /\ ExactlyOne(a < b, a = b, a > b)
               /\ a < b <=> b > a
               /\ a <= b <=> a < b \/ a = b
               /\ a >= b <=> a > b \/ a = b
               /\ \A c \in S : a < b /\ b < c => a < c
    BY <1>1 DEF ExactlyOne
  <1> QED
    BY <1>2 DEF Ordered, MAVAddressLess, MAVAddressGreater, MAVAddressEqual,
                MAVAddressUnequal, MAVAddressAtMost, MAVAddressAtLeast

\* Optional values are equal if both are set, to the same, or neither is.
LEMMA Optionals ==
    ASSUME NEW S, NEW o \in OptionalOf(S), NEW p \in OptionalOf(S)
    PROVE  /\ o.set \in BOOLEAN /\ p.set \in BOOLEAN
           /\ o.set => o.value \in S
           /\ p.set => p.value \in S
           /\ o = p <=> o.set = p.set /\ (o.set => o.value = p.value)
  <1>1. ASSUME NEW x \in OptionalOf(S)
        PROVE  \/ x = Unset /\ x.set = FALSE
               \/ x = Set(x.value) /\ x.set = TRUE /\ x.value \in S
    <2>1. CASE x = Unset
      BY <2>1 DEF Unset
    <2>2. CASE x \in [set : {TRUE}, value : S]
      <3>1. x.set \in {TRUE} /\ x.value \in S
            /\ x = [set |-> x.set, value |-> x.value]
        BY <2>2
      <3>2. x.set = TRUE
        BY <3>1
      <3> QED
        BY <3>1, <3>2, Zenon DEF Set
    <2> QED
      BY <2>1, <2>2 DEF OptionalOf
  <1>2. \/ o = Unset /\ o.set = FALSE
        \/ o = Set(o.value) /\ o.set = TRUE /\ o.value \in S
    BY <1>1
  <1>3. \/ p = Unset /\ p.set = FALSE
        \/ p = Set(p.value) /\ p.set = TRUE /\ p.value \in S
    BY <1>1
  <1> QED
    BY <1>2, <1>3, Zenon

LEMMA SubnetsEqual ==
    ASSUME NEW a \in SubnetType, NEW b \in SubnetType
    PROVE  /\ a.address \in AddressType /\ a.mask \in AddressType
           /\ a = [address |-> a.address, mask |-> a.mask]
           /\ MAVSubnetEqual(a, b) <=> a = b
           /\ MAVSubnetUnequal(a, b) <=> a # b
  BY DEF SubnetType, MAVSubnetEqual, MAVSubnetUnequal

\* A value of its own for each of the three parts of a condition.
LEMMA SameAsEqual ==
    ASSUME NEW S, NEW o \in OptionalOf(S), NEW p \in OptionalOf(S)
    PROVE  /\ Same(Equals, o, p) <=> o = p
           /\ NotSame(Differs, o, p) <=> o # p
  BY Optionals DEF Same, NotSame, Equals, Differs

LEMMA SameSubnet ==
    ASSUME NEW o \in OptionalOf(SubnetType), NEW p \in OptionalOf(SubnetType)
    PROVE  /\ Same(MAVSubnetEqual, o, p) <=> o = p
           /\ NotSame(MAVSubnetUnequal, o, p) <=> o # p
  BY Optionals, SubnetsEqual DEF Same, NotSame

\* Conditions are equal just if they are the same.
LEMMA ConditionsEqual ==
    ASSUME NEW a \in ConditionType, NEW b \in ConditionType
    PROVE  /\ IfEqual(a, b) <=> a = b
           /\ IfUnequal(a, b) <=> a # b
  <1>1. ASSUME NEW x \in ConditionType
        PROVE  /\ x.type \in OptionalOf(STRING)
               /\ x.from \in OptionalOf(SubnetType)
               /\ x.to \in OptionalOf(SubnetType)
               /\ x = [type |-> x.type, from |-> x.from, to |-> x.to]
    BY DEF ConditionType
  <1>2. a = b <=> a.type = b.type /\ a.from = b.from /\ a.to = b.to
    BY <1>1
  <1> QED
    BY <1>1, <1>2, SameAsEqual, SameSubnet DEF IfEqual, IfUnequal

LEMMA SameCondition ==
    ASSUME NEW o \in OptionalOf(ConditionType),
           NEW p \in OptionalOf(ConditionType)
    PROVE  /\ Same(IfEqual, o, p) <=> o = p
           /\ NotSame(IfUnequal, o, p) <=> o # p
  BY Optionals, ConditionsEqual DEF Same, NotSame

\* A rule is its kind, chain, priority and condition.
LEMMA RuleFields ==
    ASSUME NEW r, IsRule(r)
    PROVE  /\ r.kind \in {"accept", "reject", "call", "goto"}
           /\ r.priority \in OptionalOf(Int)
           /\ r.condition \in OptionalOf(ConditionType)
           /\ r = [kind |-> r.kind, chain |-> r.chain,
                   priority |-> r.priority, condition |-> r.condition]
           /\ r.kind = "reject" => r.priority = Unset
           /\ r.kind \in {"accept", "reject"} => r.chain = <<>>
  BY DEF IsRule

\* Rules are equal just if they do the same.
LEMMA RulesEqual ==
    ASSUME NEW a, NEW b, IsRule(a), IsRule(b)
    PROVE  /\ RuleEqual(a, b) <=> a = b
           /\ RuleUnequal(a, b) <=> a # b
  <1>1. a = b <=> /\ a.kind = b.kind /\ a.chain = b.chain
                  /\ a.priority = b.priority /\ a.condition = b.condition
    BY RuleFields
  <1>2. /\ Same(Equals, a.priority, b.priority) <=> a.priority = b.priority
        /\ NotSame(Differs, a.priority, b.priority)
              <=> a.priority # b.priority
        /\ Same(IfEqual, a.condition, b.condition)
              <=> a.condition = b.condition
        /\ NotSame(IfUnequal, a.condition, b.condition)
              <=> a.condition # b.condition
    BY RuleFields, SameAsEqual, SameCondition
  <1>3. a.kind = b.kind =>
            /\ a.kind = "reject" => a.priority = b.priority
            /\ a.kind \in {"accept", "reject"} => a.chain = b.chain
    BY RuleFields
  <1>4. a.kind \in {"accept", "reject", "call", "goto"}
    BY RuleFields
  <1>5. CASE a.kind = "accept"
    BY <1>1, <1>2, <1>3, <1>5 DEF RuleEqual, RuleUnequal, AcceptEqual,
                                  AcceptUnequal
  <1>6. CASE a.kind = "reject"
    BY <1>1, <1>2, <1>3, <1>6 DEF RuleEqual, RuleUnequal, RejectEqual,
                                  RejectUnequal
  <1>7. CASE a.kind = "call"
    BY <1>1, <1>2, <1>7 DEF RuleEqual, RuleUnequal, CallEqual, CallUnequal,
                            AcceptEqual, AcceptUnequal
  <1>8. CASE a.kind = "goto"
    BY <1>1, <1>2, <1>8 DEF RuleEqual, RuleUnequal, GoToEqual, GoToUnequal,
                            AcceptEqual, AcceptUnequal
  <1> QED
    BY <1>4, <1>5, <1>6, <1>7, <1>8

\* A copied rule is the rule.
LEMMA CloneSame ==
    ASSUME NEW r, IsRule(r)
    PROVE  Clone(r) = r
  <1>1. r.kind \in {"accept", "reject", "call", "goto"}
    BY RuleFields
  <1>2. r = [kind |-> r.kind, chain |-> r.chain,
             priority |-> r.priority, condition |-> r.condition]
    BY RuleFields
  <1>3. CASE r.kind = "accept"
    BY <1>2, <1>3, RuleFields DEF Clone, CloneAccept, Accept
  <1>4. CASE r.kind = "reject"
    BY <1>2, <1>4, RuleFields DEF Clone, CloneReject, Reject
  <1>5. CASE r.kind = "call"
    BY <1>2, <1>5 DEF Clone, CloneCall, Call
  <1>6. CASE r.kind = "goto"
    BY <1>2, <1>6 DEF Clone, CloneGoTo, GoTo
  <1> QED
    BY <1>1, <1>3, <1>4, <1>5, <1>6

\* The constructors from a number and from two bytes give what is there.
LEMMA AddressMade ==
    ASSUME NEW a \in AddressType
    PROVE  /\ a = 256 * System(a) + Component(a)
           /\ System(a) \in 0 .. 255 /\ Component(a) \in 0 .. 255
           /\ MAVAddress(a) = Value(a)
           /\ construct(System(a), Component(a)) = Value(a)
  <1>1. /\ a = 256 * System(a) + Component(a)
        /\ System(a) \in 0 .. 255 /\ Component(a) \in 0 .. 255
    <2>1. a \in Int /\ 0 <= a /\ a <= 65535
      BY AddressRange
    <2>2. a \div 256 \in 0 .. 255 /\ a % 256 \in 0 .. 255
          /\ a = 256 * (a \div 256) + (a % 256)
      BY <2>1
    <2>3. (a \div 256) % 256 = a \div 256
      BY <2>2
    <2> QED
      BY <2>2, <2>3 DEF System, Component
  <1>2. ~ a > 65535 /\ ~ System(a) > 255 /\ ~ Component(a) > 255
    BY <1>1, AddressRange
  <1> QED
    BY <1>1, <1>2 DEF MAVAddress, construct

LEMMA SubnetMade ==
    ASSUME NEW s \in SubnetType
    PROVE  /\ MAVSubnet(s.address, s.mask) = Value(s)
           /\ MAVSubnetOfBytes(s.address, System(s.mask), Component(s.mask))
                = Value(s)
  <1>1. s.mask \in AddressType
    BY SubnetsEqual
  <1>2. s = [address |-> s.address, mask |-> s.mask]
    BY SubnetsEqual
  <1>3. /\ s.mask = 256 * System(s.mask) + Component(s.mask)
        /\ System(s.mask) \in 0 .. 255 /\ Component(s.mask) \in 0 .. 255
    BY <1>1, AddressMade
  <1>4. ~ s.mask > 65535
    BY <1>1, AddressRange
  <1>5. ~ System(s.mask) > 255 /\ ~ Component(s.mask) > 255
    BY <1>3
  <1>6. MAVSubnet(s.address, s.mask) = Value(s)
    <2>1. MAVSubnet(s.address, s.mask)
            = Value([address |-> s.address, mask |-> s.mask])
      BY <1>4 DEF MAVSubnet
    <2> QED
      BY <1>2, <2>1, Zenon
  <1>7. MAVSubnetOfBytes(s.address, System(s.mask), Component(s.mask))
          = Value([address |-> s.address, mask |-> s.mask])
    BY <1>3, <1>5, Zenon DEF MAVSubnetOfBytes
  <1> QED
    BY <1>2, <1>6, <1>7, Zenon

\* A port that fits makes an address.
LEMMA SocketAddressMade ==
    ASSUME NEW octets \in FourOctets, NEW port \in PortType
    PROVE  /\ IPAddress(octets, port)
                = Value([octets |-> octets, port |-> port])
           /\ IPAddress(octets, port).value \in IPAddressType
  <1>1. IPAddress(octets, port) = Value([octets |-> octets, port |-> port])
    <2>1. ~ port < 0 /\ ~ port > 65535
      BY DEF PortType
    <2> QED
      BY <2>1 DEF IPAddress
  <1>2. Value([octets |-> octets, port |-> port]).value
          = [octets |-> octets, port |-> port]
    BY DEF Value
  <1>3. [octets |-> octets, port |-> port] \in IPAddressType
    BY DEF IPAddressType
  <1> QED
    BY <1>1, <1>2, <1>3, Zenon

\* A copied chain has the rules of the original; a chain equals itself.
LEMMA CopySame ==
    ASSUME NEW c, IsChain(c)
    PROVE  CopyOfChain(c) = c /\ ChainEqual(c, c)
  <1>1. /\ c = [name |-> c.name, rules |-> c.rules]
        /\ c.rules = [i \in 1 .. Len(c.rules) |-> c.rules[i]]
        /\ \A i \in DOMAIN c.rules : IsRule(c.rules[i])
    BY DEF IsChain
  <1>2. DOMAIN c.rules = 1 .. Len(c.rules)
    BY <1>1, Zenon
  <1>3. [i \in DOMAIN c.rules |-> Clone(c.rules[i])]
          = [i \in DOMAIN c.rules |-> c.rules[i]]
    BY <1>1, CloneSame
  <1>4. [i \in DOMAIN c.rules |-> Clone(c.rules[i])] = c.rules
    BY <1>1, <1>2, <1>3, Zenon
  <1>5. CopyOfChain(c) = c
    BY <1>1, <1>4, Zenon DEF CopyOfChain
  <1>6. \A i \in DOMAIN c.rules : ~ RuleUnequal(c.rules[i], c.rules[i])
    BY <1>1, RulesEqual
  <1> QED
    BY <1>5, <1>6 DEF ChainEqual

(***************************************************************************)
(* What was built is well formed, and so compares as it should: for every  *)
(* number of rules, chains, interfaces and addresses, and every address    *)
(* and subnet there is.                                                    *)
(***************************************************************************)
THEOREM Comparisons == TypeOK => ComparisonsAgree
  <1> SUFFICES ASSUME TypeOK, phase = "running" PROVE ComparisonsAgree
    BY DEF ComparisonsAgree
  <1>1. /\ IsChain(app.filter.default_chain)
        /\ \A n \in DOMAIN app.filter.chains : IsChain(app.filter.chains[n])
        /\ \A i \in ToSet(app.interfaces) : IsInterface(i)
    BY DEF TypeOK, IsApp, IsFilter
  <1>2. Ordered(SocketAddresses, IPAddressLess, IPAddressGreater,
                IPAddressEqual, IPAddressUnequal, IPAddressAtMost,
                IPAddressAtLeast)
    <2>1. ASSUME NEW i \in UDPBuilt
          PROVE  i.port \in PortType /\ i.address \in OptionalOf(IPAddressType)
      <3>1. IsInterface(i) /\ i.kind = "udp"
        BY <1>1 DEF UDPBuilt
      <3>2. i \in [kind : {"udp"}, port : PortType,
                   address : OptionalOf(IPAddressType), max_bitrate : Nat]
        BY <3>1 DEF IsInterface
      <3> QED
        BY <3>2
    <2>2. ASSUME NEW i \in UDPBuilt, i.address.set, NEW j \in UDPBuilt
          PROVE  WithPort(i.address.value, j.port).value \in IPAddressType
      <3>1. i.address.value.octets \in FourOctets /\ j.port \in PortType
        BY <2>1, <2>2, Optionals, SocketAddressFields
      <3> QED
        BY <3>1, SocketAddressMade DEF WithPort
    <2>3. SocketAddresses \subseteq IPAddressType
      BY <2>2 DEF SocketAddresses
    <2> QED
      BY <2>3, SocketAddressesOrdered
  <1>3. Preloads \subseteq AddressType
    <2> SUFFICES ASSUME NEW i \in ToSet(app.interfaces), i.kind = "serial"
                 PROVE  ToSet(i.preload) \subseteq AddressType
      BY DEF Preloads
    <2>1. i \in [kind : {"serial"}, device : OptionalOf(Seq(STRING)),
                 baudrate : Speeds, flow_control : BOOLEAN,
                 preload : Seq(AddressType)]
      BY <1>1 DEF IsInterface
    <2>2. i.preload \in Seq(AddressType)
      BY <2>1
    <2> QED
      BY <2>2 DEF ToSet
  <1>4. Ordered(Preloads, MAVAddressLess, MAVAddressGreater, MAVAddressEqual,
                MAVAddressUnequal, MAVAddressAtMost, MAVAddressAtLeast)
    BY <1>3, MAVAddressesOrdered
  <1>5. \A a \in Preloads : /\ MAVAddress(a) = Value(a)
                            /\ construct(System(a), Component(a)) = Value(a)
    BY <1>3, AddressMade
  <1>6. \A r \in RulesBuilt : IsRule(r)
    <2>1. \A c : IsChain(c) => \A i \in DOMAIN c.rules : IsRule(c.rules[i])
      BY Zenon DEF IsChain
    <2> QED
      BY <1>1, <2>1 DEF RulesBuilt, ToSet
  <1>7. \A a, b \in RulesBuilt : /\ RuleEqual(a, b) <=> a = b
                                 /\ RuleUnequal(a, b) <=> a # b
    BY <1>6, RulesEqual
  <1>8. SubnetsBuilt \subseteq SubnetType
    <2>1. ASSUME NEW r \in RulesBuilt, r.condition.set
          PROVE  r.condition.value \in ConditionType
      BY <1>6, <2>1, RuleFields, Optionals
    <2>2. ASSUME NEW c \in ConditionType
          PROVE  c.from \in OptionalOf(SubnetType)
                 /\ c.to \in OptionalOf(SubnetType)
      BY DEF ConditionType
    <2>3. \A c \in ConditionsBuilt : c \in ConditionType
      BY <2>1 DEF ConditionsBuilt
    <2>4. ASSUME NEW c \in ConditionsBuilt, NEW x \in {c.from, c.to}, x.set
          PROVE  x.value \in SubnetType
      BY <2>2, <2>3, <2>4, Optionals
    <2> QED
      BY <2>4 DEF SubnetsBuilt
  <1>9. \A a \in SubnetsBuilt :
            /\ MAVSubnet(a.address, a.mask) = Value(a)
            /\ MAVSubnetOfBytes(a.address, System(a.mask),
                                Component(a.mask)) = Value(a)
            /\ \A b \in SubnetsBuilt : /\ MAVSubnetEqual(a, b) <=> a = b
                                       /\ MAVSubnetUnequal(a, b) <=> a # b
    BY <1>8, SubnetMade, SubnetsEqual
  <1>10. \A n \in DOMAIN app.filter.chains :
             LET c == app.filter.chains[n]
             IN  CopyOfChain(c) = c /\ ~ ChainUnequal(CopyOfChain(c), c)
    BY <1>1, CopySame DEF ChainUnequal
  <1>11. FilterEqual(app.filter, app.filter)
         /\ ~ FilterUnequal(app.filter, app.filter)
    BY <1>1, CopySame DEF FilterEqual, FilterUnequal, ChainUnequal
  <1> QED
    BY <1>2, <1>4, <1>5, <1>7, <1>9, <1>10, <1>11 DEF ComparisonsAgree

-----------------------------------------------------------------------------
(* Bits *)

Weights == {1, 2, 4, 8, 16, 32, 64, 128, 256, 512, 1024, 2048, 4096, 8192,
            16384, 32768}

\* A bit is zero or one.
LEMMA BitValues == \A a \in Nat, w \in Weights : Bit(a, w) \in {0, 1}
  <1>1. \A n \in Nat, d \in Nat \ {0} : n \div d \in Nat
    OBVIOUS
  <1>2. \A n \in Nat : n % 2 \in {0, 1}
    OBVIOUS
  <1>3. Weights \subseteq Nat \ {0}
    BY DEF Weights
  <1> QED
    BY <1>1, <1>2, <1>3 DEF Bit

\* Quotients by two neighbouring weights differ by a bit.
Halves(a, w) == a \div w = 2 * (a \div (2 * w)) + Bit(a, w)

LEMMA Halving == \A a \in Nat, w \in Weights : Halves(a, w)
  <1> SUFFICES ASSUME NEW a \in Nat PROVE \A w \in Weights : Halves(a, w)
    OBVIOUS
  <1>1. Halves(a, 1)
    BY SMT DEF Halves, Bit
  <1>2. Halves(a, 2)
    BY SMT DEF Halves, Bit
  <1>3. Halves(a, 4)
    BY SMT DEF Halves, Bit
  <1>4. Halves(a, 8)
    BY SMT DEF Halves, Bit
  <1>5. Halves(a, 16)
    BY SMT DEF Halves, Bit
  <1>6. Halves(a, 32)
    BY SMT DEF Halves, Bit
  <1>7. Halves(a, 64)
    BY SMT DEF Halves, Bit
  <1>8. Halves(a, 128)
    BY SMT DEF Halves, Bit
  <1>9. Halves(a, 256)
    BY SMT DEF Halves, Bit
  <1>10. Halves(a, 512)
    BY SMT DEF Halves, Bit
  <1>11. Halves(a, 1024)
    BY SMT DEF Halves, Bit
  <1>12. Halves(a, 2048)
    BY SMT DEF Halves, Bit
  <1>13. Halves(a, 4096)
    BY SMT DEF Halves, Bit
  <1>14. Halves(a, 8192)
    BY SMT DEF Halves, Bit
  <1>15. Halves(a, 16384)
    BY SMT DEF Halves, Bit
  <1>16. Halves(a, 32768)
    BY SMT DEF Halves, Bit
  <1> QED
    BY <1>1, <1>2, <1>3, <1>4, <1>5, <1>6, <1>7, <1>8, <1>9, <1>10, <1>11,
       <1>12, <1>13, <1>14, <1>15, <1>16 DEF Weights

LEMMA Halved ==
    ASSUME NEW a \in Nat, NEW w \in Weights, NEW double, double = 2 * w
    PROVE  a \div w = 2 * (a \div double) + Bit(a, w)
  BY Halving DEF Halves

\* What remains of a number of 16 bits when all are shifted out.
LEMMA ShiftedOut == \A a \in AddressType : a \div 65536 = 0 /\ a \div 1 = a
  BY SMT DEF AddressType

\* Where a number can be cut: before each bit and behind the last.
Cuts == Weights \cup {65536}

\* Two numbers agree from a weight on: their quotients do, or their bits.
AgreeFrom(a, b, w) ==
    a \div w = b \div w
      <=> \A v \in Weights : w <= v => Bit(a, v) = Bit(b, v)

LEMMA Upper ==
    \A a, b \in AddressType, w \in Cuts : AgreeFrom(a, b, w)
  <1> SUFFICES ASSUME NEW a \in AddressType, NEW b \in AddressType
               PROVE  \A w \in Cuts : AgreeFrom(a, b, w)
    OBVIOUS
  <1>0. AgreeFrom(a, b, 65536)
    BY ShiftedOut DEF AgreeFrom, Weights
  <1>1. a \in Nat /\ b \in Nat
    BY DEF AddressType
  <1>2. \A n \in Nat, d \in Nat \ {0} : n \div d \in Nat
    OBVIOUS
  <1>3. ASSUME NEW w \in Weights, NEW double, double = 2 * w,
               AgreeFrom(a, b, double)
        PROVE  AgreeFrom(a, b, w)
    <2>1. Halves(a, w) /\ Halves(b, w)
      BY <1>1, Halving
    <2>2. /\ Bit(a, w) \in {0, 1} /\ Bit(b, w) \in {0, 1}
          /\ a \div (2 * w) \in Nat /\ b \div (2 * w) \in Nat
      <3>1. 2 * w \in Nat \ {0}
        BY DEF Weights
      <3> QED
        BY <1>1, <1>2, <3>1, BitValues
    <2>3. a \div w = b \div w <=> /\ a \div (2 * w) = b \div (2 * w)
                                 /\ Bit(a, w) = Bit(b, w)
      BY <2>1, <2>2 DEF Halves
    <2>4. \A v \in Weights : w <= v <=> v = w \/ 2 * w <= v
      BY DEF Weights
    <2> QED
      BY <1>3, <2>3, <2>4 DEF AgreeFrom
  <1>4. AgreeFrom(a, b, 32768)
    BY <1>3, <1>0 DEF Weights
  <1>5. AgreeFrom(a, b, 16384)
    BY <1>3, <1>4 DEF Weights
  <1>6. AgreeFrom(a, b, 8192)
    BY <1>3, <1>5 DEF Weights
  <1>7. AgreeFrom(a, b, 4096)
    BY <1>3, <1>6 DEF Weights
  <1>8. AgreeFrom(a, b, 2048)
    BY <1>3, <1>7 DEF Weights
  <1>9. AgreeFrom(a, b, 1024)
    BY <1>3, <1>8 DEF Weights
  <1>10. AgreeFrom(a, b, 512)
    BY <1>3, <1>9 DEF Weights
  <1>11. AgreeFrom(a, b, 256)
    BY <1>3, <1>10 DEF Weights
  <1>12. AgreeFrom(a, b, 128)
    BY <1>3, <1>11 DEF Weights
  <1>13. AgreeFrom(a, b, 64)
    BY <1>3, <1>12 DEF Weights
  <1>14. AgreeFrom(a, b, 32)
    BY <1>3, <1>13 DEF Weights
  <1>15. AgreeFrom(a, b, 16)
    BY <1>3, <1>14 DEF Weights
  <1>16. AgreeFrom(a, b, 8)
    BY <1>3, <1>15 DEF Weights
  <1>17. AgreeFrom(a, b, 4)
    BY <1>3, <1>16 DEF Weights
  <1>18. AgreeFrom(a, b, 2)
    BY <1>3, <1>17 DEF Weights
  <1>19. AgreeFrom(a, b, 1)
    BY <1>3, <1>18 DEF Weights
  <1> QED
    BY <1>0, <1>4, <1>5, <1>6, <1>7, <1>8, <1>9, <1>10, <1>11, <1>12,
       <1>13, <1>14, <1>15, <1>16, <1>17, <1>18, <1>19 DEF Weights, Cuts

\* The bit that is in both numbers, and four of them.
Both(a, m, w) == Bit(a, w) * Bit(m, w)
Four(a, m, w) == Both(a, m, w) + 2 * Both(a, m, 2 * w)
                 + 4 * Both(a, m, 4 * w) + 8 * Both(a, m, 8 * w)

LEMMA FourBits ==
    ASSUME NEW x1 \in {0, 1}, NEW x2 \in {0, 1}, NEW x4 \in {0, 1},
           NEW x8 \in {0, 1}, NEW y1 \in {0, 1}, NEW y2 \in {0, 1},
           NEW y4 \in {0, 1}, NEW y8 \in {0, 1}, NEW u \in Int, NEW v \in Int,
           x1 + 2 * x2 + 4 * x4 + 8 * x8 + 16 * u
             = y1 + 2 * y2 + 4 * y4 + 8 * y8 + 16 * v
    PROVE  x1 = y1 /\ x2 = y2 /\ x4 = y4 /\ x8 = y8 /\ u = v
  OBVIOUS

LEMMA BothValues ==
    ASSUME NEW a \in Nat, NEW m \in Nat, NEW w \in Weights
    PROVE  /\ Both(a, m, w) \in {0, 1}
           /\ Bit(m, w) = 1 => Both(a, m, w) = Bit(a, w)
           /\ Bit(m, w) # 1 => Both(a, m, w) = 0
  <1>1. Bit(a, w) \in {0, 1} /\ Bit(m, w) \in {0, 1}
    BY BitValues
  <1> QED
    BY <1>1 DEF Both

\* The operator & in groups of four bits.
LEMMA InFours ==
    ASSUME NEW a \in Nat, NEW m \in Nat
    PROVE  /\ (a & m) = Four(a, m, 1) + 16 * (Four(a, m, 16)
                         + 16 * (Four(a, m, 256) + 16 * Four(a, m, 4096)))
           /\ \A w \in {1, 16, 256, 4096} : Four(a, m, w) \in Int
  <1>1. \A w \in Weights : CommonBit(a, m, w) = w * Both(a, m, w)
    BY DEF CommonBit, Both
  <1>2. \A w \in Weights : Both(a, m, w) \in Int
    BY BothValues
  <1>3. ASSUME NEW w \in {1, 16, 256, 4096}
        PROVE  CommonBits(a, m, w) = w * Four(a, m, w) /\ Four(a, m, w) \in Int
    <2>1. w \in Weights /\ 2 * w \in Weights /\ 4 * w \in Weights
          /\ 8 * w \in Weights
      BY DEF Weights
    <2> QED
      BY <1>1, <1>2, <2>1 DEF CommonBits, Four
  <1> QED
    BY <1>3 DEF &

\* Two results of & are the same just if they are bit by bit.
LEMMA BitByBit ==
    ASSUME NEW a \in Nat, NEW m \in Nat, NEW b \in Nat, NEW k \in Nat
    PROVE  (a & m) = (b & k)
             <=> \A w \in Weights : Both(a, m, w) = Both(b, k, w)
  <1>1. ASSUME (a & m) = (b & k), NEW w \in Weights
        PROVE  Both(a, m, w) = Both(b, k, w)
    <2> DEFINE Same4(v) == /\ Both(a, m, v) = Both(b, k, v)
                           /\ Both(a, m, 2 * v) = Both(b, k, 2 * v)
                           /\ Both(a, m, 4 * v) = Both(b, k, 4 * v)
                           /\ Both(a, m, 8 * v) = Both(b, k, 8 * v)
    <2>1. ASSUME NEW v \in {1, 16, 256, 4096}, NEW x \in Int, NEW y \in Int,
                 Four(a, m, v) + 16 * x = Four(b, k, v) + 16 * y
          PROVE  Same4(v) /\ x = y
      <3>1. v \in Weights /\ 2 * v \in Weights /\ 4 * v \in Weights
            /\ 8 * v \in Weights
        BY DEF Weights
      <3>2. /\ Both(a, m, v) \in {0, 1} /\ Both(a, m, 2 * v) \in {0, 1}
            /\ Both(a, m, 4 * v) \in {0, 1} /\ Both(a, m, 8 * v) \in {0, 1}
            /\ Both(b, k, v) \in {0, 1} /\ Both(b, k, 2 * v) \in {0, 1}
            /\ Both(b, k, 4 * v) \in {0, 1} /\ Both(b, k, 8 * v) \in {0, 1}
        BY <3>1, BothValues
      <3> QED
        BY <2>1, <3>2, FourBits DEF Four
    <2> DEFINE A2 == Four(a, m, 256) + 16 * Four(a, m, 4096)
               B2 == Four(b, k, 256) + 16 * Four(b, k, 4096)
               A1 == Four(a, m, 16) + 16 * A2
               B1 == Four(b, k, 16) + 16 * B2
    <2>2. /\ Four(a, m, 4096) \in Int /\ Four(b, k, 4096) \in Int
          /\ A1 \in Int /\ B1 \in Int /\ A2 \in Int /\ B2 \in Int
      BY InFours
    <2>3. Same4(1) /\ A1 = B1
      BY <1>1, <2>1, <2>2, InFours
    <2>4. Same4(16) /\ A2 = B2
      BY <2>1, <2>2, <2>3
    <2>5. Same4(256) /\ Four(a, m, 4096) = Four(b, k, 4096)
      BY <2>1, <2>2, <2>4
    <2>6. Same4(4096)
      BY <2>1, <2>5
    <2> QED
      BY <2>3, <2>4, <2>5, <2>6 DEF Weights
  <1>2. ASSUME \A w \in Weights : Both(a, m, w) = Both(b, k, w)
        PROVE  (a & m) = (b & k)
    <2>1. ASSUME NEW w \in {1, 16, 256, 4096}
          PROVE  Four(a, m, w) = Four(b, k, w)
      BY <1>2 DEF Weights, Four
    <2> QED
      BY <2>1, InFours
  <1> QED
    BY <1>1, <1>2

\* Two numbers are the same under a mask if they agree in the bits it has.
LEMMA UnderMask ==
    ASSUME NEW a \in Nat, NEW b \in Nat, NEW m \in Nat
    PROVE  (a & m) = (b & m)
             <=> \A w \in Weights : Bit(m, w) = 1 => Bit(a, w) = Bit(b, w)
  BY BitByBit, BothValues

-----------------------------------------------------------------------------
(* Masks *)

\* The bits of a mask are those from the weight low on and below high.
Ones(m, low, high) ==
    \A w \in Weights : Bit(m, w) = 1 <=> low <= w /\ w < high

\* The same, written out to be computed.
Row(m, low, high) ==
    LET Here(w) == Bit(m, w) = 1 <=> low <= w /\ w < high
    IN  /\ Here(1) /\ Here(2) /\ Here(4) /\ Here(8) /\ Here(16) /\ Here(32)
        /\ Here(64) /\ Here(128) /\ Here(256) /\ Here(512) /\ Here(1024)
        /\ Here(2048) /\ Here(4096) /\ Here(8192) /\ Here(16384)
        /\ Here(32768)

LEMMA RowOnes == \A m, low, high : Row(m, low, high) => Ones(m, low, high)
  BY DEF Row, Ones, Weights

\* The masks that begin with the most significant bit.
LEMMA SystemMasks ==
    \A w \in Cuts : Ones(65536 - w, w, 65536)
  <1>1. Row(65535, 1, 65536)
    BY SMT DEF Row, Bit
  <1>2. Row(65534, 2, 65536)
    BY SMT DEF Row, Bit
  <1>3. Row(65532, 4, 65536)
    BY SMT DEF Row, Bit
  <1>4. Row(65528, 8, 65536)
    BY SMT DEF Row, Bit
  <1>5. Row(65520, 16, 65536)
    BY SMT DEF Row, Bit
  <1>6. Row(65504, 32, 65536)
    BY SMT DEF Row, Bit
  <1>7. Row(65472, 64, 65536)
    BY SMT DEF Row, Bit
  <1>8. Row(65408, 128, 65536)
    BY SMT DEF Row, Bit
  <1>9. Row(65280, 256, 65536)
    BY SMT DEF Row, Bit
  <1>10. Row(65024, 512, 65536)
    BY SMT DEF Row, Bit
  <1>11. Row(64512, 1024, 65536)
    BY SMT DEF Row, Bit
  <1>12. Row(63488, 2048, 65536)
    BY SMT DEF Row, Bit
  <1>13. Row(61440, 4096, 65536)
    BY SMT DEF Row, Bit
  <1>14. Row(57344, 8192, 65536)
    BY SMT DEF Row, Bit
  <1>15. Row(49152, 16384, 65536)
    BY SMT DEF Row, Bit
  <1>16. Row(32768, 32768, 65536)
    BY SMT DEF Row, Bit
  <1>17. Row(0, 65536, 65536)
    BY SMT DEF Row, Bit
  <1> QED
    BY RowOnes, <1>1, <1>2, <1>3, <1>4, <1>5, <1>6, <1>7, <1>8, <1>9,
       <1>10, <1>11, <1>12, <1>13, <1>14, <1>15, <1>16, <1>17
       DEF Weights, Cuts

\* The masks of the component.
ComponentWeights == {1, 2, 4, 8, 16, 32, 64, 128}
ComponentCuts == ComponentWeights \cup {256}

LEMMA ComponentMasks ==
    \A w \in ComponentCuts : Ones(256 - w, w, 256)
  <1>1. Row(255, 1, 256)
    BY SMT DEF Row, Bit
  <1>2. Row(254, 2, 256)
    BY SMT DEF Row, Bit
  <1>3. Row(252, 4, 256)
    BY SMT DEF Row, Bit
  <1>4. Row(248, 8, 256)
    BY SMT DEF Row, Bit
  <1>5. Row(240, 16, 256)
    BY SMT DEF Row, Bit
  <1>6. Row(224, 32, 256)
    BY SMT DEF Row, Bit
  <1>7. Row(192, 64, 256)
    BY SMT DEF Row, Bit
  <1>8. Row(128, 128, 256)
    BY SMT DEF Row, Bit
  <1>9. Row(0, 256, 256)
    BY SMT DEF Row, Bit
  <1> QED
    BY RowOnes, <1>1, <1>2, <1>3, <1>4, <1>5, <1>6, <1>7, <1>8, <1>9
       DEF ComponentWeights, ComponentCuts

\* The bits of the two bytes of a number are its bits.
Bytes(a, w) == /\ Bit(a % 256, w) = Bit(a, w)
               /\ Bit(a \div 256, w) = Bit(a, 256 * w)

LEMMA BitsOfBytes == \A a \in Nat, w \in ComponentWeights : Bytes(a, w)
  <1> SUFFICES ASSUME NEW a \in Nat
               PROVE  \A w \in ComponentWeights : Bytes(a, w)
    OBVIOUS
  <1>1. Bytes(a, 1)
    BY SMT DEF Bytes, Bit
  <1>2. Bytes(a, 2)
    BY SMT DEF Bytes, Bit
  <1>3. Bytes(a, 4)
    BY SMT DEF Bytes, Bit
  <1>4. Bytes(a, 8)
    BY SMT DEF Bytes, Bit
  <1>5. Bytes(a, 16)
    BY SMT DEF Bytes, Bit
  <1>6. Bytes(a, 32)
    BY SMT DEF Bytes, Bit
  <1>7. Bytes(a, 64)
    BY SMT DEF Bytes, Bit
  <1>8. Bytes(a, 128)
    BY SMT DEF Bytes, Bit
  <1> QED
    BY <1>1, <1>2, <1>3, <1>4, <1>5, <1>6, <1>7, <1>8 DEF ComponentWeights

\* The two bytes of a number of 16 bits.
LEMMA TwoBytes ==
    ASSUME NEW a \in AddressType
    PROVE  /\ a \in Nat /\ a \div 256 \in AddressType /\ a % 256 \in AddressType
           /\ a \div 256 \in 0 .. 255 /\ a % 256 \in 0 .. 255
           /\ a = 256 * (a \div 256) + (a % 256)
  <1>1. a \in Nat /\ a <= 65535
    BY DEF AddressType
  <1>2. a \div 256 \in 0 .. 255 /\ a % 256 \in 0 .. 255
        /\ a = 256 * (a \div 256) + (a % 256)
    BY <1>1
  <1>3. 0 .. 255 \subseteq AddressType
    BY DEF AddressType
  <1> QED
    BY <1>1, <1>2, <1>3

LEMMA OfTwoBytes ==
    ASSUME NEW p \in 0 .. 255, NEW q \in 0 .. 255
    PROVE  /\ 256 * p + q \in AddressType
           /\ (256 * p + q) \div 256 = p /\ (256 * p + q) % 256 = q
  <1>1. /\ 256 * p + q \in Nat /\ 256 * p + q <= 65535
        /\ (256 * p + q) \div 256 = p /\ (256 * p + q) % 256 = q
    OBVIOUS
  <1> QED
    BY <1>1 DEF AddressType

\* A mask of upper bits compares quotients.
LEMMA UpperMask ==
    ASSUME NEW a \in AddressType, NEW b \in AddressType,
           NEW w \in Cuts
    PROVE  (a & (65536 - w)) = (b & (65536 - w)) <=> a \div w = b \div w
  <1>1. a \in Nat /\ b \in Nat /\ 65536 - w \in Nat
    BY DEF AddressType, Weights, Cuts
  <1>2. \A v \in Weights : v < 65536
    BY DEF Weights
  <1>3. \A v \in Weights : Bit(65536 - w, v) = 1 <=> w <= v
    BY <1>2, SystemMasks DEF Ones
  <1> QED
    BY <1>1, <1>3, UnderMask, Upper DEF AgreeFrom

\* A mask of upper bits of the component compares quotients of components.
LEMMA UpperComponentMask ==
    ASSUME NEW a \in AddressType, NEW b \in AddressType,
           NEW w \in ComponentCuts
    PROVE  (a & (256 - w)) = (b & (256 - w))
             <=> (a % 256) \div w = (b % 256) \div w
  <1>1. /\ a \in Nat /\ b \in Nat
        /\ a % 256 \in AddressType /\ b % 256 \in AddressType
    BY TwoBytes
  <1>2. 256 - w \in Nat /\ w \in Weights /\ w \in Cuts
    BY DEF Weights, ComponentWeights, ComponentCuts, Cuts
  <1>3. \A v \in Weights : Bit(256 - w, v) = 1 <=> w <= v /\ v < 256
    BY ComponentMasks DEF Ones
  <1>4. \A v \in Weights : v < 256 <=> v \in ComponentWeights
    BY DEF Weights, ComponentWeights
  <1>5. ASSUME NEW v \in Weights
        PROVE  \/ v < 256 /\ Bit(a % 256, v) = Bit(a, v)
                          /\ Bit(b % 256, v) = Bit(b, v)
               \/ ~ v < 256 /\ Bit(a % 256, v) = Bit(b % 256, v)
    <2>1. CASE v < 256
      BY <1>1, <1>4, <2>1, BitsOfBytes DEF Bytes
    <2>2. CASE ~ v < 256
      <3>1. v \in Nat \ {0} /\ v >= 256
        BY <2>2 DEF Weights
      <3>2. \A n \in 0 .. 255 : n \div v = 0
        BY <3>1
      <3>3. (a % 256) \div v = 0 /\ (b % 256) \div v = 0
        BY <3>2, TwoBytes
      <3> QED
        BY <2>2, <3>3 DEF Bit
    <2> QED
      BY <2>1, <2>2
  <1>6. (a % 256) \div w = (b % 256) \div w
          <=> \A v \in Weights : w <= v => Bit(a % 256, v) = Bit(b % 256, v)
    BY <1>1, <1>2, Upper DEF AgreeFrom
  <1> QED
    BY <1>1, <1>2, <1>3, <1>5, <1>6, UnderMask

\* A mask of two bytes compares them bit by bit.
LEMMA TwoMasks ==
    ASSUME NEW a \in AddressType, NEW b \in AddressType, NEW m \in AddressType
    PROVE  (a & m) = (b & m)
             <=> /\ BitsEqual(a \div 256, b \div 256, m \div 256)
                 /\ BitsEqual(a % 256, b % 256, m % 256)
  <1>1. a \in Nat /\ b \in Nat /\ m \in Nat
    BY TwoBytes
  <1>2. ComponentWeights = {2 ^ k : k \in 0 .. 7}
    <2>1. 0 .. 7 = {0, 1, 2, 3, 4, 5, 6, 7}
      OBVIOUS
    <2>2. /\ 2 ^ 0 = 1 /\ 2 ^ 1 = 2 /\ 2 ^ 2 = 4 /\ 2 ^ 3 = 8
          /\ 2 ^ 4 = 16 /\ 2 ^ 5 = 32 /\ 2 ^ 6 = 64 /\ 2 ^ 7 = 128
      OBVIOUS
    <2> QED
      BY <2>1, <2>2 DEF ComponentWeights
  <1>3. \A x, y, z : BitsEqual(x, y, z) <=>
          \A w \in ComponentWeights : Bit(z, w) = 1 => Bit(x, w) = Bit(y, w)
    BY <1>2 DEF BitsEqual, Bit
  <1>4. Weights = ComponentWeights \cup {256 * w : w \in ComponentWeights}
    BY DEF Weights, ComponentWeights
  <1>5. \A w \in ComponentWeights : Bytes(a, w) /\ Bytes(b, w) /\ Bytes(m, w)
    BY <1>1, BitsOfBytes
  <1>6. (a & m) = (b & m)
          <=> \A w \in ComponentWeights :
                  /\ Bit(m, w) = 1 => Bit(a, w) = Bit(b, w)
                  /\ Bit(m, 256 * w) = 1 => Bit(a, 256 * w) = Bit(b, 256 * w)
    BY <1>1, <1>4, UnderMask
  <1> QED
    BY <1>3, <1>5, <1>6 DEF Bytes

-----------------------------------------------------------------------------
(* Counts of bits *)

SlashBits == 0 .. 16
BackslashBits == 0 .. 8

LEMMA SlashCounts ==
    /\ SlashBits = {0, 1, 2, 3, 4, 5, 6, 7, 8, 9, 10, 11, 12, 13, 14, 15, 16}
    /\ \A n : n \in SlashBits <=> n \in Int /\ 0 <= n /\ n <= 16
    /\ \A n \in SlashBits : 16 - n \in SlashBits
  <1>1. SlashBits
          = {0, 1, 2, 3, 4, 5, 6, 7, 8, 9, 10, 11, 12, 13, 14, 15, 16}
    BY DEF SlashBits
  <1>2. \A n : n \in SlashBits <=> n \in Int /\ 0 <= n /\ n <= 16
    BY DEF SlashBits
  <1>3. \A n \in SlashBits : 16 - n \in SlashBits
    BY <1>2
  <1> QED
    BY <1>1, <1>2, <1>3

LEMMA BackslashCounts ==
    /\ BackslashBits = {0, 1, 2, 3, 4, 5, 6, 7, 8}
    /\ \A n : n \in BackslashBits <=> n \in Int /\ 0 <= n /\ n <= 8
    /\ \A n \in BackslashBits : 8 - n \in BackslashBits
    /\ \A n \in BackslashBits : n \in SlashBits
  <1>1. BackslashBits = {0, 1, 2, 3, 4, 5, 6, 7, 8}
    BY DEF BackslashBits
  <1>2. \A n : n \in BackslashBits <=> n \in Int /\ 0 <= n /\ n <= 8
    BY DEF BackslashBits
  <1>3. \A n \in BackslashBits : 8 - n \in BackslashBits
    BY <1>2
  <1> QED
    BY <1>1, <1>2, <1>3, SlashCounts

LEMMA Powers ==
    /\ 2 ^ 0 = 1 /\ 2 ^ 1 = 2 /\ 2 ^ 2 = 4 /\ 2 ^ 3 = 8 /\ 2 ^ 4 = 16
    /\ 2 ^ 5 = 32 /\ 2 ^ 6 = 64 /\ 2 ^ 7 = 128 /\ 2 ^ 8 = 256
    /\ 2 ^ 9 = 512 /\ 2 ^ 10 = 1024 /\ 2 ^ 11 = 2048 /\ 2 ^ 12 = 4096
    /\ 2 ^ 13 = 8192 /\ 2 ^ 14 = 16384 /\ 2 ^ 15 = 32768
    /\ 2 ^ 16 = 65536
  OBVIOUS

LEMMA PowerIsWeight ==
    /\ \A n \in SlashBits : 2 ^ (16 - n) \in Cuts
    /\ \A n \in BackslashBits : 2 ^ (8 - n) \in ComponentCuts
  <1>1. {2 ^ k : k \in SlashBits} = Cuts
    BY Powers, SlashCounts DEF Cuts, Weights
  <1>2. {2 ^ k : k \in BackslashBits} = ComponentCuts
    BY Powers, BackslashCounts DEF ComponentCuts, ComponentWeights
  <1> QED
    BY <1>1, <1>2, SlashCounts, BackslashCounts

(***************************************************************************)
(* The mask a subnet of a document stands for selects the addresses the    *)
(* document speaks of: the upper n of the 16 bits, the upper n of those of *)
(* the component, or the bits of two masks; whatever bits the address of   *)
(* the subnet has outside of the mask.                                     *)
(***************************************************************************)
THEOREM SubnetHolds ==
    ASSUME NEW s, SubnetFits(s), s.form \in {"exact", "/", "\\", ":"},
           NEW a \in AddressType
    PROVE  SubnetContains(MeantSubnet(s), a) <=> Within(s, a)
  <1> DEFINE b == 256 * s.s + s.c
  <1>1. /\ b \in AddressType /\ b \div 256 = s.s /\ b % 256 = s.c
    <2>1. PICK p \in 0 .. 255, q \in 0 .. 255 : p = s.s /\ q = s.c
      BY DEF SubnetFits
    <2>2. /\ 256 * p + q \in AddressType
          /\ (256 * p + q) \div 256 = p /\ (256 * p + q) % 256 = q
      BY OfTwoBytes
    <2> QED
      BY <2>1, <2>2, Zenon
  <1>2. SubnetContains(MeantSubnet(s), a) <=> (a & MaskOf(s)) = (b & MaskOf(s))
    BY DEF SubnetContains, MeantSubnet
  <1>3. CASE s.form = "exact"
    <2>1. MaskOf(s) = 65536 - 1
      BY <1>3 DEF MaskOf
    <2>2. (a & (65536 - 1)) = (b & (65536 - 1)) <=> a \div 1 = b \div 1
      <3>1. 1 \in Cuts
        BY DEF Weights, Cuts
      <3> QED
        BY <1>1, <3>1, UpperMask
    <2>3. a \div 1 = b \div 1 <=> a = b
      BY <1>1, ShiftedOut
    <2>4. a = b <=> a \div 256 = s.s /\ a % 256 = s.c
      <3>1. /\ a = 256 * (a \div 256) + (a % 256)
            /\ b = 256 * (b \div 256) + (b % 256)
        BY <1>1, TwoBytes
      <3> QED
        BY <1>1, <3>1
    <2> QED
      BY <1>2, <1>3, <2>1, <2>2, <2>3, <2>4 DEF Within
  <1>4. CASE s.form = "/"
    <2>1. MaskOf(s) = 65536 - 2 ^ (16 - s.n) /\ s.n \in SlashBits
      BY <1>4 DEF MaskOf, SubnetFits, SlashBits
    <2>2. 2 ^ (16 - s.n) \in Cuts
      <3>1. PICK n \in SlashBits : n = s.n
        BY <2>1
      <3>2. 2 ^ (16 - n) \in Cuts
        BY PowerIsWeight
      <3> QED
        BY <3>1, <3>2, Zenon
    <2>3. (a & MaskOf(s)) = (b & MaskOf(s))
             <=> a \div 2 ^ (16 - s.n) = b \div 2 ^ (16 - s.n)
      BY <1>1, <2>1, <2>2, UpperMask
    <2> QED
      BY <1>2, <1>4, <2>3 DEF Within, UpperEqual
  <1>5. CASE s.form = "\\"
    <2>1. MaskOf(s) = 256 - 2 ^ (8 - s.n) /\ s.n \in BackslashBits
      BY <1>5 DEF MaskOf, SubnetFits, BackslashBits
    <2>2. 2 ^ (8 - s.n) \in ComponentCuts
      <3>1. PICK n \in BackslashBits : n = s.n
        BY <2>1
      <3>2. 2 ^ (8 - n) \in ComponentCuts
        BY PowerIsWeight
      <3> QED
        BY <3>1, <3>2, Zenon
    <2>3. (a & MaskOf(s)) = (b & MaskOf(s))
             <=> (a % 256) \div 2 ^ (8 - s.n) = (b % 256) \div 2 ^ (8 - s.n)
      BY <1>1, <2>1, <2>2, UpperComponentMask
    <2> QED
      BY <1>1, <1>2, <1>5, <2>3 DEF Within, UpperEqual
  <1>6. CASE s.form = ":"
    <2>1. MaskOf(s) = 256 * s.p + s.q /\ s.p \in 0 .. 255 /\ s.q \in 0 .. 255
      BY <1>6 DEF MaskOf, SubnetFits
    <2>2. /\ MaskOf(s) \in AddressType
          /\ MaskOf(s) \div 256 = s.p /\ MaskOf(s) % 256 = s.q
      <3>1. PICK p \in 0 .. 255, q \in 0 .. 255 : p = s.p /\ q = s.q
        BY <2>1
      <3>2. /\ 256 * p + q \in AddressType
            /\ (256 * p + q) \div 256 = p /\ (256 * p + q) % 256 = q
        BY OfTwoBytes
      <3> QED
        BY <2>1, <3>1, <3>2, Zenon
    <2>3. (a & MaskOf(s)) = (b & MaskOf(s))
             <=> BitsEqual(a \div 256, s.s, s.p) /\ BitsEqual(a % 256, s.c, s.q)
      BY <1>1, <2>2, TwoMasks
    <2> QED
      BY <1>2, <1>6, <2>3 DEF Within
  <1> QED
    BY <1>3, <1>4, <1>5, <1>6

-----------------------------------------------------------------------------
(* The masks the code computes *)

LEMMA AllOnes == \A w \in Weights : Bit(65535, w) = 1
  <1>1. Row(65535, 1, 65536)
    BY SMT DEF Row, Bit
  <1> QED
    BY <1>1 DEF Row, Weights

\* Four bits are taken off a number in one go.
LEMMA FourHalvings ==
    ASSUME NEW y \in Nat, NEW w \in Weights, NEW w2 \in Weights,
           NEW w4 \in Weights, NEW w8 \in Weights, NEW w16 \in Int,
           w2 = 2 * w, w4 = 2 * w2, w8 = 2 * w4, w16 = 2 * w8
    PROVE  y \div w = Bit(y, w) + 2 * Bit(y, w2) + 4 * Bit(y, w4)
                      + 8 * Bit(y, w8) + 16 * (y \div w16)
  <1>1. /\ y \div w = 2 * (y \div w2) + Bit(y, w)
        /\ y \div w2 = 2 * (y \div w4) + Bit(y, w2)
        /\ y \div w4 = 2 * (y \div w8) + Bit(y, w4)
        /\ y \div w8 = 2 * (y \div w16) + Bit(y, w8)
    BY Halved
  <1>2. \A d \in Nat \ {0} : y \div d \in Int
    OBVIOUS
  <1>3. {w2, w4, w8, w16} \subseteq Nat \ {0}
    BY DEF Weights
  <1>4. /\ Bit(y, w) \in Int /\ Bit(y, w2) \in Int
        /\ Bit(y, w4) \in Int /\ Bit(y, w8) \in Int
    BY BitValues
  <1> QED
    BY <1>1, <1>2, <1>3, <1>4

\* A result of & is a number if it has the bits of that number.
LEMMA HasBits ==
    ASSUME NEW x \in AddressType, NEW m \in AddressType, NEW y \in AddressType,
           \A w \in Weights :
               Bit(y, w) = 1 <=> Bit(x, w) = 1 /\ Bit(m, w) = 1
    PROVE  (x & m) = y
  <1>1. x \in Nat /\ m \in Nat /\ y \in Nat
    BY DEF AddressType
  <1>2. (y & 65535) = y
    <2>1. \A w \in Weights : Bit(65535, w) = 1
      BY AllOnes
    <2>2. \A w \in Weights : Both(y, 65535, w) = Bit(y, w)
      BY <1>1, <2>1, BothValues
    <2>3. ASSUME NEW w \in {1, 16, 256, 4096}
          PROVE  y \div w = Four(y, 65535, w) + 16 * (y \div (16 * w))
      <3>1. /\ w \in Weights /\ 2 * w \in Weights /\ 4 * w \in Weights
            /\ 8 * w \in Weights
        BY DEF Weights
      <3>2. PICK w2 \in Weights, w4 \in Weights, w8 \in Weights, w16 \in Int :
                w2 = 2 * w /\ w4 = 2 * w2 /\ w8 = 2 * w4 /\ w16 = 2 * w8
        BY <3>1 DEF Weights
      <3>3. w4 = 4 * w /\ w8 = 8 * w /\ w16 = 16 * w
        BY <3>2
      <3>4. y \div w = Bit(y, w) + 2 * Bit(y, w2) + 4 * Bit(y, w4)
                       + 8 * Bit(y, w8) + 16 * (y \div w16)
        BY <1>1, <3>1, <3>2, FourHalvings
      <3>5. Four(y, 65535, w) = Bit(y, w) + 2 * Bit(y, w2)
                                + 4 * Bit(y, w4) + 8 * Bit(y, w8)
        BY <2>2, <3>1, <3>2, <3>3 DEF Four
      <3> QED
        BY <3>3, <3>4, <3>5
    <2>4. y \div 1 = y /\ y \div 65536 = 0
      BY ShiftedOut
    <2>5. /\ y \div 1 = Four(y, 65535, 1) + 16 * (y \div 16)
          /\ y \div 16 = Four(y, 65535, 16) + 16 * (y \div 256)
          /\ y \div 256 = Four(y, 65535, 256) + 16 * (y \div 4096)
          /\ y \div 4096 = Four(y, 65535, 4096) + 16 * (y \div 65536)
      <3>1. 16 * 1 = 16 /\ 16 * 16 = 256 /\ 16 * 256 = 4096 /\ 16 * 4096 = 65536
        OBVIOUS
      <3> QED
        BY <2>3, <3>1
    <2> QED
      BY <1>1, <2>4, <2>5, InFours
  <1>3. ASSUME NEW w \in Weights PROVE Both(x, m, w) = Both(y, 65535, w)
    <2>1. Bit(65535, w) = 1
      BY AllOnes
    <2>2. Both(y, 65535, w) = Bit(y, w)
      BY <1>1, <2>1, BothValues
    <2>3. Bit(x, w) \in {0, 1} /\ Bit(m, w) \in {0, 1} /\ Bit(y, w) \in {0, 1}
      BY <1>1, BitValues
    <2> QED
      BY <2>2, <2>3 DEF Both
  <1>4. (x & m) = (y & 65535)
    BY <1>1, <1>3, BitByBit
  <1> QED
    BY <1>2, <1>4

-----------------------------------------------------------------------------

\* Ones shifted to the left within 16 bits leave zeros on the right.
Shifts(k) == ShiftedOnes(k) = 65536 - 2 ^ k

LEMMA Shifted == \A k \in SlashBits : Shifts(k)
  <1>1. Shifts(0)
    BY Powers DEF Shifts, ShiftedOnes
  <1>2. Shifts(1)
    BY Powers DEF Shifts, ShiftedOnes
  <1>3. Shifts(2)
    BY Powers DEF Shifts, ShiftedOnes
  <1>4. Shifts(3)
    BY Powers DEF Shifts, ShiftedOnes
  <1>5. Shifts(4)
    BY Powers DEF Shifts, ShiftedOnes
  <1>6. Shifts(5)
    BY Powers DEF Shifts, ShiftedOnes
  <1>7. Shifts(6)
    BY Powers DEF Shifts, ShiftedOnes
  <1>8. Shifts(7)
    BY Powers DEF Shifts, ShiftedOnes
  <1>9. Shifts(8)
    BY Powers DEF Shifts, ShiftedOnes
  <1>10. Shifts(9)
    BY Powers DEF Shifts, ShiftedOnes
  <1>11. Shifts(10)
    BY Powers DEF Shifts, ShiftedOnes
  <1>12. Shifts(11)
    BY Powers DEF Shifts, ShiftedOnes
  <1>13. Shifts(12)
    BY Powers DEF Shifts, ShiftedOnes
  <1>14. Shifts(13)
    BY Powers DEF Shifts, ShiftedOnes
  <1>15. Shifts(14)
    BY Powers DEF Shifts, ShiftedOnes
  <1>16. Shifts(15)
    BY Powers DEF Shifts, ShiftedOnes
  <1>17. Shifts(16)
    BY Powers DEF Shifts, ShiftedOnes
  <1> QED
    BY <1>1, <1>2, <1>3, <1>4, <1>5, <1>6, <1>7, <1>8, <1>9, <1>10, <1>11,
       <1>12, <1>13, <1>14, <1>15, <1>16, <1>17, SlashCounts

\* The masks of the two kinds of slashes.
LEMMA UpperBitsAre ==
    /\ \A n \in SlashBits : UpperBits(n, 16) = 65536 - 2 ^ (16 - n)
    /\ \A n \in BackslashBits : UpperBits(n, 8) = 256 - 2 ^ (8 - n)
  <1>1. ASSUME NEW n \in SlashBits
        PROVE  UpperBits(n, 16) = 65536 - 2 ^ (16 - n)
    <2>1. 16 - n \in SlashBits
      BY SlashCounts
    <2>2. PICK w \in Cuts : w = 2 ^ (16 - n)
      BY PowerIsWeight
    <2>3. ShiftedOnes(16 - n) = 65536 - w
      BY <2>1, <2>2, Shifted DEF Shifts
    <2>4. 65536 - w \in AddressType /\ 65535 \in AddressType
      BY DEF Cuts, Weights, AddressType
    <2>5. ((65536 - w) & 65535) = 65536 - w
      BY <2>4, AllOnes, HasBits
    <2>6. UpperBits(n, 16) = (ShiftedOnes(16 - n) & 65535)
      BY Powers DEF UpperBits
    <2> QED
      BY <2>2, <2>3, <2>5, <2>6
  <1>2. ASSUME NEW n \in BackslashBits
        PROVE  UpperBits(n, 8) = 256 - 2 ^ (8 - n)
    <2>1. 8 - n \in SlashBits
      BY BackslashCounts
    <2>2. PICK w \in ComponentCuts : w = 2 ^ (8 - n)
      BY PowerIsWeight
    <2>3. ShiftedOnes(8 - n) = 65536 - w
      BY <2>1, <2>2, Shifted DEF Shifts
    <2>4. /\ 65536 - w \in AddressType /\ 256 - w \in AddressType
          /\ 255 \in AddressType
      BY DEF ComponentCuts, ComponentWeights, AddressType
    <2>5. w \in Cuts /\ 1 \in ComponentCuts /\ 256 - 1 = 255
      BY DEF ComponentCuts, ComponentWeights, Cuts, Weights
    <2>6. ASSUME NEW v \in Weights
          PROVE  Bit(256 - w, v) = 1
                   <=> Bit(65536 - w, v) = 1 /\ Bit(255, v) = 1
      <3>1. Ones(256 - w, w, 256) /\ Ones(65536 - w, w, 65536)
            /\ Ones(255, 1, 256)
        BY <2>5, SystemMasks, ComponentMasks
      <3>2. 1 <= v /\ v < 65536
        BY DEF Weights
      <3> QED
        BY <3>1, <3>2 DEF Ones
    <2>7. ((65536 - w) & 255) = 256 - w
      BY <2>4, <2>6, HasBits
    <2>8. UpperBits(n, 8) = (ShiftedOnes(8 - n) & 255)
      BY Powers DEF UpperBits
    <2> QED
      BY <2>2, <2>3, <2>7, <2>8
  <1> QED
    BY <1>1, <1>2

(***************************************************************************)
(* The mask the code makes of the bits behind a slash or a backslash, or   *)
(* of two masks, is the one in the table of the documentation, for every   *)
(* number; one that does not fit is refused.                               *)
(***************************************************************************)
THEOREM MasksAsMeant ==
    ASSUME NEW s, NEW n \in Int, n = s.n
    PROVE  /\ s.form = "/" =>
                  SlashMask(n, 16) = IF n \in 0 .. 16 THEN Value(MaskOf(s))
                                     ELSE Throws("out_of_range")
           /\ s.form = "\\" =>
                  SlashMask(n, 8) = IF n \in 0 .. 8 THEN Value(MaskOf(s))
                                    ELSE Throws("out_of_range")
  <1>1. ASSUME s.form = "/"
        PROVE  SlashMask(n, 16) = IF n \in SlashBits THEN Value(MaskOf(s))
                                  ELSE Throws("out_of_range")
    <2>1. MaskOf(s) = 65536 - 2 ^ (16 - n)
      BY <1>1 DEF MaskOf
    <2>2. n \in SlashBits => UpperBits(n, 16) = MaskOf(s)
      BY <2>1, UpperBitsAre
    <2>3. n \in SlashBits <=> ~ (n < 0 \/ n > 16)
      BY SlashCounts
    <2> QED
      BY <2>2, <2>3 DEF SlashMask
  <1>2. ASSUME s.form = "\\"
        PROVE  SlashMask(n, 8) = IF n \in BackslashBits THEN Value(MaskOf(s))
                                 ELSE Throws("out_of_range")
    <2>1. MaskOf(s) = 256 - 2 ^ (8 - n)
      BY <1>2 DEF MaskOf
    <2>2. n \in BackslashBits => UpperBits(n, 8) = MaskOf(s)
      BY <2>1, UpperBitsAre
    <2>3. n \in BackslashBits <=> ~ (n < 0 \/ n > 8)
      BY BackslashCounts
    <2> QED
      BY <2>2, <2>3 DEF SlashMask
  <1> QED
    BY <1>1, <1>2, Zenon DEF SlashBits, BackslashBits

-----------------------------------------------------------------------------
(* What the conditions of an application hold for *)

\* What is stated in a document that means something.
LEMMA StatedSubnets ==
    ASSUME NEW document, IsDocument(document), Faults(document) = {},
           NEW r \in Statements(document),
           NEW o \in {r.condition.from, r.condition.to}
    PROVE  /\ o.set \in BOOLEAN
           /\ o.set => /\ SubnetFits(o.value)
                       /\ o.value.form \in {"exact", "/", "\\", ":"}
  <1>1. o.set => o.value \in Subnets(document)
    BY DEF Subnets
  <1>2. \A s \in Subnets(document) : SubnetFits(s)
    BY DEF Faults
  <1> QED
    BY <1>1, <1>2 DEF IsDocument

\* An address is in the subnet that was meant if there is one.
LEMMA OptionHolds ==
    ASSUME NEW o, o.set \in BOOLEAN, NEW a \in AddressType,
           o.set => /\ SubnetFits(o.value)
                    /\ o.value.form \in {"exact", "/", "\\", ":"}
    PROVE  LET m == MeantOption(o, MeantSubnet)
           IN  (m.set => SubnetContains(m.value, a))
                 <=> (o.set => Within(o.value, a))
  <1>1. CASE o.set
    <2>1. MeantOption(o, MeantSubnet) = Set(MeantSubnet(o.value))
      BY <1>1 DEF MeantOption
    <2>2. SubnetContains(MeantSubnet(o.value), a) <=> Within(o.value, a)
      BY <1>1, SubnetHolds
    <2> QED
      BY <1>1, <2>1, <2>2 DEF Set
  <1>2. CASE ~ o.set
    <2>1. MeantOption(o, MeantSubnet) = Unset
      BY <1>2 DEF MeantOption
    <2> QED
      BY <1>2, <2>1 DEF Unset
  <1> QED
    BY <1>1, <1>2

\* A condition that was meant concerns the packets it speaks of.
LEMMA ConditionHolds ==
    ASSUME NEW document, IsDocument(document), Faults(document) = {},
           NEW r \in Statements(document), MeantCondition(r.condition).set,
           NEW packet, packet.source \in AddressType,
           NEW address \in AddressType
    PROVE  Check(MeantCondition(r.condition).value, packet, address)
             <=> Concerns(r.condition, packet, address)
  <1> DEFINE c == r.condition
             v == [type |-> c.type, from |-> MeantOption(c.from, MeantSubnet),
                   to |-> MeantOption(c.to, MeantSubnet)]
  <1>1. MeantCondition(c).value = v
    BY DEF MeantCondition, Set, Unset
  <1>2. /\ v.type = c.type
        /\ v.from = MeantOption(c.from, MeantSubnet)
        /\ v.to = MeantOption(c.to, MeantSubnet)
    OBVIOUS
  <1> HIDE DEF v
  <1>3. (v.from.set => SubnetContains(v.from.value, packet.source))
          <=> (c.from.set => Within(c.from.value, packet.source))
    BY <1>2, StatedSubnets, OptionHolds
  <1>4. (v.to.set => SubnetContains(v.to.value, address))
          <=> (c.to.set => Within(c.to.value, address))
    BY <1>2, StatedSubnets, OptionHolds
  <1> QED
    BY <1>1, <1>2, <1>3, <1>4 DEF Check, Concerns

LEMMA ConditionsFromMeaning ==
    ASSUME situation \in Situations, BuiltAsWritten
    PROVE  ConditionsAsWritten
  <1> DEFINE document == situation.document
  <1> SUFFICES ASSUME Intact, phase = "running",
                      NEW name \in ChainNames(document),
                      NEW i \in DOMAIN app.filter.chains[name].rules,
                      app.filter.chains[name].rules[i].condition.set,
                      NEW probe \in Probes
               PROVE  Check(app.filter.chains[name].rules[i].condition.value,
                            probe.packet, probe.address)
                        <=> Concerns(StatementsOf(document, name)[i].condition,
                                     probe.packet, probe.address)
    BY DEF ConditionsAsWritten
  <1>1. IsDocument(document) /\ Faults(document) = {}
    BY SituationsAssumption DEF BuiltAsWritten
  <1>2. app.filter.chains[name] = MeantChain(document, name)
    BY DEF BuiltAsWritten, Taken, Application, MeantFilter
  <1> DEFINE r == StatementsOf(document, name)[i]
  <1>3. /\ i \in DOMAIN StatementsOf(document, name)
        /\ app.filter.chains[name].rules[i] = MeantRule(r)
    BY <1>2 DEF MeantChain
  <1>4. r \in Statements(document)
    BY <1>3 DEF Statements, ToSet
  <1>5. MeantRule(r).condition = MeantCondition(r.condition)
    BY DEF MeantRule
  <1>6. /\ probe.packet.source \in AddressType
        /\ probe.address \in AddressType
    BY ProbesAssumption
  <1> HIDE DEF document, r
  <1>7. Check(MeantCondition(r.condition).value, probe.packet, probe.address)
          <=> Concerns(r.condition, probe.packet, probe.address)
    BY <1>1, <1>3, <1>4, <1>5, <1>6, ConditionHolds
  <1> QED
    BY <1>3, <1>5, <1>7 DEF r

LEMMA SituationStays == Spec => [](situation \in Situations)
  <1>1. Init => situation \in Situations
    BY DEF Init
  <1>2. situation \in Situations /\ [Next]_vars => (situation \in Situations)'
    BY DEF Next, vars, Mistype, Catch, Inform, Refuse, Choose, Parse,
           PrintTree, Make
  <1> QED
    BY <1>1, <1>2, PTL DEF Spec

(***************************************************************************)
(* If what was built is what the document means, its conditions hold for   *)
(* exactly the packets the words of the document speak of: whatever the    *)
(* document, its subnets and the addresses.                                *)
(***************************************************************************)
THEOREM ConditionsHold == Spec /\ []BuiltAsWritten => []ConditionsAsWritten
  BY SituationStays, ConditionsFromMeaning, PTL
=============================================================================
