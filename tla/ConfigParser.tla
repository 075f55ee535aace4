----------------------------- MODULE ConfigParser -----------------------------
(***************************************************************************)
(* From the syntax tree to the application (src/src/ConfigParser.cpp):     *)
(* chains, default action and interfaces.  The functions of the source     *)
(* take the parts of the tree one after another; the first exception ends  *)
(* the construction.                                                       *)
(***************************************************************************)
EXTENDS Rules, ParseTree

DefaultName == <<"default">>

\* std::stoi; the longest numbers here fit into what std::stol returns.
Stoi(t) == IF ReadInteger(t) \in {Huge, 0 - Huge} THEN Throws("out_of_range")
                                                  ELSE Value(ReadInteger(t))

Named(nodes, name) == SelectSeq(nodes, LAMBDA n : n.name = name)

-----------------------------------------------------------------------------
(* The filter *)

\* The names of the chains; there is a chain for each from the start.
init_chains(root, text) ==
    {Content(n, text) : n \in ToSet(Named(root.children, "chain"))}
        \ {DefaultName}

parse_condition(node, text) ==
    LET Step(condition, child) ==
          CASE child.name = "packet_type" ->
                 WithType(condition, Content(child, text))
            [] child.name = "source" -> From(condition, Content(child, text))
            [] child.name = "dest" -> To(condition, Content(child, text))
    IN  FoldLeft(LAMBDA acc, child : Then(acc, LAMBDA c : Step(c, child)),
                 Value(If), node.children)

\* chains.at; call and goto refuse the default chain.
target(node, text, chains) ==
    LET name == Content(node, text)
    IN  CASE name = DefaultName -> Throws("invalid_argument")
          [] name \in chains -> Value(name)
          [] OTHER -> Throws("out_of_range")

parse_action(node, text, chains, priority, condition) ==
    CASE node.name = "accept" -> Value(Accept(priority, condition))
      [] node.name = "reject" -> Value(Reject(condition))
      [] node.name = "call" -> Then(target(node, text, chains),
                  LAMBDA name : Value(Call(name, priority, condition)))
      [] node.name = "goto_" -> Then(target(node, text, chains),
                  LAMBDA name : Value(GoTo(name, priority, condition)))

\* The options of a rule, then the rule itself.
RuleOf(node, text, chains) ==
    LET Step(options, child) ==
          CASE child.name = "priority" ->
                 Then(Stoi(Content(child, text)), LAMBDA n :
                      Value([options EXCEPT !.priority = Set(n)]))
            [] child.name = "condition" ->
                 Then(parse_condition(child, text), LAMBDA c :
                      Value([options EXCEPT !.condition = Set(c)]))
        options ==
          FoldLeft(LAMBDA acc, child : Then(acc, LAMBDA o : Step(o, child)),
                   Value([priority |-> Unset, condition |-> Unset]),
                   node.children)
    IN  Then(options, LAMBDA o : parse_action(node, text, chains,
                                              o.priority, o.condition))

parse_chain(c, node, text, chains) ==
    FoldLeft(LAMBDA acc, child :
               Then(acc, LAMBDA d :
                 Then(RuleOf(child, text, chains), LAMBDA r :
                      Value(WithRule(d, r)))),
             Value(c), node.children)

\* Mutant of ChainOf: every block of a chain starts it anew.
ChainOfBlock(f, name) == Chain(name)

\* Blocks of the same name add to the same chain.
ChainOf(f, name) == f.chains[name]

parse_filter(root, text) ==
    LET names == init_chains(root, text)
        Step(f, node) ==
          CASE node.name = "chain" ->
                 Then(parse_chain(ChainOf(f, Content(node, text)), node, text,
                                  names),
                      LAMBDA c : Value([f EXCEPT !.chains[c.name] = c]))
            [] node.name = "default_action" ->
                 Value([f EXCEPT !.accept = node.children[1].name = "accept"])
            [] OTHER -> Value(f)
        empty == [chains |-> [n \in names \cup {DefaultName} |-> Chain(n)],
                  accept |-> FALSE]
    IN  Then(FoldLeft(LAMBDA acc, node : Then(acc, LAMBDA f : Step(f, node)),
                      Value(empty), root.children),
             LAMBDA f : Value([default_chain |-> f.chains[DefaultName],
                               chains |-> f.chains,
                               accept |-> f.accept]))

-----------------------------------------------------------------------------
(* The interfaces *)

\* UnixUDPSocket keeps 16 bits of the port.
UnixUDPSocket(settings) == [settings EXCEPT !.port = @ % 65536]

parse_udp(node, text) ==
    LET Step(u, child) ==
          LET t == Content(child, text)
          IN CASE child.name = "port" ->
                    Value([u EXCEPT !.port = ReadInteger(t)])
               [] child.name = "address" ->
                    Then(IPAddressOf(t), LAMBDA a :
                         Value([u EXCEPT !.address = Set(a)]))
               [] child.name = "max_bitrate" ->
                    Value([u EXCEPT !.max_bitrate = ReadInteger(t)])
        settings ==
          FoldLeft(LAMBDA acc, child : Then(acc, LAMBDA u : Step(u, child)),
                   Value([kind |-> "udp", port |-> 14500, address |-> Unset,
                          max_bitrate |-> 0]),
                   node.children)
    IN  Then(settings, LAMBDA u : Value(UnixUDPSocket(u)))

\* speed_constant_
Speeds == {0, 50, 75, 110, 134, 135, 150, 200, 300, 600, 1200, 1800, 2400,
           4800, 9600, 19200, 38400, 57600, 115200, 230400}

\* The constructor opens the device and configures it.
UnixSerialPort(settings) ==
    IF settings.baudrate \in Speeds THEN Value(settings)
                                    ELSE Throws("invalid_argument")

parse_serial(node, text) ==
    LET Step(p, child) ==
          LET t == Content(child, text)
          IN CASE child.name = "device" -> Value([p EXCEPT !.device = Set(t)])
               [] child.name = "baudrate" ->
                    Value([p EXCEPT !.baudrate = ReadInteger(t)])
               [] child.name = "flow_control" ->
                    Value([p EXCEPT !.flow_control = @ \/ t = <<"yes">>])
               [] child.name = "preload" ->
                    Then(MAVAddressOf(t), LAMBDA a :
                         Value([p EXCEPT !.preload = Append(@, a)]))
        settings ==
          FoldLeft(LAMBDA acc, child : Then(acc, LAMBDA p : Step(p, child)),
                   Value([kind |-> "serial", device |-> Unset,
                          baudrate |-> 9600, flow_control |-> FALSE,
                          preload |-> <<>>]),
                   node.children)
    IN  Then(settings, LAMBDA p :
             IF ~ p.device.set THEN Throws("invalid_argument")
                               ELSE UnixSerialPort(p))

parse_interfaces(root, text) ==
    LET Step(made, node) ==
          CASE node.name = "udp" ->
                 Then(parse_udp(node, text), LAMBDA i : Value(Append(made, i)))
            [] node.name = "serial" ->
                 Then(parse_serial(node, text), LAMBDA i :
                      Value(Append(made, i)))
            [] OTHER -> Value(made)
    IN  FoldLeft(LAMBDA acc, node : Then(acc, LAMBDA made : Step(made, node)),
                 Value(<<>>), root.children)

\* The interfaces print themselves as the blocks they were made from, except
\* for the preloaded addresses.
Setting(name, t) == <<" ", name, " ">> \o t \o <<";", "\n">>
Block(name, settings) == <<name, " ", "{", "\n">> \o settings \o <<"}">>

PrintUDP(u) == Block("udp",
    Setting("port", PrintInteger(u.port)) \o
    (IF u.address.set THEN Setting("address", PrintIPAddress(u.address.value))
                      ELSE <<>>) \o
    (IF u.max_bitrate # 0
       THEN Setting("max_bitrate", PrintInteger(u.max_bitrate)) ELSE <<>>))

PrintSerial(p) == Block("serial",
    Setting("device", p.device.value) \o
    Setting("baudrate", PrintInteger(p.baudrate)) \o
    Setting("flow_control", <<IF p.flow_control THEN "yes" ELSE "no">>))

PrintInterface(i) == IF i.kind = "udp" THEN PrintUDP(i) ELSE PrintSerial(i)

-----------------------------------------------------------------------------

IsInterface(i) ==
    \/ i \in [kind : {"udp"}, port : PortType,
              address : OptionalOf(IPAddressType), max_bitrate : Nat]
    \/ i \in [kind : {"serial"}, device : OptionalOf(Seq(STRING)),
              baudrate : Speeds, flow_control : BOOLEAN,
              preload : Seq(AddressType)]
IsApp(made) ==
    IsFilter(made.filter) /\ \A i \in ToSet(made.interfaces) : IsInterface(i)

make_app(root, text) ==
    Then(parse_filter(root, text), LAMBDA f :
         Then(parse_interfaces(root, text), LAMBDA made :
              Value([filter |-> f, interfaces |-> made])))
=============================================================================
