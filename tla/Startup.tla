------------------------------ MODULE Startup ------------------------------
(***************************************************************************)
(* main from the command line to a running application (mavtables.cpp,     *)
(* Options.cpp, Logger::level and what ConfigParser makes of the file).    *)
(* The author of the file has a document in mind and may make slips when   *)
(* writing it down; the program only sees the text.                        *)
(***************************************************************************)
EXTENDS ConfigParser, Documents

CONSTANTS
    Situations,   \* command line, environment and document of a start
    Slip,         \* lexemes that may be typed by mistake
    Probes,       \* packets with the address they would be sent to
    Parsed(_),    \* the constructor of ConfigParser: error and tree of a text
    TreeLines(_, _, _)    \* the lines of a syntax tree

ASSUME SituationsAssumption == \A s \in Situations : IsDocument(s.document)
ASSUME ProbesAssumption ==
    \A probe \in Probes : /\ probe.packet.source \in AddressType
                          /\ probe.address \in AddressType

VARIABLES
    situation,    \* never changes
    slips,        \* how many slips may still be made
    text,         \* the text of the configuration file
    phase,        \* "start", "options", "tree", "running" or "over"
    config_file,  \* which file was chosen, "none" before
    parsed,       \* error and tree of the parser
    printed,      \* lines of the syntax tree on standard output
    loglevel,     \* Logger::level_
    app,          \* what make_app returned, or Nothing
    error         \* what main caught, "none" if nothing

vars == <<situation, slips, text, phase, config_file, parsed, printed,
          loglevel, app, error>>

Nothing == [filter |-> "none"]
Unparsed == [error |-> "none", tree |-> Root]

-----------------------------------------------------------------------------
(* Options *)

Arguments == situation.arguments
Exists(path) == path \in situation.files

\* The environment variables that are set name these files.
Candidates == <<"MAVTABLES_CONFIG_PATH", "./.mavtablesrc",
                "$HOME/.mavtablesrc", "PREFIX/etc/mavtables.conf">>
IsSet(path) == path \notin situation.unset

\* Mutant of find_config: the installed file comes first.
find_config_installed ==
    LET found == {i \in DOMAIN Candidates :
                    IsSet(Candidates[i]) /\ Exists(Candidates[i])}
    IN  IF found = {} THEN Unset ELSE Set(Candidates[Max(found)])

find_config ==
    LET found == {i \in DOMAIN Candidates :
                    IsSet(Candidates[i]) /\ Exists(Candidates[i])}
    IN  IF found = {} THEN Unset ELSE Set(Candidates[Min(found)])

ConfigFile ==
    CASE Arguments.config /\ Exists("given") -> Set("given")
      [] Arguments.config /\ ~ Exists("given") -> Unset
      [] OTHER -> find_config

-----------------------------------------------------------------------------

Init ==
    /\ situation \in Situations
    /\ slips = situation.slips
    /\ text = Render(situation.document)
    /\ phase = "start"
    /\ config_file = "none"
    /\ parsed = Unparsed
    /\ printed = <<>>
    /\ loglevel = 0
    /\ app = Nothing
    /\ error = "none"

Mistyped(t) ==
    {RemoveAt(t, i) : i \in DOMAIN t} \cup
    {InsertAt(t, i, l) : i \in DOMAIN t, l \in Slip} \cup
    {t \o <<l>> : l \in Slip}

Mistype ==
    /\ phase = "start"
    /\ slips > 0
    /\ slips' = slips - 1
    /\ text' \in Mistyped(text)
    /\ UNCHANGED <<situation, phase, config_file, parsed, printed, loglevel,
                   app, error>>

\* The catch of main: an error message and EXIT_FAILURE.
Catch(e) ==
    /\ phase' = "over"
    /\ error' = e
    /\ UNCHANGED <<situation, slips, text, config_file, printed, loglevel,
                   app>>

\* --help and --version: the options are false and main returns.
Inform ==
    /\ phase = "start"
    /\ Arguments.valid
    /\ Arguments.inform
    /\ phase' = "over"
    /\ UNCHANGED <<situation, slips, text, config_file, parsed, printed,
                   loglevel, app, error>>

\* An argument program_options refuses, or no file to be found.
Refuse ==
    /\ phase = "start"
    /\ ~ Arguments.valid \/ (~ Arguments.inform /\ ~ ConfigFile.set)
    /\ Catch(IF Arguments.valid THEN "no configuration file" ELSE "usage")
    /\ UNCHANGED parsed

Choose ==
    /\ phase = "start"
    /\ Arguments.valid /\ ~ Arguments.inform
    /\ ConfigFile.set
    /\ config_file' = ConfigFile.value
    /\ phase' = "options"
    /\ UNCHANGED <<situation, slips, text, parsed, printed, loglevel, app,
                   error>>

\* ConfigParser(config_file); without a tree it throws runtime_error.
Parse ==
    /\ phase = "options"
    /\ parsed' = Parsed(text)
    /\ IF parsed'.error # "none" THEN Catch(parsed'.error)
       ELSE /\ phase' = "tree"
            /\ UNCHANGED <<situation, slips, text, config_file, printed,
                           loglevel, app, error>>

\* --ast prints the tree and leaves it at that.
PrintTree ==
    /\ phase = "tree"
    /\ Arguments.ast
    /\ printed' = TreeLines(parsed.tree, text, 0)
    /\ phase' = "over"
    /\ UNCHANGED <<situation, slips, text, config_file, parsed, loglevel, app,
                   error>>

\* make_app, whose error leaves the log level set, and App::run.
Begin(made) ==
    IF Good(made)
      THEN /\ app' = made.value
           /\ phase' = "running"
           /\ UNCHANGED error
      ELSE /\ error' = made.error
           /\ phase' = "over"
           /\ UNCHANGED app

Make ==
    /\ phase = "tree"
    /\ ~ Arguments.ast
    /\ loglevel' = Arguments.loglevel
    /\ Begin(make_app(parsed.tree, text))
    /\ UNCHANGED <<situation, slips, text, config_file, parsed, printed>>

Next == Mistype \/ Inform \/ Refuse \/ Choose \/ Parse \/ PrintTree \/ Make

Spec == Init /\ [][Next]_vars

-----------------------------------------------------------------------------
(* Properties *)

Errors == {"none", "usage", "no configuration file", "nullptr",
           "invalid_argument", "out_of_range", "unsupported_statement",
           "invalid_rule", "eos", "opening_brace", "closing_brace",
           "default_action_option", "port", "address", "max_bitrate",
           "device", "baudrate", "flow_control", "preload", "call", "goto_",
           "chain", "source", "dest", "condition_value", "mavaddr",
           "integer", "priority", "priority_keyword", "elements"}

(***************************************************************************)
(* Types.  In particular the parser fails only with one of the messages    *)
(* config_grammar.cpp has: no assertion of parse_tree.hpp fails, whatever  *)
(* was typed, and replace_with_first_child always finds a first child.     *)
(***************************************************************************)
TypeOK ==
    /\ situation \in Situations
    /\ slips \in 0 .. situation.slips
    /\ text \in Seq(STRING)
    /\ phase \in {"start", "options", "tree", "running", "over"}
    /\ config_file \in {"none", "given"} \cup ToSet(Candidates)
    /\ parsed.error \in Errors
    /\ loglevel \in Nat
    /\ phase = "running" => IsApp(app)
    /\ error \in Errors

Intact == slips = situation.slips
IsTree == phase = "tree"

\* The text without blanks and comments.
Stripped(t) ==
    LET Keep(acc, l) ==
          CASE acc.comment -> [acc EXCEPT !.comment = l # "\n"]
            [] l = "#" -> [acc EXCEPT !.comment = TRUE]
            [] l \in Blanks -> acc
            [] OTHER -> [acc EXCEPT !.kept = Append(@, l)]
    IN  FoldLeft(Keep, [comment |-> FALSE, kept |-> <<>>], t).kept

\* The text a tree stands for.
Spelled(tree, t) ==
    LET Rest(nodes, Of(_)) == FlattenSeq([i \in DOMAIN nodes |-> Of(nodes[i])])
        Word(node) == Content(node, t)
        Part(node) == (CASE node.name = "source" -> <<"from">>
                         [] node.name = "dest" -> <<"to">>
                         [] OTHER -> <<>>) \o Word(node)
        Option(node) == IF node.name = "priority"
                        THEN <<"with", "priority">> \o Word(node)
                        ELSE <<"if">> \o Rest(node.children, Part)
        Rule(node) == (CASE node.name = "call" -> <<"call">> \o Word(node)
                         [] node.name = "goto_" -> <<"goto">> \o Word(node)
                         [] OTHER -> <<node.name>>)
                      \o Rest(node.children, Option) \o <<";">>
        SettingOf(node) == <<node.name>> \o Word(node) \o <<";">>
        Top(node) ==
          CASE node.name = "default_action" ->
                 <<"default_action", node.children[1].name, ";">>
            [] node.name = "chain" ->
                 <<"chain">> \o Word(node) \o <<"{">> \o
                 Rest(node.children, Rule) \o <<"}">>
            [] OTHER -> <<node.name, "{">> \o Rest(node.children, SettingOf)
                        \o <<"}">>
    IN  Rest(tree.children, Top)

(***************************************************************************)
(* Whatever was typed: a text the parser accepts is, but for blanks and    *)
(* comments, what its tree says, no more and no less.  So nothing a choice *)
(* of the grammar has tried and taken back stays in the tree, and no       *)
(* statement, rule or option of the text is lost on the way, neither to a  *)
(* transform that replaces nodes nor to a rule that matches too little.    *)
(***************************************************************************)
TreeIsText == IsTree => Spelled(parsed.tree, text) = Stripped(text)

(***************************************************************************)
(* A document that was written down without a slip is understood as it was *)
(* meant: chains of the same name in one, rules in their order, chains     *)
(* that are defined behind their use, the last default action, the last of *)
(* each setting and the defaults; one with mistakes ends the program with  *)
(* an exception for one of them, before anything runs.  In three points    *)
(* this is not what configuration.md says: Omissions are no mistakes, and  *)
(* flow control that was turned on stays on (see AsDocumented).            *)
(***************************************************************************)
BuiltAsWritten ==
    Intact =>
        /\ phase = "running" => /\ Faults(situation.document) = {}
                                /\ app = Taken(situation.document)
        /\ phase = "over" /\ config_file # "none" /\ ~ Arguments.ast =>
               error \in Faults(situation.document)

(***************************************************************************)
(* What configuration.md says: the default chain "must exist" (:376), the  *)
(* port is "the only required statement in a udp block" (:206), and        *)
(* "flow_control no" is there "to turn off hardware flow control" (:314).  *)
(* So no application is made of a document without the first two, and it   *)
(* is the one the document means.                                          *)
(***************************************************************************)
AsDocumented ==
    Intact /\ phase = "running" =>
        /\ Omissions(situation.document) = {}
        /\ app = Meaning(situation.document)

(***************************************************************************)
(* The conditions that were built hold for exactly the packets the words   *)
(* of the document speak of: the bits of /n and \n are counted from the    *)
(* side and in the byte the documentation says.                            *)
(***************************************************************************)
ConditionsAsWritten ==
    Intact /\ phase = "running" =>
        \A name \in ChainNames(situation.document) :
            LET meant == StatementsOf(situation.document, name)
                built == app.filter.chains[name].rules
            IN  \A i \in DOMAIN built : built[i].condition.set =>
                    \A probe \in Probes :
                        Check(built[i].condition.value, probe.packet,
                              probe.address)
                          <=> Concerns(meant[i].condition, probe.packet,
                                       probe.address)

\* A printed chain alone, as a configuration, with the chains there are.
ReadTree(p, Step(_)) == IF p.error = "none" THEN Step(p.tree)
                                            ELSE Throws(p.error)
Becomes(result, v) == Good(result) /\ result.value = v

ReadBack(c, t, chains) ==
    ReadTree(Parsed(t), LAMBDA tree :
             parse_chain(Chain(c.name), tree.children[1], t, chains))

InterfaceReadBack(t) ==
    ReadTree(Parsed(t), LAMBDA tree : parse_interfaces(tree, t))

WithoutPreload(i) ==
    IF i.kind = "serial" THEN [i EXCEPT !.preload = <<>>] ELSE i

(***************************************************************************)
(* What the application prints of its chains and interfaces is             *)
(* configuration again: the parser makes the same rules and settings of    *)
(* it, masks and signs of priorities included.  (A serial interface does   *)
(* not print its preloaded addresses.)                                     *)
(***************************************************************************)
PrintedReadsBack ==
    phase = "running" =>
        /\ \A name \in DOMAIN app.filter.chains :
               LET c == app.filter.chains[name]
               IN  Becomes(ReadBack(c, PrintChain(c),
                                    DOMAIN app.filter.chains), c)
        /\ \A i \in DOMAIN app.interfaces :
               LET made == app.interfaces[i]
               IN  Becomes(InterfaceReadBack(PrintInterface(made)),
                           <<WithoutPreload(made)>>)

-----------------------------------------------------------------------------
(* Comparisons of what was built *)

RulesBuilt == UNION {ToSet(app.filter.chains[n].rules) :
                       n \in DOMAIN app.filter.chains}
UDPBuilt == {i \in ToSet(app.interfaces) : i.kind = "udp"}
SocketAddresses ==
    {WithPort(i.address.value, j.port).value :
       i \in {x \in UDPBuilt : x.address.set}, j \in UDPBuilt}
Preloads == UNION {ToSet(i.preload) :
                     i \in {x \in ToSet(app.interfaces) : x.kind = "serial"}}

ConditionsBuilt == {r.condition.value : r \in {x \in RulesBuilt :
                                                 x.condition.set}}
SubnetsBuilt ==
    UNION {{o.value : o \in {x \in {c.from, c.to} : x.set}} :
             c \in ConditionsBuilt}

ExactlyOne(p, q, r) == /\ p \/ q \/ r
                       /\ ~ (p /\ q) /\ ~ (p /\ r) /\ ~ (q /\ r)

\* A total order whose six operators agree.
Ordered(S, Less(_, _), Greater(_, _), Equal(_, _), Unequal(_, _),
        AtMost(_, _), AtLeast(_, _)) ==
    \A a, b \in S :
        /\ ExactlyOne(Less(a, b), a = b, Greater(a, b))
        /\ Less(a, b) <=> Greater(b, a)
        /\ Equal(a, b) <=> a = b
        /\ Unequal(a, b) <=> a # b
        /\ AtMost(a, b) <=> Less(a, b) \/ a = b
        /\ AtLeast(a, b) <=> Greater(a, b) \/ a = b
        /\ \A c \in S : Less(a, b) /\ Less(b, c) => Less(a, c)

(***************************************************************************)
(* The keys of the maps are in a total order: the IP addresses by which    *)
(* the UDP interface knows its peers and the MAVLink addresses of the      *)
(* pools.  Two rules are equal just if they do the same, a copied chain    *)
(* has the rules of the original, options included; and the constructors   *)
(* from numbers and from bytes make the addresses and subnets that the     *)
(* texts made.                                                             *)
(***************************************************************************)
ComparisonsAgree ==
    phase = "running" =>
        /\ Ordered(SocketAddresses, IPAddressLess, IPAddressGreater,
                   IPAddressEqual, IPAddressUnequal, IPAddressAtMost,
                   IPAddressAtLeast)
        /\ Ordered(Preloads, MAVAddressLess, MAVAddressGreater,
                   MAVAddressEqual, MAVAddressUnequal, MAVAddressAtMost,
                   MAVAddressAtLeast)
        /\ \A a, b \in RulesBuilt : /\ RuleEqual(a, b) <=> a = b
                                    /\ RuleUnequal(a, b) <=> a # b
        /\ \A a \in Preloads : /\ MAVAddress(a) = Value(a)
                               /\ construct(System(a), Component(a)) = Value(a)
        /\ \A a \in SubnetsBuilt :
               /\ MAVSubnet(a.address, a.mask) = Value(a)
               /\ MAVSubnetOfBytes(a.address, System(a.mask),
                                   Component(a.mask)) = Value(a)
               /\ \A b \in SubnetsBuilt : /\ MAVSubnetEqual(a, b) <=> a = b
                                          /\ MAVSubnetUnequal(a, b) <=> a # b
        /\ \A n \in DOMAIN app.filter.chains :
               LET c == app.filter.chains[n]
               IN  /\ CopyOfChain(c) = c
                   /\ ~ ChainUnequal(CopyOfChain(c), c)
        /\ FilterEqual(app.filter, app.filter)
        /\ ~ FilterUnequal(app.filter, app.filter)

(***************************************************************************)
(* The application is made of the file the user would expect: the one that *)
(* was named, and no other if that is missing; else the first that exists  *)
(* of those Options.cpp lists, a variable that is not set naming none.     *)
(* Whoever asks for help, the version or the tree gets no application, and *)
(* no application runs with a log level that was not asked for.            *)
(***************************************************************************)
Earlier(i) == {Candidates[j] : j \in 1 .. i - 1} \ situation.unset
RightFile ==
    /\ config_file = "given" <=> config_file # "none" /\ Arguments.config
    /\ config_file # "none" => config_file \in situation.files
    /\ \A i \in DOMAIN Candidates :
           config_file = Candidates[i] =>
               /\ IsSet(Candidates[i])
               /\ Earlier(i) \cap situation.files = {}
    /\ phase = "over" /\ config_file = "none" =>
           \/ ~ Arguments.valid \/ Arguments.inform
           \/ Arguments.config /\ "given" \notin situation.files
           \/ /\ ~ Arguments.config
              /\ (ToSet(Candidates) \ situation.unset) \cap situation.files = {}
    /\ phase = "running" <=> app # Nothing
    /\ Arguments.inform \/ Arguments.ast => app = Nothing /\ loglevel = 0
    /\ phase = "running" => loglevel = Arguments.loglevel
=============================================================================
