------------------------------- MODULE Grammar -------------------------------
(***************************************************************************)
(* The grammar of the configuration file (src/src/config_grammar.hpp), a   *)
(* parsing expression grammar: choices are ordered, repetitions greedy,    *)
(* and must turns a failure into a parse_error that nothing takes back.    *)
(* A rule is a value here, which Match interprets; the definitions bear    *)
(* the names of the source.  Spaces, tabs and line ends are Blanks.        *)
(***************************************************************************)
EXTENDS Text, ParseTree

-----------------------------------------------------------------------------
(* The combinators of the parser library *)

one(lexemes) == [op |-> "one", of |-> lexemes]
seq(rules)   == [op |-> "seq", of |-> rules]
sor(rules)   == [op |-> "sor", of |-> rules]
star(r)      == [op |-> "star", of |-> r]
must(r)      == [op |-> "must", of |-> r]
not_at(r)    == [op |-> "not_at", of |-> r]
eof          == [op |-> "eof"]
any          == [op |-> "any"]
failure      == sor(<<>>)
success      == seq(<<>>)
plus(r)      == seq(<<r, star(r)>>)
opt(r)       == sor(<<r, success>>)
keyword(k)   == one({k})
if_must(c, rules) == seq(<<c>> \o [i \in DOMAIN rules |-> must(rules[i])])

\* A rule with a name: must reports it, and store says how it is kept.
named(name, r)     == [op |-> "rule", name |-> name, how |-> "no", of |-> r]
stored(name, how, r) == [op |-> "rule", name |-> name, how |-> how, of |-> r]

NameOf(r) == IF r.op = "rule" THEN r.name ELSE "unnamed"

Take(s, text, isThere) ==
    IF isThere /\ s.at <= Len(text) THEN [s EXCEPT !.at = @ + 1]
                                    ELSE [s EXCEPT !.ok = FALSE]

\* What failed has used up no input; an error that was raised stays.
Rewound(t, s) == IF t.ok THEN t ELSE [t EXCEPT !.at = s.at]
Retry(t) == [t EXCEPT !.ok = TRUE]
Raise(s, name) == [s EXCEPT !.error = name, !.ok = FALSE]

RECURSIVE Match(_, _, _)

MatchAll(rules, text, s) ==
    LET Next(t, r) == IF t.ok THEN Match(r, text, t) ELSE t
    IN  Rewound(FoldLeft(Next, s, rules), s)

MatchFirst(rules, text, s) ==
    LET Next(t, r) == IF t.ok \/ Raised(t) THEN t
                                           ELSE Match(r, text, Retry(t))
    IN  FoldLeft(Next, [s EXCEPT !.ok = FALSE], rules)

MatchMany(r, text, s) ==
    LET t == Match(r, text, s)
    IN  CASE t.ok -> Match(star(r), text, t)
          [] ~ t.ok /\ Raised(t) -> t
          [] OTHER -> Retry(Rewound(t, s))

MatchMust(r, text, s) ==
    LET t == Match(r, text, s)
    IN  IF t.ok \/ Raised(t) THEN t ELSE Raise(t, NameOf(r))

MatchStored(r, text, s) ==
    LET t == Match(r.of, text, Start(s, r.name))
    IN  CASE t.ok -> Success(t, r.how)
          [] ~ t.ok /\ Raised(t) -> t
          [] OTHER -> Failure(t)

Match(r, text, s) ==
    CASE r.op = "one"    -> Take(s, text, s.at <= Len(text)
                                          /\ text[s.at] \in r.of)
      [] r.op = "any"    -> Take(s, text, TRUE)
      [] r.op = "eof"    -> [s EXCEPT !.ok = s.at > Len(text)]
      [] r.op = "not_at" -> [s EXCEPT !.ok = ~ Match(r.of, text, s).ok]
      [] r.op = "seq"    -> MatchAll(r.of, text, s)
      [] r.op = "sor"    -> MatchFirst(r.of, text, s)
      [] r.op = "star"   -> MatchMany(r.of, text, s)
      [] r.op = "must"   -> MatchMust(r.of, text, s)
      [] r.op = "rule"   -> IF r.how = "no" THEN Match(r.of, text, s)
                                            ELSE MatchStored(r, text, s)

-----------------------------------------------------------------------------
(* Characters *)

eol        == one({"\n"})
space      == one(Blanks)
alpha      == Words \cup {"_"}
identifier == seq(<<one(alpha), star(one(alpha \cup Numerals))>>)

comment == seq(<<keyword("#"), star(seq(<<not_at(eol), not_at(eof), any>>))>>)
ignored == sor(<<space, comment>>)

p(n) == seq(<<star(ignored), n, star(ignored)>>)

-----------------------------------------------------------------------------
(* Statements and blocks *)

eos == named("eos", one({";"}))
a0_statement(k) == seq(<<k, p(must(eos))>>)
a1_statement(k, v) == seq(<<k, p(must(v)), p(must(eos))>>)

opening_brace == named("opening_brace", one({"{"}))
closing_brace == named("closing_brace", one({"}"}))
t_block(k, statements) ==
    seq(<<k, p(must(opening_brace)), star(p(sor(statements))),
          p(must(closing_brace))>>)
t_named_block(k, n, statements) ==
    seq(<<k, p(must(n)), p(must(opening_brace)), star(p(sor(statements))),
          p(must(closing_brace))>>)

-----------------------------------------------------------------------------
(* Values *)

yesno          == one({"yes", "no"})
integer        == named("integer", plus(one(Numerals)))
signed_integer == seq(<<opt(one({"+", "-"})), integer>>)
mavaddr        == named("mavaddr", seq(<<integer, one({"."}), integer>>))
full_mask      == if_must(one({":"}), <<mavaddr>>)
forward_mask   == if_must(one({"/"}), <<integer>>)
backward_mask  == if_must(one({"\\"}), <<integer>>)
mavmask ==
    seq(<<mavaddr, opt(sor(<<full_mask, forward_mask, backward_mask>>))>>)

port == stored("port", "yes", integer)
address == stored("address", "yes",
    LET next == seq(<<one({"."}), integer>>)
    IN  seq(<<integer, next, next, next>>))
max_bitrate  == stored("max_bitrate", "yes", integer)
device       == stored("device", "yes",
                       plus(one(Words \cup Numerals \cup {".", "_", "/"})))
baudrate     == stored("baudrate", "yes", integer)
flow_control == stored("flow_control", "yes", yesno)
preload      == stored("preload", "yes", mavaddr)

-----------------------------------------------------------------------------
(* Filter rules *)

accept == stored("accept", "bare", keyword("accept"))
reject == stored("reject", "bare", keyword("reject"))
call   == stored("call", "yes", identifier)
goto_  == stored("goto_", "yes", identifier)
call_container == stored("call_container", "first",
                         seq(<<keyword("call"), p(must(call))>>))
goto_container == stored("goto_container", "first",
                         seq(<<keyword("goto"), p(must(goto_))>>))
action == sor(<<accept, reject, call_container, goto_container>>)

packet_type == stored("packet_type", "yes",
                      plus(one(Types \cup Numerals \cup {"_"})))
source == stored("source", "yes", mavmask)
source_command == seq(<<keyword("from"), p(must(source))>>)
dest == stored("dest", "yes", mavmask)
dest_command == seq(<<keyword("to"), p(must(dest))>>)
start_with_packet_type ==
    seq(<<packet_type, opt(p(source_command)), opt(p(dest_command))>>)
start_with_source == seq(<<source_command, opt(p(dest_command))>>)
start_with_dest == dest_command
condition_value == named("condition_value",
    p(sor(<<start_with_packet_type, start_with_source, start_with_dest>>)))
condition == stored("condition", "bare",
                    if_must(keyword("if"), <<condition_value>>))

priority == stored("priority", "yes", signed_integer)
priority_keyword == named("priority_keyword", keyword("priority"))
priority_command ==
    seq(<<keyword("with"), p(must(priority_keyword)), p(must(priority))>>)

\* What is there instead of a statement or a rule raises an error in any case.
unsupported_statement == named("unsupported_statement", failure)
sa0_catch == if_must(a0_statement(identifier), <<unsupported_statement>>)
not_eos == star(seq(<<not_at(eos), any>>))
sa1_catch ==
    if_must(a1_statement(identifier, not_eos), <<unsupported_statement>>)
s_catch == sor(<<sa0_catch, sa1_catch>>)

invalid_rule == named("invalid_rule", failure)
sa0_rule_catch == if_must(a0_statement(identifier), <<invalid_rule>>)
sa1_rule_catch == if_must(a1_statement(identifier, not_eos), <<invalid_rule>>)
rule_catch == sor(<<sa0_rule_catch, sa1_rule_catch>>)

\* Mutant of rule: the condition may come before the priority only.
rule_condition_first == stored("rule", "first",
    if_must(sor(<<action, rule_catch>>),
            <<opt(p(condition)), opt(p(priority_command)), eos>>))

rule == stored("rule", "first",
    if_must(sor(<<action, rule_catch>>),
            <<opt(p(priority_command)), opt(p(condition)), eos>>))
chain == stored("chain", "yes", identifier)
chain_container == stored("chain_container", "first",
    t_named_block(keyword("chain"), chain, <<rule>>))

default_action_option == named("default_action_option",
                               sor(<<accept, reject>>))
default_action == stored("default_action", "bare",
    a1_statement(keyword("default_action"), default_action_option))

-----------------------------------------------------------------------------
(* Interfaces and the whole file *)

s_port        == a1_statement(keyword("port"), port)
s_address     == a1_statement(keyword("address"), address)
s_max_bitrate == a1_statement(keyword("max_bitrate"), max_bitrate)
udp == stored("udp", "bare",
    t_block(keyword("udp"), <<s_port, s_address, s_max_bitrate, s_catch>>))

s_device       == a1_statement(keyword("device"), device)
s_baudrate     == a1_statement(keyword("baudrate"), baudrate)
s_flow_control == a1_statement(keyword("flow_control"), flow_control)
s_preload      == a1_statement(keyword("preload"), preload)
serial == stored("serial", "bare",
    t_block(keyword("serial"),
            <<s_device, s_baudrate, s_flow_control, s_preload, s_catch>>))

block     == sor(<<udp, serial, chain_container>>)
statement == sor(<<default_action, s_catch>>)
element   == sor(<<comment, block, statement>>)
elements  == named("elements", plus(p(element)))
grammar   == seq(<<must(elements), eof>>)

\* config::parse
Parse(text) == TreeOf(Match(grammar, text, Initially))
=============================================================================
