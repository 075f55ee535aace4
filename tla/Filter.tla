------------------------------- MODULE Filter -------------------------------
(***************************************************************************)
(* The packet filter (src/src/Filter.cpp, Chain.cpp and the rules Accept,  *)
(* Reject, Call and GoTo), evaluated by several receive threads at once.   *)
(* Every interface shares one filter and so one set of chains; what stops  *)
(* a chain that loops back to itself is the recursion guard each chain     *)
(* keeps, a set of thread ids under a mutex (src/src/RecursionGuard.cpp).  *)
(*                                                                         *)
(* The C++ call stack of a thread is explicit here: one frame for each     *)
(* Chain::action it is in.  Each step holds at most one critical section   *)
(* of a guard.                                                             *)
(***************************************************************************)
EXTENDS Integers, Sequences, FiniteSets

CONSTANTS
    Threads,
    Chains,       \* the named chains of the configuration
    Default,      \* the default chain, which no rule may call or go to
    Requests,     \* packets with the address they are to be sent to
    Programs,     \* configurations: the rules of each chain
    Unset         \* a priority that has not been given

ASSUME DefaultAssumption == Default \notin Chains

\* A configuration file has finitely many chains.
ASSUME ChainsAssumption == IsFiniteSet(Chains)

AllChains == Chains \cup {Default}

\* A rule: the chain it calls or goes to, its priority or Unset, and the
\* requests its condition matches.
Rule == [kind     : {"accept", "reject", "call", "goto"},
         chain    : AllChains,
         priority : Int \cup {Unset},
         match    : SUBSET Requests]

IsReference(rule) == rule.kind \in {"call", "goto"}

\* ConfigParser.cpp:123 and 144: no rule calls or goes to the default chain.
ASSUME ProgramsAssumption ==
    \A p \in Programs :
        /\ p \in [AllChains -> Seq(Rule)]
        /\ \A c \in AllChains : \A i \in DOMAIN p[c] :
               IsReference(p[c][i]) => p[c][i].chain \in Chains

VARIABLES
    program,           \* chain -> rules, as built by parse_filter
    acceptByDefault,   \* accept_by_default_
    calling,           \* chain -> calling_threads_ of its recursion_data_
    stack,             \* thread -> frames [chain, at], the innermost last
    returning,         \* thread -> the Action its top frame returns, or Busy
    request,           \* thread -> what it is filtering
    outcome            \* thread -> what will_accept returned, or Busy

vars == <<program, acceptByDefault, calling, stack, returning, request,
          outcome>>

-----------------------------------------------------------------------------
(* Actions of the filter (src/src/Action.cpp) *)

ActionOf(option, priority) == [action |-> option, priority |-> priority]

Accepted(priority) == ActionOf("ACCEPT", priority)
Rejected           == ActionOf("REJECT", Unset)
Continue           == ActionOf("CONTINUE", Unset)
DefaultAction      == ActionOf("DEFAULT", Unset)

\* A RecursionError on its way up the stack, and a thread that is working.
Thrown == ActionOf("THROWN", Unset)
Busy   == ActionOf("BUSY", Unset)

\* Mutant of WithPriority: the outer priority replaces the inner one.
WithOuterPriority(a, priority) ==
    IF a.action = "ACCEPT" /\ priority # Unset
      THEN [a EXCEPT !.priority = priority] ELSE a

\* Action::priority(int): only for an accept that has no priority yet.
WithPriority(a, priority) ==
    IF a.action = "ACCEPT" /\ a.priority = Unset
      THEN [a EXCEPT !.priority = priority] ELSE a

\* Mutant of Received: a goto comes back like a call.
ReceivedAsCall(rule, a) == WithPriority(a, rule.priority)

\* What Call::action and GoTo::action make of what their chain returned.
Received(rule, a) ==
    IF rule.kind = "goto" /\ a = Continue
      THEN DefaultAction ELSE WithPriority(a, rule.priority)

\* What Filter::will_accept returns; an error leaves it as an exception.
Verdict(a) ==
    CASE a.action = "ACCEPT" -> [accept   |-> TRUE,
                                 priority |-> IF a.priority = Unset
                                                THEN 0 ELSE a.priority]
      [] a.action = "REJECT" -> [accept |-> FALSE, priority |-> 0]
      [] a.action = "THROWN" -> Thrown
      [] OTHER               -> [accept |-> acceptByDefault, priority |-> 0]

-----------------------------------------------------------------------------
TypeOK ==
    /\ program \in Programs
    /\ acceptByDefault \in BOOLEAN
    /\ calling \in [AllChains -> SUBSET Threads]
    /\ stack \in [Threads -> Seq([chain : AllChains, at : Nat \ {0}])]
    /\ DOMAIN returning = Threads
    /\ request \in [Threads -> Requests]
    /\ DOMAIN outcome = Threads

Init ==
    /\ program \in Programs
    /\ acceptByDefault \in BOOLEAN
    /\ calling = [c \in AllChains |-> {}]
    /\ stack = [t \in Threads |-> <<>>]
    /\ returning = [t \in Threads |-> Busy]
    /\ request \in [Threads -> Requests]
    /\ outcome = [t \in Threads |-> Busy]

Frame(c) == [chain |-> c, at |-> 1]

Top(t) == stack[t][Len(stack[t])]

Rules(t) == program[Top(t).chain]

Current(t) == Rules(t)[Top(t).at]

Running(t) == stack[t] # <<>> /\ returning[t] = Busy

Matches(t) ==
    /\ Running(t)
    /\ Top(t).at <= Len(Rules(t))
    /\ request[t] \in Current(t).match

\* Mutant of Advanced: the loop over the rules starts again.
Restarted(frames) == [frames EXCEPT ![Len(frames)].at = 1]

Advanced(frames) == [frames EXCEPT ![Len(frames)].at = @ + 1]

Popped(frames) == SubSeq(frames, 1, Len(frames) - 1)

\* Mutant of MayEnter: a guard that any thread inside the chain trips.
MayEnterIfFree(t, c) == calling[c] = {}

\* The insertion of the guard's constructor finds no entry of the thread.
MayEnter(t, c) == t \notin calling[c]

EnterChain(t, c) ==
    /\ calling' = [calling EXCEPT ![c] = @ \cup {t}]
    /\ stack' = [stack EXCEPT ![t] = Append(@, Frame(c))]

\* Filter::will_accept calls the default chain.
WillAccept(t) ==
    /\ stack[t] = <<>>
    /\ outcome[t] = Busy
    /\ IF MayEnter(t, Default)
         THEN EnterChain(t, Default) /\ UNCHANGED outcome
         ELSE /\ outcome' = [outcome EXCEPT ![t] = Thrown]
              /\ UNCHANGED <<calling, stack>>
    /\ UNCHANGED <<program, acceptByDefault, returning, request>>

\* The loop of Chain::action is through: no rule decided.
FallThrough(t) ==
    /\ Running(t)
    /\ Top(t).at > Len(Rules(t))
    /\ returning' = [returning EXCEPT ![t] = Continue]
    /\ UNCHANGED <<program, acceptByDefault, calling, stack, request, outcome>>

\* The condition of the rule does not match: it continues.
Skip(t) ==
    /\ Running(t)
    /\ Top(t).at <= Len(Rules(t))
    /\ request[t] \notin Current(t).match
    /\ stack' = [stack EXCEPT ![t] = Advanced(@)]
    /\ UNCHANGED <<program, acceptByDefault, calling, returning, request,
                   outcome>>

\* An Accept or a Reject that matches.
Decide(t) ==
    /\ Matches(t)
    /\ ~IsReference(Current(t))
    /\ returning' = [returning EXCEPT ![t] =
           IF Current(t).kind = "accept" THEN Accepted(Current(t).priority)
                                         ELSE Rejected]
    /\ UNCHANGED <<program, acceptByDefault, calling, stack, request, outcome>>

\* A Call or a GoTo that matches: its chain's guard lets the thread in.
Enter(t) ==
    /\ Matches(t)
    /\ IsReference(Current(t))
    /\ MayEnter(t, Current(t).chain)
    /\ EnterChain(t, Current(t).chain)
    /\ UNCHANGED <<program, acceptByDefault, returning, request, outcome>>

\* The guard throws RecursionError.  No frame was made for the chain.
Throw(t) ==
    /\ Matches(t)
    /\ IsReference(Current(t))
    /\ ~MayEnter(t, Current(t).chain)
    /\ returning' = [returning EXCEPT ![t] = Thrown]
    /\ UNCHANGED <<program, acceptByDefault, calling, stack, request, outcome>>

\* Mutant of Release: a guard that an exception does not release.
ReleaseUnlessThrown(t) ==
    IF returning[t] = Thrown
      THEN UNCHANGED calling
      ELSE calling' = [calling EXCEPT ![Top(t).chain] = @ \ {t}]

\* The destructor of the guard.
Release(t) == calling' = [calling EXCEPT ![Top(t).chain] = @ \ {t}]

(***************************************************************************)
(* Chain::action leaves, by return or by exception, and its caller takes   *)
(* the result: will_accept, or the Call or GoTo in the frame below, whose  *)
(* chain goes on to its next rule if the result is to continue.            *)
(***************************************************************************)
Leave(t) ==
    LET rest == Popped(stack[t])
        rule == program[rest[Len(rest)].chain][rest[Len(rest)].at]
        got  == Received(rule, returning[t])
    IN  /\ stack[t] # <<>>
        /\ returning[t] # Busy
        /\ Release(t)
        /\ IF rest = <<>>
             THEN /\ outcome' = [outcome EXCEPT ![t] = Verdict(returning[t])]
                  /\ returning' = [returning EXCEPT ![t] = Busy]
                  /\ stack' = [stack EXCEPT ![t] = rest]
             ELSE /\ returning' = [returning EXCEPT
                           ![t] = IF got = Continue THEN Busy ELSE got]
                  /\ stack' = [stack EXCEPT
                           ![t] = IF got = Continue THEN Advanced(rest)
                                                    ELSE rest]
                  /\ UNCHANGED outcome
        /\ UNCHANGED <<program, acceptByDefault, request>>

\* The thread handles the next request; an error nobody catches ended it.
Again(t) ==
    /\ outcome[t] \notin {Busy, Thrown}
    /\ \E r \in Requests : request' = [request EXCEPT ![t] = r]
    /\ outcome' = [outcome EXCEPT ![t] = Busy]
    /\ UNCHANGED <<program, acceptByDefault, calling, stack, returning>>

Step(t) == \/ WillAccept(t) \/ FallThrough(t) \/ Skip(t) \/ Decide(t)
           \/ Enter(t) \/ Throw(t) \/ Leave(t)

Next == \E t \in Threads : Step(t) \/ Again(t)

Spec == Init /\ [][Next]_vars

\* A thread in the filter keeps running; nobody waits for anybody.
FairSpec == Spec /\ \A t \in Threads : WF_vars(Step(t))

-----------------------------------------------------------------------------
(* Properties *)

(***************************************************************************)
(* The sets of the guards are exactly the call stacks: a chain holds the   *)
(* id of a thread if and only if the thread is in it, and no thread is in  *)
(* a chain twice.  So one thread never trips the guard of another ("they   *)
(* will not guard against re-entrantcy", RecursionGuard.hpp:33), and a     *)
(* guard passed by an exception does not stay behind.                      *)
(***************************************************************************)
GuardsAreStacks ==
    \A t \in Threads :
        /\ \A c \in AllChains :
               t \in calling[c] <=>
                   \E i \in 1 .. Len(stack[t]) : stack[t][i].chain = c
        /\ \A i, j \in 1 .. Len(stack[t]) :
               stack[t][i].chain = stack[t][j].chain => i = j

(***************************************************************************)
(* The reference definition: what a chain means for a request, entered     *)
(* from within the chains of inside.  The first rule that matches and does *)
(* not continue gives the result; a rule that leads back inside is an      *)
(* error, whatever other threads do.  p is the configuration, and m says   *)
(* what other chains mean.                                                 *)
(***************************************************************************)
Evaluations == [request : Requests, inside : SUBSET AllChains,
                chain : AllChains]

Entered(q) == q.inside \cup {q.chain}

Within(q, c) == [q EXCEPT !.inside = Entered(q), !.chain = c]

\* What a call or a goto makes of what the chain it leads to means.
ReferenceMeaning(rule, a) ==
    CASE a.action = "ACCEPT" ->
             Accepted(IF a.priority = Unset THEN rule.priority ELSE a.priority)
      [] a.action = "CONTINUE" ->
             (IF rule.kind = "goto" THEN DefaultAction ELSE Continue)
      [] OTHER -> a

RuleMeaning(m, q, rule) ==
    CASE rule.kind = "accept" -> Accepted(rule.priority)
      [] rule.kind = "reject" -> Rejected
      [] IsReference(rule) /\ rule.chain \in Entered(q) -> Thrown
      [] IsReference(rule) /\ rule.chain \notin Entered(q) ->
             ReferenceMeaning(rule, m[Within(q, rule.chain)])

Deciding(p, m, q) ==
    {i \in DOMAIN p[q.chain] :
        /\ q.request \in p[q.chain][i].match
        /\ RuleMeaning(m, q, p[q.chain][i]) # Continue}

Earliest(D) == CHOOSE i \in D : \A j \in D : i <= j

ChainMeaning(p, m, q) ==
    IF Deciding(p, m, q) = {}
      THEN Continue
      ELSE RuleMeaning(m, q, p[q.chain][Earliest(Deciding(p, m, q))])

Meaning(p) ==
    LET means[q \in Evaluations] == ChainMeaning(p, means, q)
    IN  means

\* A call of will_accept enters the default chain from outside.
Asking(r) == [request |-> r, inside |-> {}, chain |-> Default]

Asked(t) == Asking(request[t])

\* What will_accept answers is what the default chain means, for every
\* interleaving with the other threads.
AnswersAreRight ==
    \A t \in Threads :
        outcome[t] # Busy => outcome[t] = Verdict(Meaning(program)[Asked(t)])

(***************************************************************************)
(* Only a configuration that loops makes the guards throw: when the chains *)
(* can be ordered such that every call and goto leads downwards, no thread *)
(* ever gets a RecursionError, however many are in the same chain.         *)
(***************************************************************************)
LoopFree(p) ==
    \E level \in [AllChains -> 0 .. Cardinality(Chains)] :
        \A c \in AllChains : \A i \in DOMAIN p[c] :
            IsReference(p[c][i]) => level[p[c][i].chain] < level[c]

NoFalseAlarm == \A t \in Threads : outcome[t] = Thrown => ~LoopFree(program)

(***************************************************************************)
(* Seen from outside, the threads, chains and guards are AtomicFilter: one *)
(* table, made by the configuration, whose answers every thread gets.  It  *)
(* is what lets Routing take the filter as a table.                        *)
(***************************************************************************)
Answers == [r \in Requests |-> Verdict(Meaning(program)[Asking(r)])]

Atomic == INSTANCE AtomicFilter WITH answers <- Answers

AtomicSpec == Atomic!Spec

\* Every call of will_accept comes back, with a looping configuration too.
AlwaysAnswers == \A t \in Threads : stack[t] # <<>> ~> outcome[t] # Busy
=============================================================================
