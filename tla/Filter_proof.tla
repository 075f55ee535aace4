---------------------------- MODULE Filter_proof ----------------------------
(***************************************************************************)
(* The filter, for any configuration and any number of threads:            *)
(*   - the recursion guards hold exactly the call stacks, so the C++ stack *)
(*     of a thread is no deeper than the chains are many;                  *)
(*   - what will_accept answers is what the reference definition says;     *)
(*   - a configuration that does not loop never makes a guard throw.       *)
(***************************************************************************)
EXTENDS Filter, FiniteSetTheorems, WellFoundedInduction, SequenceTheorems,
        TLAPS

Frames == [chain : AllChains, at : Nat \ {0}]

\* The chain is in the frames; no chain is in them twice.
In(c, frames)    == \E i \in 1 .. Len(frames) : frames[i].chain = c
Distinct(frames) == \A i, j \in 1 .. Len(frames) :
                        frames[i].chain = frames[j].chain => i = j

-----------------------------------------------------------------------------
(* Lemmas about frames *)

\* Entering a chain that is not in the frames.
LEMMA AppendFrame ==
    ASSUME NEW frames \in Seq(Frames), NEW d \in AllChains
    PROVE  /\ Append(frames, Frame(d)) \in Seq(Frames)
           /\ \A c : In(c, Append(frames, Frame(d))) <=> In(c, frames) \/ c = d
           /\ Distinct(frames) /\ ~In(d, frames) =>
                  Distinct(Append(frames, Frame(d)))
  <1> DEFINE new == Append(frames, Frame(d))
  <1>1. Frame(d) \in Frames /\ Frame(d).chain = d
    BY DEF Frame, Frames
  <1>2. /\ new \in Seq(Frames) /\ Len(new) = Len(frames) + 1
        /\ \A i \in 1 .. Len(frames) : new[i] = frames[i]
        /\ new[Len(frames) + 1] = Frame(d)
    BY <1>1, AppendProperties
  <1>3. Len(frames) \in Nat
    OBVIOUS
  <1> HIDE DEF new
  <1>4. \A i \in 1 .. Len(new) :
            i \in 1 .. Len(frames) \/ i = Len(frames) + 1
    BY <1>2, <1>3
  <1>5. \A c : In(c, new) <=> In(c, frames) \/ c = d
    <2>1. \A c : In(c, new) => In(c, frames) \/ c = d
      BY <1>1, <1>2, <1>4 DEF In
    <2>2. Len(frames) + 1 \in 1 .. Len(new)
      BY <1>2, <1>3
    <2>3. \A i \in 1 .. Len(frames) : i \in 1 .. Len(new)
      BY <1>2, <1>3
    <2>4. \A c : In(c, frames) \/ c = d => In(c, new)
      BY <1>1, <1>2, <2>2, <2>3 DEF In
    <2> QED
      BY <2>1, <2>4
  <1>6. Distinct(frames) /\ ~In(d, frames) => Distinct(new)
    BY <1>1, <1>2, <1>4 DEF In, Distinct
  <1> QED
    BY <1>2, <1>5, <1>6 DEF new

\* Going on to the next rule changes no frame's chain.
LEMMA AdvanceFrame ==
    ASSUME NEW frames \in Seq(Frames), frames # <<>>
    PROVE  /\ Advanced(frames) \in Seq(Frames)
           /\ \A c : In(c, Advanced(frames)) <=> In(c, frames)
           /\ Distinct(frames) => Distinct(Advanced(frames))
  <1> DEFINE new == Advanced(frames)
  <1>1. /\ Len(frames) \in Nat /\ Len(frames) \in 1 .. Len(frames)
        /\ \A i \in 1 .. Len(frames) : frames[i] \in Frames
    OBVIOUS
  <1>2. new = [frames EXCEPT ![Len(frames)] =
                   [frames[Len(frames)] EXCEPT !.at = @ + 1]]
    BY DEF Advanced
  <1>3. [frames[Len(frames)] EXCEPT !.at = @ + 1] \in Frames
    BY <1>1 DEF Frames
  <1>4. new \in Seq(Frames) /\ Len(new) = Len(frames)
    BY <1>1, <1>2, <1>3
  <1>5. \A i \in 1 .. Len(frames) : new[i].chain = frames[i].chain
    <2>1. [frames[Len(frames)] EXCEPT !.at = @ + 1].chain =
              frames[Len(frames)].chain
      BY <1>1 DEF Frames
    <2> QED
      BY <1>1, <1>2, <2>1
  <1> HIDE DEF new
  <1>6. \A c : In(c, new) <=> In(c, frames)
    BY <1>4, <1>5 DEF In
  <1>7. Distinct(frames) => Distinct(new)
    BY <1>4, <1>5 DEF Distinct
  <1> QED
    BY <1>4, <1>6, <1>7 DEF new

\* Leaving a chain drops the last frame.
LEMMA PopIsPrefix ==
    ASSUME NEW frames \in Seq(Frames), frames # <<>>
    PROVE  LET n == Len(frames) IN
               /\ Popped(frames) \in Seq(Frames) /\ Len(Popped(frames)) = n - 1
               /\ \A i \in 1 .. n - 1 : Popped(frames)[i] = frames[i]
  <1> DEFINE new == Popped(frames)  n == Len(frames)
  <1>1. n \in Nat /\ n >= 1 /\ \A i \in 1 .. n : frames[i] \in Frames
    OBVIOUS
  <1>2. /\ SubSeq(frames, 1, n - 1) \in Seq(Frames)
        /\ Len(SubSeq(frames, 1, n - 1)) =
               IF 1 <= n - 1 THEN (n - 1) - 1 + 1 ELSE 0
        /\ \A i \in 1 .. (n - 1) - 1 + 1 :
               SubSeq(frames, 1, n - 1)[i] = frames[1 + i - 1]
    <2>1. \A i \in 1 .. n - 1 : frames[i] \in Frames
      BY <1>1
    <2>2. n - 1 \in Int /\ 1 \in Int
      BY <1>1
    <2> HIDE DEF n
    <2> QED
      BY <2>1, <2>2, SubSeqProperties
  <1>3. new = SubSeq(frames, 1, n - 1)
    BY DEF Popped
  <1> HIDE DEF new, n
  <1>4. (n - 1) - 1 + 1 = n - 1 /\ (IF 1 <= n - 1 THEN n - 1 ELSE 0) = n - 1
    BY <1>1
  <1>5. \A i \in 1 .. n - 1 : new[i] = frames[i]
    <2>1. TAKE i \in 1 .. n - 1
    <2>2. 1 + i - 1 = i
      BY <1>1
    <2> QED
      BY <1>2, <1>3, <1>4, <2>2
  <1>6. Len(new) = n - 1
    BY <1>2, <1>3, <1>4
  <1> QED
    BY <1>2, <1>3, <1>5, <1>6 DEF new, n

\* Leaving a chain takes it, and only it, out of the frames.
LEMMA PopFrame ==
    ASSUME NEW frames \in Seq(Frames), frames # <<>>, Distinct(frames)
    PROVE  /\ Popped(frames) \in Seq(Frames)
           /\ \A c : In(c, Popped(frames)) <=>
                         In(c, frames) /\ c # frames[Len(frames)].chain
           /\ Distinct(Popped(frames))
  <1> DEFINE new == Popped(frames)  n == Len(frames)
  <1>1. n \in Nat /\ n >= 1 /\ \A i \in 1 .. n : frames[i] \in Frames
    OBVIOUS
  <1>2. /\ new \in Seq(Frames) /\ Len(new) = n - 1
        /\ \A i \in 1 .. n - 1 : new[i] = frames[i]
    BY PopIsPrefix
  <1> HIDE DEF new, n
  <1>3. Distinct(new)
    BY <1>1, <1>2 DEF Distinct, n
  <1>4. ASSUME NEW c PROVE In(c, new) <=> In(c, frames) /\ c # frames[n].chain
    <2>1. ASSUME In(c, new) PROVE In(c, frames) /\ c # frames[n].chain
      <3>1. PICK i \in 1 .. n - 1 : frames[i].chain = c
        BY <1>2, <2>1 DEF In
      <3>2. i \in 1 .. n /\ n \in 1 .. n /\ i # n
        BY <1>1
      <3>3. frames[i].chain # frames[n].chain
        BY <3>2 DEF Distinct, n
      <3> QED
        BY <3>1, <3>2, <3>3 DEF In, n
    <2>2. ASSUME In(c, frames), c # frames[n].chain PROVE In(c, new)
      <3>1. PICK i \in 1 .. n : frames[i].chain = c
        BY <2>2 DEF In, n
      <3>2. i \in 1 .. n - 1
        BY <1>1, <2>2, <3>1
      <3> QED
        BY <1>2, <3>1, <3>2 DEF In
    <2> QED
      BY <2>1, <2>2
  <1> QED
    BY <1>2, <1>3, <1>4 DEF new, n

\* Frames of different chains are no more than the chains.
LEMMA DistinctIsShort ==
    ASSUME NEW frames \in Seq(Frames), Distinct(frames)
    PROVE  Len(frames) <= Cardinality(AllChains)
  <1> DEFINE n == Len(frames)
             chainOf == [i \in 1 .. n |-> frames[i].chain]
  <1>1. n \in Nat /\ \A i \in 1 .. n : frames[i] \in Frames
    OBVIOUS
  <1>2. \A i \in 1 .. n : frames[i].chain \in AllChains
    BY <1>1 DEF Frames
  <1>3. \A i, j \in 1 .. n : frames[i].chain = frames[j].chain => i = j
    BY DEF Distinct
  <1> HIDE DEF n
  <1>4. chainOf \in Injection(1 .. n, AllChains)
    BY <1>2, <1>3 DEF Injection, IsInjective
  <1>5. IsFiniteSet(AllChains)
    BY ChainsAssumption, FS_AddElement DEF AllChains
  <1>6. Cardinality(1 .. n) <= Cardinality(AllChains)
    BY <1>4, <1>5, FS_Injection
  <1>7. Cardinality(1 .. n) = n
    BY <1>1, FS_Interval
  <1> QED
    BY <1>6, <1>7 DEF n

-----------------------------------------------------------------------------
(* The invariant *)

\* GuardsAreStacks for one thread.
Guarded(t, called, frames) ==
    /\ \A c \in AllChains : t \in called[c] <=> In(c, frames)
    /\ Distinct(frames)

LEMMA GuardsByThread ==
    GuardsAreStacks <=> \A t \in Threads : Guarded(t, calling, stack[t])
  BY DEF GuardsAreStacks, Guarded, In, Distinct

IInv == TypeOK /\ \A t \in Threads : Guarded(t, calling, stack[t])

\* A step of one thread that leaves the guards alone and changes its own
\* frames without changing their chains keeps the invariant.
LEMMA OwnFrames ==
    ASSUME IInv, NEW t \in Threads, NEW frames \in Seq(Frames),
           stack' = [stack EXCEPT ![t] = frames], TypeOK',
           NEW called, called = calling', Guarded(t, called, frames),
           \A u \in Threads \ {t} : \A c \in AllChains :
               u \in called[c] <=> u \in calling[c]
    PROVE  IInv'
  <1>1. stack \in [Threads -> Seq(Frames)]
    BY DEF IInv, TypeOK, Frames
  <1>2. ASSUME NEW u \in Threads PROVE Guarded(u, calling', stack'[u])
    <2>1. CASE u = t
      BY <1>1, <2>1
    <2>2. CASE u # t
      <3>1. stack'[u] = stack[u] /\ Guarded(u, calling, stack[u])
        BY <1>1, <2>2 DEF IInv
      <3> QED
        BY <2>2, <3>1 DEF Guarded
    <2> QED
      BY <2>1, <2>2
  <1> QED
    BY <1>2 DEF IInv, Guarded, In, Distinct

\* Entering a chain whose guard lets the thread in.
LEMMA EnterKeeps ==
    ASSUME IInv, NEW t \in Threads, NEW d \in AllChains, MayEnter(t, d),
           EnterChain(t, d),
           UNCHANGED <<program, acceptByDefault, returning, request, outcome>>
    PROVE  IInv'
  <1>1. stack[t] \in Seq(Frames) /\ Guarded(t, calling, stack[t])
    BY DEF IInv, TypeOK, Frames
  <1>2. ~In(d, stack[t])
    BY <1>1 DEF MayEnter, Guarded
  <1> DEFINE new == Append(stack[t], Frame(d))
  <1>3. /\ new \in Seq(Frames) /\ Distinct(new)
        /\ \A c : In(c, new) <=> In(c, stack[t]) \/ c = d
    BY <1>1, <1>2, AppendFrame DEF Guarded
  <1>4. stack' = [stack EXCEPT ![t] = new]
    BY DEF EnterChain
  <1> HIDE DEF new
  <1>5. calling' = [calling EXCEPT ![d] = calling[d] \cup {t}]
    BY DEF EnterChain
  <1>6. calling \in [AllChains -> SUBSET Threads]
    BY DEF IInv, TypeOK
  <1>7. TypeOK'
    BY <1>3, <1>4, <1>5, <1>6 DEF IInv, TypeOK, Frames
  <1>8. \A u \in Threads, c \in AllChains :
            u \in calling'[c] <=> u \in calling[c] \/ (u = t /\ c = d)
    BY <1>5, <1>6
  <1>9. Guarded(t, calling', new)
    BY <1>1, <1>3, <1>8 DEF Guarded
  <1> QED
    BY <1>3, <1>4, <1>7, <1>8, <1>9, OwnFrames

\* A thread that goes on to the next rule.
LEMMA AdvanceKeeps ==
    ASSUME IInv, NEW t \in Threads, stack[t] # <<>>,
           stack' = [stack EXCEPT ![t] = Advanced(@)],
           UNCHANGED <<program, acceptByDefault, calling, returning, request,
                       outcome>>
    PROVE  IInv'
  <1>1. stack[t] \in Seq(Frames) /\ Guarded(t, calling, stack[t])
    BY DEF IInv, TypeOK, Frames
  <1> DEFINE new == Advanced(stack[t])
  <1>2. new \in Seq(Frames) /\ Guarded(t, calling, new)
    BY <1>1, AdvanceFrame DEF Guarded
  <1>3. stack' = [stack EXCEPT ![t] = new]
    OBVIOUS
  <1> HIDE DEF new
  <1>4. TypeOK'
    BY <1>2, <1>3 DEF IInv, TypeOK, Frames
  <1> QED
    BY <1>2, <1>3, <1>4, OwnFrames

\* A thread that leaves a chain, by return or by exception.
LEMMA LeaveKeeps ==
    ASSUME IInv, NEW t \in Threads, Leave(t)
    PROVE  IInv'
  <1>1. stack[t] \in Seq(Frames) /\ Guarded(t, calling, stack[t])
    BY DEF IInv, TypeOK, Frames
  <1>2. stack[t] # <<>>
    BY DEF Leave
  <1> DEFINE d == Top(t).chain  rest == Popped(stack[t])
  <1>3. d = stack[t][Len(stack[t])].chain /\ d \in AllChains
    <2>1. Len(stack[t]) \in 1 .. Len(stack[t])
      BY <1>1, <1>2
    <2>2. stack[t][Len(stack[t])] \in Frames
      BY <1>1, <2>1
    <2> QED
      BY <2>2 DEF Top, Frames
  <1>4. /\ rest \in Seq(Frames) /\ Distinct(rest)
        /\ \A c : In(c, rest) <=> In(c, stack[t]) /\ c # d
    BY <1>1, <1>2, <1>3, PopFrame DEF Guarded
  <1>5. \/ stack' = [stack EXCEPT ![t] = rest]
        \/ rest # <<>> /\ stack' = [stack EXCEPT ![t] = Advanced(rest)]
    BY DEF Leave
  <1>6. calling' = [calling EXCEPT ![d] = calling[d] \ {t}]
    BY DEF Leave, Release
  <1>7. /\ UNCHANGED <<program, acceptByDefault, request>>
        /\ DOMAIN returning' = DOMAIN returning
        /\ DOMAIN outcome' = DOMAIN outcome
    BY DEF Leave
  <1> HIDE DEF d, rest
  <1>8. PICK new \in Seq(Frames) :
            /\ stack' = [stack EXCEPT ![t] = new] /\ Distinct(new)
            /\ \A c : In(c, new) <=> In(c, rest)
    BY <1>4, <1>5, AdvanceFrame
  <1>9. calling \in [AllChains -> SUBSET Threads]
    BY DEF IInv, TypeOK
  <1>10. TypeOK'
    BY <1>6, <1>7, <1>8, <1>9 DEF IInv, TypeOK, Frames
  <1>11. \A u \in Threads, c \in AllChains :
             u \in calling'[c] <=> u \in calling[c] /\ ~(u = t /\ c = d)
    BY <1>3, <1>6, <1>9
  <1>12. Guarded(t, calling', new)
    BY <1>1, <1>4, <1>8, <1>11 DEF Guarded
  <1> QED
    BY <1>8, <1>10, <1>11, <1>12, OwnFrames

LEMMA InvStep == IInv /\ [Next]_vars => IInv'
  <1> SUFFICES ASSUME IInv, [Next]_vars PROVE IInv'
    OBVIOUS
  <1>1. ASSUME UNCHANGED <<program, acceptByDefault, calling, stack>>,
               request' \in [Threads -> Requests],
               DOMAIN returning' = Threads, DOMAIN outcome' = Threads
        PROVE  IInv'
    BY <1>1 DEF IInv, TypeOK, Guarded, In, Distinct
  <1>2. CASE UNCHANGED vars
    BY <1>1, <1>2 DEF vars, IInv, TypeOK
  <1>3. ASSUME NEW t \in Threads, WillAccept(t) PROVE IInv'
    <2>1. CASE MayEnter(t, Default)
      BY <1>3, <2>1, EnterKeeps DEF WillAccept, AllChains
    <2>2. CASE ~MayEnter(t, Default)
      BY <1>1, <1>3, <2>2 DEF WillAccept, IInv, TypeOK
    <2> QED
      BY <2>1, <2>2
  <1>4. ASSUME NEW t \in Threads, FallThrough(t) \/ Decide(t) \/ Throw(t)
        PROVE  IInv'
    BY <1>1, <1>4 DEF FallThrough, Decide, Throw, IInv, TypeOK
  <1>5. ASSUME NEW t \in Threads, Skip(t) PROVE IInv'
    BY <1>5, AdvanceKeeps DEF Skip, Running
  <1>6. ASSUME NEW t \in Threads, Enter(t) PROVE IInv'
    <2>1. Current(t).chain \in AllChains
      <3>1. stack[t] \in Seq(Frames) /\ stack[t] # <<>>
        BY <1>6 DEF Enter, Matches, Running, IInv, TypeOK, Frames
      <3>2. Len(stack[t]) \in 1 .. Len(stack[t])
        BY <3>1
      <3>3. Top(t) \in Frames
        BY <3>1, <3>2 DEF Top
      <3>4. Top(t).chain \in AllChains /\ Top(t).at \in Nat \ {0}
        BY <3>3 DEF Frames
      <3>5. program \in [AllChains -> Seq(Rule)]
        BY ProgramsAssumption DEF IInv, TypeOK
      <3>6. Rules(t) \in Seq(Rule)
        BY <3>4, <3>5 DEF Rules
      <3>7. Top(t).at \in 1 .. Len(Rules(t))
        BY <1>6, <3>4, <3>6 DEF Enter, Matches
      <3>8. Current(t) \in Rule
        BY <3>6, <3>7 DEF Current
      <3> QED
        BY <3>8 DEF Rule
    <2> QED
      BY <1>6, <2>1, EnterKeeps DEF Enter
  <1>7. ASSUME NEW t \in Threads, Leave(t) PROVE IInv'
    BY <1>7, LeaveKeeps
  <1>8. ASSUME NEW t \in Threads, Again(t) PROVE IInv'
    BY <1>1, <1>8 DEF Again, IInv, TypeOK
  <1> QED
    BY <1>2, <1>3, <1>4, <1>5, <1>6, <1>7, <1>8 DEF Next, Step

LEMMA InitGuarded == Init => IInv
  <1> SUFFICES ASSUME Init PROVE IInv
    OBVIOUS
  <1>1. <<>> \in Seq([chain : AllChains, at : Nat \ {0}]) /\ Len(<<>>) = 0
    OBVIOUS
  <1>2. TypeOK
    BY <1>1 DEF Init, TypeOK
  <1>3. \A t \in Threads : Guarded(t, calling, stack[t])
    BY <1>1 DEF Init, Guarded, In, Distinct
  <1> QED
    BY <1>2, <1>3 DEF IInv

\* For every configuration, a thread passes the guard of a chain exactly when
\* it is not inside the chain already, whatever the other threads do, and no
\* chain is ever left marked.
THEOREM GuardsCorrect == Spec => []GuardsAreStacks
  <1>1. IInv => GuardsAreStacks
    BY GuardsByThread DEF IInv
  <1> QED
    BY <1>1, InitGuarded, InvStep, PTL DEF Spec

\* The variables keep their types.
THEOREM TypeCorrect == Spec => []TypeOK
  <1>1. IInv => TypeOK
    BY DEF IInv
  <1> QED
    BY <1>1, InitGuarded, InvStep, PTL DEF Spec

(***************************************************************************)
(* A thread is never in more chains than the configuration has: rules that *)
(* loop cannot use up its call stack.                                      *)
(***************************************************************************)
THEOREM DepthIsBounded ==
    Spec => [](\A t \in Threads : Len(stack[t]) <= Cardinality(AllChains))
  <1>1. IInv => \A t \in Threads : Len(stack[t]) <= Cardinality(AllChains)
    BY DistinctIsShort DEF IInv, TypeOK, Guarded, Frames
  <1> QED
    BY <1>1, InitGuarded, InvStep, PTL DEF Spec

-----------------------------------------------------------------------------
(* Induction, as facts about sets of numbers *)

\* Induction over the naturals, as a fact about sets.
LEMMA NatSetInduction ==
    ASSUME NEW S \in SUBSET Nat, 0 \in S, \A n \in S : n + 1 \in S
    PROVE  \A n \in Nat : n \in S
  <1> SUFFICES ASSUME Nat \ S # {} PROVE FALSE
    OBVIOUS
  <1>1. PICK m \in Nat \ S : \A k \in Nat \ S : <<k, m>> \notin OpToRel(<, Nat)
    <2> DEFINE T == Nat \ S
    <2>1. T \subseteq Nat /\ T # {}
      OBVIOUS
    <2> HIDE DEF T
    <2>2. \E m \in T : \A k \in T : <<k, m>> \notin OpToRel(<, Nat)
      BY <2>1, WFMin, NatLessThanWellFounded, Zenon
    <2> QED
      BY <2>2 DEF T
  <1> DEFINE k == m - 1
  <1>2. m \in Nat /\ m \notin S /\ m # 0
    OBVIOUS
  <1>3. k \in Nat /\ k < m /\ k + 1 = m
    BY <1>2
  <1> HIDE DEF k
  <1>4. k \in S
    BY <1>1, <1>2, <1>3 DEF OpToRel
  <1> QED
    BY <1>2, <1>3, <1>4

\* A set of numbers has a smallest one.
LEMMA EarliestIsFirst ==
    ASSUME NEW D \in SUBSET Nat, D # {}
    PROVE  Earliest(D) \in D /\ \A j \in D : Earliest(D) <= j
  <1>1. \E i \in D : \A j \in D : <<j, i>> \notin OpToRel(<, Nat)
    BY WFMin, NatLessThanWellFounded, Zenon
  <1>2. PICK i \in D : \A j \in D : <<j, i>> \notin OpToRel(<, Nat)
    BY <1>1
  <1>3. ASSUME NEW j \in D PROVE i <= j
    <2>1. ~(j < i)
      BY <1>2 DEF OpToRel
    <2> QED
      BY <2>1
  <1> QED
    BY <1>3 DEF Earliest

-----------------------------------------------------------------------------
(* The reference definition has a solution *)

Configuration == [AllChains -> Seq(Rule)]

\* What an evaluation asks of other chains: only those not entered yet.
LEMMA ChainMeaningLocal ==
    ASSUME NEW p \in Configuration, NEW q \in Evaluations, NEW f, NEW g,
           \A d \in AllChains \ Entered(q) : f[Within(q, d)] = g[Within(q, d)]
    PROVE  ChainMeaning(p, f, q) = ChainMeaning(p, g, q)
  <1>1. q.chain \in AllChains /\ p[q.chain] \in Seq(Rule)
    BY DEF Evaluations, Configuration
  <1>2. \A i \in DOMAIN p[q.chain] : p[q.chain][i] \in Rule
    BY <1>1
  <1>3. ASSUME NEW rule \in Rule
        PROVE  RuleMeaning(f, q, rule) = RuleMeaning(g, q, rule)
    <2>1. rule.chain \in AllChains
      BY DEF Rule
    <2>2. CASE rule.chain \in Entered(q)
      BY <2>2 DEF RuleMeaning
    <2>3. CASE rule.chain \notin Entered(q)
      BY <2>1, <2>3 DEF RuleMeaning
    <2> QED
      BY <2>2, <2>3
  <1>4. Deciding(p, f, q) = Deciding(p, g, q)
    BY <1>2, <1>3 DEF Deciding
  <1>5. \A i \in Deciding(p, f, q) : p[q.chain][i] \in Rule
    BY <1>2 DEF Deciding
  <1>6. CASE Deciding(p, f, q) = {}
    BY <1>4, <1>6 DEF ChainMeaning
  <1>7. CASE Deciding(p, f, q) # {}
    <2>1. Deciding(p, f, q) \subseteq Nat
      BY <1>1 DEF Deciding
    <2>2. Earliest(Deciding(p, f, q)) \in Deciding(p, f, q)
      BY <1>7, <2>1, EarliestIsFirst
    <2> QED
      BY <1>3, <1>4, <1>5, <1>7, <2>2 DEF ChainMeaning
  <1> QED
    BY <1>6, <1>7

Rank(q) == Cardinality(AllChains \ Entered(q))

Below(n) == {q \in Evaluations : Rank(q) < n}

LEMMA RankIsNat == \A q \in Evaluations : Rank(q) \in Nat
  <1>1. IsFiniteSet(AllChains)
    BY ChainsAssumption, FS_AddElement DEF AllChains
  <1> QED
    BY <1>1, FS_Subset, FS_CardinalityType DEF Rank

\* Each chain that is entered leaves one chain less to be entered.
LEMMA WithinLower ==
    ASSUME NEW q \in Evaluations, NEW d \in AllChains \ Entered(q)
    PROVE  /\ Within(q, d) \in Evaluations
           /\ Rank(q) \in Nat /\ Rank(Within(q, d)) \in Nat
           /\ Rank(Within(q, d)) < Rank(q)
  <1>1. IsFiniteSet(AllChains)
    BY ChainsAssumption, FS_AddElement DEF AllChains
  <1>2. /\ Within(q, d) \in Evaluations
        /\ Entered(Within(q, d)) = Entered(q) \cup {d}
    BY DEF Within, Evaluations, Entered
  <1> DEFINE S == AllChains \ Entered(q)
  <1>3. IsFiniteSet(S) /\ Cardinality(S) \in Nat
    BY <1>1, FS_Subset, FS_CardinalityType
  <1>4. IsFiniteSet(S \ {d}) /\ Cardinality(S \ {d}) = Cardinality(S) - 1
    BY <1>3, FS_RemoveElement
  <1>5. Cardinality(S \ {d}) \in Nat
    BY <1>4, FS_CardinalityType
  <1>6. AllChains \ Entered(Within(q, d)) = S \ {d}
    BY <1>2
  <1> HIDE DEF S
  <1>7. Rank(q) = Cardinality(S) /\ Rank(Within(q, d)) = Cardinality(S \ {d})
    BY <1>6 DEF Rank, S
  <1> QED
    BY <1>2, <1>3, <1>4, <1>5, <1>7

\* The equations can be solved up to any rank.
LEMMA SolvableBelow ==
    ASSUME NEW p \in Configuration
    PROVE  \A n \in Nat :
               \E f : f = [q \in Below(n) |-> ChainMeaning(p, f, q)]
  <1> DEFINE S == {n \in Nat :
                     \E f : f = [q \in Below(n) |-> ChainMeaning(p, f, q)]}
  <1>1. 0 \in S
    <2>1. Below(0) = {}
      <3>1. \A q \in Evaluations : Rank(q) \in Nat
        BY RankIsNat
      <3> QED
        BY <3>1 DEF Below
    <2> DEFINE f == [q \in Below(0) |-> q]
    <2>2. f = [q \in Below(0) |-> ChainMeaning(p, f, q)]
      BY <2>1
    <2> QED
      BY <2>2
  <1>2. ASSUME NEW n \in S PROVE n + 1 \in S
    <2>1. PICK f : f = [q \in Below(n) |-> ChainMeaning(p, f, q)]
      OBVIOUS
    <2> DEFINE h == [q \in Below(n + 1) |-> ChainMeaning(p, f, q)]
    <2>2. ASSUME NEW q \in Below(n + 1)
          PROVE  ChainMeaning(p, h, q) = ChainMeaning(p, f, q)
      <3>1. q \in Evaluations /\ Rank(q) < n + 1
        BY DEF Below
      <3>2. ASSUME NEW d \in AllChains \ Entered(q)
            PROVE  h[Within(q, d)] = f[Within(q, d)]
        <4>1. /\ Within(q, d) \in Evaluations
              /\ Rank(q) \in Nat /\ Rank(Within(q, d)) \in Nat
              /\ Rank(Within(q, d)) < Rank(q)
          BY <3>1, WithinLower
        <4>2. Within(q, d) \in Below(n) /\ Within(q, d) \in Below(n + 1)
          BY <3>1, <4>1 DEF Below
        <4>3. f[Within(q, d)] = ChainMeaning(p, f, Within(q, d))
          BY <2>1, <4>2
        <4>4. h[Within(q, d)] = ChainMeaning(p, f, Within(q, d))
          BY <4>2
        <4> QED
          BY <4>3, <4>4
      <3> HIDE DEF h
      <3> QED
        BY <3>1, <3>2, ChainMeaningLocal
    <2>3. h = [q \in Below(n + 1) |-> ChainMeaning(p, h, q)]
      BY <2>2
    <2> HIDE DEF h
    <2>4. \E g : g = [q \in Below(n + 1) |-> ChainMeaning(p, g, q)]
      BY <2>3
    <2>5. n + 1 \in Nat
      OBVIOUS
    <2> QED
      BY <2>4, <2>5
  <1>3. S \in SUBSET Nat
    OBVIOUS
  <1> HIDE DEF S
  <1>4. \A n \in Nat : n \in S
    BY <1>1, <1>2, <1>3, NatSetInduction
  <1> QED
    BY <1>4 DEF S

\* Whatever the configuration, the meaning of its chains is what the
\* definition says.
LEMMA MeaningUnfolds ==
    ASSUME NEW p \in Configuration
    PROVE  \A q \in Evaluations :
               Meaning(p)[q] = ChainMeaning(p, Meaning(p), q)
  <1>1. \E f : f = [q \in Evaluations |-> ChainMeaning(p, f, q)]
    <2> DEFINE n == Cardinality(AllChains) + 1
    <2>1. IsFiniteSet(AllChains)
      BY ChainsAssumption, FS_AddElement DEF AllChains
    <2>2. n \in Nat /\ \A q \in Evaluations : Rank(q) < n
      <3>1. Cardinality(AllChains) \in Nat
        BY <2>1, FS_CardinalityType
      <3>2. \A q \in Evaluations : Rank(q) <= Cardinality(AllChains)
        BY <2>1, FS_Subset DEF Rank
      <3> QED
        BY <3>1, <3>2, RankIsNat
    <2> HIDE DEF n
    <2>3. Below(n) = Evaluations
      BY <2>2 DEF Below
    <2>4. \E f : f = [q \in Below(n) |-> ChainMeaning(p, f, q)]
      BY <2>2, SolvableBelow
    <2> QED
      BY <2>3, <2>4
  <1>2. Meaning(p) =
            CHOOSE f : f = [q \in Evaluations |-> ChainMeaning(p, f, q)]
    BY DEF Meaning
  <1>3. Meaning(p) = [q \in Evaluations |-> ChainMeaning(p, Meaning(p), q)]
    BY <1>1, <1>2
  <1> QED
    BY <1>3

-----------------------------------------------------------------------------
(* The evaluation a thread is in the middle of *)

Results == {Rejected, Continue, DefaultAction, Thrown}
           \cup {Accepted(x) : x \in Int \cup {Unset}}

RuleAt(p, frame) == p[frame.chain][frame.at]

\* The evaluation the i-th frame is in the middle of.
EvalAt(r, frames, i) ==
    [request |-> r, inside |-> {frames[j].chain : j \in 1 .. i - 1},
     chain |-> frames[i].chain]

\* No rule that a frame has passed decides.
Passed(p, r, frames) ==
    \A i \in 1 .. Len(frames) :
        /\ frames[i].at \in 1 .. Len(p[frames[i].chain]) + 1
        /\ \A k \in 1 .. frames[i].at - 1 :
               k \notin Deciding(p, Meaning(p), EvalAt(r, frames, i))

\* A frame with another on it is at the rule that leads there.
Linked(p, r, frames) ==
    \A i \in 1 .. Len(frames) - 1 :
        /\ frames[i].at <= Len(p[frames[i].chain])
        /\ r \in RuleAt(p, frames[i]).match
        /\ IsReference(RuleAt(p, frames[i]))
        /\ RuleAt(p, frames[i]).chain = frames[i + 1].chain

\* What the top frame returns is what its chain means.
Returned(p, r, frames, ret) ==
    /\ ret \in Results \cup {Busy}
    /\ ret # Busy =>
           frames # <<>> /\ ret = Meaning(p)[EvalAt(r, frames, Len(frames))]

OnCourse(p, r, frames, ret) ==
    /\ frames # <<>> => frames[1].chain = Default
    /\ Passed(p, r, frames)
    /\ Linked(p, r, frames)
    /\ Returned(p, r, frames, ret)

Answered(t) ==
    outcome[t] # Busy => /\ stack[t] = <<>>
                         /\ outcome[t] = Verdict(Meaning(program)[Asked(t)])

RInv == /\ IInv
        /\ \A t \in Threads :
               /\ OnCourse(program, request[t], stack[t], returning[t])
               /\ Answered(t)

-----------------------------------------------------------------------------
(* From rules to chains *)

\* The actions differ, and only Continue continues.
LEMMA ResultsDiffer ==
    /\ Busy \notin Results
    /\ Rejected # Continue /\ Thrown # Continue /\ Continue \in Results
    /\ \A x : Accepted(x) # Continue
    /\ \A a \in Results : /\ a # Busy
                          /\ a.action = "CONTINUE" <=> a = Continue
  <1>1. /\ Rejected # Continue /\ Thrown # Continue
        /\ \A x : Accepted(x) # Continue /\ Accepted(x) # Busy
        /\ Busy \notin {Rejected, Continue, DefaultAction, Thrown}
    BY DEF Busy, Accepted, Rejected, Continue, DefaultAction, Thrown,
         ActionOf
  <1>2. Busy \notin Results /\ Continue \in Results
    BY <1>1 DEF Results
  <1>3. /\ Continue.action = "CONTINUE" /\ Rejected.action # "CONTINUE"
        /\ Thrown.action # "CONTINUE" /\ DefaultAction.action # "CONTINUE"
        /\ \A x : Accepted(x).action # "CONTINUE"
    BY DEF Accepted, Rejected, Continue, DefaultAction, Thrown, ActionOf
  <1>4. \A a \in Results : a.action = "CONTINUE" => a = Continue
    BY <1>3 DEF Results
  <1> QED
    BY <1>1, <1>2, <1>3, <1>4

\* The first rule that matches and does not continue is what the chain means.
LEMMA FirstDecides ==
    ASSUME NEW p \in Configuration, NEW q \in Evaluations,
           NEW k \in 1 .. Len(p[q.chain]),
           q.request \in p[q.chain][k].match,
           \A j \in 1 .. k - 1 : j \notin Deciding(p, Meaning(p), q),
           RuleMeaning(Meaning(p), q, p[q.chain][k]) # Continue
    PROVE  Meaning(p)[q] = RuleMeaning(Meaning(p), q, p[q.chain][k])
  <1> DEFINE D == Deciding(p, Meaning(p), q)
  <1>1. q.chain \in AllChains /\ p[q.chain] \in Seq(Rule)
    BY DEF Evaluations, Configuration
  <1>2. DOMAIN p[q.chain] = 1 .. Len(p[q.chain]) /\ Len(p[q.chain]) \in Nat
    BY <1>1
  <1>3. D \in SUBSET Nat /\ k \in D
    BY <1>2 DEF Deciding
  <1>4. \A j \in D : j \in 1 .. Len(p[q.chain])
    BY <1>2 DEF Deciding
  <1> HIDE DEF D
  <1>5. Earliest(D) \in D /\ Earliest(D) <= k
    BY <1>3, EarliestIsFirst
  <1>6. Earliest(D) \notin 1 .. k - 1
    BY <1>5 DEF D
  <1>7. Earliest(D) = k
    BY <1>2, <1>4, <1>5, <1>6
  <1>8. Meaning(p)[q] = ChainMeaning(p, Meaning(p), q)
    BY MeaningUnfolds
  <1> QED
    BY <1>3, <1>7, <1>8 DEF ChainMeaning, D

\* A chain of which no rule decides continues.
LEMMA NoneDecides ==
    ASSUME NEW p \in Configuration, NEW q \in Evaluations,
           \A j \in 1 .. Len(p[q.chain]) :
               j \notin Deciding(p, Meaning(p), q)
    PROVE  Meaning(p)[q] = Continue
  <1>1. q.chain \in AllChains /\ p[q.chain] \in Seq(Rule)
    BY DEF Evaluations, Configuration
  <1>2. DOMAIN p[q.chain] = 1 .. Len(p[q.chain])
    BY <1>1
  <1>3. Deciding(p, Meaning(p), q) = {}
    BY <1>2 DEF Deciding
  <1>4. Meaning(p)[q] = ChainMeaning(p, Meaning(p), q)
    BY MeaningUnfolds
  <1> QED
    BY <1>3, <1>4 DEF ChainMeaning

\* Call::action and GoTo::action do what the reference definition says.
LEMMA ReceivedIsMeant ==
    ASSUME NEW rule \in Rule, IsReference(rule), NEW a \in Results
    PROVE  /\ Received(rule, a) = ReferenceMeaning(rule, a)
           /\ Received(rule, a) \in Results
  <1>1. rule.priority \in Int \cup {Unset} /\ rule.kind \in {"call", "goto"}
    BY DEF Rule, IsReference
  <1>2. CASE a \in {Rejected, DefaultAction, Thrown}
    BY <1>2 DEF Received, ReferenceMeaning, WithPriority, Results, Rejected,
       DefaultAction, Thrown, Continue, ActionOf
  <1>3. CASE a = Continue
    BY <1>1, <1>3 DEF Received, ReferenceMeaning, WithPriority, Results,
       DefaultAction, Continue, ActionOf
  <1>4. ASSUME NEW x \in Int \cup {Unset}, a = Accepted(x)
        PROVE  /\ Received(rule, a) = ReferenceMeaning(rule, a)
               /\ Received(rule, a) \in Results
    <2>1. a.action = "ACCEPT" /\ a.priority = x /\ a # Continue
      BY <1>4 DEF Accepted, Continue, ActionOf
    <2>2. ReferenceMeaning(rule, a) =
              Accepted(IF x = Unset THEN rule.priority ELSE x)
      BY <2>1 DEF ReferenceMeaning
    <2>3. Received(rule, a) = WithPriority(a, rule.priority)
      BY <2>1 DEF Received
    <2>4. WithPriority(a, rule.priority) =
              Accepted(IF x = Unset THEN rule.priority ELSE x)
      BY <1>4, <2>1 DEF WithPriority, Accepted, ActionOf
    <2> QED
      BY <1>1, <2>2, <2>3, <2>4 DEF Results
  <1> QED
    BY <1>2, <1>3, <1>4 DEF Results

-----------------------------------------------------------------------------
(* Frames *)

\* The frames of a thread hold evaluations, each of the chain the one below
\* leads to.
LEMMA EvalTypes ==
    ASSUME NEW r \in Requests, NEW frames \in Seq(Frames),
           NEW i \in 1 .. Len(frames)
    PROVE  /\ EvalAt(r, frames, i) \in Evaluations
           /\ EvalAt(r, frames, i).request = r
           /\ EvalAt(r, frames, i).chain = frames[i].chain
           /\ Entered(EvalAt(r, frames, i)) =
                  {frames[j].chain : j \in 1 .. i}
  <1>1. \A j \in 1 .. Len(frames) : frames[j].chain \in AllChains
    <2>1. \A j \in 1 .. Len(frames) : frames[j] \in Frames
      OBVIOUS
    <2> QED
      BY <2>1 DEF Frames
  <1>2. i \in Nat /\ i >= 1 /\ \A j \in 1 .. i : j \in 1 .. Len(frames)
    OBVIOUS
  <1>3. {frames[j].chain : j \in 1 .. i - 1} \in SUBSET AllChains
    BY <1>1, <1>2
  <1>4. {frames[j].chain : j \in 1 .. i - 1} \cup {frames[i].chain} =
            {frames[j].chain : j \in 1 .. i}
    <2>1. \A j \in 1 .. i : j \in 1 .. i - 1 \/ j = i
      BY <1>2
    <2>2. i \in 1 .. i /\ \A j \in 1 .. i - 1 : j \in 1 .. i
      BY <1>2
    <2> QED
      BY <2>1, <2>2
  <1> QED
    BY <1>1, <1>3, <1>4 DEF EvalAt, Evaluations, Entered

LEMMA EvalWithin ==
    ASSUME NEW r \in Requests, NEW frames \in Seq(Frames),
           NEW i \in 1 .. Len(frames) - 1
    PROVE  EvalAt(r, frames, i + 1) =
               Within(EvalAt(r, frames, i), frames[i + 1].chain)
  <1>1. i \in 1 .. Len(frames) /\ (i + 1) - 1 = i
    OBVIOUS
  <1>2. Entered(EvalAt(r, frames, i)) = {frames[j].chain : j \in 1 .. i}
    BY <1>1, EvalTypes
  <1> DEFINE e == EvalAt(r, frames, i)  S == {frames[j].chain : j \in 1 .. i}
  <1>3. Within(e, frames[i + 1].chain) =
            [request |-> r, inside |-> S, chain |-> frames[i + 1].chain]
    <2>1. Entered(e) = S
      BY <1>2
    <2> HIDE DEF S
    <2>2. Within(e, frames[i + 1].chain) =
              [e EXCEPT !.inside = S, !.chain = frames[i + 1].chain]
      BY <2>1 DEF Within
    <2> QED
      BY <2>2 DEF EvalAt
  <1>4. EvalAt(r, frames, i + 1) =
            [request |-> r, inside |-> S, chain |-> frames[i + 1].chain]
    BY <1>1 DEF EvalAt
  <1> QED
    BY <1>3, <1>4

\* Only the chains of the frames up to the i-th count.
LEMMA EvalSame ==
    ASSUME NEW r, NEW frames, NEW other, NEW i \in Nat, i >= 1,
           \A j \in 1 .. i : frames[j].chain = other[j].chain
    PROVE  EvalAt(r, frames, i) = EvalAt(r, other, i)
  <1>1. i \in 1 .. i /\ \A j \in 1 .. i - 1 : j \in 1 .. i
    OBVIOUS
  <1>2. {frames[j].chain : j \in 1 .. i - 1} =
            {other[j].chain : j \in 1 .. i - 1}
    BY <1>1
  <1> QED
    BY <1>1, <1>2 DEF EvalAt

-----------------------------------------------------------------------------
(* One thread *)

\* A chain has been entered that is not in the frames.
LEMMA PushOnCourse ==
    ASSUME NEW p \in Configuration, NEW r \in Requests,
           NEW frames \in Seq(Frames), NEW d \in AllChains,
           OnCourse(p, r, frames, Busy),
           frames = <<>> => d = Default,
           frames # <<>> =>
               LET top == frames[Len(frames)] IN
                   /\ top.at <= Len(p[top.chain])
                   /\ r \in RuleAt(p, top).match
                   /\ IsReference(RuleAt(p, top))
                   /\ RuleAt(p, top).chain = d
    PROVE  OnCourse(p, r, Append(frames, Frame(d)), Busy)
  <1> DEFINE new == Append(frames, Frame(d))  n == Len(frames)
  <1>1. Frame(d).chain = d /\ Frame(d).at = 1
    BY DEF Frame
  <1>2. /\ n \in Nat /\ Len(new) = n + 1 /\ new[n + 1] = Frame(d)
        /\ \A i \in 1 .. n : new[i] = frames[i]
    OBVIOUS
  <1>3. \A i \in 1 .. n + 1 : i \in 1 .. n \/ i = n + 1
    BY <1>2
  <1>4. p[d] \in Seq(Rule) /\ Len(p[d]) \in Nat
    BY DEF Configuration
  <1>5. n = 0 <=> frames = <<>>
    OBVIOUS
  <1> HIDE DEF new, n
  <1>6. new # <<>> /\ new[1].chain = Default
    <2>1. new # <<>>
      BY <1>2
    <2>2. CASE n = 0
      <3>1. new[1] = Frame(d) /\ d = Default
        BY <1>2, <1>5, <2>2
      <3> QED
        BY <1>1, <2>1, <3>1
    <2>3. CASE n # 0
      <3>1. 1 \in 1 .. n /\ frames # <<>>
        BY <1>2, <1>5, <2>3
      <3>2. new[1] = frames[1] /\ frames[1].chain = Default
        BY <1>2, <3>1 DEF OnCourse
      <3> QED
        BY <2>1, <3>2
    <2> QED
      BY <2>2, <2>3
  <1>7. Passed(p, r, new)
    <2>1. ASSUME NEW i \in 1 .. n
          PROVE  /\ new[i].at \in 1 .. Len(p[new[i].chain]) + 1
                 /\ \A k \in 1 .. new[i].at - 1 :
                        k \notin Deciding(p, Meaning(p), EvalAt(r, new, i))
      <3>1. \A j \in 1 .. i : new[j].chain = frames[j].chain
        BY <1>2
      <3>2. EvalAt(r, new, i) = EvalAt(r, frames, i)
        BY <3>1, EvalSame
      <3>3. new[i] = frames[i]
        BY <1>2
      <3> QED
        BY <3>2, <3>3 DEF OnCourse, Passed, n
    <2>2. /\ new[n + 1].at \in 1 .. Len(p[new[n + 1].chain]) + 1
          /\ \A k \in 1 .. new[n + 1].at - 1 :
                 k \notin Deciding(p, Meaning(p), EvalAt(r, new, n + 1))
      BY <1>1, <1>2, <1>4
    <2> QED
      BY <1>2, <1>3, <2>1, <2>2 DEF Passed
  <1>8. Linked(p, r, new)
    <2> SUFFICES ASSUME NEW i \in 1 .. Len(new) - 1
                 PROVE  /\ new[i].at <= Len(p[new[i].chain])
                        /\ r \in RuleAt(p, new[i]).match
                        /\ IsReference(RuleAt(p, new[i]))
                        /\ RuleAt(p, new[i]).chain = new[i + 1].chain
      BY DEF Linked
    <2>1. i \in 1 .. n /\ new[i] = frames[i] /\ frames # <<>>
      BY <1>2, <1>5
    <2>2. CASE i = n
      BY <1>1, <1>2, <2>1, <2>2 DEF n
    <2>3. CASE i # n
      <3>1. i \in 1 .. n - 1 /\ i + 1 \in 1 .. n
        BY <1>2, <2>1, <2>3
      <3>2. new[i + 1] = frames[i + 1]
        BY <1>2, <3>1
      <3> QED
        BY <2>1, <3>1, <3>2 DEF OnCourse, Linked, n
    <2> QED
      BY <2>2, <2>3
  <1> QED
    BY <1>6, <1>7, <1>8 DEF OnCourse, Returned, new

\* The rule the top frame is at does not decide.
LEMMA AdvanceOnCourse ==
    ASSUME NEW p \in Configuration, NEW r \in Requests,
           NEW frames \in Seq(Frames), frames # <<>>,
           OnCourse(p, r, frames, Busy),
           frames[Len(frames)].at <= Len(p[frames[Len(frames)].chain]),
           frames[Len(frames)].at \notin
               Deciding(p, Meaning(p), EvalAt(r, frames, Len(frames)))
    PROVE  OnCourse(p, r, Advanced(frames), Busy)
  <1> DEFINE new == Advanced(frames)  n == Len(frames)
  <1>1. n \in Nat /\ n \in 1 .. n /\ n >= 1
    OBVIOUS
  <1>2. \A i \in 1 .. n : frames[i] \in Frames
    OBVIOUS
  <1>3. \A i \in 1 .. n : frames[i].chain \in AllChains
    BY <1>2 DEF Frames
  <1>4. frames[n].at \in Nat /\ frames[n].at >= 1
    BY <1>1, <1>2 DEF Frames
  <1>5. /\ new \in Seq(Frames) /\ Len(new) = n
        /\ \A i \in 1 .. n : i # n => new[i] = frames[i]
        /\ new[n].chain = frames[n].chain /\ new[n].at = frames[n].at + 1
    <2>1. new = [frames EXCEPT ![n] = [frames[n] EXCEPT !.at = @ + 1]]
      BY DEF Advanced
    <2>2. [frames[n] EXCEPT !.at = @ + 1] \in Frames
      BY <1>1, <1>2 DEF Frames
    <2>3. /\ [frames[n] EXCEPT !.at = @ + 1].chain = frames[n].chain
          /\ [frames[n] EXCEPT !.at = @ + 1].at = frames[n].at + 1
      BY <1>1, <1>2 DEF Frames
    <2> QED
      BY <1>1, <1>2, <2>1, <2>2, <2>3
  <1> HIDE DEF new, n
  <1>6. \A i \in 1 .. n : new[i].chain = frames[i].chain
    BY <1>5
  <1>7. \A i \in 1 .. n : EvalAt(r, new, i) = EvalAt(r, frames, i)
    <2> SUFFICES ASSUME NEW i \in 1 .. n
                 PROVE  EvalAt(r, new, i) = EvalAt(r, frames, i)
      OBVIOUS
    <2>1. \A j \in 1 .. i : new[j].chain = frames[j].chain
      BY <1>1, <1>6
    <2> QED
      BY <1>1, <2>1, EvalSame
  <1>8. Passed(p, r, new)
    <2> SUFFICES ASSUME NEW i \in 1 .. n
                 PROVE  /\ new[i].at \in 1 .. Len(p[new[i].chain]) + 1
                        /\ \A k \in 1 .. new[i].at - 1 :
                               k \notin Deciding(p, Meaning(p),
                                                EvalAt(r, frames, i))
      BY <1>5, <1>7 DEF Passed
    <2>1. /\ frames[i].at \in 1 .. Len(p[frames[i].chain]) + 1
          /\ \A k \in 1 .. frames[i].at - 1 :
                 k \notin Deciding(p, Meaning(p), EvalAt(r, frames, i))
      BY DEF OnCourse, Passed, n
    <2>2. CASE i # n
      BY <1>5, <2>1, <2>2
    <2>3. CASE i = n
      <3>1. Len(p[frames[n].chain]) \in Nat
        BY <1>1, <1>3 DEF Configuration
      <3>2. frames[n].at <= Len(p[frames[n].chain])
        BY DEF n
      <3>3. new[n].at \in 1 .. Len(p[new[n].chain]) + 1
        BY <1>4, <1>5, <3>1, <3>2
      <3>4. \A k \in 1 .. new[n].at - 1 :
                k \in 1 .. frames[n].at - 1 \/ k = frames[n].at
        BY <1>4, <1>5
      <3>5. frames[n].at \notin Deciding(p, Meaning(p), EvalAt(r, frames, n))
        BY DEF n
      <3> QED
        BY <2>1, <2>3, <3>3, <3>4, <3>5
    <2> QED
      BY <2>2, <2>3
  <1>9. Linked(p, r, new)
    <2> SUFFICES ASSUME NEW i \in 1 .. n - 1
                 PROVE  /\ new[i].at <= Len(p[new[i].chain])
                        /\ r \in RuleAt(p, new[i]).match
                        /\ IsReference(RuleAt(p, new[i]))
                        /\ RuleAt(p, new[i]).chain = new[i + 1].chain
      BY <1>5 DEF Linked
    <2>1. i \in 1 .. n /\ i # n /\ i + 1 \in 1 .. n
      BY <1>1
    <2>2. new[i] = frames[i] /\ new[i + 1].chain = frames[i + 1].chain
      BY <1>5, <1>6, <2>1
    <2> QED
      BY <2>2 DEF OnCourse, Linked, n
  <1>10. new # <<>> /\ new[1].chain = Default
    <2>1. 1 \in 1 .. n
      BY <1>1
    <2> QED
      BY <1>1, <1>5, <1>6, <2>1 DEF OnCourse
  <1> QED
    BY <1>8, <1>9, <1>10 DEF OnCourse, Returned, new

\* The chain of the top frame is left.
LEMMA PopOnCourse ==
    ASSUME NEW p \in Configuration, NEW r \in Requests,
           NEW frames \in Seq(Frames), Len(frames) > 1, NEW ret,
           OnCourse(p, r, frames, ret)
    PROVE  LET n == Len(frames)  rest == Popped(frames) IN
               /\ rest \in Seq(Frames) /\ Len(rest) = n - 1
               /\ rest # <<>> /\ rest[n - 1] = frames[n - 1]
               /\ EvalAt(r, rest, n - 1) = EvalAt(r, frames, n - 1)
               /\ OnCourse(p, r, rest, Busy)
  <1> DEFINE n == Len(frames)  rest == Popped(frames)
  <1>1. n \in Nat /\ n > 1
    OBVIOUS
  <1>2. /\ rest \in Seq(Frames) /\ Len(rest) = n - 1
        /\ \A i \in 1 .. n - 1 : rest[i] = frames[i]
    BY PopIsPrefix
  <1> HIDE DEF n, rest
  <1>3. rest # <<>> /\ n - 1 \in 1 .. n - 1 /\ 1 \in 1 .. n - 1
    BY <1>1, <1>2
  <1>4. \A i \in 1 .. n - 1 : EvalAt(r, rest, i) = EvalAt(r, frames, i)
    <2> SUFFICES ASSUME NEW i \in 1 .. n - 1
                 PROVE  EvalAt(r, rest, i) = EvalAt(r, frames, i)
      OBVIOUS
    <2>1. \A j \in 1 .. i : rest[j].chain = frames[j].chain
      BY <1>1, <1>2
    <2> QED
      BY <1>1, <2>1, EvalSame
  <1>5. \A i \in 1 .. n - 1 : i \in 1 .. n
    BY <1>1
  <1>6. Passed(p, r, rest)
    BY <1>2, <1>4, <1>5 DEF OnCourse, Passed, n
  <1>7. Linked(p, r, rest)
    <2>1. \A i \in 1 .. (n - 1) - 1 :
              i \in 1 .. n - 1 /\ i + 1 \in 1 .. n - 1
      BY <1>1
    <2> QED
      BY <1>2, <2>1 DEF OnCourse, Linked, n
  <1>8. rest[1].chain = Default
    BY <1>1, <1>2, <1>3 DEF OnCourse, n
  <1>9. OnCourse(p, r, rest, Busy)
    BY <1>6, <1>7, <1>8 DEF OnCourse, Returned
  <1> QED
    BY <1>2, <1>3, <1>4, <1>9 DEF n, rest

\* The frame below takes what its rule makes of the result, and continues
\* or returns.
LEMMA LeaveOnCourse ==
    ASSUME NEW p \in Configuration, NEW r \in Requests,
           NEW frames \in Seq(Frames), Len(frames) > 1, Distinct(frames),
           NEW ret \in Results, OnCourse(p, r, frames, ret)
    PROVE  LET rest == Popped(frames)
               got  == Received(RuleAt(p, rest[Len(rest)]), ret)
           IN  /\ got = Continue => OnCourse(p, r, Advanced(rest), Busy)
               /\ got # Continue => OnCourse(p, r, rest, got)
  <1> DEFINE n == Len(frames)  m == n - 1  rest == Popped(frames)
             rule == RuleAt(p, rest[m])  got == Received(rule, ret)
             q == EvalAt(r, rest, m)
  <1>1. n \in Nat /\ n > 1 /\ m \in 1 .. n - 1 /\ m \in 1 .. n /\ m + 1 = n
    OBVIOUS
  <1>2. /\ rest \in Seq(Frames) /\ Len(rest) = m /\ rest # <<>>
        /\ rest[m] = frames[m] /\ q = EvalAt(r, frames, m)
        /\ OnCourse(p, r, rest, Busy)
    BY PopOnCourse
  <1> HIDE DEF n, m, rest, q
  <1>3. /\ q \in Evaluations /\ q.request = r /\ q.chain = frames[m].chain
        /\ Entered(q) = {frames[j].chain : j \in 1 .. m}
    BY <1>1, <1>2, EvalTypes DEF n
  <1>4. /\ frames[m].at <= Len(p[frames[m].chain])
        /\ r \in rule.match /\ IsReference(rule)
        /\ rule.chain = frames[n].chain
    BY <1>1, <1>2 DEF OnCourse, Linked, n
  <1>5. /\ frames[m].at \in 1 .. Len(p[frames[m].chain])
        /\ rule = p[q.chain][frames[m].at] /\ rule \in Rule
        /\ frames[m].at \in DOMAIN p[q.chain]
    <2>1. frames[m] \in Frames
      BY <1>1 DEF n
    <2>2. /\ frames[m].chain \in AllChains
          /\ frames[m].at \in Nat /\ frames[m].at >= 1
      BY <2>1 DEF Frames
    <2>3. p[frames[m].chain] \in Seq(Rule)
      BY <2>2 DEF Configuration
    <2>4. rule = p[frames[m].chain][frames[m].at]
      BY <1>2 DEF RuleAt
    <2> HIDE DEF rule
    <2> QED
      BY <1>3, <1>4, <2>2, <2>3, <2>4
  <1> HIDE DEF rule
  <1>6. frames[n].chain \notin Entered(q)
    <2>1. \A j \in 1 .. m : j \in 1 .. n /\ n \in 1 .. n /\ j # n
      BY <1>1
    <2> QED
      BY <1>3, <2>1 DEF Distinct, n
  <1>7. ret = Meaning(p)[Within(q, rule.chain)]
    <2>1. ret = Meaning(p)[EvalAt(r, frames, n)]
      BY ResultsDiffer DEF OnCourse, Returned, n
    <2>2. EvalAt(r, frames, n) = Within(q, frames[n].chain)
      BY <1>1, <1>2, EvalWithin DEF n
    <2> QED
      BY <1>4, <2>1, <2>2
  <1>8. RuleMeaning(Meaning(p), q, rule) = ReferenceMeaning(rule, ret)
    BY <1>4, <1>6, <1>7 DEF RuleMeaning, IsReference
  <1>9. RuleMeaning(Meaning(p), q, rule) = got /\ got \in Results
    BY <1>4, <1>5, <1>8, ReceivedIsMeant
  <1> HIDE DEF got
  <1>10. \A j \in 1 .. frames[m].at - 1 : j \notin Deciding(p, Meaning(p), q)
    BY <1>1, <1>2 DEF OnCourse, Passed, n
  <1>11. ASSUME got = Continue PROVE OnCourse(p, r, Advanced(rest), Busy)
    <2>1. frames[m].at \notin Deciding(p, Meaning(p), q)
      BY <1>5, <1>9, <1>11 DEF Deciding
    <2> QED
      BY <1>2, <1>4, <2>1, AdvanceOnCourse DEF q
  <1>12. ASSUME got # Continue PROVE OnCourse(p, r, rest, got)
    <2>1. got = Meaning(p)[q]
      BY <1>3, <1>4, <1>5, <1>9, <1>10, <1>12, FirstDecides
    <2> QED
      BY <1>2, <1>9, <2>1 DEF OnCourse, Returned, q
  <1> QED
    BY <1>2, <1>11, <1>12 DEF got, rule, rest

-----------------------------------------------------------------------------
(* The specification *)

\* What the invariant says of a thread in the middle of an evaluation.
LEMMA ThreadFacts ==
    ASSUME RInv, NEW t \in Threads
    PROVE  /\ program \in Configuration
           /\ request[t] \in Requests
           /\ stack[t] \in Seq(Frames) /\ Distinct(stack[t])
           /\ OnCourse(program, request[t], stack[t], returning[t])
           /\ outcome[t] # Busy =>
                  /\ stack[t] = <<>>
                  /\ outcome[t] = Verdict(Meaning(program)[Asked(t)])
           /\ \A c \in AllChains : t \in calling[c] <=> In(c, stack[t])
  BY ProgramsAssumption
  DEF RInv, IInv, TypeOK, Configuration, Frames, Guarded, Answered

\* The top frame is in an evaluation, at one of its rules.
LEMMA TopFacts ==
    ASSUME RInv, NEW t \in Threads, stack[t] # <<>>
    PROVE  LET n == Len(stack[t])  q == EvalAt(request[t], stack[t], n) IN
               /\ n \in 1 .. Len(stack[t]) /\ Top(t) = stack[t][n]
               /\ q \in Evaluations /\ q.request = request[t]
               /\ q.chain = Top(t).chain
               /\ \A c \in AllChains : c \in Entered(q) <=> In(c, stack[t])
               /\ Rules(t) = program[q.chain] /\ Rules(t) \in Seq(Rule)
               /\ Top(t).at \in 1 .. Len(Rules(t)) + 1
               /\ \A k \in 1 .. Top(t).at - 1 :
                      k \notin Deciding(program, Meaning(program), q)
  <1> DEFINE n == Len(stack[t])  r == request[t]  frames == stack[t]
             q == EvalAt(r, frames, n)
  <1>1. /\ program \in Configuration /\ r \in Requests
        /\ frames \in Seq(Frames)
        /\ OnCourse(program, r, frames, returning[t])
    BY ThreadFacts
  <1>2. n \in 1 .. n /\ Top(t) = frames[n]
    BY <1>1 DEF Top
  <1> HIDE DEF frames, r
  <1>3. /\ q \in Evaluations /\ q.request = r /\ q.chain = frames[n].chain
        /\ Entered(q) = {frames[j].chain : j \in 1 .. n}
    BY <1>1, <1>2, EvalTypes DEF frames
  <1>4. \A c \in AllChains : c \in Entered(q) <=> In(c, frames)
    BY <1>3 DEF In, frames
  <1>5. q.chain \in AllChains
    BY <1>3 DEF Evaluations
  <1>6. Rules(t) = program[q.chain] /\ Rules(t) \in Seq(Rule)
    BY <1>1, <1>2, <1>3, <1>5 DEF Rules, Configuration
  <1>7. /\ Top(t).at \in 1 .. Len(Rules(t)) + 1
        /\ \A k \in 1 .. Top(t).at - 1 :
               k \notin Deciding(program, Meaning(program), q)
    BY <1>1, <1>2, <1>3, <1>6 DEF OnCourse, Passed, frames
  <1> QED
    BY <1>2, <1>3, <1>4, <1>6, <1>7 DEF frames, r

\* A rule that decides makes the chain return what it means.
LEMMA DecideOnCourse ==
    ASSUME RInv, NEW t \in Threads, Matches(t), NEW ret \in Results,
           ret # Continue,
           ret = RuleMeaning(Meaning(program),
                     EvalAt(request[t], stack[t], Len(stack[t])), Current(t))
    PROVE  OnCourse(program, request[t], stack[t], ret)
  <1> DEFINE n == Len(stack[t])  q == EvalAt(request[t], stack[t], n)
             k == Top(t).at
  <1>1. /\ stack[t] # <<>> /\ k <= Len(Rules(t))
        /\ request[t] \in Current(t).match
    BY DEF Matches, Running
  <1>2. /\ program \in Configuration
        /\ OnCourse(program, request[t], stack[t], returning[t])
    BY ThreadFacts
  <1>3. /\ q \in Evaluations /\ q.request = request[t]
        /\ Rules(t) = program[q.chain] /\ Rules(t) \in Seq(Rule)
        /\ k \in 1 .. Len(Rules(t)) + 1
        /\ \A j \in 1 .. k - 1 :
               j \notin Deciding(program, Meaning(program), q)
    BY <1>1, TopFacts
  <1>4. Current(t) = program[q.chain][k]
    BY <1>3 DEF Current
  <1> HIDE DEF q, k
  <1>5. k \in 1 .. Len(program[q.chain])
    BY <1>1, <1>3 DEF k
  <1>6. Meaning(program)[q] = ret
    BY <1>1, <1>2, <1>3, <1>4, <1>5, FirstDecides DEF q
  <1> QED
    BY <1>1, <1>2, <1>6 DEF OnCourse, Returned, q

\* A step of one thread leaves the others where they are.
LEMMA OthersOnCourse ==
    ASSUME RInv, IInv', NEW t \in Threads,
           UNCHANGED <<program, acceptByDefault>>,
           \A u \in Threads \ {t} :
               /\ stack'[u] = stack[u] /\ returning'[u] = returning[u]
               /\ request'[u] = request[u] /\ outcome'[u] = outcome[u],
           OnCourse(program, request'[t], stack'[t], returning'[t]),
           outcome'[t] # Busy =>
               /\ stack'[t] = <<>>
               /\ outcome'[t] = Verdict(Meaning(program)[
                     [request |-> request'[t], inside |-> {},
                      chain |-> Default]])
    PROVE  RInv'
  <1>1. ASSUME NEW u \in Threads
        PROVE  /\ OnCourse(program', request'[u], stack'[u], returning'[u])
               /\ Answered(u)'
    <2>1. CASE u = t
      BY <2>1 DEF Answered, Asked, Asking, Verdict
    <2>2. CASE u # t
      BY <2>2 DEF RInv, Answered, Asked, Asking, Verdict
    <2> QED
      BY <2>1, <2>2
  <1> QED
    BY <1>1 DEF RInv

\* One lemma for each step of a thread.
LEMMA WillAcceptOnCourse ==
    ASSUME RInv, IInv', NEW t \in Threads, WillAccept(t)
    PROVE  RInv'
  <1>1. /\ program \in Configuration /\ request[t] \in Requests
        /\ stack[t] = <<>> /\ stack[t] \in Seq(Frames)
        /\ OnCourse(program, request[t], stack[t], returning[t])
    BY ThreadFacts DEF WillAccept
  <1>2. Default \in AllChains /\ t \notin calling[Default]
    BY <1>1, ThreadFacts DEF In, AllChains
  <1>3. /\ stack' = [stack EXCEPT ![t] = Append(stack[t], Frame(Default))]
        /\ outcome[t] = Busy
        /\ UNCHANGED <<program, acceptByDefault, returning, request, outcome>>
    BY <1>2 DEF WillAccept, MayEnter, EnterChain
  <1>4. returning[t] = Busy
    BY <1>1 DEF OnCourse, Returned
  <1>5. OnCourse(program, request[t], Append(stack[t], Frame(Default)), Busy)
    BY <1>1, <1>2, <1>4, PushOnCourse
  <1>6. stack \in [Threads -> Seq(Frames)]
    BY DEF RInv, IInv, TypeOK, Frames
  <1> QED
    BY <1>3, <1>4, <1>5, <1>6, OthersOnCourse

LEMMA FallThroughOnCourse ==
    ASSUME RInv, IInv', NEW t \in Threads, FallThrough(t)
    PROVE  RInv'
  <1> DEFINE q == EvalAt(request[t], stack[t], Len(stack[t]))
  <1>1. /\ program \in Configuration /\ stack[t] # <<>>
        /\ OnCourse(program, request[t], stack[t], returning[t])
        /\ outcome[t] = Busy
    BY ThreadFacts DEF FallThrough, Running
  <1>2. /\ q \in Evaluations
        /\ Rules(t) = program[q.chain] /\ Rules(t) \in Seq(Rule)
        /\ Top(t).at \in 1 .. Len(Rules(t)) + 1
        /\ \A k \in 1 .. Top(t).at - 1 :
               k \notin Deciding(program, Meaning(program), q)
    BY <1>1, TopFacts
  <1>3. Top(t).at > Len(Rules(t))
    BY DEF FallThrough
  <1> HIDE DEF q
  <1>4. Top(t).at - 1 = Len(program[q.chain])
    BY <1>2, <1>3
  <1>5. Meaning(program)[q] = Continue
    BY <1>1, <1>2, <1>4, NoneDecides
  <1>6. OnCourse(program, request[t], stack[t], Continue)
    BY <1>1, <1>5, ResultsDiffer DEF OnCourse, Returned, q
  <1>7. DOMAIN returning = Threads
    BY DEF RInv, IInv, TypeOK
  <1>8. /\ returning' = [returning EXCEPT ![t] = Continue]
        /\ UNCHANGED <<program, acceptByDefault, stack, request, outcome>>
    BY DEF FallThrough
  <1> QED
    BY <1>1, <1>6, <1>7, <1>8, OthersOnCourse

LEMMA SkipOnCourse ==
    ASSUME RInv, IInv', NEW t \in Threads, Skip(t)
    PROVE  RInv'
  <1> DEFINE q == EvalAt(request[t], stack[t], Len(stack[t]))
  <1>1. /\ program \in Configuration /\ request[t] \in Requests
        /\ stack[t] \in Seq(Frames) /\ stack[t] # <<>>
        /\ OnCourse(program, request[t], stack[t], Busy)
        /\ returning[t] = Busy /\ outcome[t] = Busy
    BY ThreadFacts DEF Skip, Running
  <1>2. /\ Top(t) = stack[t][Len(stack[t])] /\ q.request = request[t]
        /\ q.chain = Top(t).chain /\ Rules(t) = program[q.chain]
    BY <1>1, TopFacts
  <1>3. /\ Top(t).at <= Len(Rules(t)) /\ request[t] \notin Current(t).match
        /\ stack' = [stack EXCEPT ![t] = Advanced(stack[t])]
        /\ UNCHANGED <<program, acceptByDefault, returning, request, outcome>>
    BY DEF Skip
  <1> HIDE DEF q
  <1>4. Top(t).at \notin Deciding(program, Meaning(program), q)
    BY <1>2, <1>3 DEF Deciding, Current
  <1>5. OnCourse(program, request[t], Advanced(stack[t]), Busy)
    BY <1>1, <1>2, <1>3, <1>4, AdvanceOnCourse DEF q
  <1>6. stack \in [Threads -> Seq(Frames)]
    BY DEF RInv, IInv, TypeOK, Frames
  <1> QED
    BY <1>1, <1>3, <1>5, <1>6, OthersOnCourse

\* The rule of a thread that matches is a rule.
LEMMA CurrentIsRule ==
    ASSUME RInv, NEW t \in Threads, Matches(t)
    PROVE  Current(t) \in Rule
  <1>1. /\ Rules(t) \in Seq(Rule) /\ Top(t).at \in 1 .. Len(Rules(t)) + 1
        /\ Top(t).at <= Len(Rules(t))
    BY TopFacts DEF Matches, Running
  <1>2. Top(t).at \in 1 .. Len(Rules(t))
    BY <1>1
  <1> QED
    BY <1>1, <1>2 DEF Current

LEMMA DecideKeepsCourse ==
    ASSUME RInv, IInv', NEW t \in Threads, Decide(t)
    PROVE  RInv'
  <1> DEFINE q == EvalAt(request[t], stack[t], Len(stack[t]))
             ret == IF Current(t).kind = "accept"
                      THEN Accepted(Current(t).priority) ELSE Rejected
  <1>1. /\ Matches(t) /\ Current(t) \in Rule
        /\ Current(t).kind \in {"accept", "reject"}
    BY CurrentIsRule DEF Decide, IsReference, Rule
  <1>2. ret \in Results /\ ret # Continue
    BY <1>1, ResultsDiffer DEF Results, Rule
  <1>3. ret = RuleMeaning(Meaning(program), q, Current(t))
    BY <1>1 DEF RuleMeaning, IsReference
  <1> HIDE DEF ret, q
  <1>4. OnCourse(program, request[t], stack[t], ret)
    BY <1>1, <1>2, <1>3, DecideOnCourse DEF q
  <1>5. DOMAIN returning = Threads
    BY DEF RInv, IInv, TypeOK
  <1>6. /\ returning' = [returning EXCEPT ![t] = ret]
        /\ UNCHANGED <<program, acceptByDefault, stack, request, outcome>>
    BY DEF Decide, ret
  <1>7. outcome[t] = Busy
    BY <1>1, ThreadFacts DEF Matches, Running
  <1> QED
    BY <1>4, <1>5, <1>6, <1>7, OthersOnCourse

LEMMA EnterOnCourse ==
    ASSUME RInv, IInv', NEW t \in Threads, Enter(t)
    PROVE  RInv'
  <1> DEFINE d == Current(t).chain
  <1>1. /\ Matches(t) /\ IsReference(Current(t)) /\ stack[t] # <<>>
        /\ returning[t] = Busy /\ Current(t) \in Rule
    BY CurrentIsRule DEF Enter, Matches, Running
  <1>2. /\ program \in Configuration /\ request[t] \in Requests
        /\ stack[t] \in Seq(Frames)
        /\ OnCourse(program, request[t], stack[t], Busy)
        /\ outcome[t] = Busy
    BY <1>1, ThreadFacts
  <1>3. /\ stack' = [stack EXCEPT ![t] = Append(stack[t], Frame(d))]
        /\ UNCHANGED <<program, acceptByDefault, returning, request, outcome>>
    BY DEF Enter, EnterChain
  <1>4. /\ Current(t) = RuleAt(program, Top(t))
        /\ Top(t) = stack[t][Len(stack[t])]
        /\ Top(t).at <= Len(program[Top(t).chain])
        /\ request[t] \in Current(t).match
    BY <1>1 DEF Current, Rules, RuleAt, Top, Matches
  <1>5. d \in AllChains
    BY <1>1 DEF Rule
  <1> HIDE DEF d
  <1>6. OnCourse(program, request[t], Append(stack[t], Frame(d)), Busy)
    BY <1>1, <1>2, <1>4, <1>5, PushOnCourse DEF d
  <1>7. stack \in [Threads -> Seq(Frames)]
    BY DEF RInv, IInv, TypeOK, Frames
  <1> QED
    BY <1>1, <1>2, <1>3, <1>6, <1>7, OthersOnCourse

\* The guard throws exactly when the reference definition says so.
LEMMA ThrowOnCourse ==
    ASSUME RInv, IInv', NEW t \in Threads, Throw(t)
    PROVE  RInv'
  <1> DEFINE q == EvalAt(request[t], stack[t], Len(stack[t]))
  <1>1. /\ Matches(t) /\ IsReference(Current(t)) /\ stack[t] # <<>>
        /\ t \in calling[Current(t).chain] /\ Current(t) \in Rule
    BY CurrentIsRule DEF Throw, Matches, Running, MayEnter
  <1>2. Current(t).chain \in AllChains
    BY <1>1 DEF Rule
  <1>3. In(Current(t).chain, stack[t])
    BY <1>1, <1>2, ThreadFacts
  <1>4. Current(t).chain \in Entered(q)
    BY <1>1, <1>2, <1>3, TopFacts
  <1> HIDE DEF q
  <1>5. Thrown = RuleMeaning(Meaning(program), q, Current(t))
    BY <1>1, <1>4 DEF RuleMeaning, IsReference
  <1>6. Thrown \in Results /\ Thrown # Continue
    BY ResultsDiffer DEF Results
  <1>7. OnCourse(program, request[t], stack[t], Thrown)
    BY <1>1, <1>5, <1>6, DecideOnCourse DEF q
  <1>8. DOMAIN returning = Threads
    BY DEF RInv, IInv, TypeOK
  <1>9. /\ returning' = [returning EXCEPT ![t] = Thrown]
        /\ UNCHANGED <<program, acceptByDefault, stack, request, outcome>>
    BY DEF Throw
  <1>10. outcome[t] = Busy
    BY <1>1, ThreadFacts
  <1> QED
    BY <1>7, <1>8, <1>9, <1>10, OthersOnCourse

LEMMA LeaveKeepsCourse ==
    ASSUME RInv, IInv', NEW t \in Threads, Leave(t)
    PROVE  RInv'
  <1> DEFINE rest == Popped(stack[t])  ret == returning[t]
             got == Received(RuleAt(program, rest[Len(rest)]), ret)
  <1>1. stack[t] # <<>> /\ ret # Busy
    BY DEF Leave
  <1>2. /\ program \in Configuration /\ request[t] \in Requests
        /\ stack[t] \in Seq(Frames) /\ Distinct(stack[t])
        /\ OnCourse(program, request[t], stack[t], ret)
        /\ outcome[t] = Busy
    BY <1>1, ThreadFacts
  <1>3. ret \in Results
    BY <1>1, <1>2 DEF OnCourse, Returned
  <1>4. /\ stack \in [Threads -> Seq(Frames)] /\ DOMAIN returning = Threads
        /\ DOMAIN outcome = Threads
    BY DEF RInv, IInv, TypeOK, Frames
  <1>5. Len(rest) = Len(stack[t]) - 1 /\ Len(stack[t]) \in Nat
    BY <1>1, <1>2, PopIsPrefix
  <1>6. UNCHANGED <<program, acceptByDefault, request>>
    BY DEF Leave
  <1>7. CASE rest = <<>>
    <2>1. Len(stack[t]) = 1
      BY <1>5, <1>7
    <2>2. /\ outcome' = [outcome EXCEPT ![t] = Verdict(ret)]
          /\ returning' = [returning EXCEPT ![t] = Busy]
          /\ stack' = [stack EXCEPT ![t] = rest]
      BY <1>7 DEF Leave
    <2>3. EvalAt(request[t], stack[t], 1) =
              [request |-> request[t], inside |-> {}, chain |-> Default]
      <3>1. {stack[t][j].chain : j \in 1 .. 1 - 1} = {}
        OBVIOUS
      <3>2. stack[t][1].chain = Default
        BY <1>1, <1>2 DEF OnCourse
      <3> QED
        BY <3>1, <3>2 DEF EvalAt
    <2>4. ret = Meaning(program)[[request |-> request[t], inside |-> {},
                                  chain |-> Default]]
      BY <1>1, <1>2, <2>1, <2>3 DEF OnCourse, Returned
    <2>5. OnCourse(program, request[t], <<>>, Busy)
      BY DEF OnCourse, Passed, Linked, Returned
    <2> HIDE DEF ret, rest
    <2> QED
      BY <1>4, <1>6, <1>7, <2>2, <2>4, <2>5, OthersOnCourse
  <1>8. CASE rest # <<>>
    <2>1. Len(stack[t]) > 1
      BY <1>2, <1>5, <1>8, PopIsPrefix
    <2>2. /\ got = Continue =>
                 OnCourse(program, request[t], Advanced(rest), Busy)
          /\ got # Continue => OnCourse(program, request[t], rest, got)
      BY <1>2, <1>3, <2>1, LeaveOnCourse
    <2>3. /\ returning' = [returning EXCEPT
                   ![t] = IF got = Continue THEN Busy ELSE got]
          /\ stack' = [stack EXCEPT
                   ![t] = IF got = Continue THEN Advanced(rest) ELSE rest]
          /\ UNCHANGED outcome
      BY <1>8 DEF Leave, RuleAt
    <2> HIDE DEF got, rest
    <2> QED
      BY <1>2, <1>4, <1>6, <2>2, <2>3, OthersOnCourse
  <1> QED
    BY <1>7, <1>8

LEMMA AgainOnCourse ==
    ASSUME RInv, IInv', NEW t \in Threads, Again(t)
    PROVE  RInv'
  <1>1. /\ outcome[t] # Busy /\ stack[t] = <<>>
        /\ OnCourse(program, request[t], stack[t], returning[t])
    BY ThreadFacts DEF Again
  <1>2. returning[t] = Busy
    BY <1>1 DEF OnCourse, Returned
  <1>3. PICK r \in Requests : request' = [request EXCEPT ![t] = r]
    BY DEF Again
  <1>4. /\ outcome' = [outcome EXCEPT ![t] = Busy]
        /\ UNCHANGED <<program, acceptByDefault, stack, returning>>
    BY DEF Again
  <1>5. OnCourse(program, r, <<>>, Busy)
    BY DEF OnCourse, Passed, Linked, Returned
  <1>6. request \in [Threads -> Requests] /\ DOMAIN outcome = Threads
    BY DEF RInv, IInv, TypeOK
  <1> QED
    BY <1>1, <1>2, <1>3, <1>4, <1>5, <1>6, OthersOnCourse

LEMMA CourseKept == RInv /\ [Next]_vars => RInv'
  <1> SUFFICES ASSUME RInv, [Next]_vars PROVE RInv'
    OBVIOUS
  <1>1. IInv'
    BY InvStep DEF RInv
  <1>2. ASSUME NEW t \in Threads, Step(t) \/ Again(t) PROVE RInv'
    BY <1>1, <1>2, WillAcceptOnCourse, FallThroughOnCourse, SkipOnCourse,
       DecideKeepsCourse, EnterOnCourse, ThrowOnCourse, LeaveKeepsCourse,
       AgainOnCourse DEF Step
  <1>3. CASE UNCHANGED vars
    BY <1>1, <1>3 DEF vars, RInv, Answered, Asked, Asking, Verdict
  <1> QED
    BY <1>2, <1>3 DEF Next

LEMMA CourseInvariant == Spec => []RInv
  <1>1. Init => RInv
    <2> SUFFICES ASSUME Init PROVE RInv
      OBVIOUS
    <2>1. IInv
      BY InitGuarded
    <2>2. ASSUME NEW t \in Threads
          PROVE  /\ OnCourse(program, request[t], stack[t], returning[t])
                 /\ Answered(t)
      BY DEF Init, OnCourse, Passed, Linked, Returned, Answered
    <2> QED
      BY <2>1, <2>2 DEF RInv
  <1> QED
    BY <1>1, CourseKept, PTL DEF Spec

(***************************************************************************)
(* Whatever the configuration, loops included, and however many threads    *)
(* filter at once, will_accept answers what the default chain means for    *)
(* the request by the reference definition: the steps of Chain::action,    *)
(* Call, GoTo, Accept, Reject and of the recursion guards compute it.      *)
(***************************************************************************)
THEOREM AlwaysRight == Spec => []AnswersAreRight
  <1>1. RInv => AnswersAreRight
    BY DEF RInv, Answered, AnswersAreRight
  <1> QED
    BY <1>1, CourseInvariant, PTL
-----------------------------------------------------------------------------
(* Configurations without loops *)

\* Every call and goto leads downwards.
Descends(p, level) ==
    \A c \in AllChains : \A i \in DOMAIN p[c] :
        IsReference(p[c][i]) => level[p[c][i].chain] < level[c]

\* So each frame lies below all the frames under it.
LEMMA FramesDescend ==
    ASSUME NEW p \in Configuration, NEW r \in Requests,
           NEW frames \in Seq(Frames), NEW ret, OnCourse(p, r, frames, ret),
           NEW level \in [AllChains -> Nat], Descends(p, level)
    PROVE  \A i, j \in 1 .. Len(frames) :
               i < j => level[frames[j].chain] < level[frames[i].chain]
  <1> DEFINE n == Len(frames)  L(i) == level[frames[i].chain]
             S == {k \in Nat : \A i \in 1 .. n :
                                  i + k + 1 <= n => L(i + k + 1) < L(i)}
  <1>1. n \in Nat
    OBVIOUS
  <1>2. \A i \in 1 .. n : L(i) \in Nat
    <2>1. \A i \in 1 .. n : frames[i] \in Frames
      OBVIOUS
    <2> QED
      BY <2>1 DEF Frames
  <1>3. ASSUME NEW i \in 1 .. n - 1 PROVE L(i + 1) < L(i)
    <2>1. i \in 1 .. n
      BY <1>1
    <2>2. frames[i].chain \in AllChains /\ frames[i].at \in Nat \ {0}
      <3>1. frames[i] \in Frames
        BY <2>1
      <3> QED
        BY <3>1 DEF Frames
    <2>3. /\ frames[i].at <= Len(p[frames[i].chain])
          /\ IsReference(RuleAt(p, frames[i]))
          /\ RuleAt(p, frames[i]).chain = frames[i + 1].chain
      BY DEF OnCourse, Linked
    <2>4. p[frames[i].chain] \in Seq(Rule)
      BY <2>2 DEF Configuration
    <2>5. frames[i].at \in DOMAIN p[frames[i].chain]
      BY <2>2, <2>3, <2>4
    <2> QED
      BY <2>2, <2>3, <2>5 DEF Descends, RuleAt
  <1> HIDE DEF n, L
  <1>4. 0 \in S
    <2>1. ASSUME NEW i \in 1 .. n, i + 0 + 1 <= n PROVE L(i + 0 + 1) < L(i)
      <3>1. i \in 1 .. n - 1 /\ i + 0 + 1 = i + 1
        BY <1>1, <2>1
      <3> QED
        BY <1>3, <3>1
    <2> QED
      BY <2>1
  <1>5. ASSUME NEW k \in S PROVE k + 1 \in S
    <2>1. k \in Nat
      OBVIOUS
    <2>2. ASSUME NEW i \in 1 .. n, i + (k + 1) + 1 <= n
          PROVE  L(i + (k + 1) + 1) < L(i)
      <3>1. /\ i + 1 \in 1 .. n /\ i \in 1 .. n - 1
            /\ i + (k + 1) + 1 = (i + 1) + k + 1
            /\ i + (k + 1) + 1 \in 1 .. n
        BY <1>1, <2>1, <2>2
      <3>2. L((i + 1) + k + 1) < L(i + 1)
        BY <2>2, <3>1
      <3>3. L(i + 1) < L(i)
        BY <1>3, <3>1
      <3> QED
        BY <1>2, <3>1, <3>2, <3>3
    <2> QED
      BY <2>1, <2>2
  <1>6. S \in SUBSET Nat
    OBVIOUS
  <1> HIDE DEF S
  <1>7. \A k \in Nat : k \in S
    BY <1>4, <1>5, <1>6, NatSetInduction
  <1>8. ASSUME NEW i \in 1 .. n, NEW j \in 1 .. n, i < j PROVE L(j) < L(i)
    <2>1. j - i - 1 \in Nat /\ i + (j - i - 1) + 1 = j /\ j <= n
      BY <1>1, <1>8
    <2> QED
      BY <1>7, <2>1 DEF S
  <1> QED
    BY <1>8 DEF n, L

\* Nobody returns an error while the configuration is free of loops.
Calm == LoopFree(program) => \A t \in Threads :
            returning[t] # Thrown /\ outcome[t] # Thrown

LEMMA ThrowNeedsLoop ==
    ASSUME RInv, NEW t \in Threads, Throw(t)
    PROVE  ~LoopFree(program)
  <1> SUFFICES ASSUME LoopFree(program) PROVE FALSE
    OBVIOUS
  <1> DEFINE frames == stack[t]  n == Len(frames)  d == Current(t).chain
  <1>1. /\ program \in Configuration /\ request[t] \in Requests
        /\ frames \in Seq(Frames)
        /\ OnCourse(program, request[t], frames, returning[t])
    BY ThreadFacts
  <1>2. Cardinality(Chains) \in Nat
    BY ChainsAssumption, FS_CardinalityType
  <1>3. PICK level \in [AllChains -> Nat] : Descends(program, level)
    <2>1. PICK level \in [AllChains -> 0 .. Cardinality(Chains)] :
              Descends(program, level)
      BY DEF LoopFree, Descends
    <2> QED
      BY <1>2, <2>1
  <1>4. /\ Matches(t) /\ IsReference(Current(t)) /\ frames # <<>>
        /\ Current(t) \in Rule /\ d \in AllChains /\ t \in calling[d]
    BY CurrentIsRule DEF Throw, Matches, Running, MayEnter, Rule
  <1>5. PICK i \in 1 .. n : frames[i].chain = d
    BY <1>4, ThreadFacts DEF In
  <1>6. /\ n \in 1 .. n /\ Top(t) = frames[n] /\ Rules(t) \in Seq(Rule)
        /\ Top(t).at \in 1 .. Len(Rules(t)) + 1 /\ Top(t).at <= Len(Rules(t))
    BY <1>4, TopFacts DEF Matches
  <1>7. Top(t).at \in DOMAIN Rules(t)
    BY <1>6
  <1>8. frames[n].chain \in AllChains
    <2>1. frames[n] \in Frames
      BY <1>1, <1>6
    <2> QED
      BY <2>1 DEF Frames
  <1>9. level[d] < level[frames[n].chain]
    BY <1>3, <1>4, <1>6, <1>7, <1>8 DEF Descends, Current, Rules
  <1>10. level[d] \in Nat /\ level[frames[n].chain] \in Nat
    BY <1>4, <1>8
  <1> HIDE DEF d
  <1>11. CASE i = n
    BY <1>5, <1>9, <1>10, <1>11
  <1>12. CASE i # n
    <2>1. i < n
      BY <1>5, <1>12
    <2>2. level[frames[n].chain] < level[frames[i].chain]
      BY <1>1, <1>3, <1>5, <1>6, <2>1, FramesDescend
    <2> QED
      BY <1>5, <1>9, <1>10, <2>2
  <1> QED
    BY <1>11, <1>12

\* Only an error is passed on as an error.
LEMMA ErrorsPassOn ==
    ASSUME NEW a \in Results, a # Thrown
    PROVE  /\ Verdict(a) # Thrown
           /\ \A rule \in Rule : IsReference(rule) =>
                  Received(rule, a) \in Results /\ Received(rule, a) # Thrown
  <1>1. a.action # "THROWN"
    BY DEF Results, Accepted, Rejected, Continue, DefaultAction, Thrown,
       ActionOf
  <1>2. Verdict(a) # Thrown
    BY <1>1 DEF Verdict, Thrown, ActionOf
  <1>3. ASSUME NEW rule \in Rule, IsReference(rule)
        PROVE  Received(rule, a) \in Results /\ Received(rule, a) # Thrown
    <2>1. Received(rule, a) \in Results
      BY <1>3, ReceivedIsMeant
    <2>2. Received(rule, a) # Thrown
      BY <1>1 DEF Received, WithPriority, DefaultAction, Thrown, ActionOf,
         Results, Accepted, Rejected, Continue
    <2> QED
      BY <2>1, <2>2
  <1> QED
    BY <1>2, <1>3

\* The frame below the top is at a call or a goto.
LEMMA BelowIsReference ==
    ASSUME RInv, NEW t \in Threads, stack[t] # <<>>, Popped(stack[t]) # <<>>
    PROVE  LET rest == Popped(stack[t])
               rule == program[rest[Len(rest)].chain][rest[Len(rest)].at]
           IN  rule \in Rule /\ IsReference(rule)
  <1> DEFINE frames == stack[t]  n == Len(frames)  rest == Popped(frames)
             m == n - 1
  <1>1. /\ program \in Configuration /\ frames \in Seq(Frames)
        /\ OnCourse(program, request[t], frames, returning[t])
    BY ThreadFacts
  <1>a. frames # <<>> /\ rest # <<>>
    OBVIOUS
  <1>b. n \in Nat /\ n >= 1
    BY <1>1, <1>a
  <1> HIDE DEF frames
  <1>2. /\ rest \in Seq(Frames) /\ Len(rest) = m
        /\ \A i \in 1 .. m : rest[i] = frames[i]
    BY <1>1, <1>a, PopIsPrefix
  <1> HIDE DEF n, rest
  <1>3. n >= 1 /\ m # 0
    BY <1>a, <1>b, <1>2
  <1>4. m \in 1 .. m /\ m \in 1 .. n /\ rest[m] = frames[m]
    BY <1>b, <1>2, <1>3
  <1>5. frames[m] \in Frames
    BY <1>1, <1>4 DEF n
  <1>6. /\ frames[m].at <= Len(program[frames[m].chain])
        /\ IsReference(RuleAt(program, frames[m]))
    BY <1>1, <1>4 DEF OnCourse, Linked, n
  <1>7. /\ frames[m].at \in Nat /\ frames[m].at >= 1
        /\ program[frames[m].chain] \in Seq(Rule)
    BY <1>1, <1>5 DEF Frames, Configuration
  <1>8. RuleAt(program, frames[m]) \in Rule
    BY <1>6, <1>7 DEF RuleAt
  <1> QED
    BY <1>2, <1>4, <1>6, <1>8 DEF RuleAt, rest, frames

LEMMA CalmProgram ==
    ASSUME [Next]_vars
    PROVE  program' = program /\ LoopFree(program)' = LoopFree(program)
  <1>1. program' = program
    BY DEF Next, Step, vars, WillAccept, FallThrough, Skip, Decide, Enter,
       Throw, Leave, Again
  <1> QED
    BY <1>1 DEF LoopFree

LEMMA LeaveStaysCalm ==
    ASSUME RInv, NEW t \in Threads, Leave(t), returning[t] # Thrown,
           outcome[t] # Thrown
    PROVE  returning'[t] # Thrown /\ outcome'[t] # Thrown
  <1> DEFINE rest == Popped(stack[t])
             rule == program[rest[Len(rest)].chain][rest[Len(rest)].at]
             got == Received(rule, returning[t])
  <1>1. /\ stack[t] # <<>> /\ returning[t] # Busy
        /\ program \in Configuration /\ stack[t] \in Seq(Frames)
        /\ OnCourse(program, request[t], stack[t], returning[t])
    BY ThreadFacts DEF Leave
  <1>2. returning[t] \in Results
    BY <1>1 DEF OnCourse, Returned
  <1>3. DOMAIN returning = Threads /\ DOMAIN outcome = Threads
    BY DEF RInv, IInv, TypeOK
  <1>4. Busy # Thrown
    BY DEF Busy, Thrown, ActionOf
  <1>5. CASE rest = <<>>
    BY <1>2, <1>3, <1>4, <1>5, ErrorsPassOn DEF Leave
  <1>6. CASE rest # <<>>
    <2>1. rule \in Rule /\ IsReference(rule)
      BY <1>1, <1>6, BelowIsReference
    <2>2. got # Thrown
      BY <1>2, <2>1, ErrorsPassOn
    <2>3. /\ returning' = [returning EXCEPT
                   ![t] = IF got = Continue THEN Busy ELSE got]
          /\ UNCHANGED outcome
      BY <1>6 DEF Leave
    <2> HIDE DEF got
    <2> QED
      BY <1>3, <1>4, <2>2, <2>3
  <1> QED
    BY <1>5, <1>6

LEMMA CalmKept == RInv /\ Calm /\ [Next]_vars => Calm'
  <1> SUFFICES ASSUME RInv, Calm, [Next]_vars, LoopFree(program),
                      NEW t \in Threads
               PROVE  returning'[t] # Thrown /\ outcome'[t] # Thrown
    BY CalmProgram DEF Calm
  <1>1. /\ returning[t] # Thrown /\ outcome[t] # Thrown
        /\ DOMAIN returning = Threads /\ DOMAIN outcome = Threads
    BY DEF Calm, RInv, IInv, TypeOK
  <1>2. ASSUME NEW u \in Threads, Step(u) \/ Again(u)
        PROVE  /\ u # t => returning'[t] = returning[t]
                           /\ outcome'[t] = outcome[t]
               /\ u = t => returning'[t] # Thrown /\ outcome'[t] # Thrown
    <2>1. CASE WillAccept(u)
      <3>1. MayEnter(u, Default)
        BY <2>1, ThreadFacts DEF WillAccept, In, AllChains, MayEnter
      <3> QED
        BY <1>1, <2>1, <3>1 DEF WillAccept
    <2>2. CASE FallThrough(u)
      BY <1>1, <2>2, ResultsDiffer DEF FallThrough
    <2>3. CASE Skip(u)
      BY <1>1, <2>3 DEF Skip
    <2>4. CASE Decide(u)
      <3>1. \A x : Accepted(x) # Thrown /\ Rejected # Thrown
        BY DEF Accepted, Rejected, Thrown, ActionOf
      <3> QED
        BY <1>1, <2>4, <3>1 DEF Decide
    <2>5. CASE Enter(u)
      BY <1>1, <2>5 DEF Enter
    <2>6. CASE Throw(u)
      BY <2>6, ThrowNeedsLoop
    <2>7. CASE Leave(u)
      BY <1>1, <2>7, LeaveStaysCalm DEF Leave
    <2>8. CASE Again(u)
      <3>1. Busy # Thrown
        BY DEF Busy, Thrown, ActionOf
      <3> QED
        BY <1>1, <2>8, <3>1 DEF Again
    <2> QED
      BY <1>2, <2>1, <2>2, <2>3, <2>4, <2>5, <2>6, <2>7, <2>8 DEF Step
  <1>3. CASE UNCHANGED vars
    BY <1>1, <1>3 DEF vars
  <1> QED
    BY <1>1, <1>2, <1>3 DEF Next

(***************************************************************************)
(* A configuration whose chains do not loop never costs a thread its life: *)
(* no guard throws, however many threads are in the same chains at once.   *)
(***************************************************************************)
THEOREM NoErrorWithoutLoop == Spec => []NoFalseAlarm
  <1>1. Init => Calm
    <2>1. Busy # Thrown
      BY DEF Busy, Thrown, ActionOf
    <2> QED
      BY <2>1 DEF Init, Calm
  <1>2. Calm => NoFalseAlarm
    BY DEF Calm, NoFalseAlarm
  <1> QED
    BY <1>1, <1>2, CourseInvariant, CalmKept, PTL DEF Spec
-----------------------------------------------------------------------------
(* Refinement of AtomicFilter *)

\* Steps in which nobody gets an answer or asks anew.
LEMMA SilentStep ==
    ASSUME UNCHANGED <<program, acceptByDefault, request, outcome>>
    PROVE  UNCHANGED Atomic!vars
  <1>1. UNCHANGED Answers
    BY DEF Answers, Verdict
  <1> QED
    BY <1>1 DEF Atomic!vars

\* A thread that gets an answer gets the one of the table, in one step.
LEMMA AnswerStep ==
    ASSUME RInv, RInv', NEW t \in Threads, NEW x, x # Busy,
           stack[t] # <<>> \/ outcome[t] = Busy,
           outcome' = [outcome EXCEPT ![t] = x],
           UNCHANGED <<program, acceptByDefault, request>>
    PROVE  Atomic!WillAccept(t)
  <1>1. outcome[t] = Busy /\ request[t] \in Requests
    BY ThreadFacts
  <1>2. DOMAIN outcome = Threads
    BY DEF RInv, IInv, TypeOK
  <1>3. outcome'[t] = x
    BY <1>2
  <1>4. Answers' = Answers
    BY DEF Answers, Verdict
  <1>5. x = Verdict(Meaning(program)[Asking(request[t])])
    BY <1>3 DEF RInv, Answered, Asked, Asking, Verdict
  <1>6. x = Answers[request[t]]
    BY <1>1, <1>5 DEF Answers
  <1> QED
    BY <1>1, <1>4, <1>6 DEF Atomic!WillAccept

LEMMA VerdictNotBusy == \A a \in Results : Verdict(a) # Busy
  <1>1. /\ Busy # Thrown
        /\ \A b, n : [accept |-> b, priority |-> n] # Busy
    BY DEF Busy, Thrown, ActionOf
  <1>2. \A a \in Results : \/ Verdict(a) = Thrown
                           \/ \E b, n : Verdict(a) =
                                  [accept |-> b, priority |-> n]
    BY DEF Verdict
  <1> QED
    BY <1>1, <1>2

LEMMA StepImplements ==
    ASSUME RInv, RInv', NEW t \in Threads, Step(t)
    PROVE  Atomic!Next \/ UNCHANGED Atomic!vars
  <1>1. CASE WillAccept(t) /\ ~MayEnter(t, Default)
    <2>1. Thrown # Busy
      BY DEF Busy, Thrown, ActionOf
    <2>2. Atomic!WillAccept(t)
      BY <1>1, <2>1, AnswerStep DEF WillAccept
    <2> QED
      BY <2>2 DEF Atomic!Next
  <1>2. CASE Leave(t) /\ Popped(stack[t]) = <<>>
    <2>1. returning[t] \in Results
      BY <1>2, ThreadFacts DEF Leave, OnCourse, Returned
    <2>2. Verdict(returning[t]) # Busy
      BY <2>1, VerdictNotBusy
    <2>3. /\ stack[t] # <<>>
          /\ outcome' = [outcome EXCEPT ![t] = Verdict(returning[t])]
          /\ UNCHANGED <<program, acceptByDefault, request>>
      BY <1>2 DEF Leave
    <2> HIDE DEF Verdict
    <2>4. Atomic!WillAccept(t)
      BY <2>2, <2>3, AnswerStep
    <2> QED
      BY <2>4 DEF Atomic!Next
  <1>3. CASE WillAccept(t) /\ MayEnter(t, Default)
    BY <1>3, SilentStep DEF WillAccept
  <1>4. CASE Leave(t) /\ Popped(stack[t]) # <<>>
    BY <1>4, SilentStep DEF Leave
  <1>5. CASE FallThrough(t) \/ Skip(t) \/ Decide(t) \/ Enter(t) \/ Throw(t)
    BY <1>5, SilentStep DEF FallThrough, Skip, Decide, Enter, Throw
  <1> QED
    BY <1>1, <1>2, <1>3, <1>4, <1>5 DEF Step

(***************************************************************************)
(* The threads in the filter, with their call stacks and the guards they   *)
(* share, implement AtomicFilter: whoever calls will_accept cannot tell it *)
(* from a look at a table that the configuration has filled in.  The step  *)
(* in which a call returns or throws is the look; all others are silent.   *)
(***************************************************************************)
THEOREM ImplementsAtomicFilter == Spec => AtomicSpec
  <1>1. Init => Atomic!Init
    BY DEF Init, Atomic!Init, Answers
  <1>2. RInv /\ RInv' /\ [Next]_vars => [Atomic!Next]_(Atomic!vars)
    <2> SUFFICES ASSUME RInv, RInv', [Next]_vars
                 PROVE  Atomic!Next \/ UNCHANGED Atomic!vars
      OBVIOUS
    <2>1. ASSUME NEW t \in Threads, Step(t)
          PROVE  Atomic!Next \/ UNCHANGED Atomic!vars
      BY <2>1, StepImplements
    <2>2. ASSUME NEW t \in Threads, Again(t)
          PROVE  Atomic!Next
      <3>1. Answers' = Answers
        BY <2>2 DEF Again, Answers, Verdict
      <3>2. Atomic!Again(t)
        BY <2>2, <3>1 DEF Again, Atomic!Again
      <3> QED
        BY <3>2 DEF Atomic!Next
    <2>3. CASE UNCHANGED vars
      BY <2>3, SilentStep DEF vars
    <2> QED
      BY <2>1, <2>2, <2>3 DEF Next
  <1> QED
    BY <1>1, <1>2, CourseInvariant, PTL DEF Spec, AtomicSpec, Atomic!Spec
=============================================================================
