-------------------------- MODULE Lifecycle_proof --------------------------
(* Theorems about Lifecycle, for any number of interfaces. *)
EXTENDS Lifecycle, TLAPS

Tx(i) == thread[<<i, "tx">>]

Rx(i) == thread[<<i, "rx">>]

\* What the phases of the main thread know of one interface.
Started(i) ==
    /\ i \in running
    /\ Tx(i) \notin {"none", "ended", "joined"}
    /\ Rx(i) \notin {"none", "ended", "joined"}

Stopped(i) == i \notin running /\ Tx(i) = "joined" /\ Rx(i) = "joined"

\* start has set running_, but not started both threads.
Partial(i) == i \in running /\ "none" \in {Tx(i), Rx(i)}

Starting ==
    phase = "start" =>
        /\ \A i \in Interfaces :
             (i < who => Started(i)) /\ (i > who => Tx(i) = "none" /\ Rx(i) = "none")
        /\ Rx(who) = "none"
        /\ (step > 1 => who \in running)
        /\ (step < 3 => Tx(who) = "none")
        /\ (step = 3 => Tx(who) \notin {"none", "ended", "joined"})

Waiting ==
    phase \in {"block", "blocked", "sigwait"} =>
        step = 1 /\ \A i \in Interfaces : Started(i)

Stopping ==
    phase = "stop" =>
        /\ \A i \in Interfaces : (i < who => Stopped(i)) /\ (i > who => Started(i))
        /\ (step = 1 => Started(who))
        /\ (step > 1 => who \notin running /\ Rx(who) \notin {"none", "joined"})
        /\ (step = 2 => Tx(who) \notin {"none", "joined"})
        /\ (step = 3 => Tx(who) = "joined")

Destroyed == phase = "destroy" => step = 1 /\ \A i \in Interfaces : Stopped(i)

\* An interface that is yet to be destroyed has a thread that never started.
Doomed ==
    phase = "unwind" =>
        \/ \E i \in Interfaces : i >= who /\ Partial(i) /\ (i = who => step = 1)
        \/ step = 2 /\ who \notin running /\ "none" \in {Tx(who), Rx(who)}
        \/ step = 3 /\ who \notin running /\ Rx(who) = "none"

Ended == \A w \in Workers : thread[w] \in {"ended", "joined"} => w[1] \notin running

Threw == \A w \in Workers : thread[w] = "threw" => process = "aborted"

Inv ==
    /\ TypeOK /\ Starting /\ Waiting /\ Stopping /\ Destroyed
    /\ Doomed /\ Ended /\ Threw
    /\ ShutdownNeverAborts /\ FailedStartAborts

\* The three statements of start and of shutdown.
LEMMA Orders ==
    /\ Len(StartOrder) = 3 /\ Len(ShutdownOrder) = 3
    /\ StartOrder[1] = "running" /\ StartOrder[2] = "tx" /\ StartOrder[3] = "rx"
    /\ ShutdownOrder[1] = "running" /\ ShutdownOrder[2] = "tx" /\ ShutdownOrder[3] = "rx"
  BY DEF StartOrder, ShutdownOrder

LEMMA Sizes ==
    /\ N \in Nat /\ 1 \in Interfaces
    /\ \A i \in Interfaces : i \in Nat /\ i >= 1 /\ i <= N /\ (i < N => i + 1 \in Interfaces)
    /\ \A i \in Interfaces : <<i, "tx">> \in Workers /\ <<i, "rx">> \in Workers
    /\ \A w \in Workers : w[1] \in Interfaces /\ (w = <<w[1], "tx">> \/ w = <<w[1], "rx">>)
  BY SizeAssumption DEF Interfaces, Workers

LEMMA SetThread ==
    ASSUME TypeOK, NEW w \in Workers, NEW s \in {"none", "ended", "joined", "threw"} \cup Active,
           thread' = [thread EXCEPT ![w] = s]
    PROVE  /\ thread' \in [Workers -> {"none", "ended", "joined", "threw"} \cup Active]
           /\ thread'[w] = s
           /\ \A v \in Workers : v # w => thread'[v] = thread[v]
  BY DEF TypeOK

LEMMA InitInv == Init => Inv
  BY SizeAssumption
     DEF Init, Inv, TypeOK, Starting, Waiting, Stopping, Destroyed, Doomed, Ended,
         Threw, ShutdownNeverAborts, FailedStartAborts, Interfaces, Workers,
         Destroying, Tx, Rx

LEMMA StartStoreInv == Inv /\ StartStore => Inv'
  <1> SUFFICES ASSUME Inv, StartStore PROVE Inv'
    OBVIOUS
  <1> USE Sizes DEF Inv
  <1>1. /\ phase = "start" /\ step = 1 /\ who \in Interfaces
        /\ step' = 2 /\ running' = running \cup {who}
        /\ UNCHANGED <<process, phase, who, thread, sigint, signals>>
    BY Orders DEF StartStore, NextStatement, TypeOK
  <1>2. TypeOK'
    BY <1>1 DEF TypeOK
  <1>3. Starting'
    BY <1>1 DEF Starting, Started, Tx, Rx
  <1>4. Ended'
    <2>1. Tx(who) = "none" /\ Rx(who) = "none"
      BY <1>1 DEF Starting
    <2> QED
      BY <1>1, <2>1 DEF Ended, Tx, Rx
  <1>5. (Waiting /\ Stopping /\ Destroyed /\ Doomed)'
    BY <1>1 DEF Waiting, Stopping, Destroyed, Doomed
  <1> QED
    BY <1>1, <1>2, <1>3, <1>4, <1>5
       DEF Threw, ShutdownNeverAborts, FailedStartAborts

LEMMA StartThreadInv == Inv /\ StartThread => Inv'
  <1> SUFFICES ASSUME Inv, StartThread PROVE Inv'
    OBVIOUS
  <1> USE Sizes DEF Inv
  <1>1. /\ phase = "start" /\ step \in {2, 3} /\ who \in Interfaces /\ who \in running
        /\ UNCHANGED <<running, sigint, signals>>
    BY Orders DEF StartThread, TypeOK, Starting
  <1>2. CASE step = 2
    <2>1. /\ step' = 3 /\ UNCHANGED <<process, phase, who>>
          /\ thread' = [thread EXCEPT ![<<who, "tx">>] = "check"]
      BY <1>2, Orders DEF StartThread, NextStatement
    <2>t. /\ thread' \in [Workers -> {"none", "ended", "joined", "threw"} \cup Active]
          /\ thread'[<<who, "tx">>] = "check"
          /\ \A v \in Workers : v # <<who, "tx">> => thread'[v] = thread[v]
      BY <1>1, <2>1, SetThread DEF Active
    <2>2. TypeOK'
      BY <1>1, <2>1, <2>t DEF TypeOK
    <2>3. Starting'
      BY <1>1, <1>2, <2>1, <2>t DEF Starting, Started, Tx, Rx
    <2>4. Ended' /\ Threw'
      BY <1>1, <2>1, <2>t DEF Ended, Threw
    <2>5. ShutdownNeverAborts'
      BY <1>1, <2>1, <2>t, <1>2 DEF ShutdownNeverAborts, Starting, Tx
    <2> QED
      BY <1>1, <2>1, <2>2, <2>3, <2>4, <2>5
         DEF Waiting, Stopping, Destroyed, Doomed, FailedStartAborts
  <1>3. CASE step = 3
    <2>1. /\ step' = 1 /\ UNCHANGED process
          /\ \/ who < N /\ who' = who + 1 /\ UNCHANGED phase
             \/ who = N /\ who' = 1 /\ phase' = "block"
      <3>1. NextInterface
        BY <1>3, Orders DEF StartThread, NextStatement
      <3> QED
        BY <1>1, <3>1 DEF NextInterface, AfterLoop, AtLast, GoTo, Destroying
    <2>2. /\ thread' \in [Workers -> {"none", "ended", "joined", "threw"} \cup Active]
          /\ thread'[<<who, "rx">>] = "check"
          /\ \A v \in Workers : v # <<who, "rx">> => thread'[v] = thread[v]
      <3>1. thread' = [thread EXCEPT ![<<who, "rx">>] = "check"]
        BY <1>3, Orders DEF StartThread
      <3> QED
        BY <1>1, <3>1, SetThread DEF Active
    <2>3. TypeOK'
      BY <1>1, <2>1, <2>2 DEF TypeOK
    <2>r. \A i \in Interfaces :
            /\ thread'[<<i, "tx">>] = thread[<<i, "tx">>]
            /\ i # who => thread'[<<i, "rx">>] = thread[<<i, "rx">>]
      BY <1>1, <2>2
    <2>4. \A i \in Interfaces : i <= who =>
            /\ i \in running'
            /\ thread'[<<i, "tx">>] \notin {"none", "ended", "joined"}
            /\ thread'[<<i, "rx">>] \notin {"none", "ended", "joined"}
      BY <1>1, <1>3, <2>2, <2>r DEF Starting, Started, Tx, Rx
    <2>5. Starting'
      <3>1. \A i \in Interfaces : i > who =>
              thread'[<<i, "tx">>] = "none" /\ thread'[<<i, "rx">>] = "none"
        BY <1>1, <2>r DEF Starting, Tx, Rx
      <3> QED
        BY <1>1, <2>1, <2>4, <3>1 DEF Starting, Started, Tx, Rx
    <2>6. Waiting'
      BY <1>1, <2>1, <2>4 DEF Waiting, Started, Tx, Rx
    <2>7. Ended' /\ Threw'
      BY <1>1, <2>1, <2>2 DEF Ended, Threw
    <2>8. ShutdownNeverAborts'
      BY <1>1, <2>1, <2>2, <1>3 DEF ShutdownNeverAborts, Starting, Rx
    <2> QED
      BY <1>1, <2>1, <2>3, <2>5, <2>6, <2>7, <2>8
         DEF Stopping, Destroyed, Doomed, FailedStartAborts
  <1> QED
    BY <1>1, <1>2, <1>3

LEMMA StartFailsInv == Inv /\ StartFails => Inv'
  <1> SUFFICES ASSUME Inv, StartFails PROVE Inv'
    OBVIOUS
  <1> USE Sizes DEF Inv
  <1>1. /\ phase = "start" /\ step \in {2, 3} /\ who \in Interfaces
        /\ phase' = "unwind" /\ who' = 1 /\ step' = 1
        /\ UNCHANGED <<process, running, thread, sigint, signals>>
    BY Orders DEF StartFails, GoTo, TypeOK
  <1>2. TypeOK'
    BY <1>1 DEF TypeOK, Destroying
  <1>3. PICK i \in Interfaces : Partial(i)
    BY <1>1 DEF Starting, Partial
  <1>4. Partial(i)'
    BY <1>1, <1>3 DEF Partial, Tx, Rx
  <1>5. Doomed'
    BY <1>1, <1>4 DEF Doomed, Partial, Tx, Rx
  <1> QED
    BY <1>1, <1>2, <1>5
       DEF Starting, Waiting, Stopping, Destroyed, Ended, Threw, ShutdownNeverAborts,
           FailedStartAborts

LEMMA WaitInv == Inv /\ (Block \/ SigWait) => Inv'
  <1> SUFFICES ASSUME Inv, Block \/ SigWait PROVE Inv'
    OBVIOUS
  <1> USE Sizes DEF Inv
  <1>1. /\ phase \in {"block", "blocked", "sigwait"}
        /\ phase' \in {"blocked", "sigwait", "stop"} /\ who' = 1 /\ step' = 1
        /\ UNCHANGED <<process, running, thread, signals>>
        /\ sigint' \in {0, sigint}
    BY DEF Block, SigWait, GoTo
  <1>2. TypeOK'
    BY <1>1 DEF TypeOK
  <1>3. Waiting' /\ Stopping'
    BY <1>1 DEF Waiting, Stopping, Started, Tx, Rx
  <1> QED
    BY <1>1, <1>2, <1>3
       DEF Starting, Destroyed, Doomed, Ended, Threw, ShutdownNeverAborts, FailedStartAborts

\* A shutdown that runs in App::run or in a destructor.
LEMMA SkipInv == Inv /\ Skip => Inv'
  <1> SUFFICES ASSUME Inv, Skip PROVE Inv'
    OBVIOUS
  <1> USE Sizes DEF Inv
  <1>1. /\ phase \in {"stop", "unwind", "destroy"} /\ step = 1
        /\ who \in Interfaces /\ who \notin running
        /\ UNCHANGED <<running, thread, sigint, signals>>
    BY DEF Skip, InShutdown, Skipped, TypeOK, Destroying
  <1>2. phase # "stop"
    BY <1>1 DEF Stopping, Started
  <1>3. phase = "unwind" => \E i \in Interfaces : i > who /\ Partial(i)
    BY <1>1 DEF Doomed, Partial
  <1>4. CASE process' = "aborted" /\ phase = "unwind" /\ UNCHANGED main
    BY <1>1, <1>4
       DEF main, TypeOK, Starting, Waiting, Stopping, Destroyed, Doomed, Ended, Threw,
           ShutdownNeverAborts, FailedStartAborts, Partial, Tx, Rx
  <1>5. CASE NextStatement(1)
    <2>1. NextInterface
      BY <1>1, <1>5 DEF NextStatement
    <2>2. CASE who < N
      <3>1. who' = who + 1 /\ step' = 1 /\ UNCHANGED <<process, phase>>
        BY <1>1, <2>1, <2>2 DEF NextInterface, AtLast
      <3>2. TypeOK'
        BY <1>1, <2>2, <3>1 DEF TypeOK
      <3>3. Doomed'
        BY <1>1, <1>3, <3>1 DEF Doomed, Partial, Tx, Rx
      <3> QED
        BY <1>1, <1>2, <3>1, <3>2, <3>3
           DEF Starting, Waiting, Stopping, Destroyed, Stopped, Tx, Rx, Ended, Threw,
               ShutdownNeverAborts, FailedStartAborts
    <2>3. CASE who = N
      <3>1. phase = "destroy"
        BY <1>1, <1>2, <1>3, <2>3
      <3>2. process' = "returned" /\ UNCHANGED main
        BY <1>1, <2>1, <2>3, <3>1 DEF NextInterface, AtLast, AfterLoop, Destroying
      <3>3. thread[<<1, "tx">>] = "joined" /\ process # "aborted"
        BY <1>1, <3>1 DEF Destroyed, Stopped, Tx, ShutdownNeverAborts, Threw, Rx
      <3> QED
        BY <1>1, <3>1, <3>2, <3>3
           DEF main, TypeOK, Starting, Waiting, Stopping, Destroyed, Stopped, Doomed, Ended,
               Threw, ShutdownNeverAborts, FailedStartAborts, Tx, Rx
    <2> QED
      BY <1>1, <2>2, <2>3
  <1>6. phase = "destroy" => \A w \in {who} \X {"tx", "rx"} : thread[w] = "joined"
    <2>1. \A w \in {who} \X {"tx", "rx"} : w = <<who, "tx">> \/ w = <<who, "rx">>
      OBVIOUS
    <2> QED
      BY <1>1, <2>1 DEF Destroyed, Stopped, Tx, Rx
  <1> QED
    BY <1>1, <1>2, <1>4, <1>5, <1>6 DEF Skip, Leave, Destroying

LEMMA ShutdownStoreInv == Inv /\ ShutdownStore => Inv'
  <1> SUFFICES ASSUME Inv, ShutdownStore PROVE Inv'
    OBVIOUS
  <1> USE Sizes DEF Inv
  <1>1. /\ phase \in {"stop", "unwind", "destroy"} /\ step = 1
        /\ who \in Interfaces /\ who \in running
        /\ running' = running \ {who}
        /\ step' = 2 /\ UNCHANGED <<process, phase, who, thread, sigint, signals>>
    BY Orders DEF ShutdownStore, InShutdown, Skipped, NextStatement, TypeOK, Destroying
  <1>2. phase # "destroy"
    BY <1>1 DEF Destroyed, Stopped
  <1>3. TypeOK'
    BY <1>1 DEF TypeOK
  <1>4. Stopping'
    BY <1>1 DEF Stopping, Started, Stopped, Tx, Rx
  <1>5. Doomed'
    BY <1>1 DEF Doomed, Partial, Tx, Rx
  <1>6. Ended' /\ Threw'
    BY <1>1 DEF Ended, Threw
  <1> QED
    BY <1>1, <1>2, <1>3, <1>4, <1>5, <1>6
       DEF Starting, Waiting, Destroyed, ShutdownNeverAborts, FailedStartAborts

\* The thread that was joined is no longer ended; the others are as they were.
LEMMA JoinInv == Inv /\ Join => Inv'
  <1> SUFFICES ASSUME Inv, Join PROVE Inv'
    OBVIOUS
  <1> USE Sizes DEF Inv
  <1>1. /\ phase \in {"stop", "unwind", "destroy"} /\ step \in {2, 3}
        /\ who \in Interfaces
        /\ UNCHANGED <<running, sigint, signals>>
    BY Orders DEF Join, InShutdown, TypeOK, Destroying
  <1>2. phase # "destroy"
    BY <1>1 DEF Destroyed
  <1>3. CASE step = 2
    <2>1. /\ thread[<<who, "tx">>] = "ended"
          /\ thread' = [thread EXCEPT ![<<who, "tx">>] = "joined"]
          /\ step' = 3 /\ UNCHANGED <<process, phase, who>>
      BY <1>3, Orders DEF Join, Leave, NextStatement
    <2>2. /\ thread' \in [Workers -> {"none", "ended", "joined", "threw"} \cup Active]
          /\ thread'[<<who, "tx">>] = "joined"
          /\ \A v \in Workers : v # <<who, "tx">> => thread'[v] = thread[v]
      BY <1>1, <2>1, SetThread DEF Active
    <2>3. \A i \in Interfaces :
            /\ thread'[<<i, "rx">>] = thread[<<i, "rx">>]
            /\ i # who => thread'[<<i, "tx">>] = thread[<<i, "tx">>]
      BY <1>1, <2>2
    <2>4. TypeOK'
      BY <1>1, <2>1, <2>2 DEF TypeOK
    <2>5. Stopping'
      BY <1>1, <1>3, <2>1, <2>2, <2>3 DEF Stopping, Started, Stopped, Tx, Rx
    <2>6. Doomed'
      BY <1>1, <1>3, <2>1, <2>2, <2>3 DEF Doomed, Partial, Tx, Rx
    <2>7. Ended' /\ Threw'
      BY <1>1, <2>1, <2>2 DEF Ended, Threw
    <2>8. ShutdownNeverAborts'
      BY <1>1, <2>1, <2>2 DEF ShutdownNeverAborts
    <2> QED
      BY <1>1, <1>2, <2>1, <2>4, <2>5, <2>6, <2>7, <2>8
         DEF Starting, Waiting, Destroyed, FailedStartAborts
  <1>4. CASE step = 3
    <2>1. /\ thread[<<who, "rx">>] = "ended"
          /\ thread' = [thread EXCEPT ![<<who, "rx">>] = "joined"]
          /\ Leave(3)
      BY <1>4, Orders DEF Join
    <2>2. /\ thread' \in [Workers -> {"none", "ended", "joined", "threw"} \cup Active]
          /\ thread'[<<who, "rx">>] = "joined"
          /\ \A v \in Workers : v # <<who, "rx">> => thread'[v] = thread[v]
      BY <1>1, <2>1, SetThread DEF Active
    <2>3. \A i \in Interfaces :
            /\ thread'[<<i, "tx">>] = thread[<<i, "tx">>]
            /\ i # who => thread'[<<i, "rx">>] = thread[<<i, "rx">>]
      BY <1>1, <2>2
    <2>4. Ended'
      BY <1>1, <2>1, <2>2 DEF Ended
    <2>5. phase = "unwind" => \E i \in Interfaces : i > who /\ Partial(i)
      BY <1>1, <1>4, <2>1 DEF Doomed, Partial, Tx, Rx
    <2>6. phase = "unwind" => \E i \in Interfaces : i > who /\ Partial(i)'
      <3> SUFFICES ASSUME phase = "unwind" PROVE \E i \in Interfaces : i > who /\ Partial(i)'
        OBVIOUS
      <3>1. PICK i \in Interfaces : i > who /\ Partial(i)
        BY <2>5
      <3>2. Partial(i)'
        BY <1>1, <2>3, <3>1 DEF Partial, Tx, Rx
      <3> QED
        BY <3>1, <3>2
    <2>7. CASE phase = "unwind" /\ process' = "aborted" /\ UNCHANGED main
      <3>1. TypeOK'
        BY <1>1, <2>2, <2>7 DEF TypeOK, main
      <3>2. Doomed'
        BY <1>1, <2>6, <2>7 DEF Doomed, main
      <3> QED
        BY <2>4, <2>7, <3>1, <3>2
           DEF main, Starting, Waiting, Stopping, Destroyed, Threw, ShutdownNeverAborts,
               FailedStartAborts
    <2>8. CASE NextStatement(3)
      <3>1. NextInterface
        BY <1>4, <2>8 DEF NextStatement
      <3>2. CASE who < N
        <4>1. who' = who + 1 /\ step' = 1 /\ UNCHANGED <<process, phase>>
          BY <1>1, <3>1, <3>2 DEF NextInterface, AtLast
        <4>2. TypeOK'
          BY <1>1, <2>2, <3>2, <4>1 DEF TypeOK
        <4>3. Stopping'
          <5> SUFFICES ASSUME phase = "stop" PROVE Stopping'
            BY <4>1 DEF Stopping
          <5>1. ASSUME NEW i \in Interfaces, i < who PROVE Stopped(i)'
            BY <1>1, <2>3, <5>1 DEF Stopping, Stopped, Tx, Rx
          <5>2. ASSUME NEW i \in Interfaces, i = who PROVE Stopped(i)'
            BY <1>1, <1>4, <2>2, <2>3, <5>2 DEF Stopping, Stopped, Tx, Rx
          <5>3. ASSUME NEW i \in Interfaces, i > who PROVE Started(i)'
            BY <1>1, <2>3, <5>3 DEF Stopping, Started, Tx, Rx
          <5>4. /\ who' \in Interfaces /\ who' > who
                /\ \A i \in Interfaces : i < who' => i < who \/ i = who
                /\ \A i \in Interfaces : i > who' => i > who
            BY <1>1, <3>2, <4>1
          <5>5. Started(who)'
            BY <5>3, <5>4 DEF Started, Tx, Rx
          <5>6. \A i \in Interfaces : (i < who' => Stopped(i)') /\ (i > who' => Started(i)')
            BY <5>1, <5>2, <5>3, <5>4
          <5> QED
            BY <4>1, <5>5, <5>6 DEF Stopping
        <4>4. Doomed'
          BY <1>1, <2>6, <4>1 DEF Doomed
        <4>5. Threw' /\ ShutdownNeverAborts'
          BY <1>1, <2>1, <2>2, <4>1 DEF Threw, ShutdownNeverAborts
        <4> QED
          BY <1>1, <1>2, <2>4, <4>1, <4>2, <4>3, <4>4, <4>5
             DEF Starting, Waiting, Destroyed, FailedStartAborts
      <3>3. CASE who = N
        <4>1. phase = "stop"
          BY <1>1, <1>2, <2>5, <3>3
        <4>2. phase' = "destroy" /\ who' = 1 /\ step' = 1 /\ UNCHANGED process
          BY <1>1, <3>1, <3>3, <4>1 DEF NextInterface, AtLast, AfterLoop, GoTo, Destroying
        <4>3. TypeOK'
          BY <1>1, <2>2, <4>2 DEF TypeOK, Destroying
        <4>4. Destroyed'
          BY <1>1, <1>4, <2>2, <2>3, <3>3, <4>1, <4>2 DEF Stopping, Destroyed, Stopped, Tx, Rx
        <4>5. Threw' /\ ShutdownNeverAborts'
          BY <1>1, <2>1, <2>2, <4>1, <4>2 DEF Threw, ShutdownNeverAborts
        <4> QED
          BY <2>4, <4>2, <4>3, <4>4, <4>5
             DEF Starting, Waiting, Stopping, Doomed, FailedStartAborts
      <3> QED
        BY <1>1, <3>2, <3>3
    <2> QED
      BY <1>1, <1>2, <2>1, <2>7, <2>8 DEF Leave, Destroying
  <1> QED
    BY <1>1, <1>3, <1>4

LEMMA JoinOfNoneInv == Inv /\ JoinOfNone => Inv'
  <1> SUFFICES ASSUME Inv, JoinOfNone PROVE Inv'
    OBVIOUS
  <1>1. phase # "destroy"
    BY Orders DEF Inv, JoinOfNone, Destroyed
  <1> QED
    BY <1>1
       DEF Inv, JoinOfNone, Destroying, main, TypeOK, Starting, Started, Waiting, Stopping,
           Stopped, Destroyed, Doomed, Partial, Ended, Threw, ShutdownNeverAborts,
           FailedStartAborts, Tx, Rx

\* No worker disturbs what the phases say: a thread neither ends while running_
\* is true nor comes to be joined or not to be there.
LEMMA WorkerInv == ASSUME Inv, NEW w \in Workers, Worker(w) PROVE Inv'
  <1> USE Sizes DEF Inv
  <1>1. /\ process = "running" /\ UNCHANGED <<phase, who, step, running, sigint, signals>>
        /\ thread[w] \in Active
        /\ process' \in {"running", "aborted"}
    BY DEF Worker, Test, CallReturns, PartialSend, Ignore, Throw, Becomes, main, Active
  <1>2. PICK s \in {"ended", "threw"} \cup Active :
          /\ thread' = [thread EXCEPT ![w] = s]
          /\ s = "ended" => w[1] \notin running
          /\ s = "threw" <=> process' = "aborted"
    BY <1>1 DEF Worker, Test, CallReturns, PartialSend, Ignore, Throw, Becomes, Active
  <1>3. /\ thread' \in [Workers -> {"none", "ended", "joined", "threw"} \cup Active]
        /\ thread'[w] = s
        /\ \A v \in Workers : v # w => thread'[v] = thread[v]
    BY <1>2, SetThread
  <1>4. TypeOK'
    BY <1>1, <1>3 DEF TypeOK
  <1>5. \A v \in Workers :
          /\ thread'[v] = "none" <=> thread[v] = "none"
          /\ thread'[v] = "joined" <=> thread[v] = "joined"
          /\ v[1] \in running /\ thread[v] # "ended" => thread'[v] # "ended"
    BY <1>1, <1>2, <1>3 DEF Active
  <1>6. \A i \in Interfaces :
          /\ Tx(i)' = "none" <=> Tx(i) = "none"
          /\ Rx(i)' = "none" <=> Rx(i) = "none"
          /\ Tx(i)' = "joined" <=> Tx(i) = "joined"
          /\ Rx(i)' = "joined" <=> Rx(i) = "joined"
          /\ i \in running /\ Tx(i) # "ended" => Tx(i)' # "ended"
          /\ i \in running /\ Rx(i) # "ended" => Rx(i)' # "ended"
    BY <1>5 DEF Tx, Rx
  <1>7. \A i \in Interfaces :
          (Started(i) => Started(i)') /\ (Stopped(i) => Stopped(i)') /\ (Partial(i) => Partial(i)')
    BY <1>1, <1>6 DEF Started, Stopped, Partial
  <1>8. who \in Interfaces
    BY DEF TypeOK
  <1>9. Starting'
    BY <1>1, <1>6, <1>7, <1>8 DEF Starting, Tx, Rx
  <1>10. Stopping'
    BY <1>1, <1>6, <1>7, <1>8 DEF Stopping, Tx, Rx
  <1>11. Waiting' /\ Destroyed'
    BY <1>1, <1>7 DEF Waiting, Destroyed
  <1>12. Doomed'
    BY <1>1, <1>6, <1>7, <1>8 DEF Doomed, Tx, Rx
  <1>13. Ended'
    <2> SUFFICES ASSUME NEW v \in Workers, thread'[v] \in {"ended", "joined"}
                 PROVE  v[1] \notin running
      BY <1>1 DEF Ended
    <2>1. CASE v = w
      BY <1>2, <1>3, <2>1 DEF Active
    <2>2. CASE v # w
      BY <1>3, <2>2 DEF Ended
    <2> QED
      BY <2>1, <2>2
  <1>14. Threw'
    BY <1>1, <1>2, <1>3 DEF Threw
  <1>15. ShutdownNeverAborts' /\ FailedStartAborts'
    BY <1>1, <1>2, <1>3 DEF ShutdownNeverAborts, FailedStartAborts
  <1> QED
    BY <1>4, <1>9, <1>10, <1>11, <1>12, <1>13, <1>14, <1>15

LEMMA InterruptInv == Inv /\ Interrupt => Inv'
  <1> SUFFICES ASSUME Inv, Interrupt PROVE Inv'
    OBVIOUS
  <1> USE DEF Inv
  <1>1. /\ process = "running" /\ process' \in {"running", "killed"}
        /\ UNCHANGED <<phase, who, step, running, thread>>
        /\ sigint' \in {sigint, 1} /\ signals < MaxSignals /\ signals' = signals + 1
    BY DEF Interrupt, main
  <1>2. TypeOK'
    BY <1>1, SizeAssumption DEF TypeOK
  <1>3. Threw'
    BY <1>1 DEF Threw
  <1> QED
    BY <1>1, <1>2, <1>3
       DEF Starting, Started, Waiting, Stopping, Stopped, Destroyed, Doomed, Partial, Ended,
           ShutdownNeverAborts, FailedStartAborts, Tx, Rx

THEOREM Invariance == Spec => []Inv
  <1>1. Inv /\ [Next]_vars => Inv'
    <2> SUFFICES ASSUME Inv, [Next]_vars PROVE Inv'
      OBVIOUS
    <2>1. CASE Main
      BY <2>1, StartStoreInv, StartThreadInv, StartFailsInv, WaitInv, SkipInv,
         ShutdownStoreInv, JoinInv, JoinOfNoneInv DEF Main
    <2>2. CASE \E w \in Workers : Worker(w)
      BY <2>2, WorkerInv
    <2>3. CASE Interrupt
      BY <2>3, InterruptInv
    <2>4. CASE UNCHANGED vars
      BY <2>4
         DEF vars, main, Inv, TypeOK, Starting, Started, Waiting, Stopping, Stopped, Destroyed,
             Doomed, Partial, Ended, Threw, ShutdownNeverAborts, FailedStartAborts, Tx, Rx
    <2> QED
      BY <2>1, <2>2, <2>3, <2>4 DEF Next, Terminated
  <1> QED
    BY <1>1, InitInv, PTL DEF Spec

\* For any number of interfaces the state keeps its types.
THEOREM TypeCorrect == Spec => []TypeOK
  <1>1. Inv => TypeOK
    BY DEF Inv
  <1> QED
    BY <1>1, Invariance, PTL

\* From the end of the last start until shutdown every worker thread runs.
THEOREM AlwaysServing == Spec => []Serving
  <1>1. Inv => Serving
    BY Sizes DEF Inv, TypeOK, Waiting, Started, Threw, Serving, Tx, Rx
  <1> QED
    BY <1>1, Invariance, PTL

\* App::run returns only when every thread was joined.
THEOREM ReturnsQuiet == Spec => []RunReturnsQuiet
  <1>1. Inv => RunReturnsQuiet
    BY Sizes DEF Inv, Destroyed, Stopped, RunReturnsQuiet, Tx, Rx
  <1> QED
    BY <1>1, Invariance, PTL

\* Only exceptions of calls and failed starts abort the process, no shutdown.
THEOREM ShutdownIsSafe == Spec => []ShutdownNeverAborts
  <1>1. Inv => ShutdownNeverAborts
    BY DEF Inv
  <1> QED
    BY <1>1, Invariance, PTL

\* A start that fails never becomes the error message of main.
THEOREM FailedStartIsFatal == Spec => []FailedStartAborts
  <1>1. Inv => FailedStartAborts
    BY DEF Inv
  <1> QED
    BY <1>1, Invariance, PTL
=============================================================================
