----------------------------- MODULE Lifecycle -----------------------------
(***************************************************************************)
(* The threads of mavtables and their end: InterfaceThreader               *)
(* (src/src/InterfaceThreader.cpp) runs send_packet and receive_packet of  *)
(* an interface in two threads, App::run (src/src/App.cpp) starts all of   *)
(* them, waits for SIGINT and shuts them down, and main                    *)
(* (src/src/mavtables.cpp) destroys the application.                       *)
(*                                                                         *)
(* A thread may fail to start, a call may throw, and SIGINT may come at    *)
(* any time and more than once.                                            *)
(***************************************************************************)
EXTENDS Naturals, Sequences

CONSTANTS
    N,           \* number of interfaces
    MaxSignals   \* bound: times SIGINT is sent

ASSUME SizeAssumption == N \in Nat \ {0} /\ MaxSignals \in Nat

Interfaces == 1 .. N          \* in the order of threaders_

Workers == Interfaces \X {"tx", "rx"}

VARIABLES
    process,    \* "running", or how it ended
    phase,      \* where the main thread is
    who,        \* the interface its loop is at
    step,       \* the statement of start or shutdown it is at
    running,    \* the interfaces whose running_ is true
    thread,     \* the state of each worker thread
    sigint,     \* SIGINTs pending, of which a second one is dropped
    signals     \* times SIGINT was sent

main == <<phase, who, step>>

vars == <<process, main, running, thread, sigint, signals>>

\* "check": about to test running_; "call": in send_packet or receive_packet;
\* "caught": a PartialSendError was caught.
Active == {"check", "call", "caught"}

\* "unwind": an exception left App::run, and destroys the interfaces;
\* "destroy": App::run returned, and main destroys them.
Destroying == {"unwind", "destroy"}

TypeOK ==
    /\ process \in {"running", "returned", "failed", "aborted", "killed"}
    /\ phase \in {"start", "block", "blocked", "sigwait", "stop"} \cup Destroying
    /\ who \in Interfaces /\ step \in 1 .. 3
    /\ running \in SUBSET Interfaces
    /\ thread \in [Workers -> {"none", "ended", "joined", "threw"} \cup Active]
    /\ sigint \in 0 .. 1 /\ signals \in 0 .. MaxSignals

Init ==
    /\ process = "running"
    /\ phase = "start" /\ who = 1 /\ step = 1
    /\ running = {}
    /\ thread = [w \in Workers |-> "none"]
    /\ sigint = 0 /\ signals = 0

\* Plausible errors in StartOrder, ShutdownOrder, AtLast and Skipped.
StartOrderLate == <<"tx", "rx", "running">>
ShutdownOrderLate == <<"tx", "running", "rx">>
ShutdownOrderShort == <<"running", "tx">>
AtLastLate == who > N
SkippedNever == FALSE

\* The statements of start and of shutdown: the store to running_, and what
\* is done about the thread of that name.
StartOrder == <<"running", "tx", "rx">>

ShutdownOrder == <<"running", "tx", "rx">>

AtLast == who = N

-----------------------------------------------------------------------------
(* The main thread *)

GoTo(p) == phase' = p /\ who' = 1 /\ step' = 1

\* What follows the loop over the interfaces.
AfterLoop ==
    \/ phase = "start" /\ GoTo("block") /\ UNCHANGED process
    \/ phase = "stop" /\ GoTo("destroy") /\ UNCHANGED process
    \/ /\ phase \in Destroying
       /\ process' = IF phase = "destroy" THEN "returned" ELSE "failed"
       /\ UNCHANGED main

NextInterface ==
    \/ AtLast /\ AfterLoop
    \/ ~AtLast /\ who' = who + 1 /\ step' = 1 /\ UNCHANGED <<process, phase>>

NextStatement(last) ==
    \/ step < last /\ step' = step + 1 /\ UNCHANGED <<process, phase, who>>
    \/ step = last /\ NextInterface

\* InterfaceThreader::start.
StartStore ==
    /\ phase = "start" /\ StartOrder[step] = "running"
    /\ running' = running \cup {who}
    /\ NextStatement(Len(StartOrder))
    /\ UNCHANGED <<thread, sigint, signals>>

StartThread ==
    /\ phase = "start" /\ StartOrder[step] # "running"
    /\ thread' = [thread EXCEPT ![<<who, StartOrder[step]>>] = "check"]
    /\ NextStatement(Len(StartOrder))
    /\ UNCHANGED <<running, sigint, signals>>

\* The constructor of std::thread throws, and App::run with it.
StartFails ==
    /\ phase = "start" /\ StartOrder[step] # "running"
    /\ GoTo("unwind")
    /\ UNCHANGED <<process, running, thread, sigint, signals>>

\* sigprocmask, then the call of sigwait.
Block ==
    /\ \/ phase = "block" /\ GoTo("blocked")
       \/ phase = "blocked" /\ GoTo("sigwait")
    /\ UNCHANGED <<process, running, thread, sigint, signals>>

\* sigwait returns.  It reports an error by a positive number, so what run
\* does for a negative one is never done.
SigWait ==
    /\ phase = "sigwait" /\ sigint = 1
    /\ sigint' = 0
    /\ GoTo("stop")
    /\ UNCHANGED <<process, running, thread, signals>>

\* InterfaceThreader::shutdown, called by App::run ("stop") or by the
\* destructor.  It does nothing if running_ is false already.
InShutdown == phase \in Destroying \cup {"stop"}

Skipped == step = 1 /\ who \notin running

\* The end of shutdown.  A destructor then destroys the std::threads, which
\* terminates the process if one was not joined.
Leave(last) ==
    IF /\ phase \in Destroying
       /\ step = last
       /\ \E w \in {who} \X {"tx", "rx"} : thread'[w] \notin {"none", "joined"}
      THEN process' = "aborted" /\ UNCHANGED main
      ELSE NextStatement(last)

Skip ==
    /\ InShutdown /\ Skipped
    /\ UNCHANGED <<running, thread, sigint, signals>>
    /\ Leave(1)

ShutdownStore ==
    /\ InShutdown /\ ~Skipped /\ ShutdownOrder[step] = "running"
    /\ running' = running \ {who}
    /\ NextStatement(Len(ShutdownOrder))
    /\ UNCHANGED <<thread, sigint, signals>>

\* join waits for a thread to end.
Join ==
    /\ InShutdown /\ ~Skipped /\ ShutdownOrder[step] # "running"
    /\ LET w == <<who, ShutdownOrder[step]>> IN
         /\ thread[w] = "ended"
         /\ thread' = [thread EXCEPT ![w] = "joined"]
    /\ Leave(Len(ShutdownOrder))
    /\ UNCHANGED <<running, sigint, signals>>

\* join of no thread throws, out of a destructor.
JoinOfNone ==
    /\ phase \in Destroying /\ ~Skipped /\ ShutdownOrder[step] # "running"
    /\ thread[<<who, ShutdownOrder[step]>>] \in {"none", "joined"}
    /\ process' = "aborted"
    /\ UNCHANGED <<main, running, thread, sigint, signals>>

Main ==
    /\ process = "running"
    /\ \/ StartStore \/ StartThread \/ StartFails \/ Block \/ SigWait
       \/ Skip \/ ShutdownStore \/ Join \/ JoinOfNone

-----------------------------------------------------------------------------
(* The worker threads: tx_runner_ and rx_runner_ *)

Becomes(w, from, to) ==
    /\ thread[w] = from
    /\ thread' = [thread EXCEPT ![w] = to]

Test(w) ==
    /\ Becomes(w, "check", IF w[1] \in running THEN "call" ELSE "ended")
    /\ UNCHANGED process

CallReturns(w) == Becomes(w, "call", "check") /\ UNCHANGED process

\* Only the transmitting thread catches a PartialSendError.
PartialSend(w) ==
    /\ w[2] = "tx"
    /\ Becomes(w, "call", "caught")
    /\ UNCHANGED process

Ignore(w) ==
    /\ w[1] \notin running
    /\ Becomes(w, "caught", "check")
    /\ UNCHANGED process

\* An exception that leaves the thread terminates the process: a
\* PartialSendError that is thrown again, or any other one.
Throw(w) ==
    /\ \/ Becomes(w, "call", "threw")
       \/ w[1] \in running /\ Becomes(w, "caught", "threw")
    /\ process' = "aborted"

Worker(w) ==
    /\ process = "running"
    /\ Test(w) \/ CallReturns(w) \/ PartialSend(w) \/ Ignore(w) \/ Throw(w)
    /\ UNCHANGED <<main, running, sigint, signals>>

-----------------------------------------------------------------------------
(* SIGINT *)

\* The workers were started before SIGINT was blocked, so none of them blocks
\* it.  While the main thread is in sigwait it gets the signal; otherwise any
\* thread that does not block it does, and the process is killed.
Kills ==
    \/ phase \in {"start", "block", "unwind"}
    \/ phase # "sigwait" /\ \E w \in Workers : thread[w] \in Active

Interrupt ==
    /\ process = "running"
    /\ signals < MaxSignals
    /\ signals' = signals + 1
    /\ \/ Kills /\ process' = "killed" /\ UNCHANGED sigint
       \/ ~Kills /\ sigint' = 1 /\ UNCHANGED process
    /\ UNCHANGED <<main, running, thread>>

Terminated == process # "running" /\ UNCHANGED vars

Next == Main \/ (\E w \in Workers : Worker(w)) \/ Interrupt \/ Terminated

\* Each thread gets to run, and a call returns: it waits at most timeout_.
Spec ==
    /\ Init /\ [][Next]_vars
    /\ WF_vars(Main)
    /\ \A w \in Workers : WF_vars(Worker(w))

-----------------------------------------------------------------------------
(* Properties *)

\* From the return of the last start until shutdown both threads of every
\* interface run: none saw running_ before start had set it.
Serving ==
    process = "running" /\ phase \in {"block", "blocked", "sigwait"} =>
        \A w \in Workers : thread[w] \in Active

\* When App::run returns every thread was joined, so that no thread of one
\* interface reaches into another that main is destroying.
RunReturnsQuiet ==
    phase = "destroy" => \A w \in Workers : thread[w] = "joined"

\* Neither App::run nor a destructor after it terminates the process by a join
\* of a thread that is not there or a thread it forgot, whatever the workers
\* and signals do meanwhile; only exceptions of calls and failed starts do.
ShutdownNeverAborts ==
    process = "aborted" => phase = "unwind" \/ \E w \in Workers : thread[w] = "threw"

\* A thread that cannot be started never ends in main's error message: start
\* has set running_ before, so the destructor joins the thread that is not
\* there, which terminates the process.
FailedStartAborts == process # "failed"

\* A SIGINT that sigwait gets ends the process: no join waits for ever.
InterruptEnds == sigint = 1 ~> process # "running"
=============================================================================
