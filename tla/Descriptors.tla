---------------------------- MODULE Descriptors ----------------------------
(***************************************************************************)
(* The file descriptors behind the interfaces: UnixUDPSocket and           *)
(* UnixSerialPort, which keep the number of their descriptor in socket_    *)
(* and port_ (here fd) and reach the kernel through UnixSyscalls.          *)
(*                                                                         *)
(* Two threads share fd without a lock.  The receive thread polls it and,  *)
(* on POLLERR, closes it, forgets it, opens another and binds or           *)
(* configures that one.  The transmit thread reads fd and gives the number *)
(* it has read to sendto or write, a moment later.  A number that was      *)
(* closed is the next one the kernel hands out, to whichever interface     *)
(* asks first.                                                             *)
(*                                                                         *)
(* main makes the interfaces one after another, then the threads run, and  *)
(* the destructors close what is open.  An exception in a thread, or while *)
(* the interfaces are made, ends the process.                              *)
(***************************************************************************)
EXTENDS Integers, FiniteSets

CONSTANTS
    Sockets,        \* UDP interfaces
    Ports,          \* serial interfaces
    MaxDescriptor,  \* bound: the highest descriptor number
    MaxErrors,      \* bound: the number of POLLERRs an interface sees
    Nobody          \* owner of a number that is free

Interfaces == Sockets \cup Ports
Descriptors == 1 .. MaxDescriptor

ASSUME InterfacesAssumption ==
    /\ IsFiniteSet(Interfaces)
    /\ Sockets \cap Ports = {}
    /\ Nobody \notin Interfaces
ASSUME BoundsAssumption == MaxDescriptor \in Nat /\ MaxErrors \in Nat

VARIABLES
    phase,    \* process: "make", "run", "join", "over", "failed"
    table,    \* kernel: the open file of each descriptor number
    fd,       \* socket_ or port_ of each interface
    rx,       \* receive thread: where it is in receive or read
    tx,       \* transmit thread: the number it is about to use
    errors    \* POLLERRs an interface has seen so far

vars == <<phase, table, fd, rx, tx, errors>>

-----------------------------------------------------------------------------
(* The kernel's table *)

\* A file is "new" when it was opened, "ready" when it is bound to port_ and
\* address_ or configured; sendto binds a new socket to a port of its own.
Free == [owner |-> Nobody, state |-> "free"]
File(i, state) == [owner |-> i, state |-> state]
Files == {Free} \cup {File(i, s) : i \in Interfaces,
                                   s \in {"new", "ready", "elsewhere"}}

\* open and socket give the lowest number that is free.
Lowest(n) ==
    /\ n \in Descriptors
    /\ table[n] = Free
    /\ \A k \in 1 .. n - 1 : table[k] # Free

Closed(n) == IF n \in Descriptors THEN [table EXCEPT ![n] = Free] ELSE table

NoCall == [fd |-> 0, at |-> 0]
Calling(i) == tx[i] # NoCall

TypeOK ==
    /\ phase \in {"make", "run", "join", "over", "failed"}
    /\ table \in [Descriptors -> Files]
    /\ fd \in [Interfaces -> Descriptors \cup {-1}]
    /\ rx \in [Interfaces -> {"open", "setup", "unwind", "thrown", "idle",
                              "take", "close", "forget", "done", "gone"}]
    /\ tx \in [Interfaces -> [fd : Descriptors \cup {-1, 0},
                              at : -1 .. MaxErrors]]
    /\ errors \in [Interfaces -> 0 .. MaxErrors]

NoFiles == [n \in Descriptors |-> Free]
NoFd == [i \in Interfaces |-> -1]
AllOpen == [i \in Interfaces |-> "open"]
NoCalls == [i \in Interfaces |-> NoCall]
NoErrors == [i \in Interfaces |-> 0]

Init ==
    /\ phase = "make"
    /\ table = NoFiles
    /\ fd = NoFd
    /\ rx = AllOpen
    /\ tx = NoCalls
    /\ errors = NoErrors

\* An exception nobody catches, or one that main catches before it returns:
\* the process ends, whatever its threads were doing, and all files with it.
Fail ==
    /\ phase' = "failed"
    /\ table' = NoFiles
    /\ fd' = NoFd
    /\ rx' = AllOpen
    /\ tx' = NoCalls
    /\ errors' = NoErrors

-----------------------------------------------------------------------------
(* create_socket_ and open_port_, from the constructor and after POLLERR *)

\* main makes one interface at a time, receive threads open independently.
MayOpen(i) ==
    \/ phase = "run"
    \/ /\ phase = "make"
       /\ \A j \in Interfaces : rx[j] \in {"open", "idle"}

Open(i) ==
    /\ MayOpen(i)
    /\ rx[i] = "open"
    /\ \/ \E n \in Descriptors :
             /\ Lowest(n)
             /\ table' = [table EXCEPT ![n] = File(i, "new")]
             /\ fd' = [fd EXCEPT ![i] = n]
             /\ rx' = [rx EXCEPT ![i] = "setup"]
             /\ UNCHANGED <<phase, tx, errors>>
       \/ Fail

\* bind fails for a socket that sendto has bound already.
Bind(i) ==
    /\ rx[i] = "setup"
    /\ i \in Sockets
    /\ \/ /\ table[fd[i]].state = "new"
          /\ table' = [table EXCEPT ![fd[i]] = File(i, "ready")]
          /\ rx' = [rx EXCEPT ![i] = "idle"]
          /\ UNCHANGED <<phase, fd, tx, errors>>
       \/ Fail

\* configure_port_, which may throw.
Configure(i) ==
    /\ rx[i] = "setup"
    /\ i \in Ports
    /\ \/ /\ table' = [table EXCEPT ![fd[i]] = File(i, "ready")]
          /\ rx' = [rx EXCEPT ![i] = "idle"]
          /\ UNCHANGED <<phase, fd, tx, errors>>
       \/ /\ rx' = [rx EXCEPT ![i] = "unwind"]
          /\ UNCHANGED <<phase, table, fd, tx, errors>>

\* Mutant of Unwind: the port is left open.
UnwindOpen(i) ==
    /\ rx[i] = "unwind"
    /\ rx' = [rx EXCEPT ![i] = "thrown"]
    /\ UNCHANGED <<phase, table, fd, tx, errors>>

\* The handler in open_port_ closes the port; port_ keeps its number.
Unwind(i) ==
    /\ rx[i] = "unwind"
    /\ table' = Closed(fd[i])
    /\ rx' = [rx EXCEPT ![i] = "thrown"]
    /\ UNCHANGED <<phase, fd, tx, errors>>

\* Mutant of Rethrow: the port is closed on the way out as well.
RethrowClosing(i) ==
    /\ rx[i] = "thrown"
    /\ table' = Closed(fd[i])
    /\ UNCHANGED <<phase, fd, rx, tx, errors>>

\* The exception goes on; until it ends the process the others run.
Rethrow(i) == rx[i] = "thrown" /\ Fail

Setup(i) ==
    /\ phase \in {"make", "run"}
    /\ Bind(i) \/ Configure(i) \/ Unwind(i) \/ Rethrow(i)

\* Every interface was made: App::run starts the threads.
Run ==
    /\ phase = "make"
    /\ \A i \in Interfaces : rx[i] = "idle"
    /\ phase' = "run"
    /\ UNCHANGED <<table, fd, rx, tx, errors>>

-----------------------------------------------------------------------------
(***************************************************************************)
(* Receive thread: receive and read.  A poll that times out, or reports    *)
(* neither POLLERR nor POLLIN, changes nothing.                            *)
(***************************************************************************)

Poll(i) ==
    /\ phase = "run"
    /\ rx[i] = "idle"
    /\ \/ /\ rx' = [rx EXCEPT ![i] = "take"]
          /\ UNCHANGED <<phase, table, fd, tx, errors>>
       \/ /\ errors[i] < MaxErrors
          /\ errors' = [errors EXCEPT ![i] = @ + 1]
          /\ rx' = [rx EXCEPT ![i] = "close"]
          /\ UNCHANGED <<phase, table, fd, tx>>
       \/ Fail

\* receive_ and read_: the system calls may fail, a datagram may be empty.
Take(i) ==
    /\ phase = "run"
    /\ rx[i] = "take"
    /\ \/ /\ rx' = [rx EXCEPT ![i] = "idle"]
          /\ UNCHANGED <<phase, table, fd, tx, errors>>
       \/ Fail

Close(i) ==
    /\ phase = "run"
    /\ rx[i] = "close"
    /\ table' = Closed(fd[i])
    /\ rx' = [rx EXCEPT ![i] = "forget"]
    /\ UNCHANGED <<phase, fd, tx, errors>>

\* Mutant of Forget: the number is closed once more, now that another
\* interface may have got it.
ForgetClosing(i) ==
    /\ phase = "run"
    /\ rx[i] = "forget"
    /\ table' = Closed(fd[i])
    /\ fd' = [fd EXCEPT ![i] = -1]
    /\ rx' = [rx EXCEPT ![i] = "open"]
    /\ UNCHANGED <<phase, tx, errors>>

\* Mutant of Forget: zero, the number of the standard input, as "none".
ForgetAsZero(i) ==
    /\ phase = "run"
    /\ rx[i] = "forget"
    /\ fd' = [fd EXCEPT ![i] = 0]
    /\ rx' = [rx EXCEPT ![i] = "open"]
    /\ UNCHANGED <<phase, table, tx, errors>>

Forget(i) ==
    /\ phase = "run"
    /\ rx[i] = "forget"
    /\ fd' = [fd EXCEPT ![i] = -1]
    /\ rx' = [rx EXCEPT ![i] = "open"]
    /\ UNCHANGED <<phase, table, tx, errors>>

-----------------------------------------------------------------------------
(* Transmit thread: send and write *)

Reopening(i) ==
    rx[i] \in {"close", "forget", "open", "setup", "unwind", "thrown"}

\* History: the reopenings before the read, -1 when one is under way.
Since(i) == IF Reopening(i) THEN -1 ELSE errors[i]

\* The number is read from socket_ or port_ ...
ReadNumber(i) ==
    /\ phase = "run"
    /\ ~ Calling(i)
    /\ tx' = [tx EXCEPT ![i] = [fd |-> fd[i], at |-> Since(i)]]
    /\ UNCHANGED <<phase, table, fd, rx, errors>>

\* ... and means to the kernel what it stands for by then.
Target(i) == IF tx[i].fd \in Descriptors THEN table[tx[i].fd] ELSE Free

\* A call on a number that is free, or of a file of the other kind, fails.
SendTo(i) ==
    /\ phase = "run"
    /\ i \in Sockets
    /\ Calling(i)
    /\ \/ /\ Target(i).owner \in Sockets
          /\ table' = IF Target(i).state = "new"
                      THEN [table EXCEPT ![tx[i].fd].state = "elsewhere"]
                      ELSE table
          /\ tx' = [tx EXCEPT ![i] = NoCall]
          /\ UNCHANGED <<phase, fd, rx, errors>>
       \/ Fail

Write(i) ==
    /\ phase = "run"
    /\ i \in Ports
    /\ Calling(i)
    /\ \/ /\ Target(i).owner \in Ports
          /\ tx' = [tx EXCEPT ![i] = NoCall]
          /\ UNCHANGED <<phase, table, fd, rx, errors>>
       \/ Fail

-----------------------------------------------------------------------------
(* Shutdown: the threads leave their loops, then the interfaces go *)

Stop(i) ==
    /\ phase = "run"
    /\ rx[i] = "idle"
    /\ rx' = [rx EXCEPT ![i] = "done"]
    /\ UNCHANGED <<phase, table, fd, tx, errors>>

Join ==
    /\ phase = "run"
    /\ \A i \in Interfaces : rx[i] = "done" /\ ~ Calling(i)
    /\ phase' = "join"
    /\ UNCHANGED <<table, fd, rx, tx, errors>>

\* ~UnixUDPSocket and ~UnixSerialPort
Destroy(i) ==
    /\ phase = "join"
    /\ rx[i] = "done"
    /\ table' = Closed(fd[i])
    /\ rx' = [rx EXCEPT ![i] = "gone"]
    /\ phase' = IF \A j \in Interfaces \ {i} : rx[j] = "gone" THEN "over"
                                                           ELSE phase
    /\ UNCHANGED <<fd, tx, errors>>

-----------------------------------------------------------------------------

Receiver(i) == \/ Open(i) \/ Setup(i) \/ Poll(i) \/ Take(i) \/ Close(i)
               \/ Forget(i)

Transmitter(i) == ReadNumber(i) \/ SendTo(i) \/ Write(i)

Next ==
    \/ \E i \in Interfaces : \/ Receiver(i)
                             \/ Transmitter(i)
                             \/ Stop(i)
                             \/ Destroy(i)
    \/ Run
    \/ Join

Spec == Init /\ [][Next]_vars

-----------------------------------------------------------------------------
(* Properties *)

Listening(i) == rx[i] \in {"idle", "take", "close", "done"}
Holding(i) == Listening(i) \/ rx[i] \in {"setup", "unwind"}

(***************************************************************************)
(* While the process lives, the open files are exactly those the           *)
(* interfaces hold: a receive thread polls, reads and closes a file of its *)
(* own, which is bound or configured unless it is just being set up, no    *)
(* interface closes a file of another one, whose number may be its own old *)
(* one, and no file is left open by a reopening, by a port that could not  *)
(* be configured once its exception is on its way, nor at the end.         *)
(***************************************************************************)
EachItsOwn ==
    phase # "failed" =>
        /\ \A i \in Interfaces : Holding(i) =>
              /\ fd[i] \in Descriptors
              /\ table[fd[i]].owner = i
              /\ Listening(i) => table[fd[i]].state = "ready"
        /\ \A n \in Descriptors : table[n] # Free =>
              \E i \in Interfaces : Holding(i) /\ fd[i] = n

(***************************************************************************)
(* The number a transmit thread is about to use stands for the interface's *)
(* own file, bound or configured, unless a reopening was under way when it *)
(* read the number or has begun since; and it stands for a file of another *)
(* interface only when that one reopened as well.                          *)
(***************************************************************************)
StraysOnlyBesideReopen ==
    \A i \in Interfaces : phase = "run" /\ Calling(i) =>
        /\ tx[i].at = errors[i] => Target(i) = File(i, "ready")
        /\ \A j \in Interfaces \ {i} :
              Target(i).owner = j => errors[i] > 0 /\ errors[j] > 0
=============================================================================
