# mavtables in TLA+

mavtables is a MAVLink router and firewall: packets come in on serial ports and
UDP sockets, a filter decides which of them may go on, and they leave with a
priority on every link behind which their destination was heard.  It is a
multithreaded C++17 program.  This directory models the threads, from the bytes
of a port to the queue of a link, and the way from the command line and the
configuration file to a running application; it checks the models with TLC on
small instances and proves the main results for all instances with the TLA+
proof system.

File names below are relative to `src/src/` unless they say otherwise.

## The system

### Components, their state and their operations

| component | state | operations |
|---|---|---|
| `Interface` (`SerialInterface`, `UDPInterface`) | a device or socket, a parser, one connection or a map of connections by IP address, the last IP address | `send_packet(timeout)`, `receive_packet(timeout)` |
| `InterfaceThreader`, `App` | `running_`, two threads for each interface | `start`, `shutdown`, `tx_runner_`, `rx_runner_`; `App::run` waits for SIGINT |
| `ConnectionPool` | a set of weak pointers to connections, a shared mutex | `add`, `remove`, `send` |
| `Connection` | an address pool, a packet queue, the shared filter, the mirror flag | `add_address`, `send`, `next_packet` |
| `AddressPool` | address -> time of the last packet, a mutex | `add`, `contains`, `addresses` (the last two erase what has expired) |
| `ConnectionFactory`, `semaphore` | one semaphore for all connections of a UDP interface | `get`, `wait_for_packet`; `notify`, `wait_for` |
| `PacketQueue`, `QueuedPacket` | a priority queue, a ticket counter, `running_`, a mutex and a condition variable, a callback | `push`, `pop()`, `pop(timeout)`, `close`, the comparison operators |
| `Filter`, `Chain`, `Rule`s, `If`, `Action`, `RecursionGuard` | the rules; in each chain the set of threads that are in it | `will_accept`, `action`, `check` |
| `PacketParser`, `PacketVersion1/2` | a buffer and one of three states | `parse_byte`, `clear` |
| `UnixUDPSocket`, `UnixSerialPort` | a descriptor, `next_time_` | `send`, `receive`; `read`, `write`; reopening after an error |
| `MAVAddress`, `MAVSubnet`, `IPAddress` | values | parsing, printing, comparing, `contains` |
| `ConfigParser`, grammar, syntax tree | the stack of nodes while a file is parsed | `parse`, `make_app` and the `parse_` functions build the objects above |
| `Options`, `main`, `Filesystem` | the options, the log level | the command line, `find_config` |
| `Logger`, `utility`, the fields of packets | none | output |

### How they interact

Each interface has a receive thread and a transmit thread.  A receive thread
calls `receive_packet`: bytes go through the parser, the source of a complete
packet is added to the address pool of the connection it came in on, and the
packet is handed to the one `ConnectionPool`.  Under the shared lock of the
pool the same thread runs `Connection::send` of every connection: it looks at
that connection's `AddressPool`, asks the filter, and pushes the packet into
that connection's `PacketQueue`.  The push wakes the transmit thread of the
connection's interface, directly through the condition variable of the queue
(serial) or through the callback and the semaphore of the `ConnectionFactory`
(UDP).  The transmit thread pops and writes.

Before any of this, `main` reads the command line, chooses a configuration
file, has it parsed into a syntax tree, and `make_app` builds the chains, the
filter and the interfaces from the tree.  The interfaces open their sockets and
ports when they are made and close them when they are destroyed; in between the
receive thread reopens one that reports an error, while the transmit thread
goes on using the same member.

So each connection is shared by all receive threads and one transmit thread,
the filter by all receive threads, and the map of connections of a UDP
interface by its two threads.

### What is hard, and what makes each component correct

The hazards are listed with their lines in `PROJECT.json`.  In short:

* **PacketQueue**: `push` and `close` notify after they have unlocked; waits
  time out, wake spuriously and race for the lock; tickets wrap.  Correct
  when no wakeup is lost, `close` releases everyone, and the queue cannot be
  told from an atomic buffer sorted by priority and arrival.
* **UDP transmit side**: one semaphore stands for many queues, and a walk takes
  packets and units at different moments.  Correct when no packet is stranded
  behind a blocked thread, units do not pile up, and no connection is starved.
* **Rate limit**: correct when the line carries no more than the bitrate.
* **Filter**: threads evaluate the same chains at once, and chains may loop.
  Correct when each thread gets the answer the rules mean and gets one always.
* **Routing**: entries of the address pools expire, and other threads add to
  them, between two looks of one thread.  Correct when a packet never returns
  to the link it came from, goes only where it is meant for, and is not lost.
* **Parser**: resynchronises after garbage, and never joins the bytes of two
  peers.
* **Threads**: shutdown against a running write, signals that arrive early.
  Correct when the process ends exactly when it should.
* **Descriptors**: one that is reopened under another thread's feet, whose
  number the kernel gives to another interface next.  Correct when nobody polls,
  reads or closes what is not its own, and nothing leaks.
* **Configuration**: choices of the grammar that are taken back after they left
  something in the tree, chains that are used before they are defined, masks
  that cross a byte.  Correct when the application is what the file says, and
  nothing runs when it says nothing sensible.

## The modules

| module | models | composed with |
|---|---|---|
| `QueuedPacket` | the comparison of queued packets and its wrapping tickets | extended by `PacketQueue` |
| `PriorityBuffer` | abstract: the atomic buffer that `PacketQueue.hpp` promises | implemented by `PacketQueue` |
| `PacketQueue` | `PacketQueue.cpp` with the threads that push and pop | |
| `UDPTransmit` | `UDPInterface::send_packet`, `update_connections_`, the semaphore | takes a queue as a set, which is what the buffer allows |
| `UDPRateLimit` | `UnixUDPSocket::send` | |
| `UDPLink` | the interface on its socket: `send_packet` calling `send`, which may sleep | composes `UDPTransmit` and `UDPRateLimit` |
| `UDPMapRace` | the `std::map` of connections in memory, walked and changed at once | on `UDPTransmit` |
| `AtomicFilter` | abstract: the table of answers that `Filter` is to its users | implemented by `Filter` |
| `Filter` | `Filter`, `Chain`, rules, `RecursionGuard` | |
| `Routing` | `AddressPool`, `Connection`, `ConnectionPool`, and `receive_packet` after the parser | takes the answers of the filter as a table, which is `AtomicFilter` |
| `PacketParser` | `PacketParser`, the constructors of the packets, the loops of `receive_packet` that feed it | |
| `Lifecycle` | `InterfaceThreader`, `App::run`, the end of `main`, SIGINT | a call of an interface is any call that returns or throws |
| `Descriptors` | `UnixUDPSocket` and `UnixSerialPort` over the descriptor table of the kernel | a packet is any call; the limit is `UDPRateLimit`'s |
| `Text` | lexemes, reading and printing of numbers | extended by what follows |
| `Addresses` | `MAVAddress`, `MAVSubnet`, `IPAddress` | on `Text` |
| `ParseTree` | `parse_tree.hpp`: the stack of nodes and the transforms | |
| `TreePrinting` | `config::print_node`: the lines of a tree | on `ParseTree` |
| `Grammar` | `config_grammar.hpp/.cpp`: the grammar and its errors | on `ParseTree` |
| `Rules` | the values of `If`, `Action`, the rules, `Chain`, `Filter`: making, comparing, copying, printing | on `Addresses` |
| `ConfigParser` | `ConfigParser.cpp`: from the tree to the application | on `ParseTree` and `Rules` |
| `Documents` | reference: documents, how they are written down and what they mean by `doc/configuration.md` | on `Rules` for values only |
| `Startup` | `main`, `Options`, and the parser at work | on `ConfigParser` and `Documents`; `MCStartup` gives it `Grammar` and `TreePrinting` |
| `MC...` | constants for TLC | |
| `..._proof` | theorems about the module of that name; `UDP_proof` about `UDPTransmit`, `UDPRateLimit` and `UDPLink` | |

### PacketQueue

One action for each critical section of `mutex_`, and one for each notify after
it: `Push` then `NotifyOne`, `Close` then `NotifyAll`.  A consumer is `idle`,
`asleep` in its wait, or `woken` and about to take the lock again; `Pop` is the
first check of the wait's condition, `Recheck` every later one, `Expire` the
deadline, `SpuriousWake` what the standard permits.  `PopNow` is the pop with a
timeout of zero.  `empty` changes nothing and is left out.  A ticket is a
number below `2 * Half`; in the program `Half` is 2^63.  `Push` has one guard
that the code does not have: all queued tickets lie within `Half` of the next
one.  That is the obligation the note at `QueuedPacket.cpp:102` puts on users;
no program can hold 2^63 packets, but a model with six tickets could.

The abstract `PriorityBuffer` has no threads and numbers arrivals with natural
numbers.  The refinement mapping counts the arrival number of a queued packet
back from the number of pushes by the tickets drawn since (`Arrived`).

### UDPTransmit

Producers (`Push`, then `Notify` for the callback), the receive thread of the
interface (`BeginInsert`, `EndInsert`, `AddToPool` for `update_connections_`)
and the transmit thread, whose `pc` follows `send_packet`: `Wait` for a unit,
`Visit` the connections in the order of the map, `Send`, and `Extra` for the
`wait_for_packet(0s)` after every packet but the first.  A `wait_for_packet`
that times out only makes `send_packet` return and be called again.  A visited
connection gives up any one of its packets: which one is `PacketQueue`'s matter.

Nothing locks `connections_`.  In this module a peer enters the map in one step
(`EndInsert`), and so does what the walk sees of it.  `UDPMapRace` looks closer.

### UDPMapRace

The map is a red-black tree, and this is libstdc++'s: a header, which is
`end()`, and nodes with pointers to parent, left and right.  `Attach` hangs the
new node in as a leaf, `Rebalance` is a turn of the loop that recolours and
rotates, and the pointers they assign are written one by one (`WritePointer`),
in the order of that library.  The increment of the walk's iterator reads them
one by one: `Step`, then `Descend` or `Climb`, then `Arrive`, where the
connection is served or the walk is over.  The rest is `UDPTransmit`'s.

Only an insertion that rotates can mislead the walk.  In the run peers 1 and 2
are in the tree, with 1 at the root; the insertion of 3 rotates left at 1, and
after its first write 1 has nothing to its right.  An iterator that leaves 1
just then climbs to the header and stops there, past 2, which has a packet.
Without optimisation by the compiler and with memory that orders its writes
there is no more to it; a data race promises neither, so there are worse
outcomes, and the model is not a list of them.

### UDPRateLimit

`call` is where the caller of `send` is.  `Tick` is the clock, `SendNow` a call
that need not wait, `SendLater` one that sleeps, `WakeAndSend` the end of the
sleep, which may be late.  `Duration` is the integer division of the code.  The
system call takes no time.

### UDPLink

`send_packet` calls `socket_->send` in the middle of its walk.  `Forward` is
that call: at once, or into a sleep and out of it, during which the transmit
thread holds a packet that is in no queue any more, and producers and the
receive thread go on (`Elsewhere`).  The properties of both modules are checked
here.

### Filter

The call stack of each thread is explicit: a frame for each `Chain::action`,
with the index of the rule it is at.  `Enter` and `Throw` are the constructor of
the recursion guard (set insertion under the mutex), `Leave` is its destructor
together with what the caller (`Call`, `GoTo`, `will_accept`) does with the
result, an exception included.  A condition is the set of requests (packet and
address) that it matches; the masks of `MAVSubnet` are not modelled.  The
configuration is chosen at the start from `Programs`, in which no rule leads to
the default chain, as the parser ensures (`ConfigParser.cpp:123`, `:144`).

`Meaning` is the reference definition: what a chain means for one request,
without threads, guards or a stack.  It is a function of an *evaluation*, a
request, a chain and the chains it was reached from (`inside`); the first rule
that matches and does not continue decides (`Deciding`, `Earliest`), and a rule
that leads back inside is an error.  It depends on the configuration alone, so
`AnswersAreRight` also says that no thread disturbs another.  `LoopFree` says of
a configuration that its chains can be put in levels that every call and goto
descends.

The abstract `AtomicFilter` has no chains: a call of `will_accept` is one look
at a table that never changes.  The refinement mapping fills it with what
`Meaning` gives for each request.

### Routing

`Receive`, `Join` (a new UDP peer waits for the exclusive lock of the pool),
`AddAddress`, `Lock` (the shared lock of the pool, and its connections as they
are by then), then for each connection `CheckSource`, `CheckDest` or
`ListAddresses`, and `Push`.  Each of them has at most one critical section of
an address pool, so between two of them other threads act and the clock ticks.
`Erase` is the removal of expired entries that `contains` and `addresses` do on
the way.  The order of the connections in the pool is that of their control
blocks in memory; the model takes any.  The two kinds of interface differ in
`Join` only; each connection belongs to one interface and so to one receive
thread.  History variables: `heard` (never erased), `got` (what the packet in
hand was queued with, and where), `started`.

The filter is a table of answers here: it reads nothing but the configuration,
and `Filter` implements `AtomicFilter`, which is such a table.

### PacketParser

A step is a byte of one peer, the parser is a record.  `Current` is the parser
after the check of `last_ip_address_`, so a first byte of another peer finds it
cleared; `TakeStart`, `TakeHeader` and `TakePacket` are the three `waiting_for_`
methods, and `CompletePacket` is the end of the last one with the constructor of
the packet, whose exceptions are told apart by whether the parser catches them.
`bytes_remaining_` wraps at `SizeMod`.  The lengths of headers, checksum and
signature are constants; of a message only whether it is known matters.  A
serial line is the case of one peer.  What a receive call returns empty changes
nothing and is left out.

`PacketsOf` is the reference definition: the packets of a stream, found by
looking at the whole of it.  `PacketsAt` is the packet that begins at a byte, if
one does, followed by what comes after its end (`Ends`), or what comes after the
one byte; `PacketsFrom` is that for every place of the stream.

### Lifecycle

The main thread has a phase: it starts the interfaces (`start`), blocks SIGINT
and waits for it (`block`, `blocked`, `sigwait`), shuts them down (`stop`) and
destroys them (`destroy`); an exception out of `App::run` destroys them at once
(`unwind`).  In its loops `who` is the interface and `step` the statement of
`InterfaceThreader::start` or `shutdown`; `StartOrder` and `ShutdownOrder` are
those statements.  `Leave` is the end of `shutdown`, in a destructor with the
destruction of the `std::thread`s.  A worker tests `running_`, is in a call, or
has caught a `PartialSendError`; an exception that leaves it aborts the process.

The workers are started before SIGINT is blocked and inherit the open mask.
`Kills` says what follows on Linux: `sigwait` gets the signal if the main thread
is in it; at any other time a thread that does not block it lets it kill the
process.  So a second SIGINT while the interfaces are being shut down ends the
process without the rest of the shutdown.

`std::thread` may throw out of `start`, when `running_` is true already.  The
destructor then joins a thread that does not exist, which throws out of a
destructor: the process is aborted and `main` never prints the error it would
catch (`FailedStartAborts`).

### Descriptors

`fd` is `socket_` or `port_`; `table` is what the kernel has behind each number,
and `Lowest` its rule that an `open` gets the lowest free one.  `rx` is the
position of the receive thread (or of `main`, while the interfaces are made):
`Open` and `Setup` are `create_socket_` or `open_port_` with `configure_port_`,
`Poll` and `Take` are `receive` or `read`, and `Close`, `Forget`, `Open`,
`Setup` again are the answer to POLLERR (`UnixUDPSocket.cpp:160`,
`UnixSerialPort.cpp:118`), statement by statement, since the other thread may
act in between.  `ReadNumber` is the moment in which the transmit thread takes
the number out of the member, `SendTo` and `Write` the later moment in which the
kernel looks at it.  Every system call may fail; the exception ends the process
(`Fail`), and its files with it.  A port that cannot be configured is closed
first, by the handler in `open_port_` (`Unwind`), and only then does the
exception go on (`Rethrow`); the other interfaces run in between and may be
given the number that has become free.  `sendto` on a socket that is not bound binds
it to a port of its own, so the `bind` of the receive thread fails afterwards.
History: `errors` counts the POLLERRs, `at` says how many there were when the
number was read.

The guarantee is not that a transmission always leaves through its own socket:
`StraysOnlyBesideReopen` says just when it may not, and TLC does reach states in
which the number of one interface stands for the socket of another, after both
were reopened side by side.  What always holds is `EachItsOwn`, because the
thread that closes a number is the one that opened it, and forgets it at once.

### Text, Addresses, ParseTree, Grammar, Rules, ConfigParser

These modules have no variables.  A text is a sequence of lexemes: keywords, a
few names, numbers, punctuation, blanks and line ends.  Two lexemes may stand
side by side without a blank, which is how a slip makes `chaininner` of two
words or `12` of two digits.  `Text` says what the streams of the standard
library do with numbers, an overlong one included; `Addresses` says what the
parsers of addresses and subnets do with them, checks before and after the
conversion in the order of the code, and has the three ways to make a mask.
Its `&` is written out over the 16 bits.

`Grammar` names its rules as `config_grammar.hpp` does and gives them to `Match`,
an interpreter of the combinators the program takes from its parser library:
ordered choice, greedy repetition, and `must`, whose failure nothing takes
back.  `Match` calls `Start`, `Success` and `Failure` of `ParseTree` where that
library calls the functions of `parse_tree.hpp`; they push and pop the nodes,
append them to their parents and apply the transforms.  An assertion that does
not hold there is the error `undefined`.

`ConfigParser` has a definition for each `parse_` function and for `make_app`;
a value is `Good` or carries the kind of exception thrown.  The order is that
of the code: first an empty chain for each name, then the rules of each block.

### Documents and Startup

`Startup` has a variable for each thing `main` does in turn: the file chosen,
the tree, what was printed, the log level, the application, the error.  A start
begins with a *situation*: the command line, the files and variables there are,
and a document the author has in mind.  `Documents` writes that down (`Render`)
and, apart from the parser, says what it means (`Meaning`), which mistakes it
has and the exception for each (`Faults`), what it lacks by `configuration.md`
without being refused for it (`Omissions`), and which packets a condition speaks
of (`Concerns`, with division by powers of two where the code has shifts and
masks).  `Taken` is `Meaning` but for the one setting that the
program does not take as it is meant (see below).  `Mistype` removes a lexeme or inserts one; for a text with slips there
is no meaning to compare with, but the tree must still be the text
(`TreeIsText`), and nothing undefined may happen (`TypeOK`).

The parser and the printer of trees are recursive operators.  `Startup` takes
them as the constants `Parsed` and `TreeLines`, so that it can be proved about;
`MCStartup` gives them the definitions of `Grammar` and `TreePrinting`, and every
run uses those.  Two assumptions are made: the subnets of a document have one
of the four forms there are (`SituationsAssumption`; their numbers may be any),
and the packets a condition is tried on have addresses of 16 bits, as every
packet has (`ProbesAssumption`).

## The runs

| run | configuration | shows |
|---|---|---|
| `packet_queue` | 2 producers, 2 consumers, 8 pushes, 6 tickets, 2 priorities | types, `NoLostWakeup`, `CloseReleases`, `KeepsServing`, `TimedPopReturns`, and that the queue implements `PriorityBuffer` |
| `udp_transmit` | 3 connections, 2 producers, 5 packets of 1 and 2 ticks | types, `NoStranded`, `NoDrift`, `NoStarvation`, `SentAndRests`, `WithinTwiceBitrate` |
| `udp_units` | the same with 4 packets, without the socket | violation of `TrueMeansPacket` |
| `udp_race` | 3 connections, 1 producer, 2 packets, the map in memory | violation of `NoStarvation` |
| `rate_limit_doc` | packets of 4 ticks | violation of `WithinBitrate` |
| `filter` | 2 threads, 2 requests, every configuration of `MCPrograms` | `GuardsAreStacks`, `AnswersAreRight`, `NoFalseAlarm`, `AlwaysAnswers` |
| `routing` | 2 threads, 3 connections, 3 packets, timeout of 1 tick in 2 | types, `NoEcho`, `Justified`, `Delivered` |
| `packet_parser` | 2 peers, 9 bytes in a row, 4 byte values, 2 of them start bytes | types, `NeverThrows`, `HandsOutThePackets`, `Bounded` |
| `lifecycle` | 3 interfaces, 2 SIGINTs | types, `Serving`, `RunReturnsQuiet`, `ShutdownNeverAborts`, `FailedStartAborts`, `InterruptEnds` |
| `descriptors` | 2 UDP interfaces and a serial one, 4 descriptors, a POLLERR each | types, `EachItsOwn`, `StraysOnlyBesideReopen` |
| `startup` | 1778 documents without slips, slips in three more, 4096 combinations of command line, files and variables | types, `TreeIsText`, `BuiltAsWritten`, `ConditionsAsWritten`, `PrintedReadsBack`, `ComparisonsAgree`, `RightFile` |
| `startup_doc` | one document without default chain and port, with flow control on and off | violation of `AsDocumented` |

**Bounds.**  Eight pushes over six tickets wrap the counter while packets are
queued; two consumers and two producers are the least with which a notify can
reach the wrong one.  Three connections are the least for a connection between
two others in the walk, and with two producers the semaphore is a unit ahead
for each, which takes five packets.  They also give runs of sleeps behind each
other: from `MaxTime` on time passes only while a call sleeps, in time or a tick
too late, so a call may come early, just in time, or late.  How late makes no
difference, to the code or to the properties; `TwiceBitrate` is for all times.  `MCPrograms` has three chains with at most two rules,
so calls and gotos go through another chain, fall through, and lead back to
their own chain directly and over another.  In `routing` an entry of the first
tick has expired at the last one, and three packets let an address be heard,
heard again and used.  Nine bytes hold two of the shortest packets, or garbage
and a signed packet with a payload; each start byte is also a length, a flag and
a message.  How often the peers alternate is not bounded, since the parser and
the history start anew with each change.  With three interfaces a start can fail
in the middle, with one interface running and one not yet started; the second
SIGINT is the one that comes during the shutdown.

In `descriptors` four numbers for three interfaces let one be free all the time
and a closed one go to another interface; two interfaces that reopen at once are
what it takes to swap their numbers, and one error each suffices for that.  A
second UDP interface is needed because `sendto` on a serial port only fails.

The documents of `startup` are families in each of which one thing varies:
subnets in every form with every number of bits, one more than there are, and
masks and addresses at their borders, as source and as destination; sequences of
up to three blocks out of eight (both defaults, a chain that is split, used
before it is defined, missing, its own, or the default chain under a call);
every action with four priorities and six conditions, and pairs of rules;
interfaces with up to three settings in any order, repeated or left out, and
three interfaces together.  One slip, any lexeme removed or one of nineteen
inserted at any place, is made in two documents that use nearly every rule of
the grammar, two slips in `default_action accept;`.  A grammar fails locally:
what one slip reaches in those documents is every `must`, and the choices that
are taken back before it.  All 4096 combinations of arguments, existing files
and unset variables are started with a document of one rule.  Blocks without a
port, documents without a default chain and blocks that turn flow control on and
off in every order are among the documents; `BuiltAsWritten` says what becomes
of them, and `startup_doc` that it is not what `configuration.md` says.

**Deadlock** is checked for `packet_queue` and `lifecycle`.  In the other runs
the system stops by itself: producers reach their bound, time ends, the process
is over, the application runs, or, in `filter`, an error that nobody catches has
ended every thread.

**Fairness.**  A thread in the middle of a call gets to run (weak fairness of
its steps), since each has its own operating system thread and nothing in these
components blocks it except the waits that are modelled.  Transmit threads call
`send_packet` in a loop (`InterfaceThreader.cpp:34`).  The deadline of a wait is
strongly fair: it is a point in time, so a wait that is entered again after it
times out at once.  In `Lifecycle` a call of an interface
returns or throws, because it waits no longer than the `timeout_` it is given
(`InterfaceThreader.cpp:38`, `:62`); the waits themselves are the subject of the
other modules.  Nothing is assumed of those who push, close, receive or send
signals.
`NoStarvation` needs no fairness.

### Where the code and its documentation differ

* `rate_limit_doc`: `send` reads the clock, sleeps, and counts the next limit
  from the time it read.  Of packets sent back to back every second one goes
  out with no pause after the one before, so twice the `max_bitrate` of
  `doc/configuration.md:229` is reached.  `WithinTwiceBitrate` shows that it is
  no more than that.  The unit test sends two packets; the third would show it.
* `udp_units`: `wait_for_packet` may return true with all queues empty
  (`ConnectionFactory.hpp:103` says otherwise).  `NoDrift` bounds how often,
  `SentAndRests` shows that it comes to an end.
* `udp_race`: the unlocked map of connections (`UDPInterface.cpp:51` and
  `:110`) against `Interface.hpp:39`, "it must not starve any one of the
  Interface's connections".
* `startup_doc`: three departures from `doc/configuration.md`, each of which
  violates `AsDocumented` by itself.  The default chain need not exist, although
  `:376` says so: without it every packet meets the default action
  (`ConfigParser.cpp:252`).  `port`, "the only required statement in a `udp`
  block" (`:206`), defaults to 14500 (`ConfigParser.cpp:405`).  And
  `flow_control no`, "to turn off hardware flow control" (`:314`), does not turn
  off what an earlier statement of the block turned on (`ConfigParser.cpp:357`).

While the configuration was modelled these came up, too; no run judges them:

* `doc/configuration.md:94` says that whitespace does not matter, but
  `accept ;` is an error, since a semicolon must follow at once, while
  `chainname {` is read as a chain called `name`.
* A port beyond 65535 is cut to 16 bits.
* A stray `}` behind a valid element reaches the case `ConfigParser.cpp:450`
  calls technically impossible.  It ends the program with an error as well.
* `MAVSubnet` throws `invalid_argument` where `MAVSubnet.cpp:154` announces
  `out_of_range`, reads a mask without digits as zero bits, and `MAVAddress`
  takes a component too long for an `int` as if it were not there.  `Faults`
  allows either exception; the grammar keeps such masks out.

## The proofs

All constants are arbitrary, under the assumptions the modules name.

* `PacketQueue_proof`.  `TypeCorrect`, `WakeupsKept` and `CloseReleasesAll` are
  by induction with the types.  `NoLostWakeup` is inductive by itself when read
  as a count: a push adds one packet and one notification to come; a notify
  turns that into a woken consumer; a consumer that rechecks takes at most one
  packet.  `TicketsUsable` shows that all queued tickets are distinct and lie in
  one half of the circle.  With it `Less` orders packets as `Before` does in the
  buffer, so `ImplementsBuffer` maps each step to a step of `PriorityBuffer` or
  to a stutter.
* `UDP_proof`.  Of `UDPTransmit` the invariant follows
  units and packets through every point of `send_packet`.  Before its first
  packet the walk has taken a unit in advance, which is only sound because a
  packet is then ahead of the cursor or a unit is to spare; that disjunction
  (`EnoughUnits`) is what makes it inductive.  From it follow
  `TypeCorrect`, `NothingStranded`, `SemaphoreBounded` and `NobodyStarved`.
  Of the rate limit `TwiceBitrate`: its invariant says that `next_time_` is
  at least the time the last packet takes after the packet before it.
  `LinkImplements` carries all of it over to `UDPLink`: each of its steps is one
  of the interface, or one of the socket, or one of both, and leaves the other
  alone.  The race of `UDPMapRace` is outside of these theorems.
* `PacketParser_proof`: the parser's count and the buffer add up to the length
  that the constructors compute (`Consistent`).  Hence `ParserNeverThrows`,
  `OnlyCompletePackets`, `BufferBounded`, and in `TypeCorrect` that the unsigned
  count never wraps.  `HandsOutEveryPacket` says that the parser finds what
  `PacketsOf` finds in the whole stream.  Its invariant `Reading` says that the
  packets handed out so far, followed by those of a stream that begins with the
  bytes in the buffer, are the packets of the stream, whatever comes next; a
  byte that completes nothing only moves the border between the two.
* `Filter_proof`: `GuardsCorrect`, by lemmas on how frames are pushed, advanced
  and popped; with it `DepthIsBounded`, since the chains of a stack are all
  different: a loop cannot use up the C++ stack.  `AlwaysRight` is
  `AnswersAreRight` for every configuration.  The stack of a thread is read as a
  chain of evaluations, each `inside` those below it, and the invariant
  (`OnCourse`) says of each frame that no rule it has passed decides (`Passed`),
  that the rule it is at is the one that led to the next frame (`Linked`), and
  that what is being returned is what the evaluation of the top frame means
  (`Returned`).  `NoErrorWithoutLoop` adds `Calm`: nothing is thrown as long as
  the levels of the frames descend, and so no chain is on the stack when it is
  entered.  `ImplementsAtomicFilter` maps the step in which a call returns or
  throws to the look at the table, and all others to stutters.
* `Routing_proof`: `TypeCorrect`, `NeverEchoed`, `AlwaysJustified`,
  `AlwaysDelivered`. A thread may be held up until the source of its packet
  has expired, so `NoEcho` is not inductive. The invariant adds that a pool
  entry is the time the address was last heard or was erased when it was too
  old (`Entries`); that nothing was heard on the connection of a packet after
  its source was added, because no other thread receives there (`Newest`); and
  so that a thread which found the source expired there finds no address left
  to push for (`Outdated`). `Justified` needs that a connection still to be
  visited has not had the packet (`Untouched`) and that the push to come is
  justified (`Prepared`). `Delivered` follows from `Served`: what is wanted of
  a connection was pushed by the time the loop has passed it. It is kept
  because what is wanted after a step was wanted before it (`WantedBefore`):
  time only makes addresses stale, and one that is heard during the send does
  not count.
* `Lifecycle_proof`: one inductive invariant for all five safety properties, by
  what each phase of the main thread knows of the interfaces before, at and
  after `who`.  A worker never ends while `running_` is true (`Ended`), so all of
  them run until shutdown; after a failed start an interface that is still to be
  destroyed has `running_` set and a thread that is not there (`Doomed`), so the
  last destructor is never reached.
* `Descriptors_proof`: `TypeCorrect`, `FilesTheirOwn`, `StraysBesideReopen`, for
  any number of interfaces and errors.  `Files1` is `EachItsOwn` read from both
  ends: what an interface holds is its own, and who owns a file holds it under
  the number in `fd`.  For the strays the invariant follows a number from its
  read on: as long as no error came since, it is still the number of an open
  file (`Fresh`), and whoever got a number another interface remembers has had
  an error of its own (`Strayed`), because only a reopening opens while the
  threads run.

* `Startup_proof`.  `RightFileChosen`: the file is chosen once, by the arguments
  and files of the situation, and what is made later depends on the choice only
  (`Chosen`, `Built`); the invariant is needed because `RightFile` speaks of the
  reasons for a choice that only the step that made it had before it.
  `Comparisons`: whatever is well formed (`TypeOK`) compares as it should, for
  every number of rules and addresses.  `SubnetHolds` is about every subnet and
  all 65536 addresses: the masked comparison of the code holds just for the
  addresses the documentation describes by quotients and bytes.  Its lemmas are
  a small theory of numbers of 16 bits: quotients by neighbouring weights differ
  by a bit (`Halving`), so two numbers have the same quotient just if they agree
  in the bits from that weight on (`Upper`), and two results of `&` are equal just
  if they are bit by bit (`BitByBit`), which is proved four bits at a time.
  `MasksAsMeant` computes the shifts of the slash constructor for each of the
  17 and 9 numbers of bits.  `ConditionsHold` puts them together: as long as
  `BuiltAsWritten`, the conditions concern just the packets the words speak of.

The two reference definitions are recursive functions, and what a recursive
function is must be proved before it can be used.  The induction theorems of the
library take a predicate as a parameter, which the provers cannot instantiate,
so the induction is over sets instead: `NatSetInduction` says that a set of
natural numbers that contains 0 and with each number the next contains them all,
and follows from the fact that a set of naturals has a least element.
For the filter the number is how many chains an evaluation has not been in yet
(`Rank`): it falls with every call and goto, so there are solutions of the
defining equation below every rank (`SolvableBelow`), and `MeaningUnfolds` is
the equation itself.  This is where `ChainsAssumption` is needed: with
infinitely many chains the equation would define nothing.  For the parser it is
how far a byte is from the end of the stream.

Only model-checked: the liveness properties (`KeepsServing`,
`TimedPopReturns`, `SentAndRests`, `AlwaysAnswers`, `InterruptEnds`), which need
reasoning about fairness and enabledness; and of `Startup` the properties
`TypeOK`, `TreeIsText`, `BuiltAsWritten` and `PrintedReadsBack`.  These are about
what a recursive parser and folds over sequences compute for every text, which is
induction over data and out of the prover's reach.  `Comparisons` and
`ConditionsHold` rest on the first and the third of them: in these two, the
parser is what TLC has checked and the rest is proved.  Every other invariant
and action property of the runs above is a theorem.

`ImplementsAtomicFilter` is proved and no run checks it: TLC computes the whole
table anew in every step, which is practical for a few configurations only.

## Not modelled

* The wording of messages, logs and help, and the time stamps of the log: no
  other part reads them.  `Logger` has the level, which is in `Startup`.
* The fields of a packet behind its message ID and its printing; `dnslookup`,
  which the program does not call.
* `ConnectionPool::remove` and the clean-up of dead connections: the
  application keeps every connection until its threads have ended.
* System calls, beyond what the modules above need.  In `Startup` every socket
  and device can be opened; `Descriptors` has the failures.
* The boost and standard library behind the command line: an argument is valid
  or not.  A configuration file that exists can be read.
* Characters: a lexeme is read as a whole.  `Text` says what keeps that true.
* `std::bad_alloc` and other exceptions of the library.

## Plan

Everything planned at first is there: the threads (`PacketQueue` with its
abstract buffer, `UDPTransmit`, `UDPRateLimit` and `UDPLink`, `Filter`,
`Routing`, `PacketParser`, `Lifecycle`), the descriptors, and the configuration
with the masks of `MAVSubnet`. What could follow:

* `Router`: `Routing` with real queues and transmit threads, to show that what
  is routed is sent, in order of priority for each link.  The parts are checked:
  `Routing` pushes what it should, and `PacketQueue` is the buffer `Routing` and
  `UDPTransmit` take it for.
