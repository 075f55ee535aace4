------------------------- MODULE Descriptors_proof -------------------------
(***************************************************************************)
(* Proofs about Descriptors, for any number of interfaces, descriptors and *)
(* errors: type correctness, that every interface has a file of its own    *)
(* and no file is left over, and that a transmission strays only beside a  *)
(* reopening.                                                              *)
(***************************************************************************)
EXTENDS Descriptors, TLAPS

-----------------------------------------------------------------------------
(* The inductive invariant *)

Own(i) == Holding(i) =>
    /\ fd[i] \in Descriptors
    /\ table[fd[i]].owner = i
    /\ Listening(i) => table[fd[i]].state = "ready"

\* Every file is held, by its owner and under the number in fd.
Held == \A n \in Descriptors, j \in Interfaces :
            table[n].owner = j => Holding(j) /\ fd[j] = n

Files1 == phase # "failed" => Held /\ \A i \in Interfaces : Own(i)

\* No thread runs before Run.
Quiet == phase = "make" => \A i \in Interfaces : tx[i] = NoCall

\* Only an error makes a running interface reopen, and it forgets the
\* number it closed before it opens another file.
Reopened == phase = "run" => \A i \in Interfaces :
    /\ rx[i] # "gone"
    /\ rx[i] = "open" => fd[i] = -1
    /\ Reopening(i) => errors[i] > 0

\* A number that was read since the last error is still the number.
Fresh(i) == Calling(i) =>
    /\ tx[i].at <= errors[i]
    /\ tx[i].at = -1 => errors[i] > 0
    /\ tx[i].at = errors[i] => rx[i] \in {"idle", "take", "done"}
                               /\ tx[i].fd = fd[i]

\* Whoever has the file behind another one's number has reopened.
Strayed(i) == \A j \in Interfaces \ {i} :
    /\ Calling(i) /\ tx[i].fd \in Descriptors /\ table[tx[i].fd].owner = j
           => errors[j] > 0
    /\ rx[i] \in {"forget", "thrown"} /\ fd[i] \in Descriptors
         /\ table[fd[i]].owner = j
           => errors[j] > 0

Calls == phase = "run" => \A i \in Interfaces : Fresh(i) /\ Strayed(i)

Inv == TypeOK /\ Files1 /\ Quiet /\ Reopened /\ Calls

-----------------------------------------------------------------------------
(* Descriptors, files and single changes *)

RxStates ==
    {"open", "setup", "unwind", "thrown", "idle", "take", "close", "forget",
     "done", "gone"}

LEMMA Numbers ==
    /\ MaxErrors \in Nat /\ Nobody \notin Interfaces
    /\ Sockets \subseteq Interfaces /\ Ports \subseteq Interfaces
    /\ Descriptors \subseteq Int
    /\ -1 \notin Descriptors /\ 0 \notin Descriptors
  BY InterfacesAssumption, BoundsAssumption DEF Interfaces, Descriptors

LEMMA FileFacts ==
    /\ Free \in Files /\ Free.owner = Nobody
    /\ \A i \in Interfaces, s \in {"new", "ready", "elsewhere"} :
          File(i, s) \in Files /\ File(i, s).owner = i /\ File(i, s).state = s
    /\ \A f \in Files :
          \/ f = Free
          \/ /\ f.owner \in Interfaces
             /\ f.state \in {"new", "ready", "elsewhere"}
             /\ f = File(f.owner, f.state)
  <1>1. Free \in Files /\ Free.owner = Nobody
    BY DEF Files, Free
  <1>2. ASSUME NEW i \in Interfaces, NEW s \in {"new", "ready", "elsewhere"}
        PROVE  /\ File(i, s) \in Files
               /\ File(i, s).owner = i /\ File(i, s).state = s
    BY DEF Files, File
  <1>3. ASSUME NEW f \in Files, f # Free
        PROVE  /\ f.owner \in Interfaces
               /\ f.state \in {"new", "ready", "elsewhere"}
               /\ f = File(f.owner, f.state)
    <2>1. PICK i \in Interfaces, s \in {"new", "ready", "elsewhere"} :
            f = File(i, s)
      BY <1>3 DEF Files
    <2> QED
      BY <1>2, <2>1
  <1> QED
    BY <1>1, <1>2, <1>3

\* A file among the open ones has an owner, a free number has none.
LEMMA Owners ==
    ASSUME TypeOK, NEW n \in Descriptors
    PROVE  /\ table[n] \in Files
           /\ table[n].owner = Nobody => table[n] = Free
           /\ table[n].owner \in Interfaces \cup {Nobody}
  BY FileFacts, Numbers DEF TypeOK

LEMMA SetTable ==
    ASSUME TypeOK, NEW n \in Descriptors, NEW f \in Files,
           table' = [table EXCEPT ![n] = f]
    PROVE  /\ table' \in [Descriptors -> Files]
           /\ table'[n] = f
           /\ \A m \in Descriptors : m # n => table'[m] = table[m]
  BY DEF TypeOK

LEMMA SetRx ==
    ASSUME TypeOK, NEW i \in Interfaces, NEW s \in RxStates,
           rx' = [rx EXCEPT ![i] = s]
    PROVE  /\ rx' \in [Interfaces -> RxStates]
           /\ rx'[i] = s
           /\ \A j \in Interfaces : j # i => rx'[j] = rx[j]
  BY DEF TypeOK, RxStates

\* An end of the process leaves nothing behind.
LEMMA FailKeeps ==
    ASSUME Fail
    PROVE  Inv'
  <1>1. TypeOK'
    BY Numbers, FileFacts
       DEF Fail, TypeOK, NoFiles, NoFd, AllOpen, NoCalls, NoErrors, NoCall
  <1>2. phase' = "failed"
    BY DEF Fail
  <1> QED
    BY <1>1, <1>2 DEF Inv, Files1, Quiet, Reopened, Calls

LEMMA InitHolds ==
    ASSUME Init
    PROVE  Inv
  <1>1. TypeOK
    BY Numbers, FileFacts
       DEF Init, TypeOK, NoFiles, NoFd, AllOpen, NoCalls, NoErrors, NoCall
  <1>2. Files1
    BY Numbers, FileFacts
       DEF Init, Files1, Held, Own, Holding, Listening, NoFiles, AllOpen
  <1>3. Quiet /\ Reopened /\ Calls
    BY DEF Init, Quiet, Reopened, Calls, NoCalls
  <1> QED
    BY <1>1, <1>2, <1>3 DEF Inv

-----------------------------------------------------------------------------
(* Each action keeps the invariant *)

LEMMA OpenKeeps ==
    ASSUME Inv, NEW i \in Interfaces, Open(i)
    PROVE  Inv'
  <1>1. CASE Fail
    BY <1>1, FailKeeps
  <1>2. ASSUME NEW n \in Descriptors, Lowest(n),
               table' = [table EXCEPT ![n] = File(i, "new")],
               fd' = [fd EXCEPT ![i] = n],
               rx' = [rx EXCEPT ![i] = "setup"],
               UNCHANGED <<phase, tx, errors>>
        PROVE  Inv'
    <2>0. TypeOK /\ phase \in {"make", "run"} /\ rx[i] = "open"
          /\ table[n] = Free
      BY <1>2 DEF Inv, Open, MayOpen, Lowest
    <2>1. /\ table' \in [Descriptors -> Files]
          /\ table'[n].owner = i
          /\ \A m \in Descriptors : m # n => table'[m] = table[m]
      BY <1>2, <2>0, SetTable, FileFacts
    <2>2. /\ rx' \in [Interfaces -> RxStates]
          /\ rx'[i] = "setup"
          /\ \A j \in Interfaces : j # i => rx'[j] = rx[j]
      BY <1>2, <2>0, SetRx DEF RxStates
    <2>3. /\ fd' \in [Interfaces -> Descriptors \cup {-1}]
          /\ fd'[i] = n
          /\ \A j \in Interfaces : j # i => fd'[j] = fd[j]
      BY <1>2, <2>0 DEF TypeOK
    <2>4. TypeOK'
      BY <1>2, <2>0, <2>1, <2>2, <2>3 DEF TypeOK, RxStates
    <2>5. table[n].owner = Nobody
      BY <2>0, FileFacts
    <2>6. Files1'
      BY <1>2, <2>0, <2>1, <2>2, <2>3, <2>5, Numbers
         DEF Inv, Files1, Held, Own, Holding, Listening
    <2>7. Quiet' /\ Reopened'
      BY <1>2, <2>0, <2>2, <2>3 DEF Inv, Quiet, Reopened, Reopening
    <2>8. Calls'
      <3>1. SUFFICES ASSUME phase = "run", NEW j \in Interfaces
                     PROVE  Fresh(j)' /\ Strayed(j)'
        BY <1>2 DEF Calls
      <3>2. errors[i] > 0
        BY <2>0, <3>1 DEF Inv, Reopened, Reopening
      <3>3. Fresh(j) /\ Strayed(j)
        BY <3>1 DEF Inv, Calls
      <3>4. Fresh(j)'
        BY <1>2, <2>0, <2>2, <2>3, <3>3 DEF Fresh, Calling
      <3>5. Strayed(j)'
        BY <1>2, <2>0, <2>1, <2>2, <2>3, <3>2, <3>3
           DEF Strayed, Calling
      <3> QED
        BY <3>4, <3>5
    <2> QED
      BY <2>4, <2>6, <2>7, <2>8 DEF Inv
  <1> QED
    BY <1>1, <1>2 DEF Open

\* Bind and Configure differ in what may fail only.
LEMMA ReadyKeeps ==
    ASSUME Inv, phase \in {"make", "run"}, NEW i \in Interfaces,
           Bind(i) \/ Configure(i), rx'[i] # "unwind"
    PROVE  Inv'
  <1>1. CASE Fail
    BY <1>1, FailKeeps
  <1>2. ASSUME phase \in {"make", "run"}, rx[i] = "setup",
               table' = [table EXCEPT ![fd[i]] = File(i, "ready")],
               rx' = [rx EXCEPT ![i] = "idle"],
               UNCHANGED <<phase, fd, tx, errors>>
        PROVE  Inv'
    <2>0. TypeOK /\ fd[i] \in Descriptors /\ table[fd[i]].owner = i
      BY <1>2 DEF Inv, Files1, Own, Holding
    <2>1. /\ table' \in [Descriptors -> Files]
          /\ table'[fd[i]].owner = i /\ table'[fd[i]].state = "ready"
          /\ \A m \in Descriptors : m # fd[i] => table'[m] = table[m]
      BY <1>2, <2>0, SetTable, FileFacts
    <2>2. /\ rx' \in [Interfaces -> RxStates]
          /\ rx'[i] = "idle"
          /\ \A j \in Interfaces : j # i => rx'[j] = rx[j]
      BY <1>2, <2>0, SetRx DEF RxStates
    <2>3. TypeOK'
      BY <1>2, <2>0, <2>1, <2>2 DEF TypeOK, RxStates
    <2>4. Files1'
      BY <1>2, <2>0, <2>1, <2>2
         DEF Inv, Files1, Held, Own, Holding, Listening
    <2>5. Quiet' /\ Reopened'
      BY <1>2, <2>2 DEF Inv, Quiet, Reopened, Reopening
    <2>6. Calls'
      <3>1. SUFFICES ASSUME phase = "run", NEW j \in Interfaces
                     PROVE  Fresh(j)' /\ Strayed(j)'
        BY <1>2 DEF Calls
      <3>2. Fresh(j) /\ Strayed(j)
        BY <3>1 DEF Inv, Calls
      <3>3. Fresh(j)'
        BY <1>2, <2>2, <3>2 DEF Fresh, Calling
      <3>4. Strayed(j)'
        BY <1>2, <2>0, <2>1, <2>2, <3>2 DEF Strayed, Calling
      <3> QED
        BY <3>3, <3>4
    <2> QED
      BY <2>3, <2>4, <2>5, <2>6 DEF Inv
  <1>3. ~ (rx' = [rx EXCEPT ![i] = "unwind"])
    BY DEF Inv, TypeOK
  <1> QED
    BY <1>1, <1>2, <1>3 DEF Bind, Configure

\* A port that cannot be configured is still the interface's own.
LEMMA UnwoundKeeps ==
    ASSUME Inv, phase \in {"make", "run"}, NEW i \in Interfaces,
           rx[i] = "setup", rx' = [rx EXCEPT ![i] = "unwind"],
           UNCHANGED <<phase, table, fd, tx, errors>>
    PROVE  Inv'
  <1>0. TypeOK
    BY DEF Inv
  <1>1. /\ rx' \in [Interfaces -> RxStates]
        /\ rx'[i] = "unwind"
        /\ \A j \in Interfaces : j # i => rx'[j] = rx[j]
    BY <1>0, SetRx DEF RxStates
  <1>2. TypeOK'
    BY <1>0, <1>1 DEF TypeOK, RxStates
  <1>3. Files1'
    BY <1>1 DEF Inv, Files1, Held, Own, Holding, Listening
  <1>4. Quiet' /\ Reopened'
    BY <1>1 DEF Inv, Quiet, Reopened, Reopening
  <1>5. ASSUME phase = "run", NEW j \in Interfaces
        PROVE  Fresh(j)' /\ Strayed(j)'
    BY <1>1, <1>5 DEF Inv, Calls, Fresh, Strayed, Calling
  <1> QED
    BY <1>2, <1>3, <1>4, <1>5 DEF Inv, Calls

LEMMA RunKeeps ==
    ASSUME Inv, Run
    PROVE  Inv'
  <1>1. TypeOK'
    BY DEF Inv, Run, TypeOK
  <1>2. Files1'
    BY DEF Inv, Run, Files1, Held, Own, Holding, Listening
  <1>3. Quiet' /\ Reopened'
    BY DEF Inv, Run, Quiet, Reopened, Reopening
  <1>4. ASSUME NEW i \in Interfaces
        PROVE  Fresh(i)' /\ Strayed(i)'
    <2>1. tx'[i] = NoCall /\ rx'[i] = "idle"
      BY DEF Inv, Quiet, Run
    <2> QED
      BY <2>1 DEF Fresh, Strayed, Calling, NoCall
  <1> QED
    BY <1>1, <1>2, <1>3, <1>4 DEF Inv, Calls

\* A step of a receive thread that leaves the descriptor alone: what the
\* thread holds stays as it is.
LEMMA MoveKeeps ==
    ASSUME Inv, phase = "run", NEW i \in Interfaces,
           NEW s \in {"idle", "take", "done"}, rx[i] \in {"idle", "take"},
           rx' = [rx EXCEPT ![i] = s],
           UNCHANGED <<phase, table, fd, tx, errors>>
    PROVE  Inv'
  <1>0. TypeOK
    BY DEF Inv
  <1>1. /\ rx' \in [Interfaces -> RxStates]
        /\ rx'[i] = s
        /\ \A j \in Interfaces : j # i => rx'[j] = rx[j]
    BY <1>0, SetRx DEF RxStates
  <1>2. TypeOK'
    BY <1>0, <1>1 DEF TypeOK, RxStates
  <1>3. Files1'
    BY <1>1 DEF Inv, Files1, Held, Own, Holding, Listening
  <1>4. Quiet' /\ Reopened'
    BY <1>1 DEF Inv, Quiet, Reopened, Reopening
  <1>5. ASSUME NEW j \in Interfaces
        PROVE  Fresh(j)' /\ Strayed(j)'
    BY <1>1 DEF Inv, Calls, Fresh, Strayed, Calling
  <1> QED
    BY <1>2, <1>3, <1>4, <1>5 DEF Inv, Calls

LEMMA PollKeeps ==
    ASSUME Inv, NEW i \in Interfaces, Poll(i)
    PROVE  Inv'
  <1>1. CASE Fail
    BY <1>1, FailKeeps
  <1>2. CASE /\ rx' = [rx EXCEPT ![i] = "take"]
             /\ UNCHANGED <<phase, table, fd, tx, errors>>
    BY <1>2, MoveKeeps DEF Poll
  <1>3. ASSUME errors[i] < MaxErrors,
               errors' = [errors EXCEPT ![i] = @ + 1],
               rx' = [rx EXCEPT ![i] = "close"],
               UNCHANGED <<phase, table, fd, tx>>
        PROVE  Inv'
    <2>0. TypeOK /\ phase = "run" /\ rx[i] = "idle"
      BY <1>3 DEF Inv, Poll
    <2>1. /\ rx' \in [Interfaces -> RxStates]
          /\ rx'[i] = "close"
          /\ \A j \in Interfaces : j # i => rx'[j] = rx[j]
      BY <1>3, <2>0, SetRx DEF RxStates
    <2>2. /\ errors' \in [Interfaces -> 0 .. MaxErrors]
          /\ errors'[i] = errors[i] + 1 /\ errors[i] \in Nat
          /\ \A j \in Interfaces : j # i => errors'[j] = errors[j]
          /\ \A j \in Interfaces : errors[j] \in Nat
      BY <1>3, <2>0, Numbers DEF TypeOK
    <2>3. TypeOK'
      BY <1>3, <2>0, <2>1, <2>2 DEF TypeOK, RxStates
    <2>4. Files1'
      BY <1>3, <2>0, <2>1 DEF Inv, Files1, Held, Own, Holding, Listening
    <2>5. Quiet' /\ Reopened'
      BY <1>3, <2>0, <2>1, <2>2 DEF Inv, Quiet, Reopened, Reopening
    <2>6. ASSUME NEW j \in Interfaces
          PROVE  Fresh(j)' /\ Strayed(j)'
      <3>1. Fresh(j) /\ Strayed(j) /\ tx[j].at \in Int
        BY <2>0, Numbers DEF Inv, Calls, TypeOK
      <3>2. Fresh(j)'
        BY <1>3, <2>1, <2>2, <3>1 DEF Fresh, Calling
      <3>3. Strayed(j)'
        BY <1>3, <2>0, <2>1, <2>2, <3>1 DEF Strayed, Calling
      <3> QED
        BY <3>2, <3>3
    <2> QED
      BY <2>3, <2>4, <2>5, <2>6 DEF Inv, Calls
  <1> QED
    BY <1>1, <1>2, <1>3 DEF Poll

LEMMA TakeKeeps ==
    ASSUME Inv, NEW i \in Interfaces, Take(i)
    PROVE  Inv'
  BY FailKeeps, MoveKeeps DEF Take

LEMMA StopKeeps ==
    ASSUME Inv, NEW i \in Interfaces, Stop(i)
    PROVE  Inv'
  BY MoveKeeps DEF Stop

\* The file that is closed is the interface's own, and nobody else's.
LEMMA ReleaseKeepsFiles ==
    ASSUME TypeOK, Files1, phase # "failed", NEW i \in Interfaces,
           Holding(i), table' = Closed(fd[i]), fd' = fd,
           rx'[i] \in {"forget", "thrown", "gone"},
           \A j \in Interfaces : j # i => rx'[j] = rx[j]
    PROVE  /\ table' \in [Descriptors -> Files]
           /\ \A n \in Descriptors, j \in Interfaces :
                  table'[n].owner = j => table[n].owner = j
           /\ Held' /\ \A j \in Interfaces : Own(j)'
  <1>1. fd[i] \in Descriptors /\ table[fd[i]].owner = i
    BY DEF Files1, Own
  <1>2. table' = [table EXCEPT ![fd[i]] = Free]
    BY <1>1 DEF Closed
  <1>3. /\ table' \in [Descriptors -> Files]
        /\ table'[fd[i]] = Free
        /\ \A m \in Descriptors : m # fd[i] => table'[m] = table[m]
    <2>1. Free \in Files
      BY FileFacts
    <2> QED
      BY <1>1, <1>2, <2>1, SetTable
  <1>4. table'[fd[i]].owner \notin Interfaces
    BY <1>3, FileFacts, Numbers
  <1>5. ASSUME NEW n \in Descriptors, NEW j \in Interfaces,
               table'[n].owner = j
        PROVE  n # fd[i] /\ table[n].owner = j /\ j # i
    <2>1. n # fd[i]
      BY <1>4, <1>5
    <2>2. table[n].owner = j
      BY <1>3, <1>5, <2>1
    <2>3. fd[j] = n
      BY <2>2 DEF Files1, Held
    <2> QED
      BY <2>1, <2>2, <2>3
  <1>6. Held'
    BY <1>5 DEF Files1, Held, Holding, Listening
  <1>7. ASSUME NEW j \in Interfaces
        PROVE  Own(j)'
    <2>1. CASE j = i
      BY <2>1 DEF Own, Holding, Listening
    <2>2. CASE j # i
      <3>1. Own(j) /\ rx'[j] = rx[j]
        BY <2>2 DEF Files1
      <3>2. ASSUME Holding(j)
            PROVE  fd[j] \in Descriptors /\ table'[fd[j]] = table[fd[j]]
        BY <1>1, <1>3, <2>2, <3>1, <3>2 DEF Own
      <3> QED
        BY <3>1, <3>2 DEF Own, Holding, Listening
    <2> QED
      BY <2>1, <2>2
  <1> QED
    BY <1>3, <1>5, <1>6, <1>7

LEMMA CloseKeeps ==
    ASSUME Inv, NEW i \in Interfaces, Close(i)
    PROVE  Inv'
  <1>0. TypeOK /\ phase = "run" /\ rx[i] = "close"
        /\ UNCHANGED <<phase, fd, tx, errors>>
    BY DEF Inv, Close
  <1>1. /\ rx' \in [Interfaces -> RxStates]
        /\ rx'[i] = "forget"
        /\ \A j \in Interfaces : j # i => rx'[j] = rx[j]
    BY <1>0, SetRx DEF Close, RxStates
  <1>2. /\ table' \in [Descriptors -> Files]
        /\ \A n \in Descriptors, j \in Interfaces :
               table'[n].owner = j => table[n].owner = j
        /\ Held' /\ \A j \in Interfaces : Own(j)'
    BY <1>0, <1>1, ReleaseKeepsFiles DEF Inv, Close, Holding, Listening
  <1>3. fd[i] \in Descriptors /\ table[fd[i]].owner = i
    BY <1>0 DEF Inv, Files1, Own, Holding, Listening
  <1>4. TypeOK'
    BY <1>0, <1>1, <1>2 DEF TypeOK, RxStates
  <1>5. Quiet' /\ Reopened'
    BY <1>0, <1>1 DEF Inv, Quiet, Reopened, Reopening
  <1>6. ASSUME NEW j \in Interfaces
        PROVE  Fresh(j)' /\ Strayed(j)'
    <2>1. Fresh(j) /\ Strayed(j)
      BY <1>0 DEF Inv, Calls
    <2>2. Fresh(j)'
      BY <1>0, <1>1, <2>1 DEF Fresh, Calling
    <2>3. Strayed(j)'
      BY <1>0, <1>1, <1>2, <1>3, <2>1 DEF Strayed, Calling
    <2> QED
      BY <2>2, <2>3
  <1> QED
    BY <1>2, <1>4, <1>5, <1>6 DEF Inv, Files1, Calls

\* The handler closes the file it holds, which nobody else does.
LEMMA UnwindKeeps ==
    ASSUME Inv, phase \in {"make", "run"}, NEW i \in Interfaces, Unwind(i)
    PROVE  Inv'
  <1>0. TypeOK /\ rx[i] = "unwind" /\ UNCHANGED <<phase, fd, tx, errors>>
    BY DEF Inv, Unwind
  <1>1. /\ rx' \in [Interfaces -> RxStates]
        /\ rx'[i] = "thrown"
        /\ \A j \in Interfaces : j # i => rx'[j] = rx[j]
    BY <1>0, SetRx DEF Unwind, RxStates
  <1>2. /\ table' \in [Descriptors -> Files]
        /\ \A n \in Descriptors, j \in Interfaces :
               table'[n].owner = j => table[n].owner = j
        /\ Held' /\ \A j \in Interfaces : Own(j)'
    BY <1>0, <1>1, ReleaseKeepsFiles DEF Inv, Unwind, Holding, Listening
  <1>3. fd[i] \in Descriptors /\ table[fd[i]].owner = i
    BY <1>0 DEF Inv, Files1, Own, Holding, Listening
  <1>4. TypeOK'
    BY <1>0, <1>1, <1>2 DEF TypeOK, RxStates
  <1>5. Quiet' /\ Reopened'
    BY <1>0, <1>1 DEF Inv, Quiet, Reopened, Reopening
  <1>6. ASSUME phase = "run", NEW j \in Interfaces
        PROVE  Fresh(j)' /\ Strayed(j)'
    <2>1. Fresh(j) /\ Strayed(j)
      BY <1>0, <1>6 DEF Inv, Calls
    <2>2. Fresh(j)'
      BY <1>0, <1>1, <2>1 DEF Fresh, Calling
    <2>3. Strayed(j)'
      BY <1>0, <1>1, <1>2, <1>3, <2>1 DEF Strayed, Calling
    <2> QED
      BY <2>2, <2>3
  <1> QED
    BY <1>0, <1>2, <1>4, <1>5, <1>6 DEF Inv, Files1, Calls

LEMMA SetupKeeps ==
    ASSUME Inv, NEW i \in Interfaces, Setup(i)
    PROVE  Inv'
  <1>0. phase \in {"make", "run"}
    BY DEF Setup
  <1>1. CASE (Bind(i) \/ Configure(i)) /\ rx'[i] # "unwind"
    BY <1>0, <1>1, ReadyKeeps
  <1>2. CASE Bind(i) /\ rx'[i] = "unwind"
    <2>1. CASE Fail
      BY <2>1, FailKeeps
    <2>2. CASE rx' = [rx EXCEPT ![i] = "idle"]
      BY <1>2, <2>2 DEF Inv, TypeOK
    <2> QED
      BY <1>2, <2>1, <2>2 DEF Bind
  <1>3. CASE Configure(i) /\ rx'[i] = "unwind"
    <2>1. rx' # [rx EXCEPT ![i] = "idle"]
      BY <1>3 DEF Inv, TypeOK
    <2> QED
      BY <1>0, <1>3, <2>1, UnwoundKeeps DEF Configure
  <1>4. CASE Unwind(i)
    BY <1>0, <1>4, UnwindKeeps
  <1>5. CASE Rethrow(i)
    BY <1>5, FailKeeps DEF Rethrow
  <1> QED
    BY <1>1, <1>2, <1>3, <1>4, <1>5 DEF Setup

LEMMA ForgetKeeps ==
    ASSUME Inv, NEW i \in Interfaces, Forget(i)
    PROVE  Inv'
  <1>0. TypeOK /\ phase = "run" /\ rx[i] = "forget"
        /\ UNCHANGED <<phase, table, tx, errors>>
    BY DEF Inv, Forget
  <1>1. /\ rx' \in [Interfaces -> RxStates]
        /\ rx'[i] = "open"
        /\ \A j \in Interfaces : j # i => rx'[j] = rx[j]
    BY <1>0, SetRx DEF Forget, RxStates
  <1>2. /\ fd' \in [Interfaces -> Descriptors \cup {-1}]
        /\ fd'[i] = -1
        /\ \A j \in Interfaces : j # i => fd'[j] = fd[j]
    BY <1>0 DEF Forget, TypeOK
  <1>3. TypeOK'
    BY <1>0, <1>1, <1>2 DEF TypeOK, RxStates
  <1>4. Files1'
    BY <1>0, <1>1, <1>2 DEF Inv, Files1, Held, Own, Holding, Listening
  <1>5. Quiet' /\ Reopened'
    BY <1>0, <1>1, <1>2 DEF Inv, Quiet, Reopened, Reopening
  <1>6. ASSUME NEW j \in Interfaces
        PROVE  Fresh(j)' /\ Strayed(j)'
    <2>1. Fresh(j) /\ Strayed(j)
      BY <1>0 DEF Inv, Calls
    <2> QED
      BY <1>0, <1>1, <1>2, <2>1 DEF Fresh, Strayed, Calling
  <1> QED
    BY <1>3, <1>4, <1>5, <1>6 DEF Inv, Calls

LEMMA ReadNumberKeeps ==
    ASSUME Inv, NEW i \in Interfaces, ReadNumber(i)
    PROVE  Inv'
  <1>0. TypeOK /\ phase = "run" /\ UNCHANGED <<phase, table, fd, rx, errors>>
    BY DEF Inv, ReadNumber
  <1>1. /\ fd[i] \in Descriptors \cup {-1}
        /\ errors[i] \in 0 .. MaxErrors
        /\ Since(i) \in -1 .. MaxErrors
    BY <1>0, Numbers DEF TypeOK, Since
  <1>2. /\ tx'[i] = [fd |-> fd[i], at |-> Since(i)]
        /\ \A j \in Interfaces : j # i => tx'[j] = tx[j]
        /\ tx' \in [Interfaces -> [fd : Descriptors \cup {-1, 0},
                                   at : -1 .. MaxErrors]]
    BY <1>0, <1>1 DEF ReadNumber, TypeOK
  <1>3. TypeOK'
    BY <1>0, <1>2 DEF TypeOK
  <1>4. Files1' /\ Quiet' /\ Reopened'
    BY <1>0 DEF Inv, Files1, Held, Own, Holding, Listening, Quiet,
                Reopened, Reopening
  <1>5. ASSUME NEW j \in Interfaces
        PROVE  Fresh(j)' /\ Strayed(j)'
    <2>0. Fresh(j) /\ Strayed(j) /\ (Reopening(j) => errors[j] > 0)
      BY <1>0 DEF Inv, Calls, Reopened
    <2>1. CASE j # i
      BY <1>0, <1>2, <2>0, <2>1 DEF Fresh, Strayed, Calling
    <2>2. CASE j = i
      <3>1. tx'[i].fd = fd[i] /\ tx'[i].at = Since(i)
        BY <1>2
      <3>2. rx[i] \in RxStates
        BY <1>0 DEF TypeOK, RxStates
      <3>3. Fresh(i)'
        <4>1. CASE Reopening(i)
          BY <1>0, <1>1, <2>0, <2>2, <3>1, <4>1, Numbers DEF Fresh, Since
        <4>2. CASE ~ Reopening(i) /\ rx[i] # "gone"
          BY <1>0, <1>1, <3>1, <3>2, <4>2, Numbers
             DEF Fresh, Since, Reopening, RxStates
        <4>3. CASE rx[i] = "gone"
          BY <1>0, <4>3 DEF Inv, Reopened
        <4> QED
          BY <4>1, <4>2, <4>3
      <3>4. Strayed(i)'
        <4>1. ASSUME NEW k \in Interfaces \ {i}, fd[i] \in Descriptors,
                     table[fd[i]].owner = k
              PROVE  errors[k] > 0
          <5>1. ~ Holding(i) /\ rx[i] # "gone" /\ rx[i] # "open"
            BY <1>0, <4>1, Numbers DEF Inv, Files1, Own, Reopened
          <5>2. rx[i] \in {"forget", "thrown"}
            BY <3>2, <5>1 DEF Holding, Listening, RxStates
          <5> QED
            BY <2>0, <2>2, <4>1, <5>2 DEF Strayed
        <4> QED
          BY <1>0, <3>1, <4>1 DEF Strayed
      <3> QED
        BY <2>2, <3>3, <3>4
    <2> QED
      BY <2>1, <2>2
  <1> QED
    BY <1>3, <1>4, <1>5 DEF Inv, Calls

\* A call that returns: the transmit thread holds no number any more.
LEMMA CallDone ==
    ASSUME TypeOK, NEW i \in Interfaces, tx' = [tx EXCEPT ![i] = NoCall]
    PROVE  /\ tx' \in [Interfaces -> [fd : Descriptors \cup {-1, 0},
                                      at : -1 .. MaxErrors]]
           /\ tx'[i] = NoCall
           /\ \A j \in Interfaces : j # i => tx'[j] = tx[j]
  BY Numbers DEF TypeOK, NoCall

LEMMA SendToKeeps ==
    ASSUME Inv, NEW i \in Interfaces, SendTo(i)
    PROVE  Inv'
  <1>1. CASE Fail
    BY <1>1, FailKeeps
  <1>2. ASSUME Target(i).owner \in Sockets,
               table' = IF Target(i).state = "new"
                        THEN [table EXCEPT ![tx[i].fd].state = "elsewhere"]
                        ELSE table,
               tx' = [tx EXCEPT ![i] = NoCall],
               UNCHANGED <<phase, fd, rx, errors>>
        PROVE  Inv'
    <2>0. TypeOK /\ phase = "run"
      BY DEF Inv, SendTo
    <2>1. /\ tx[i].fd \in Descriptors /\ Target(i) = table[tx[i].fd]
          /\ Target(i) \in Files /\ Target(i).owner \in Interfaces
      BY <1>2, <2>0, FileFacts, Numbers, Owners DEF Target
    <2>2. /\ table' \in [Descriptors -> Files]
          /\ \A n \in Descriptors :
                /\ table'[n].owner = table[n].owner
                /\ table[n].state # "new" => table'[n] = table[n]
      <3>1. CASE Target(i).state # "new"
        BY <1>2, <2>0, <3>1 DEF TypeOK
      <3>2. CASE Target(i).state = "new"
        <4> DEFINE n == tx[i].fd
                   f == File(Target(i).owner, "elsewhere")
        <4>1. f \in Files /\ f.owner = Target(i).owner
          BY <2>1, FileFacts
        <4>2. Target(i) = File(Target(i).owner, "new")
          BY <2>1, <3>2, FileFacts, Numbers
        <4>3. [Target(i) EXCEPT !.state = "elsewhere"] = f
          BY <4>2 DEF File
        <4>4. table' = [table EXCEPT ![n] = f]
          BY <1>2, <2>0, <2>1, <3>2, <4>3 DEF TypeOK
        <4>5. /\ table' \in [Descriptors -> Files]
              /\ table'[n] = f
              /\ \A m \in Descriptors : m # n => table'[m] = table[m]
          BY <2>0, <2>1, <4>1, <4>4, SetTable
        <4> QED
          BY <2>1, <3>2, <4>1, <4>5
      <3> QED
        BY <3>1, <3>2
    <2>3. /\ tx' \in [Interfaces -> [fd : Descriptors \cup {-1, 0},
                                     at : -1 .. MaxErrors]]
          /\ tx'[i] = NoCall
          /\ \A j \in Interfaces : j # i => tx'[j] = tx[j]
      BY <1>2, <2>0, CallDone
    <2>4. TypeOK'
      BY <1>2, <2>0, <2>2, <2>3 DEF TypeOK
    <2>5. Held'
      BY <1>2, <2>0, <2>2 DEF Inv, Files1, Held, Holding, Listening
    <2>6. ASSUME NEW j \in Interfaces
          PROVE  Own(j)'
      <3>1. Own(j)
        BY <2>0 DEF Inv, Files1
      <3>2. CASE Listening(j)
        BY <1>2, <2>2, <3>1, <3>2 DEF Own, Holding, Listening
      <3>3. CASE ~ Listening(j)
        BY <1>2, <2>2, <3>1, <3>3 DEF Own, Holding, Listening
      <3> QED
        BY <3>2, <3>3
    <2>7. Quiet' /\ Reopened'
      BY <1>2, <2>0 DEF Inv, Quiet, Reopened, Reopening
    <2>8. ASSUME NEW j \in Interfaces
          PROVE  Fresh(j)' /\ Strayed(j)'
      <3>1. Fresh(j) /\ Strayed(j)
        BY <2>0 DEF Inv, Calls
      <3> QED
        BY <1>2, <2>2, <2>3, <3>1 DEF Fresh, Strayed, Calling
    <2> QED
      BY <1>2, <2>4, <2>5, <2>6, <2>7, <2>8 DEF Inv, Files1, Calls
  <1> QED
    BY <1>1, <1>2 DEF SendTo

LEMMA WriteKeeps ==
    ASSUME Inv, NEW i \in Interfaces, Write(i)
    PROVE  Inv'
  <1>1. CASE Fail
    BY <1>1, FailKeeps
  <1>2. ASSUME tx' = [tx EXCEPT ![i] = NoCall],
               UNCHANGED <<phase, table, fd, rx, errors>>
        PROVE  Inv'
    <2>0. TypeOK /\ phase = "run"
      BY DEF Inv, Write
    <2>1. /\ tx' \in [Interfaces -> [fd : Descriptors \cup {-1, 0},
                                     at : -1 .. MaxErrors]]
          /\ tx'[i] = NoCall
          /\ \A j \in Interfaces : j # i => tx'[j] = tx[j]
      BY <1>2, <2>0, CallDone
    <2>2. TypeOK'
      BY <1>2, <2>0, <2>1 DEF TypeOK
    <2>3. Files1' /\ Quiet' /\ Reopened'
      BY <1>2, <2>0 DEF Inv, Files1, Held, Own, Holding, Listening, Quiet,
                        Reopened, Reopening
    <2>4. ASSUME NEW j \in Interfaces
          PROVE  Fresh(j)' /\ Strayed(j)'
      <3>1. Fresh(j) /\ Strayed(j)
        BY <2>0 DEF Inv, Calls
      <3> QED
        BY <1>2, <2>1, <3>1 DEF Fresh, Strayed, Calling
    <2> QED
      BY <2>2, <2>3, <2>4 DEF Inv, Calls
  <1> QED
    BY <1>1, <1>2 DEF Write

LEMMA JoinKeeps ==
    ASSUME Inv, Join
    PROVE  Inv'
  <1>1. TypeOK'
    BY DEF Inv, Join, TypeOK
  <1>2. Files1'
    BY DEF Inv, Join, Files1, Held, Own, Holding, Listening
  <1>3. Quiet' /\ Reopened' /\ Calls'
    BY DEF Join, Quiet, Reopened, Calls
  <1> QED
    BY <1>1, <1>2, <1>3 DEF Inv

LEMMA DestroyKeeps ==
    ASSUME Inv, NEW i \in Interfaces, Destroy(i)
    PROVE  Inv'
  <1>0. /\ TypeOK /\ phase = "join" /\ rx[i] = "done"
        /\ phase' \in {"join", "over"}
        /\ UNCHANGED <<fd, tx, errors>>
    BY DEF Inv, Destroy
  <1>1. /\ rx' \in [Interfaces -> RxStates]
        /\ rx'[i] = "gone"
        /\ \A j \in Interfaces : j # i => rx'[j] = rx[j]
    BY <1>0, SetRx DEF Destroy, RxStates
  <1>2. /\ table' \in [Descriptors -> Files]
        /\ Held' /\ \A j \in Interfaces : Own(j)'
    BY <1>0, <1>1, ReleaseKeepsFiles DEF Inv, Destroy, Holding, Listening
  <1>3. TypeOK'
    BY <1>0, <1>1, <1>2 DEF TypeOK, RxStates
  <1>4. Quiet' /\ Reopened' /\ Calls'
    BY <1>0 DEF Quiet, Reopened, Calls
  <1> QED
    BY <1>2, <1>3, <1>4 DEF Inv, Files1

LEMMA StutterKeeps ==
    ASSUME Inv, UNCHANGED vars
    PROVE  Inv'
  <1>1. TypeOK'
    BY DEF Inv, vars, TypeOK
  <1>2. Files1' /\ Quiet' /\ Reopened'
    BY DEF Inv, vars, Files1, Held, Own, Holding, Listening, Quiet,
           Reopened, Reopening
  <1>3. Calls'
    BY DEF Inv, vars, Calls, Fresh, Strayed, Calling
  <1> QED
    BY <1>1, <1>2, <1>3 DEF Inv

LEMMA NextKeeps ==
    ASSUME Inv, [Next]_vars
    PROVE  Inv'
  <1>1. CASE UNCHANGED vars
    BY <1>1, StutterKeeps
  <1>2. CASE Run
    BY <1>2, RunKeeps
  <1>3. CASE Join
    BY <1>3, JoinKeeps
  <1>4. ASSUME NEW i \in Interfaces, Receiver(i)
        PROVE  Inv'
    BY <1>4, OpenKeeps, SetupKeeps, PollKeeps, TakeKeeps, CloseKeeps,
       ForgetKeeps DEF Receiver
  <1>5. ASSUME NEW i \in Interfaces, Transmitter(i)
        PROVE  Inv'
    BY <1>5, ReadNumberKeeps, SendToKeeps, WriteKeeps DEF Transmitter
  <1>6. ASSUME NEW i \in Interfaces, Stop(i) \/ Destroy(i)
        PROVE  Inv'
    BY <1>6, StopKeeps, DestroyKeeps
  <1> QED
    BY <1>1, <1>2, <1>3, <1>4, <1>5, <1>6 DEF Next

\* The invariant holds of every state of every run.
THEOREM InvariantHolds == Spec => []Inv
  <1>1. Init => Inv
    BY InitHolds
  <1>2. Inv /\ [Next]_vars => Inv'
    BY NextKeeps
  <1> QED
    BY <1>1, <1>2, PTL DEF Spec

-----------------------------------------------------------------------------
(* What it implies *)

\* Type correctness of UnixUDPSocket, UnixSerialPort and the kernel's table.
THEOREM TypeCorrect == Spec => []TypeOK
  <1>1. Inv => TypeOK
    BY DEF Inv
  <1> QED
    BY <1>1, InvariantHolds, PTL

(***************************************************************************)
(* However receive threads close and open descriptors beside each other,   *)
(* and beside transmit threads that use old numbers, each interface polls, *)
(* reads and closes its own file, and no file is left over.                *)
(***************************************************************************)
THEOREM FilesTheirOwn == Spec => []EachItsOwn
  <1>1. ASSUME Inv
        PROVE  EachItsOwn
    <2>1. SUFFICES ASSUME phase # "failed"
                   PROVE  /\ \A i \in Interfaces : Own(i)
                          /\ \A n \in Descriptors : table[n] # Free =>
                                \E i \in Interfaces :
                                    Holding(i) /\ fd[i] = n
      BY DEF EachItsOwn, Own
    <2>2. ASSUME NEW n \in Descriptors, table[n] # Free
          PROVE  \E i \in Interfaces : Holding(i) /\ fd[i] = n
      <3>1. table[n].owner \in Interfaces
        BY <1>1, <2>2, Owners DEF Inv
      <3> QED
        BY <1>1, <2>1, <3>1 DEF Inv, Files1, Held
    <2> QED
      BY <1>1, <2>1, <2>2 DEF Inv, Files1
  <1> QED
    BY <1>1, InvariantHolds, PTL

(***************************************************************************)
(* What a transmit thread sends goes to its own interface's file, bound or *)
(* configured, unless a reopening lies between its read of the number and  *)
(* its use; and it goes by another interface only when both have reopened. *)
(***************************************************************************)
THEOREM StraysBesideReopen == Spec => []StraysOnlyBesideReopen
  <1>1. ASSUME Inv, NEW i \in Interfaces, phase = "run", Calling(i)
        PROVE  /\ tx[i].at = errors[i] => Target(i) = File(i, "ready")
               /\ \A j \in Interfaces \ {i} :
                     Target(i).owner = j => errors[i] > 0 /\ errors[j] > 0
    <2>0. /\ TypeOK /\ Fresh(i) /\ Strayed(i) /\ Own(i)
          /\ tx[i].at \in -1 .. MaxErrors /\ errors[i] \in 0 .. MaxErrors
      BY <1>1 DEF Inv, Calls, Files1, TypeOK
    <2>1. ASSUME tx[i].at = errors[i]
          PROVE  Target(i) = File(i, "ready")
      <3>1. /\ Listening(i) /\ tx[i].fd = fd[i]
        BY <1>1, <2>0, <2>1 DEF Fresh, Listening
      <3>2. /\ fd[i] \in Descriptors
            /\ table[fd[i]].owner = i /\ table[fd[i]].state = "ready"
        BY <2>0, <3>1 DEF Own, Holding
      <3>3. table[fd[i]] = File(i, "ready")
        <4> DEFINE f == table[fd[i]]
        <4>1. f \in Files
          BY <2>0, <3>2, Owners
        <4>2. f # Free
          BY <3>2, FileFacts, Numbers
        <4>3. f = File(f.owner, f.state)
          BY <4>1, <4>2, FileFacts
        <4> QED
          BY <3>2, <4>3
      <3> QED
        BY <3>1, <3>2, <3>3 DEF Target
    <2>2. ASSUME NEW j \in Interfaces \ {i}, Target(i).owner = j
          PROVE  errors[i] > 0 /\ errors[j] > 0
      <3>1. tx[i].fd \in Descriptors /\ table[tx[i].fd].owner = j
        BY <2>2, FileFacts, Numbers DEF Target
      <3>2. errors[j] > 0
        BY <1>1, <2>0, <3>1 DEF Strayed
      <3>3. tx[i].at # errors[i]
        BY <2>0, <2>1, <2>2, FileFacts
      <3>4. errors[i] > 0
        BY <1>1, <2>0, <3>3, Numbers DEF Fresh
      <3> QED
        BY <3>2, <3>4
    <2> QED
      BY <2>1, <2>2
  <1>2. Inv => StraysOnlyBesideReopen
    BY <1>1 DEF StraysOnlyBesideReopen
  <1> QED
    BY <1>2, InvariantHolds, PTL
=============================================================================
