--------------------------- MODULE ProcessorProofs ---------------------------
(***************************************************************************)
(* Proofs about Processor, for every number of cores and processes and     *)
(* every program, well behaved or not: the bookkeeping that tick spreads   *)
(* over core_to_process, the process table and inactive_cores stays        *)
(* consistent.                                                             *)
(***************************************************************************)
EXTENDS Processor, SequenceTheorems, TLAPS

(***************************************************************************)
(* The inductive invariant.  A Schedule task never names NO_PROCESS, which *)
(* is why cell 0 never runs and a free core's entry is unambiguous.        *)
(***************************************************************************)
WellNamed(ts) ==
  \A i \in 1 .. Len(ts) :
    IF ts[i].kind = "schedule" THEN ts[i].pid # NoProcess
    ELSE ts[i].pid \in Cells

TasksNamed == WellNamed(tasks)

NothingRunsAsNoProcess == ~IsRunning(NoProcess)

IndexInRange ==
  /\ phase \in {"cores", "handle"} => idle = <<>>
  /\ phase \in {"handle", "deliver"} => at <= NCores
  /\ phase \in {"deschedule", "schedule"} => at >= 1

(* inactive_cores is exact for the cores it has looked at so far. *)
Collected(c) == phase = "deliver" => c < at

IdleSoFar ==
  phase \in {"deliver", "deschedule", "schedule", "fill"} =>
    /\ \A i \in 1 .. Len(idle) :
         corePid[idle[i]] = NoProcess /\ Collected(idle[i])
    /\ \A i, j \in 1 .. Len(idle) : i # j => idle[i] # idle[j]
    /\ \A c \in Cores : corePid[c] = NoProcess /\ Collected(c) =>
                          \E i \in 1 .. Len(idle) : idle[i] = c

IInv ==
  /\ TypeOK /\ TasksNamed /\ NothingRunsAsNoProcess /\ IndexInRange
  /\ CoresAndTableAgree /\ IdleSoFar /\ WorkConserving

USE DEF NoProcess

LEMMA ConstantsTyped ==
  /\ NCores \in Nat /\ NCores >= 1
  /\ NProcs \in Nat /\ NProcs >= 2
  /\ Cells \subseteq Nat
  /\ Cores \subseteq Cells
  /\ Pids \subseteq Cells
  /\ 0 \in Cells /\ NCores \in Cells
  /\ 0 \notin Pids
  /\ \A c \in Cores : c < NCores
  /\ \A n \in Nat : n < NCores => n \in Cores
BY CoresAssumption DEF Cells, CellCount, Cores, Pids

LEMMA InitIInv == Init => IInv
<1> SUFFICES ASSUME Init PROVE IInv
  OBVIOUS
<1> USE ConstantsTyped
<1>1. TypeOK
  <2>1. proc \in [Cells -> States]
    BY DEF Init, States, Running, Dead
  <2>2. tasks \in Seq(Task) /\ idle \in Seq(Cores)
    BY DEF Init
  <2>3. word \in [Channels -> Nat] /\ heapFree \in Nat
    BY DEF Init, ChannelHeap!HeapInit
  <2>4. QED
    BY <2>1, <2>2, <2>3 DEF Init, TypeOK
<1>2. CoresAndTableAgree
  BY DEF Init, CoresAndTableAgree, IsRunning, Running, Dead
<1>3. TasksNamed /\ NothingRunsAsNoProcess /\ IndexInRange /\ IdleSoFar
  BY DEF Init, TasksNamed, WellNamed, NothingRunsAsNoProcess, IndexInRange, IdleSoFar,
         IsRunning, Dead
<1>4. WorkConserving
  BY DEF Init, WorkConserving, WaitingPids, Dead, Running
<1>5. QED
  BY <1>1, <1>2, <1>3, <1>4 DEF IInv

(***************************************************************************)
(* A handler changes the words of channels, adds well-named tasks, and     *)
(* leaves the process table and the idle list alone.                       *)
(***************************************************************************)
Quiet ==
  /\ UNCHANGED <<phase, idle, corePid, proc>>
  /\ phase = "handle" /\ at < NCores /\ at' = at + 1
  /\ word' \in [Channels -> Nat] /\ heapFree' \in Nat
  /\ altSet' \subseteq Cells /\ hasAltValue' \in [Cores -> BOOLEAN]
  /\ tasks' \in Seq(Task)
  /\ TasksNamed'

LEMMA QuietPreserves ==
  ASSUME IInv, Quiet
  PROVE  IInv'
<1> USE ConstantsTyped DEF Quiet, IInv
<1>1. TypeOK'
  BY DEF TypeOK
<1>2. NothingRunsAsNoProcess' /\ CoresAndTableAgree'
  BY DEF NothingRunsAsNoProcess, CoresAndTableAgree, IsRunning, Running
<1>3. IndexInRange' /\ IdleSoFar' /\ WorkConserving'
  BY DEF IndexInRange, IdleSoFar, WorkConserving, TypeOK
<1>4. QED
  BY <1>1, <1>2, <1>3

(* Adding tasks that are named well keeps the list well named. *)
LEMMA AddTasksPreserves ==
  ASSUME IInv, NEW ts \in Seq(Task), AddTasks(ts),
         WellNamed(ts)
  PROVE  tasks' \in Seq(Task) /\ TasksNamed'
<1>1. tasks \in Seq(Task) /\ tasks' = tasks \o ts
  BY DEF IInv, TypeOK, AddTasks
<1>2. tasks' \in Seq(Task)
  BY <1>1
<1>3. ASSUME NEW i \in 1 .. Len(tasks')
      PROVE  IF tasks'[i].kind = "schedule" THEN tasks'[i].pid # NoProcess
             ELSE tasks'[i].pid \in Cells
  <2>1. CASE i \in 1 .. Len(tasks)
    BY <1>1, <2>1 DEF IInv, TasksNamed, WellNamed
  <2>2. CASE i \notin 1 .. Len(tasks)
    <3>1. i - Len(tasks) \in 1 .. Len(ts) /\ tasks'[i] = ts[i - Len(tasks)]
      BY <1>1, <2>2
    <3>2. QED
      BY <3>1 DEF WellNamed
  <2>3. QED
    BY <2>1, <2>2
<1>4. QED
  BY <1>2, <1>3 DEF TasksNamed, WellNamed

(* The lists of tasks that handlers add are well named. *)
LEMMA TaskLists ==
  ASSUME NEW p \in Cells
  PROVE  /\ <<>> \in Seq(Task) /\ WellNamed(<<>>)
         /\ <<Deschedule(p)>> \in Seq(Task) /\ WellNamed(<<Deschedule(p)>>)
         /\ <<Destroy(p)>> \in Seq(Task) /\ WellNamed(<<Destroy(p)>>)
<1>1. /\ Deschedule(p) \in Task /\ Destroy(p) \in Task
      /\ Deschedule(p).kind = "deschedule" /\ Deschedule(p).pid = p
      /\ Destroy(p).kind = "destroy" /\ Destroy(p).pid = p
  BY ConstantsTyped DEF Deschedule, Destroy, Task
<1>2. QED
  BY <1>1 DEF WellNamed

LEMMA ScheduleLists ==
  ASSUME NEW p \in Cells, NEW q \in Nat, q # NoProcess
  PROVE  /\ <<Schedule(q)>> \in Seq(Task) /\ WellNamed(<<Schedule(q)>>)
         /\ <<Schedule(q), Deschedule(p)>> \in Seq(Task)
         /\ WellNamed(<<Schedule(q), Deschedule(p)>>)
<1>1. /\ Schedule(q) \in Task /\ Deschedule(p) \in Task
      /\ Schedule(q).kind = "schedule" /\ Schedule(q).pid = q
      /\ Deschedule(p).kind = "deschedule" /\ Deschedule(p).pid = p
  BY ConstantsTyped DEF Schedule, Deschedule, Task
<1>2. QED
  BY <1>1 DEF WellNamed

LEMMA WordsNamePids ==
  ASSUME IInv, NEW ch \in Channels
  PROVE  /\ PidOf(word[ch]) \in Nat
         /\ ~Empty(ch) => PidOf(word[ch]) # NoProcess
BY DEF IInv, TypeOK, PidOf, AltBit, Empty

LEMMA ParkKeepsWords ==
  ASSUME IInv, NEW ch \in Channels, NEW p \in Nat, NEW alt \in BOOLEAN,
         Park(ch, p, alt)
  PROVE  word' \in [Channels -> Nat]
BY DEF IInv, TypeOK, Park, AltBit

LEMMA SelfIsACell ==
  ASSUME IInv, at < NCores
  PROVE  at \in Cores /\ me \in Cells /\ me \in Nat
BY ConstantsTyped DEF IInv, TypeOK, me

(***************************************************************************)
(* Every handler is quiet.                                                 *)
(***************************************************************************)
LEMMA OnlyAddQuiet ==
  ASSUME IInv, phase = "handle", at < NCores, NEW ts \in Seq(Task),
         OnlyAdd(ts),
         WellNamed(ts)
  PROVE  Quiet
<1>1. tasks' \in Seq(Task) /\ TasksNamed'
  BY AddTasksPreserves DEF OnlyAdd
<1>2. QED
  BY <1>1 DEF OnlyAdd, NextCore, tableVars, channelVars, altVars, Quiet, IInv,
              TypeOK

LEMMA ProcessHandlersQuiet ==
  ASSUME IInv,
         \/ HandleNothing \/ HandleYield \/ HandleHalt \/ SendMeetsReceive
         \/ HandleAlternationWait
  PROVE  Quiet
<1>1. phase = "handle" /\ at < NCores
  BY DEF HandleNothing, HandleYield, HandleHalt, SendMeetsReceive,
         HandleAlternationWait, Handling, OnChannel
<1>2. me \in Cells
  BY <1>1, SelfIsACell
<1>3. OnlyAdd(<<>>) \/ OnlyAdd(<<Deschedule(me)>>) \/ OnlyAdd(<<Destroy(me)>>)
  BY DEF HandleNothing, HandleYield, HandleHalt, SendMeetsReceive,
         HandleAlternationWait
<1>4. \A ts : OnlyAdd(ts) /\ ts \in Seq(Task) /\ WellNamed(ts) => Quiet
  BY <1>1, OnlyAddQuiet
<1>5. /\ <<>> \in Seq(Task) /\ WellNamed(<<>>)
      /\ <<Deschedule(me)>> \in Seq(Task) /\ WellNamed(<<Deschedule(me)>>)
      /\ <<Destroy(me)>> \in Seq(Task) /\ WellNamed(<<Destroy(me)>>)
  BY <1>2, TaskLists
<1>6. QED
  BY <1>3, <1>4, <1>5

LEMMA StartQuiet ==
  ASSUME IInv, HandleStartProcess
  PROVE  Quiet
<1>1. PICK new \in DeadPids : AddTasks(<<Schedule(new)>>)
  BY DEF HandleStartProcess
<1>2. new \in Nat /\ new # NoProcess /\ 0 \in Cells
  BY <1>1, ConstantsTyped DEF DeadPids
<1>3. <<Schedule(new)>> \in Seq(Task) /\ WellNamed(<<Schedule(new)>>)
  BY <1>2, ScheduleLists
<1>4. tasks' \in Seq(Task) /\ TasksNamed'
  BY <1>1, <1>3, AddTasksPreserves
<1>5. QED
  BY <1>4 DEF HandleStartProcess, Handling, NextCore, tableVars, channelVars,
              altVars, Quiet, IInv, TypeOK

LEMMA ChannelHandlersQuiet ==
  ASSUME IInv, HandleCreateChannel \/ HandleDeleteChannel
  PROVE  Quiet
<1> USE DEF IInv, TypeOK, Handling, OnChannel, NextCore, tableVars, altVars,
            TasksNamed
<1>1. word' \in [Channels -> Nat] /\ heapFree' \in Nat
  <2>1. CASE HandleCreateChannel
    <3>1. PICK ch \in Channels :
            /\ ChannelHeap!AllocNew(ch) \/ ChannelHeap!AllocFreed(ch)
            /\ word' = [word EXCEPT ![ch] = NoProcess]
      BY <2>1 DEF HandleCreateChannel
    <3>2. heapFree' = heapFree \/ heapFree' = word[ch]
      BY <3>1 DEF ChannelHeap!AllocNew, ChannelHeap!AllocFreed
    <3>3. QED
      BY <3>1, <3>2
  <2>2. CASE HandleDeleteChannel
    <3>1. heapFree' = chan /\ word' = [word EXCEPT ![chan] = heapFree]
      BY <2>2 DEF HandleDeleteChannel, ChannelHeap!FreeBlock
    <3>2. chan \in Channels /\ Channels \subseteq Nat
      BY <2>2, ConstantsTyped DEF HandleDeleteChannel, Channels,
         ChannelHeap!Addresses, CellCount
    <3>3. QED
      BY <3>1, <3>2
  <2>3. QED
    BY <2>1, <2>2
<1>2. QED
  BY <1>1 DEF HandleCreateChannel, HandleDeleteChannel, Quiet

LEMMA SendQuiet ==
  ASSUME IInv, SendParks \/ SendToAlternation \/ SendToReceiver
  PROVE  Quiet
<1>0. Sending /\ phase = "handle" /\ at < NCores /\ chan \in Channels
  BY DEF SendParks, SendToAlternation, SendToReceiver, Sending, OnChannel,
         Handling
<1>1. me \in Cells /\ me \in Nat
  BY <1>0, SelfIsACell
<1>2. PidOf(word[chan]) \in Nat
      /\ (~Empty(chan) => PidOf(word[chan]) # NoProcess)
  BY <1>0, WordsNamePids
<1> DEFINE rx == PidOf(word[chan])
<1>3. word' \in [Channels -> Nat]
  BY <1>0, <1>1, ParkKeepsWords DEF SendParks, SendToAlternation,
     SendToReceiver
<1>4. \/ AddTasks(<<Deschedule(me)>>)
      \/ ~Empty(chan) /\ AddTasks(<<Schedule(rx), Deschedule(me)>>)
      \/ ~Empty(chan) /\ AddTasks(<<Schedule(rx)>>)
  BY DEF SendParks, SendToAlternation, SendToReceiver
<1>5. PICK ts \in Seq(Task) : AddTasks(ts) /\ WellNamed(ts)
  <2>1. CASE AddTasks(<<Deschedule(me)>>)
    BY <2>1, <1>1, TaskLists
  <2>2. CASE ~Empty(chan) /\ AddTasks(<<Schedule(rx), Deschedule(me)>>)
    BY <2>2, <1>1, <1>2, ScheduleLists
  <2>3. CASE ~Empty(chan) /\ AddTasks(<<Schedule(rx)>>)
    BY <2>3, <1>1, <1>2, ScheduleLists
  <2>4. QED
    BY <1>4, <2>1, <2>2, <2>3
<1>6. tasks' \in Seq(Task) /\ TasksNamed'
  BY <1>5, AddTasksPreserves
<1>7. QED
  BY <1>0, <1>3, <1>6 DEF Sending, NextCore, tableVars, Quiet, IInv, TypeOK

LEMMA ReceiveQuiet ==
  ASSUME IInv, ReceiveMeetsSend \/ ReceiveParks \/ ReceiveTakes
  PROVE  Quiet
<1>0. Receiving /\ phase = "handle" /\ at < NCores /\ chan \in Channels
  BY DEF ReceiveMeetsSend, ReceiveParks, ReceiveTakes, Receiving, OnChannel,
         Handling
<1>1. me \in Cells /\ me \in Nat
  BY <1>0, SelfIsACell
<1>2. PidOf(word[chan]) \in Nat
      /\ (~Empty(chan) => PidOf(word[chan]) # NoProcess)
  BY <1>0, WordsNamePids
<1>3. word' \in [Channels -> Nat]
  BY <1>0, <1>1, ParkKeepsWords DEF ReceiveMeetsSend, ReceiveParks,
     ReceiveTakes, IInv, TypeOK
<1>4. tasks' \in Seq(Task) /\ TasksNamed'
  <2>1. CASE ReceiveMeetsSend
    BY <2>1 DEF ReceiveMeetsSend, IInv, TypeOK, TasksNamed
  <2>2. CASE ReceiveParks
    BY <2>2, <1>1, TaskLists, AddTasksPreserves DEF ReceiveParks
  <2>3. CASE ReceiveTakes
    BY <2>3, <1>1, <1>2, ScheduleLists, AddTasksPreserves DEF ReceiveTakes
  <2>4. QED
    BY <2>1, <2>2, <2>3
<1>5. QED
  BY <1>0, <1>3, <1>4 DEF Receiving, NextCore, tableVars, altVars, Quiet,
     IInv, TypeOK

LEMMA AlternationQuiet ==
  ASSUME IInv,
         HandleAlternationStart \/ HandleAlternationEnd \/ HandleEnableChannel
  PROVE  Quiet
<1>0. phase = "handle" /\ at < NCores /\ NextCore /\ UNCHANGED tasks
  BY DEF HandleAlternationStart, HandleAlternationEnd, HandleEnableChannel,
         OnChannel, Handling
<1>1. me \in Cells /\ me \in Nat
  BY <1>0, SelfIsACell
<1>2. word' \in [Channels -> Nat]
  <2>1. CASE HandleEnableChannel
    BY <2>1, <1>1, ParkKeepsWords DEF HandleEnableChannel, OnChannel, IInv,
       TypeOK
  <2>2. CASE HandleAlternationStart \/ HandleAlternationEnd
    BY <2>2 DEF HandleAlternationStart, HandleAlternationEnd, channelVars,
       IInv, TypeOK
  <2>3. QED
    BY <2>1, <2>2
<1>3. altSet' \subseteq Cells /\ heapFree' = heapFree
      /\ hasAltValue' = hasAltValue
  BY <1>1 DEF HandleAlternationStart, HandleAlternationEnd,
     HandleEnableChannel, channelVars, IInv, TypeOK
<1>4. QED
  BY <1>0, <1>2, <1>3 DEF NextCore, tableVars, Quiet, IInv, TypeOK, TasksNamed

LEMMA DisableQuiet ==
  ASSUME IInv, DisableWithdraws \/ DisableTakes \/ DisableLeaves
  PROVE  Quiet
<1>0. Disabling /\ phase = "handle" /\ at < NCores /\ chan \in Channels
  BY DEF DisableWithdraws, DisableTakes, DisableLeaves, Disabling, OnChannel,
         Handling
<1>1. me \in Cells /\ me \in Nat
  BY <1>0, SelfIsACell
<1>2. PidOf(word[chan]) \in Nat
      /\ (~Empty(chan) => PidOf(word[chan]) # NoProcess)
  BY <1>0, WordsNamePids
<1>3. word' \in [Channels -> Nat]
  BY <1>0, <1>1, ParkKeepsWords DEF DisableWithdraws, DisableTakes,
     DisableLeaves, IInv, TypeOK
<1>4. tasks' \in Seq(Task) /\ TasksNamed'
  <2>1. CASE DisableWithdraws \/ DisableLeaves
    BY <2>1 DEF DisableWithdraws, DisableLeaves, IInv, TypeOK, TasksNamed
  <2>2. CASE DisableTakes
    BY <2>2, <1>1, <1>2, ScheduleLists, AddTasksPreserves DEF DisableTakes
  <2>3. QED
    BY <2>1, <2>2
<1>5. QED
  BY <1>0, <1>3, <1>4 DEF Disabling, NextCore, tableVars, altVars, Quiet,
     IInv, TypeOK

(***************************************************************************)
(* A step that changes neither the tables nor the tasks keeps the          *)
(* invariant if it is at the right place and the idle list is right.       *)
(***************************************************************************)
LEMMA MovesOn ==
  ASSUME IInv, UNCHANGED <<corePid, proc, tasks, word, heapFree, altSet>>,
         hasAltValue' \in [Cores -> BOOLEAN], at' \in Nat,
         idle' \in Seq(Cores),
         phase' \in {"cores", "handle", "deliver", "deschedule", "schedule",
                     "fill", "halted", "failed"},
         IndexInRange', IdleSoFar', WorkConserving'
  PROVE  IInv'
<1>1. TypeOK'
  BY DEF IInv, TypeOK
<1>2. TasksNamed' /\ NothingRunsAsNoProcess' /\ CoresAndTableAgree'
  BY DEF IInv, TasksNamed, NothingRunsAsNoProcess, CoresAndTableAgree,
         IsRunning
<1>3. QED
  BY <1>1, <1>2 DEF IInv

LEMMA CoresTickKeeps == ASSUME IInv, CoresTick PROVE IInv'
<1>1. hasAltValue' \in [Cores -> BOOLEAN]
  BY DEF CoresTick
<1>2. UNCHANGED <<corePid, proc, tasks, word, heapFree, altSet, idle>>
      /\ phase = "cores" /\ phase' = "handle" /\ at' = 0
  BY DEF CoresTick, tableVars, channelVars
<1>3. IndexInRange' /\ IdleSoFar' /\ WorkConserving'
  BY <1>2, ConstantsTyped DEF IInv, IndexInRange, IdleSoFar, WorkConserving
<1>4. QED
  BY <1>1, <1>2, <1>3, MovesOn DEF IInv, TypeOK

LEMMA FailKeeps == ASSUME IInv, Fail PROVE IInv'
<1>1. UNCHANGED <<corePid, proc, tasks, word, heapFree, altSet, idle,
                  hasAltValue, at>> /\ phase' = "failed"
  BY DEF Fail, tickVars, machine, tableVars, channelVars, altVars
<1>2. IndexInRange' /\ IdleSoFar' /\ WorkConserving'
  BY <1>1 DEF IndexInRange, IdleSoFar, WorkConserving
<1>3. QED
  BY <1>1, <1>2, MovesOn DEF IInv, TypeOK

LEMMA BeginKeeps ==
  ASSUME IInv,
         HandlingDone \/ DeliverDone \/ DescheduleDone \/ ScheduleDone
  PROVE  IInv'
<1>1. UNCHANGED <<corePid, proc, tasks, word, heapFree, altSet, idle,
                  hasAltValue>>
  BY DEF HandlingDone, DeliverDone, DescheduleDone, ScheduleDone, Begin,
         tickVars, machine, tableVars, channelVars, altVars
<1>2. \/ phase = "handle" /\ phase' = "deliver" /\ at' = 0
      \/ phase = "deliver" /\ at = NCores /\ phase' = "deschedule" /\ at' = 1
      \/ phase = "deschedule" /\ phase' = "schedule" /\ at' = 1
      \/ phase = "schedule" /\ phase' = "fill" /\ at' = 0
  BY DEF HandlingDone, DeliverDone, DescheduleDone, ScheduleDone, Begin
<1>3. IndexInRange' /\ WorkConserving'
  BY <1>1, <1>2, ConstantsTyped DEF IInv, IndexInRange, WorkConserving
<1>4. IdleSoFar'
  <2>1. CASE phase = "handle" /\ phase' = "deliver" /\ at' = 0
    BY <2>1, <1>1, ConstantsTyped DEF IInv, IndexInRange, IdleSoFar, Collected
  <2>2. CASE phase = "deliver" /\ at = NCores /\ phase' = "deschedule"
    BY <2>2, <1>1, ConstantsTyped DEF IInv, IdleSoFar, Collected
  <2>3. CASE phase \in {"deschedule", "schedule"}
             /\ phase' \in {"schedule", "fill"}
    BY <2>3, <1>1 DEF IInv, IdleSoFar, Collected
  <2>4. QED
    BY <1>2, <2>1, <2>2, <2>3
<1>5. QED
  BY <1>1, <1>2, <1>3, <1>4, MovesOn DEF IInv, TypeOK

(* A core without a process joins the list once, when its turn comes.      *)
LEMMA DeliverKeeps == ASSUME IInv, Deliver PROVE IInv'
<1>1. UNCHANGED <<phase, corePid, proc, tasks, word, heapFree, altSet>>
      /\ at' = at + 1 /\ phase = "deliver" /\ at < NCores
  BY DEF Deliver, tableVars, channelVars
<1>2. at \in Cores /\ at \in Nat /\ idle \in Seq(Cores)
  BY <1>1, ConstantsTyped DEF IInv, TypeOK
<1>3. hasAltValue' \in [Cores -> BOOLEAN]
  BY DEF Deliver, IInv, TypeOK
<1>a. \A i \in 1 .. Len(idle) : idle[i] \in Cores
  BY <1>2
<1>b. \A c \in Cores : /\ c < at => c < at + 1
                       /\ c < at + 1 => c < at \/ c = at
  BY <1>2, ConstantsTyped
<1>4. IdleSoFar' /\ idle' \in Seq(Cores)
  <2>1. CASE corePid[at] # NoProcess
    <3>1. idle' = idle
      BY <2>1 DEF Deliver, me
    <3>2. \A i \in 1 .. Len(idle) :
            corePid[idle[i]] = NoProcess /\ idle[i] < at
      BY <1>1 DEF IInv, IdleSoFar, Collected
    <3>3. \A i \in 1 .. Len(idle) :
            corePid[idle[i]] = NoProcess /\ idle[i] < at + 1
      BY <3>2, <1>a, <1>b
    <3>4. \A c \in Cores : corePid[c] = NoProcess /\ c < at + 1 =>
                             \E i \in 1 .. Len(idle) : idle[i] = c
      BY <2>1, <1>b, <1>1 DEF IInv, IdleSoFar, Collected
    <3>5. QED
      BY <3>1, <3>3, <3>4, <1>1, <1>2 DEF IInv, IdleSoFar, Collected
  <2>2. CASE corePid[at] = NoProcess
    <3>1. idle' = Append(idle, at)
      BY <2>2 DEF Deliver, me
    <3>2. /\ idle' \in Seq(Cores) /\ Len(idle') = Len(idle) + 1
          /\ idle'[Len(idle) + 1] = at
          /\ \A i \in 1 .. Len(idle) : idle'[i] = idle[i]
          /\ Len(idle) \in Nat
      BY <3>1, <1>2
    <3>3. \A i \in 1 .. Len(idle') : i \in 1 .. Len(idle) \/ i = Len(idle) + 1
      BY <3>2
    <3>4. \A i \in 1 .. Len(idle) : idle[i] # at
      BY <1>1, <1>2 DEF IInv, IdleSoFar, Collected
    <3>6. \A i \in 1 .. Len(idle') :
            corePid[idle'[i]] = NoProcess /\ idle'[i] < at + 1
      <4> SUFFICES ASSUME NEW i \in 1 .. Len(idle')
                   PROVE  corePid[idle'[i]] = NoProcess /\ idle'[i] < at + 1
        OBVIOUS
      <4>1. CASE i \in 1 .. Len(idle)
        <5>1. idle'[i] = idle[i] /\ idle[i] \in Cores
          BY <4>1, <3>2, <1>2
        <5>2. corePid[idle[i]] = NoProcess /\ idle[i] < at
          BY <4>1, <1>1 DEF IInv, IdleSoFar, Collected
        <5>3. QED
          BY <5>1, <5>2, <1>b
      <4>2. CASE i = Len(idle) + 1
        <5>1. idle'[i] = at /\ at < at + 1
          BY <4>2, <3>2, <1>2
        <5>2. QED
          BY <5>1, <2>2
      <4>3. QED
        BY <4>1, <4>2, <3>3
    <3>7. \A i, j \in 1 .. Len(idle') : i # j => idle'[i] # idle'[j]
      BY <3>2, <3>3, <3>4, <1>1 DEF IInv, IdleSoFar
    <3>8. \A c \in Cores : corePid[c] = NoProcess /\ c < at + 1 =>
                             \E i \in 1 .. Len(idle') : idle'[i] = c
      BY <3>2, <3>3, <1>b, <1>1 DEF IInv, IdleSoFar, Collected
    <3>9. QED
      BY <3>2, <3>6, <3>7, <3>8, <1>1 DEF IdleSoFar, Collected
  <2>3. QED
    BY <2>1, <2>2
<1>5. IndexInRange' /\ WorkConserving'
  BY <1>1, <1>2, ConstantsTyped DEF IInv, IndexInRange, WorkConserving
<1>6. QED
  BY <1>1, <1>2, <1>3, <1>4, <1>5, MovesOn DEF IInv, TypeOK

(***************************************************************************)
(* Giving the core collected last to a process that does not run.          *)
(***************************************************************************)
Assigning == {"deschedule", "schedule", "fill"}

LEMMA PopKeeps ==
  ASSUME NEW S, NEW s \in Seq(S), Len(s) >= 1
  PROVE  LET t == SubSeq(s, 1, Len(s) - 1)
         IN  /\ t \in Seq(S) /\ Len(t) = Len(s) - 1
             /\ \A i \in 1 .. Len(s) - 1 : t[i] = s[i]
<1> DEFINE top == Len(s) - 1
           t == SubSeq(s, 1, top)
<1>1. top \in Nat /\ \A i \in 1 .. top : s[i] \in S
  OBVIOUS
<1> HIDE DEF top
<1>2. 1 \in Int /\ top \in Int
  BY <1>1
<1>3. t \in Seq(S)
  BY <1>1, <1>2, SubSeqProperties, Zenon
<1>4. Len(t) = top
  BY <1>1, <1>2, SubSeqProperties
<1>5. ASSUME NEW i \in 1 .. top PROVE t[i] = s[i]
  BY <1>1, <1>2, SubSeqProperties
<1>6. QED
  BY <1>3, <1>4, <1>5, Zenon DEF top

LEMMA RunOnIdleCoreKeeps ==
  ASSUME IInv, phase \in Assigning, idle # <<>>,
         NEW p \in Cells, p # NoProcess, ~IsRunning(p), RunOnIdleCore(p),
         UNCHANGED <<phase, tasks, word, heapFree, altSet, hasAltValue>>,
         at' \in Nat, IndexInRange'
  PROVE  IInv'
<1> DEFINE c == idle[Len(idle)]
<1>1. /\ idle \in Seq(Cores) /\ Len(idle) \in Nat /\ Len(idle) >= 1
      /\ Len(idle) \in 1 .. Len(idle)
  BY DEF IInv, TypeOK
<1>2. c \in Cores /\ corePid[c] = NoProcess
  BY <1>1 DEF IInv, IdleSoFar, Assigning
<1>3. /\ idle' = SubSeq(idle, 1, Len(idle) - 1)
      /\ corePid' = [corePid EXCEPT ![c] = p]
      /\ proc' = [proc EXCEPT ![p] = Running(c)]
  BY DEF RunOnIdleCore, SetState
<1>4. /\ idle' \in Seq(Cores) /\ Len(idle') = Len(idle) - 1
      /\ \A i \in 1 .. Len(idle') : idle'[i] = idle[i] /\ i \in 1 .. Len(idle)
                                                     /\ i # Len(idle)
      /\ \A i \in 1 .. Len(idle) : i # Len(idle) => i \in 1 .. Len(idle')
  <2>1. /\ idle' \in Seq(Cores) /\ Len(idle') = Len(idle) - 1
        /\ \A i \in 1 .. Len(idle) - 1 : idle'[i] = idle[i]
    BY <1>1, <1>3, PopKeeps, Zenon
  <2>2. QED
    BY <1>1, <2>1
<1>5. /\ corePid \in [Cores -> Cells] /\ proc \in [Cells -> States]
      /\ corePid' \in [Cores -> Cells] /\ proc' \in [Cells -> States]
  BY <1>2, <1>3 DEF IInv, TypeOK, States
<1>6. TypeOK' /\ TasksNamed'
  BY <1>4, <1>5 DEF IInv, TypeOK, TasksNamed
<1>7. NothingRunsAsNoProcess'
  BY <1>3, <1>5 DEF IInv, NothingRunsAsNoProcess, IsRunning
<1>8. CoresAndTableAgree'
  <2>1. ASSUME NEW d \in Cores, corePid'[d] # NoProcess
        PROVE  proc'[corePid'[d]] = Running(d)
    <3>1. CASE d = c
      BY <3>1, <1>2, <1>3, <1>5
    <3>2. CASE d # c
      <4>1. corePid'[d] = corePid[d] /\ proc[corePid[d]] = Running(d)
        BY <3>2, <2>1, <1>3, <1>5 DEF IInv, CoresAndTableAgree
      <4>2. corePid[d] # p
        BY <4>1 DEF IsRunning, Running
      <4>3. QED
        BY <4>1, <4>2, <1>3, <1>5
    <3>3. QED
      BY <3>1, <3>2
  <2>2. ASSUME NEW q \in Cells, proc'[q].tag = "running"
        PROVE  proc'[q].core \in Cores /\ corePid'[proc'[q].core] = q
    <3>1. CASE q = p
      BY <3>1, <1>2, <1>3, <1>5 DEF Running
    <3>2. CASE q # p
      <4>1. proc'[q] = proc[q] /\ proc[q].core \in Cores
            /\ corePid[proc[q].core] = q
        BY <3>2, <2>2, <1>3, <1>5 DEF IInv, CoresAndTableAgree, IsRunning
      <4>2. q # NoProcess
        BY <4>1, <2>2 DEF IInv, NothingRunsAsNoProcess, IsRunning
      <4>3. QED
        BY <4>1, <4>2, <1>2, <1>3, <1>5
    <3>3. QED
      BY <3>1, <3>2
  <2>3. QED
    BY <2>1, <2>2 DEF CoresAndTableAgree, IsRunning
<1>9. IdleSoFar'
  <2>1. \A i \in 1 .. Len(idle') : idle'[i] # c /\ idle'[i] \in Cores
    <3>1. SUFFICES ASSUME NEW i \in 1 .. Len(idle')
                   PROVE  idle'[i] # c /\ idle'[i] \in Cores
      OBVIOUS
    <3>2. idle'[i] = idle[i] /\ i \in 1 .. Len(idle) /\ i # Len(idle)
      BY <1>4
    <3>3. \A k \in 1 .. Len(idle) : idle[k] \in Cores
      BY <1>1
    <3>4. QED
      BY <1>1, <3>2, <3>3 DEF IInv, IdleSoFar, Assigning
  <2>2. \A i \in 1 .. Len(idle') : corePid'[idle'[i]] = NoProcess
    BY <2>1, <1>3, <1>4, <1>5 DEF IInv, IdleSoFar, Assigning
  <2>3. \A i, j \in 1 .. Len(idle') : i # j => idle'[i] # idle'[j]
    BY <1>4 DEF IInv, IdleSoFar, Assigning
  <2>4. ASSUME NEW d \in Cores, corePid'[d] = NoProcess
        PROVE  \E i \in 1 .. Len(idle') : idle'[i] = d
    <3>1. d # c /\ corePid[d] = NoProcess
      BY <2>4, <1>2, <1>3, <1>5
    <3>2. PICK i \in 1 .. Len(idle) : idle[i] = d
      BY <3>1 DEF IInv, IdleSoFar, Assigning, Collected
    <3>3. QED
      BY <3>1, <3>2, <1>4
  <2>5. QED
    BY <2>2, <2>3, <2>4 DEF IdleSoFar, Assigning, Collected
<1>10. WorkConserving'
  BY DEF WorkConserving, Assigning
<1>11. QED
  BY <1>6, <1>7, <1>8, <1>9, <1>10 DEF IInv

(***************************************************************************)
(* Stopping a process, and freeing its core if it has one.                 *)
(***************************************************************************)
LEMMA StopKeeps ==
  ASSUME IInv, phase = "deschedule", NEW p \in Cells,
         NEW state \in {Dead, Inactive}, SetState(p, state),
         IF IsRunning(p)
         THEN /\ corePid' = [corePid EXCEPT ![proc[p].core] = NoProcess]
              /\ idle' = Append(idle, proc[p].core)
         ELSE UNCHANGED <<corePid, idle>>,
         UNCHANGED <<phase, tasks, word, heapFree, altSet, hasAltValue>>,
         at' \in Nat, IndexInRange'
  PROVE  IInv'
<1>1. /\ corePid \in [Cores -> Cells] /\ proc \in [Cells -> States]
      /\ idle \in Seq(Cores) /\ Len(idle) \in Nat /\ NoProcess \in Cells
  BY ConstantsTyped DEF IInv, TypeOK
<1>2. proc' = [proc EXCEPT ![p] = state] /\ state.tag # "running"
      /\ state \in States
  BY DEF SetState, Dead, Inactive, States
<1>3. NothingRunsAsNoProcess' /\ TasksNamed' /\ WorkConserving'
  BY <1>1, <1>2 DEF IInv, NothingRunsAsNoProcess, IsRunning, TasksNamed,
     WorkConserving
<1>4. CASE IsRunning(p)
  <2> DEFINE c == proc[p].core
  <2>1. c \in Cores /\ corePid[c] = p /\ p # NoProcess
    BY <1>4 DEF IInv, CoresAndTableAgree, NothingRunsAsNoProcess
  <2>2. corePid' = [corePid EXCEPT ![c] = NoProcess] /\ idle' = Append(idle, c)
    BY <1>4
  <2>3. /\ idle' \in Seq(Cores) /\ Len(idle') = Len(idle) + 1
        /\ idle'[Len(idle) + 1] = c
        /\ \A i \in 1 .. Len(idle) : idle'[i] = idle[i] /\ i \in 1 .. Len(idle')
        /\ \A i \in 1 .. Len(idle') : i \in 1 .. Len(idle) \/ i = Len(idle) + 1
        /\ Len(idle) + 1 \in 1 .. Len(idle')
    BY <2>1, <2>2, <1>1
  <2>4. TypeOK'
    BY <2>1, <2>2, <2>3, <1>1, <1>2 DEF IInv, TypeOK
  <2>5. CoresAndTableAgree'
    BY <2>1, <2>2, <1>1, <1>2 DEF IInv, CoresAndTableAgree, IsRunning, Running
  <2>6. IdleSoFar'
    <3>1. \A i \in 1 .. Len(idle) : idle[i] # c /\ idle[i] \in Cores
                                    /\ corePid[idle[i]] = NoProcess
      BY <2>1, <1>1 DEF IInv, IdleSoFar
    <3>2. \A i \in 1 .. Len(idle') : corePid'[idle'[i]] = NoProcess
      BY <3>1, <2>1, <2>2, <2>3, <1>1
    <3>3. \A i, j \in 1 .. Len(idle') : i # j => idle'[i] # idle'[j]
      BY <3>1, <2>3 DEF IInv, IdleSoFar
    <3>4. ASSUME NEW d \in Cores, corePid'[d] = NoProcess
          PROVE  \E i \in 1 .. Len(idle') : idle'[i] = d
      <4>1. CASE d = c
        BY <4>1, <2>3
      <4>2. CASE d # c
        <5>1. PICK i \in 1 .. Len(idle) : idle[i] = d
          BY <4>2, <3>4, <2>1, <2>2, <1>1 DEF IInv, IdleSoFar, Collected
        <5>2. QED
          BY <5>1, <2>3
      <4>3. QED
        BY <4>1, <4>2
    <3>5. QED
      BY <3>2, <3>3, <3>4 DEF IdleSoFar, Collected
  <2>7. QED
    BY <2>4, <2>5, <2>6, <1>3 DEF IInv
<1>5. CASE ~IsRunning(p)
  <2>1. UNCHANGED <<corePid, idle>>
    BY <1>5
  <2>2. TypeOK'
    BY <2>1, <1>1, <1>2 DEF IInv, TypeOK
  <2>3. CoresAndTableAgree'
    BY <2>1, <1>1, <1>2, <1>5 DEF IInv, CoresAndTableAgree, IsRunning, Running
  <2>4. IdleSoFar'
    BY <2>1 DEF IInv, IdleSoFar, Collected
  <2>5. QED
    BY <2>2, <2>3, <2>4, <1>3 DEF IInv
<1>6. QED
  BY <1>4, <1>5

(* The task at hand is one of the list's, and well named.                  *)
LEMMA TaskAtHand ==
  ASSUME IInv, phase \in {"deschedule", "schedule"}, at <= Len(tasks)
  PROVE  /\ at \in Nat /\ at' = at + 1 => at' \in Nat /\ at' >= 1
         /\ task \in Task
         /\ task.kind = "schedule" => task.pid # NoProcess
         /\ task.kind # "schedule" => task.pid \in Cells
<1>1. at \in 1 .. Len(tasks) /\ at \in Nat
  BY DEF IInv, TypeOK, IndexInRange
<1>2. QED
  BY <1>1 DEF IInv, TypeOK, TasksNamed, WellNamed, task

LEMMA DescheduleTaskKeeps == ASSUME IInv, DescheduleTask PROVE IInv'
<1>1. /\ phase = "deschedule" /\ at <= Len(tasks) /\ at' = at + 1
      /\ UNCHANGED <<phase, tasks, word, heapFree, altSet, hasAltValue>>
  BY DEF DescheduleTask, TaskIn, NextTask, channelVars, altVars
<1>2. at' \in Nat /\ IndexInRange'
  BY <1>1, TaskAtHand DEF IInv, TypeOK, IndexInRange
<1>3. CASE task.kind = "schedule"
  <2>1. UNCHANGED <<corePid, proc, idle>>
    BY <1>3 DEF DescheduleTask
  <2>2. IdleSoFar' /\ WorkConserving'
    BY <2>1, <1>1 DEF IInv, IdleSoFar, Collected, WorkConserving
  <2>3. QED
    BY <2>1, <2>2, <1>1, <1>2, MovesOn DEF IInv, TypeOK
<1>4. CASE task.kind # "schedule"
  <2>1. task.pid \in Cells
    BY <1>4, <1>1, TaskAtHand
  <2>2. PICK state \in {Dead, Inactive} : SetState(task.pid, state)
    BY <1>4 DEF DescheduleTask
  <2>3. IF IsRunning(task.pid)
        THEN /\ corePid' = [corePid EXCEPT ![proc[task.pid].core] = NoProcess]
             /\ idle' = Append(idle, proc[task.pid].core)
        ELSE UNCHANGED <<corePid, idle>>
    BY <1>4 DEF DescheduleTask
  <2>4. QED
    BY <2>1, <2>2, <2>3, <1>1, <1>2, StopKeeps
<1>5. QED
  BY <1>3, <1>4

LEMMA ScheduleTaskKeeps == ASSUME IInv, ScheduleTask PROVE IInv'
<1>1. /\ phase = "schedule" /\ at <= Len(tasks) /\ at' = at + 1
      /\ UNCHANGED <<phase, tasks, word, heapFree, altSet, hasAltValue>>
  BY DEF ScheduleTask, TaskIn, NextTask, channelVars, altVars
<1>2. at' \in Nat /\ IndexInRange'
  BY <1>1, TaskAtHand DEF IInv, TypeOK, IndexInRange
<1>3. CASE UNCHANGED <<corePid, proc, idle>>
  <2>1. IdleSoFar' /\ WorkConserving'
    BY <1>3, <1>1 DEF IInv, IdleSoFar, Collected, WorkConserving
  <2>2. QED
    BY <2>1, <1>3, <1>1, <1>2, MovesOn DEF IInv, TypeOK
<1>4. CASE ~UNCHANGED <<corePid, proc, idle>>
  <2>1. /\ task.pid \in Cells /\ task.pid # NoProcess /\ ~IsRunning(task.pid)
        /\ \/ idle # <<>> /\ RunOnIdleCore(task.pid)
           \/ SetState(task.pid, Waiting) /\ UNCHANGED <<corePid, idle>>
    BY <1>4, <1>1, TaskAtHand DEF ScheduleTask
  <2>2. CASE idle # <<>> /\ RunOnIdleCore(task.pid)
    BY <2>1, <2>2, <1>1, <1>2, RunOnIdleCoreKeeps DEF Assigning
  <2>3. CASE SetState(task.pid, Waiting) /\ UNCHANGED <<corePid, idle>>
    <3> DEFINE p == task.pid
    <3>1. /\ proc' = [proc EXCEPT ![p] = Waiting] /\ Waiting \in States
          /\ Waiting.tag # "running" /\ proc \in [Cells -> States]
          /\ corePid \in [Cores -> Cells] /\ UNCHANGED <<corePid, idle>>
      BY <2>3 DEF SetState, States, Waiting, IInv, TypeOK
    <3>2. TypeOK' /\ TasksNamed'
      BY <3>1, <1>1, <1>2 DEF IInv, TypeOK, TasksNamed
    <3>3. NothingRunsAsNoProcess'
      BY <3>1 DEF IInv, NothingRunsAsNoProcess, IsRunning
    <3>4. CoresAndTableAgree'
      BY <2>1, <3>1 DEF IInv, CoresAndTableAgree, IsRunning, Running
    <3>5. IdleSoFar' /\ WorkConserving'
      BY <3>1, <1>1 DEF IInv, IdleSoFar, Collected, WorkConserving
    <3>6. QED
      BY <3>2, <3>3, <3>4, <3>5, <1>2 DEF IInv
  <2>4. QED
    BY <2>1, <2>2, <2>3
<1>5. QED
  BY <1>3, <1>4

LEMMA FillKeeps == ASSUME IInv, Fill PROVE IInv'
<1>1. /\ phase = "fill" /\ idle # <<>>
      /\ UNCHANGED <<phase, at, tasks, word, heapFree, altSet, hasAltValue>>
  BY DEF Fill, channelVars, altVars
<1>2. PICK p \in WaitingPids : RunOnIdleCore(p)
  BY DEF Fill
<1>3. p \in Cells /\ p # NoProcess /\ ~IsRunning(p)
  BY ConstantsTyped DEF WaitingPids, IsRunning
<1>4. at' \in Nat /\ IndexInRange'
  BY <1>1 DEF IInv, TypeOK, IndexInRange
<1>5. QED
  BY <1>1, <1>2, <1>3, <1>4, RunOnIdleCoreKeeps DEF Assigning

(* No process waits in vain: the idle cores ran out, or the waiting ones.  *)
LEMMA EndTickKeeps == ASSUME IInv, EndTick PROVE IInv'
<1>1. /\ phase = "fill" /\ (idle = <<>> \/ WaitingPids = {})
      /\ phase' \in {"cores", "halted"} /\ at' = 0 /\ tasks' = <<>>
      /\ idle' = <<>>
      /\ UNCHANGED <<corePid, proc, word, heapFree, altSet, hasAltValue>>
  BY DEF EndTick, machine, tableVars, channelVars, altVars
<1>2. TypeOK'
  BY <1>1 DEF IInv, TypeOK
<1>3. TasksNamed' /\ NothingRunsAsNoProcess' /\ IndexInRange'
      /\ CoresAndTableAgree' /\ IdleSoFar'
  BY <1>1 DEF IInv, TasksNamed, WellNamed, NothingRunsAsNoProcess,
     IndexInRange, CoresAndTableAgree, IdleSoFar, IsRunning
<1>4. WorkConserving'
  <2>1. CASE WaitingPids = {}
    BY <2>1, <1>1 DEF WorkConserving, WaitingPids
  <2>2. CASE idle = <<>>
    <3>1. \A c \in Cores : corePid[c] # NoProcess
      BY <2>2, <1>1 DEF IInv, IdleSoFar, Collected
    <3>2. QED
      BY <3>1, <1>1 DEF WorkConserving
  <2>3. QED
    BY <1>1, <2>1, <2>2
<1>5. QED
  BY <1>2, <1>3, <1>4 DEF IInv

LEMMA StutterKeeps == ASSUME IInv, UNCHANGED vars PROVE IInv'
BY DEF vars, tickVars, machine, tableVars, channelVars, altVars, IInv, TypeOK,
   TasksNamed, WellNamed, NothingRunsAsNoProcess, IndexInRange,
   CoresAndTableAgree, IdleSoFar, Collected, WorkConserving, WaitingPids,
   IsRunning

-----------------------------------------------------------------------------
LEMMA HandleKeeps == ASSUME IInv, Handle PROVE IInv'
<1>1. \/ Quiet \/ Fail \/ HandlingDone
  BY ProcessHandlersQuiet, StartQuiet, ChannelHandlersQuiet, SendQuiet,
     ReceiveQuiet, AlternationQuiet, DisableQuiet
     DEF Handle, HandleStartProcessFails, HandleCreateChannelFails,
         SendToReceiverFails
<1>2. QED
  BY <1>1, QuietPreserves, FailKeeps, BeginKeeps

LEMMA AssignKeeps == ASSUME IInv, Assign PROVE IInv'
<1>1. \/ Deliver \/ DescheduleTask \/ ScheduleTask \/ Fill \/ EndTick \/ Fail
      \/ DeliverDone \/ DescheduleDone \/ ScheduleDone
  BY DEF Assign, ScheduleFails
<1>2. QED
  BY <1>1, DeliverKeeps, DescheduleTaskKeeps, ScheduleTaskKeeps, FillKeeps,
     EndTickKeeps, FailKeeps, BeginKeeps

(***************************************************************************)
(* The inductive invariant holds of every program and every number of      *)
(* cores and processes (Processor::tick).                                  *)
(***************************************************************************)
THEOREM Inductive == Spec => []IInv
<1>1. IInv /\ [Next]_vars => IInv'
  BY CoresTickKeeps, HandleKeeps, AssignKeeps, StutterKeeps DEF Next
<1>2. QED
  BY <1>1, InitIInv, PTL DEF Spec

(* The tables of Processor keep values of their kind (processor/mod.rs).   *)
THEOREM TypeCorrect == Spec => []TypeOK
<1>1. IInv => TypeOK
  BY DEF IInv
<1>2. QED
  BY <1>1, Inductive, PTL

(***************************************************************************)
(* core_to_process and the process table agree at every moment of a tick:  *)
(* no process runs on two cores and no core runs a process that the table  *)
(* does not say it runs (set_process_state, the tasks of tick).            *)
(***************************************************************************)
THEOREM TablesAgree == Spec => []CoresAndTableAgree
<1>1. IInv => CoresAndTableAgree
  BY DEF IInv
<1>2. QED
  BY <1>1, Inductive, PTL

(***************************************************************************)
(* While tick assigns cores, inactive_cores lists every free core exactly  *)
(* once, however tasks for the same process repeat or contradict.          *)
(***************************************************************************)
THEOREM IdleListIsExact == Spec => []IdleListExact
<1>1. IInv => IdleListExact
  BY DEF IInv, IdleSoFar, IdleListExact, Collected
<1>2. QED
  BY <1>1, Inductive, PTL

(***************************************************************************)
(* No tick ends with a process waiting beside a free core, and a processor *)
(* never halts with a process waiting (the last loop of tick).             *)
(***************************************************************************)
THEOREM WorkIsConserved == Spec => []WorkConserving
<1>1. IInv => WorkConserving
  BY DEF IInv
<1>2. QED
  BY <1>1, Inductive, PTL
==============================================================================
