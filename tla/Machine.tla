------------------------------- MODULE Machine -------------------------------
(***************************************************************************)
(* Cores that run the bytes of a program (Core) and the processor that     *)
(* answers their messages (processor/mod.rs).  Processor models one tick   *)
(* of it loop by loop on programs without data; here each message is       *)
(* answered in one step, with what it schedules, at any time after it was  *)
(* sent, and the words that processes pass each other are real.            *)
(***************************************************************************)
EXTENDS Core, FiniteSets

CONSTANT Channels       \* the addresses of the channel heap
ASSUME PidsAssumption == Pids \subseteq Nat \ {0}

VARIABLES state,        \* of each process: "dead", "running" or "stopped"
          channels,     \* the word pair of each channel that exists
          alternationReady,
          number,       \* current_pid_to_alloc_number
          finalStacks,  \* the stack of each number's process when it halted
          failure       \* why the simulation stopped with an error
machineVars ==
  <<coreVars, state, channels, alternationReady, number, finalStacks, failure>>

NoProcess == 0
Channel(pid, inAlternation, value) ==
  [pid |-> pid, inAlternation |-> inAlternation, value |-> value]
EmptyChannel == Channel(NoProcess, FALSE, 0)

FirstPid == CHOOSE p \in Pids : \A q \in Pids : p <= q
MachineInit(program) ==
  /\ CoreInit(program)
  /\ state = [p \in Pids |-> IF p = FirstPid THEN "running" ELSE "dead"]
  /\ channels = << >>
  /\ alternationReady = {}
  /\ number = (FirstPid :> 0)
  /\ finalStacks = << >>
  /\ failure = "none"

(***************************************************************************)
(* A core executes while its process runs and its last message is          *)
(* answered.                                                               *)
(***************************************************************************)
Execute(p) ==
  /\ failure = "none"
  /\ state[p] = "running"
  /\ message[p] = Nothing
  /\ Tick(p)
  /\ UNCHANGED <<state, channels, alternationReady, number, finalStacks, failure>>

Asks(p, kind) == failure = "none" /\ message[p].kind = kind
Answered(ps) ==
  /\ message' = [p \in Pids |-> IF p \in ps THEN Nothing ELSE message[p]]
  /\ UNCHANGED <<code, flags, failure>>
Fail(why) ==
  /\ failure' = why
  /\ UNCHANGED <<coreVars, state, channels, alternationReady, number, finalStacks>>
NoChannelChanges == UNCHANGED <<channels, alternationReady>>
NoProcessChanges == UNCHANGED <<number, finalStacks, hasAlternationValue>>

\* ControllerMessage::SaveToMemory and a word that is pushed for the process.
Saved(p) == SetFlags(cells[p], flags[p])
SetCell(p, cell) == cells' = [cells EXCEPT ![p] = cell]
Stop(p) == state' = [state EXCEPT ![p] = "stopped"]

(***************************************************************************)
(* Halt and Yield.  A process that yields is not scheduled again.          *)
(***************************************************************************)
HandleHalt(p) ==
  /\ Asks(p, "halt")
  /\ Answered({p})
  /\ SetCell(p, Saved(p))
  /\ state' = [state EXCEPT ![p] = "dead"]
  /\ finalStacks' = (number[p] :> StackValues(cells[p])) @@ finalStacks
  /\ NoChannelChanges
  /\ UNCHANGED <<number, hasAlternationValue>>
HandleYield(p) ==
  /\ Asks(p, "yield")
  /\ Answered({p})
  /\ SetCell(p, Saved(p))
  /\ Stop(p)
  /\ NoChannelChanges
  /\ NoProcessChanges

(***************************************************************************)
(* StartProcess: the words on top of the stack move to the new process.    *)
(***************************************************************************)
DeadPids == {p \in Pids : state[p] = "dead"}
HandleStartProcess(p) ==
  /\ Asks(p, "start")
  /\ DeadPids # {}
  /\ LET new == CHOOSE q \in DeadPids : \A r \in DeadPids : q <= r
         words == message[p].value
         child == StackBlockCopy(Initialised(cells[new], message[p].channel),
                                 cells[p], words)
     IN  IF child = Fault THEN Fail("error")
         ELSE /\ Answered({p})
              /\ cells' = [cells EXCEPT ![new] = child, ![p] = PopMany(@, words)]
              /\ state' = [state EXCEPT ![new] = "running"]
              /\ number' = (new :> Cardinality(DOMAIN number)) @@ number
              /\ NoChannelChanges
              /\ UNCHANGED <<finalStacks, hasAlternationValue>>
HandleStartProcessFails(p) ==
  /\ Asks(p, "start")
  /\ DeadPids = {}
  /\ Fail("exhausted")

(***************************************************************************)
(* CreateChannel and DeleteChannel, with any heap that gives out addresses *)
(* that are free (Allocator).                                              *)
(***************************************************************************)
HandleCreateChannel(p) ==
  /\ Asks(p, "create")
  /\ \E c \in Channels \ DOMAIN channels :
       /\ channels' = (c :> EmptyChannel) @@ channels
       /\ SetCell(p, Push(cells[p], c))
  /\ Answered({p})
  /\ NoProcessChanges
  /\ UNCHANGED <<state, alternationReady>>
HandleCreateChannelFails(p) ==
  /\ Asks(p, "create")
  /\ DOMAIN channels = Channels
  /\ Fail("exhausted")

OnChannel == {"destroy", "send", "receive", "enable", "disable"}
AsksOf(p, kind) == Asks(p, kind) /\ message[p].channel \in DOMAIN channels
HandleDeleteChannel(p) ==
  /\ AsksOf(p, "destroy")
  /\ channels' = [c \in DOMAIN channels \ {message[p].channel} |-> channels[c]]
  /\ Answered({p})
  /\ NoProcessChanges
  /\ UNCHANGED <<cells, state, alternationReady>>

\* A channel that does not exist: the code goes on with whatever is there.
Misuse(p) ==
  /\ \E kind \in OnChannel : Asks(p, kind)
  /\ message[p].channel \notin DOMAIN channels
  /\ Fail("misuse")

(***************************************************************************)
(* send: the sender stops until the value is taken, unless a receiver is   *)
(* already parked in the channel.                                          *)
(***************************************************************************)
Parked(p) == channels[message[p].channel]
SetChannel(p, word) == channels' = [channels EXCEPT ![message[p].channel] = word]

SendParks(p) ==
  /\ AsksOf(p, "send")
  /\ Parked(p).pid = NoProcess
  /\ SetChannel(p, Channel(p, FALSE, message[p].value))
  /\ Stop(p)
  /\ SetCell(p, Saved(p))
  /\ Answered({p})
  /\ NoProcessChanges
  /\ UNCHANGED alternationReady

SendToAlternation(p) ==
  /\ AsksOf(p, "send")
  /\ Parked(p).inAlternation
  /\ SetChannel(p, Channel(p, TRUE, message[p].value))
  /\ LET rx == Parked(p).pid
     IN  /\ state' = [state EXCEPT ![p] = "stopped",
                        ![rx] = IF rx \in alternationReady THEN @ ELSE "running"]
         /\ alternationReady' = alternationReady \union {rx}
  /\ SetCell(p, Saved(p))
  /\ Answered({p})
  /\ NoProcessChanges

SendToReceiver(p) ==
  /\ AsksOf(p, "send")
  /\ Parked(p).pid # NoProcess
  /\ ~Parked(p).inAlternation
  /\ LET rx == Parked(p).pid
     IN  /\ cells' = [cells EXCEPT ![p] = Saved(p), ![rx] = Push(@, message[p].value)]
         /\ state' = [state EXCEPT ![rx] = "running"]
  /\ SetChannel(p, Channel(NoProcess, FALSE, message[p].value))
  /\ Answered({p})
  /\ NoProcessChanges
  /\ UNCHANGED alternationReady

\* receive, and a send and a receive of the same tick.
ReceiveParks(p) ==
  /\ AsksOf(p, "receive")
  /\ Parked(p).pid = NoProcess
  /\ SetChannel(p, [Parked(p) EXCEPT !.pid = p, !.inAlternation = FALSE])
  /\ Stop(p)
  /\ SetCell(p, Saved(p))
  /\ Answered({p})
  /\ NoProcessChanges
  /\ UNCHANGED alternationReady

\* mutant: the sender is not scheduled again.
ReceiveTakesAlone(p) ==
  /\ AsksOf(p, "receive")
  /\ Parked(p).pid # NoProcess
  /\ SetCell(p, Push(Saved(p), Parked(p).value))
  /\ SetChannel(p, [Parked(p) EXCEPT !.pid = NoProcess, !.inAlternation = FALSE])
  /\ Answered({p})
  /\ NoProcessChanges
  /\ UNCHANGED <<state, alternationReady>>
ReceiveTakes(p) ==
  /\ AsksOf(p, "receive")
  /\ Parked(p).pid # NoProcess
  /\ SetCell(p, Push(Saved(p), Parked(p).value))
  /\ state' = [state EXCEPT ![Parked(p).pid] = "running"]
  /\ SetChannel(p, [Parked(p) EXCEPT !.pid = NoProcess, !.inAlternation = FALSE])
  /\ Answered({p})
  /\ NoProcessChanges
  /\ UNCHANGED alternationReady

SendMeetsReceive(p, q) ==
  /\ AsksOf(p, "send")
  /\ AsksOf(q, "receive")
  /\ message[p].channel = message[q].channel
  /\ SetCell(q, Push(cells[q], message[p].value))
  /\ hasAlternationValue' = [hasAlternationValue EXCEPT ![q] = TRUE]
  /\ Answered({p, q})
  /\ UNCHANGED <<state, channels, alternationReady, number, finalStacks>>

(***************************************************************************)
(* Alternation.  alternation_set is written and never read.                *)
(***************************************************************************)
HandleAlternationStart(p) ==
  /\ Asks(p, "altStart")
  /\ Answered({p})
  /\ NoProcessChanges
  /\ UNCHANGED <<cells, state, channels, alternationReady>>
HandleAlternationWait(p) ==
  /\ Asks(p, "altWait")
  /\ IF p \in alternationReady THEN UNCHANGED state ELSE Stop(p)
  /\ Answered({p})
  /\ NoProcessChanges
  /\ UNCHANGED <<cells, channels, alternationReady>>
HandleAlternationEnd(p) ==
  /\ Asks(p, "altEnd")
  /\ alternationReady' = alternationReady \ {p}
  /\ Answered({p})
  /\ NoProcessChanges
  /\ UNCHANGED <<cells, state, channels>>
HandleEnableChannel(p) ==
  /\ AsksOf(p, "enable")
  /\ IF Parked(p).pid = NoProcess
     THEN /\ SetChannel(p, [Parked(p) EXCEPT !.pid = p, !.inAlternation = TRUE])
          /\ UNCHANGED alternationReady
     ELSE /\ alternationReady' = alternationReady \union {p}
          /\ UNCHANGED channels
  /\ Answered({p})
  /\ NoProcessChanges
  /\ UNCHANGED <<cells, state>>

Clear(p) == SetChannel(p, [Parked(p) EXCEPT !.pid = NoProcess, !.inAlternation = FALSE])
\* mutant: the process goes on behind the disable, not at its arm.
DisableTakesHere(p) ==
  /\ AsksOf(p, "disable")
  /\ Parked(p).pid \notin {NoProcess, p}
  /\ ~hasAlternationValue[p]
  /\ SetCell(p, Push(cells[p], Parked(p).value))
  /\ state' = [state EXCEPT ![Parked(p).pid] = "running"]
  /\ Clear(p)
  /\ Answered({p})
  /\ NoProcessChanges
  /\ UNCHANGED alternationReady
DisableTakes(p) ==
  /\ AsksOf(p, "disable")
  /\ Parked(p).pid \notin {NoProcess, p}
  /\ ~hasAlternationValue[p]
  /\ SetCell(p, SetProgramCounter(Push(cells[p], Parked(p).value), message[p].value))
  /\ state' = [state EXCEPT ![Parked(p).pid] = "running"]
  /\ Clear(p)
  /\ Answered({p})
  /\ NoProcessChanges
  /\ UNCHANGED alternationReady
DisableLeaves(p) ==
  /\ AsksOf(p, "disable")
  /\ IF Parked(p).pid = p THEN Clear(p)
     ELSE (Parked(p).pid = NoProcess \/ hasAlternationValue[p]) /\ UNCHANGED channels
  /\ Answered({p})
  /\ NoProcessChanges
  /\ UNCHANGED <<cells, state, alternationReady>>

HandleError(p) ==
  /\ Asks(p, "error")
  /\ Fail("error")

Handle(p) ==
  \/ HandleHalt(p) \/ HandleYield(p) \/ HandleError(p) \/ Misuse(p)
  \/ HandleStartProcess(p) \/ HandleStartProcessFails(p)
  \/ HandleCreateChannel(p) \/ HandleCreateChannelFails(p) \/ HandleDeleteChannel(p)
  \/ SendParks(p) \/ SendToAlternation(p) \/ SendToReceiver(p)
  \/ ReceiveParks(p) \/ ReceiveTakes(p) \/ \E q \in Pids : SendMeetsReceive(p, q)
  \/ HandleAlternationStart(p) \/ HandleAlternationWait(p) \/ HandleAlternationEnd(p)
  \/ HandleEnableChannel(p) \/ DisableTakes(p) \/ DisableLeaves(p)

MachineStep == \E p \in Pids : Execute(p) \/ Handle(p)

\* Nothing runs any more, or an error stopped the simulation.
Stopped == failure # "none" \/ \A p \in Pids : state[p] # "running"
=============================================================================
