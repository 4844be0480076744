------------------------------ MODULE Processor ------------------------------
(***************************************************************************)
(* The instruction-level simulator of Stannel (processor/mod.rs): several  *)
(* cores in lockstep, a table of processes, channels on which processes    *)
(* rendezvous, and alternations over channels.                             *)
(*                                                                         *)
(* Processor::tick is cut at its loops.  `phase` names the loop it is in   *)
(* and `at` the index it has reached:                                      *)
(*   cores       every core that has a process executes an instruction     *)
(*   handle      the messages of the cores are handled in core order       *)
(*   deliver     answers go back to the cores; cores without a process are *)
(*               collected in `idle`                                       *)
(*   deschedule  the Deschedule and Destroy tasks are carried out          *)
(*   schedule    the Schedule tasks are carried out                        *)
(*   fill        idle cores pick up waiting processes                      *)
(* and then the next tick begins, or the run is over: halted, or failed if *)
(* the tick returned an error or met an assertion.                         *)
(*                                                                         *)
(* What a process computes is left out.  A program is the skeleton of its  *)
(* instructions that reach the Processor, and its jumps; between any two   *)
(* of them a process may execute other instructions (Delays bounds how     *)
(* many in all), so that the cores meet in every relative position.        *)
(***************************************************************************)
EXTENDS Naturals, Sequences, FiniteSets

CONSTANTS NCores,        \* core_count
          NProcs,        \* the cells left for processes
          ChannelLimit,  \* the end of the channel heap (MEMORY_CELL_SIZE)
          Names,         \* the stack slots in which a process keeps channels
          Code,          \* the program: a sequence of instructions
          Delays         \* the data instructions a process may execute

(***************************************************************************)
(* Processor::new asserts the first and the second; the third keeps        *)
(* State::encode's byte (core << 2 | 2) from losing the core's number.     *)
(***************************************************************************)
ASSUME CoresAssumption ==
  /\ NCores \in Nat \ {0}
  /\ NProcs \in Nat /\ NProcs >= 2
  /\ NCores <= 64

ASSUME DelaysAssumption == Delays \in Nat

ASSUME CodeAssumption ==
  Code \in Seq([op : STRING, name : STRING, to : Nat])

Cores == 0 .. NCores - 1
Pids == NCores .. NCores + NProcs - 1
CellCount == NCores + NProcs + 1
Cells == 0 .. CellCount - 1
NoProcess == 0

(***************************************************************************)
(* The words of a channel lie in the cell that also holds the states, and  *)
(* behind them (Heap::new); MEMORY_CELL_SIZE is 512, far from AltBit.      *)
(***************************************************************************)
AltBit == 32768
ASSUME ChannelLimitAssumption ==
  ChannelLimit \in Nat /\ CellCount < ChannelLimit /\ ChannelLimit < AltBit

VARIABLES phase, at,
          corePid,       \* core_to_process; NoProcess where a core has no entry
          proc,          \* the state byte of every cell
          pc, env,       \* program counters; the channels on the stacks
          spare,         \* how many data instructions are left to a process
          allocNumber,   \* current_pid_to_alloc_number
          finalStacks,   \* the keys of final_stacks
          word, value,   \* the two words of every channel
          heapEnd, heapFree,     \* channel_heap
          altSet, altReady,      \* alternation_set, alternation_ready_set
          hasAltValue,   \* has_alternation_value of every core
          msg, ret,      \* messages and return_messages of this tick
          tasks,         \* scheduler_tasks
          idle,          \* inactive_cores
          live,          \* history: the channels created and not deleted
          sent,          \* history: how many values were sent on a channel
          got,           \* history: the values received from a channel
          started, ended \* history: how many processes were started, ended

tickVars == <<msg, ret, tasks, idle>>
tableVars == <<corePid, proc, finalStacks>>
cellVars == <<pc, env, spare, allocNumber>>
channelVars == <<word, value, heapEnd, heapFree>>
altVars == <<altSet, altReady, hasAltValue>>
history == <<live, sent, got, started, ended>>
machine == <<tableVars, cellVars, channelVars, altVars, history>>
vars == <<phase, at, tickVars, machine>>

ChannelHeap == INSTANCE Heap WITH HeapBase <- CellCount,
                                  HeapMax <- ChannelLimit,
                                  AllocSize <- 4, memory <- word
Channels == ChannelHeap!Addresses

-----------------------------------------------------------------------------
(***************************************************************************)
(* process::State and the word in which a channel keeps a process.         *)
(***************************************************************************)
Dead == [tag |-> "dead", core |-> 0]
Inactive == [tag |-> "inactive", core |-> 0]
Waiting == [tag |-> "waiting", core |-> 0]
Running(c) == [tag |-> "running", core |-> c]
IsRunning(p) == proc[p].tag = "running"

PidOf(w) == w % AltBit
InAlternation(w) == w >= AltBit
Empty(ch) == PidOf(word[ch]) = NoProcess
Park(ch, p, alt) ==
  word' = [word EXCEPT ![ch] = IF alt THEN p + AltBit ELSE p]

Schedule(p) == [kind |-> "schedule", pid |-> p]
Deschedule(p) == [kind |-> "deschedule", pid |-> p]
Destroy(p) == [kind |-> "destroy", pid |-> p]

NoMessage == [op |-> "none", name |-> "", chan |-> 0, value |-> 0, to |-> 0]
NoAnswer == [kind |-> "none", name |-> "", value |-> 0, chan |-> 0]

Init ==      \* the state set_instructions leaves
  /\ phase = "cores" /\ at = 0
  /\ corePid = [c \in Cores |-> IF c = 0 THEN NCores ELSE NoProcess]
  /\ proc = [p \in Cells |-> IF p = NCores THEN Running(0) ELSE Dead]
  /\ pc = [p \in Cells |-> 1]
  /\ env = [p \in Cells |-> [n \in Names |-> 0]]
  /\ spare = [p \in Cells |-> Delays]
  /\ allocNumber = [p \in {NCores} |-> 0]
  /\ finalStacks = {}
  /\ ChannelHeap!HeapInit
  /\ word = [ch \in Channels |-> 0] /\ value = [ch \in Channels |-> 0]
  /\ altSet = {} /\ altReady = {} /\ hasAltValue = [c \in Cores |-> FALSE]
  /\ msg = [c \in Cores |-> NoMessage] /\ ret = [c \in Cores |-> NoAnswer]
  /\ tasks = <<>> /\ idle = <<>>
  /\ live = {} /\ sent = [ch \in Channels |-> 0]
  /\ got = [ch \in Channels |-> <<>>] /\ started = 1 /\ ended = 0

-----------------------------------------------------------------------------
(***************************************************************************)
(* The cores execute an instruction each.  A process in `late` executes a  *)
(* data instruction and has nothing to say; the others execute the next    *)
(* instruction of the skeleton.  A branch depends on data: it is taken or  *)
(* not.  AlternationStart clears the core's own alternation register.      *)
(***************************************************************************)
Busy == {c \in Cores : corePid[c] # NoProcess}
NextInstruction(c) == Code[pc[corePid[c]]]
ChannelOf(c) ==
  LET i == NextInstruction(c)
  IN  IF i.name \in Names THEN env[corePid[c]][i.name] ELSE 0

Message(c) ==
  LET i == NextInstruction(c)
      ch == ChannelOf(c)
  IN  IF i.op \in {"jump", "branch"} THEN NoMessage
      ELSE [op |-> i.op, name |-> i.name, chan |-> ch, to |-> i.to,
            value |-> IF i.op = "send" /\ ch \in Channels
                      THEN sent[ch] + 1 ELSE 0]

NextPC(c, taken) ==
  IF NextInstruction(c).op = "jump" \/ c \in taken
  THEN NextInstruction(c).to ELSE pc[corePid[c]] + 1

CoresTick ==
  /\ phase = "cores"
  /\ \E late \in SUBSET {c \in Busy : spare[corePid[c]] > 0} :
     LET acting == Busy \ late
         on(p, cs) == \E c \in cs : corePid[c] = p
         coreOf(p) == CHOOSE c \in Busy : corePid[c] = p
     IN
     \E taken \in SUBSET {c \in acting : NextInstruction(c).op = "branch"} :
       /\ msg' = [c \in Cores |-> IF c \in acting THEN Message(c)
                                  ELSE NoMessage]
       /\ pc' = [p \in Cells |-> IF on(p, acting) THEN NextPC(coreOf(p), taken)
                                 ELSE pc[p]]
       /\ spare' = [p \in Cells |-> IF on(p, late) THEN spare[p] - 1
                                    ELSE spare[p]]
       /\ hasAltValue' = [c \in Cores |-> hasAltValue[c] /\
                            ~(c \in acting /\ NextInstruction(c).op = "altstart")]
       /\ sent' = [ch \in Channels |->
                     IF \E c \in acting : /\ NextInstruction(c).op = "send"
                                          /\ ChannelOf(c) = ch
                     THEN sent[ch] + 1 ELSE sent[ch]]
  /\ phase' = "handle" /\ at' = 0
  /\ UNCHANGED <<ret, tasks, idle, env, allocNumber, tableVars, channelVars,
                 altSet, altReady, live, got, started, ended>>

-----------------------------------------------------------------------------
(***************************************************************************)
(* The handlers of the messages, in core order.  `me` is the process of    *)
(* the core whose message is handled, `chan` the channel the message names.*)
(***************************************************************************)
me == corePid[at]
chan == msg[at].chan

Handling(op) == phase = "handle" /\ at < NCores /\ msg[at].op = op
OnChannel(op) == Handling(op) /\ chan \in Channels
NextCore == at' = at + 1 /\ UNCHANGED <<phase, msg, idle, tableVars>>
Answer(a) == ret' = [ret EXCEPT ![at] = a]
AddTasks(ts) == tasks' = tasks \o ts

(* A handler that leaves only tasks, and a step to the next loop. *)
OnlyAdd(ts) ==
  AddTasks(ts) /\ NextCore /\ UNCHANGED <<ret, cellVars, channelVars, altVars,
                                          history>>
Begin(loop, first) ==
  phase' = loop /\ at' = first /\ UNCHANGED <<tickVars, machine>>

(* A tick that returns Err, or meets an assertion, ends the run. *)
Fail == phase' = "failed" /\ UNCHANGED <<at, tickVars, machine>>

HandleNothing == Handling("none") /\ OnlyAdd(<<>>)
HandleYield == Handling("yield") /\ OnlyAdd(<<Deschedule(me)>>)
HandleHalt == Handling("halt") /\ OnlyAdd(<<Destroy(me)>>)

(***************************************************************************)
(* StartProcess takes the first dead process, whose state it does not      *)
(* change: only the Schedule task does, later in the tick.  The new        *)
(* process gets the top of its parent's stack, here all of it.  (That the  *)
(* new process is not its parent is asserted and always true: a process    *)
(* that executes an instruction is not dead.)                              *)
(***************************************************************************)
DeadOrStopped ==      \* mutant: any process without a core counts as free
  {p \in Pids : proc[p].tag \in {"dead", "inactive"}}

DeadPids == {p \in Pids : proc[p] = Dead}

NextAllocNumber == Cardinality(DOMAIN allocNumber)

HandleStartProcess ==
  /\ Handling("start")
  /\ \E new \in DeadPids :
       /\ \A p \in DeadPids : new <= p
       /\ pc' = [pc EXCEPT ![new] = msg[at].to]
       /\ env' = [env EXCEPT ![new] = env[me]]
       /\ spare' = [spare EXCEPT ![new] = Delays]
       /\ allocNumber' = [p \in DOMAIN allocNumber \cup {new} |->
                            IF p = new THEN NextAllocNumber
                            ELSE allocNumber[p]]
       /\ AddTasks(<<Schedule(new)>>)
  /\ started' = started + 1
  /\ NextCore
  /\ UNCHANGED <<ret, channelVars, altVars, live, sent, got, ended>>

HandleStartProcessFails ==
  Handling("start") /\ DeadPids = {} /\ Fail

(***************************************************************************)
(* A fresh channel is empty: its words may still hold a link of the heap's *)
(* free list.                                                              *)
(***************************************************************************)
HandleCreateChannel ==
  /\ Handling("chan")
  /\ \E ch \in Channels :
       /\ ChannelHeap!AllocNew(ch) \/ ChannelHeap!AllocFreed(ch)
       /\ word' = [word EXCEPT ![ch] = NoProcess]
       /\ value' = [value EXCEPT ![ch] = 0]
       /\ Answer([NoAnswer EXCEPT !.kind = "created", !.value = ch,
                                  !.name = msg[at].name])
       /\ live' = live \cup {ch}
       /\ sent' = [sent EXCEPT ![ch] = 0]
       /\ got' = [got EXCEPT ![ch] = <<>>]
  /\ NextCore
  /\ UNCHANGED <<tasks, cellVars, altVars, started, ended>>

HandleCreateChannelFails ==
  Handling("chan") /\ ChannelHeap!OutOfMemory /\ Fail

HandleDeleteChannel ==
  /\ OnChannel("del")
  /\ ChannelHeap!FreeBlock(chan)
  /\ live' = live \ {chan}
  /\ NextCore
  /\ UNCHANGED <<ret, tasks, cellVars, value, altVars, sent, got, started,
                 ended>>

(***************************************************************************)
(* channel_listeners and channel_messages: a Send and a Receive that two   *)
(* cores issue on one channel in one tick meet without touching the        *)
(* channel.  A later core's message replaces an earlier one's.             *)
(***************************************************************************)
Issuing(op, ch) == {c \in Cores : msg[c].op = op /\ msg[c].chan = ch}
NobodyListening(ch) == FALSE      \* mutant: a send ignores its own tick

Listening(ch) == Issuing("recv", ch) # {}
Offered(ch) == Issuing("send", ch) # {}
OfferedValue(ch) ==
  LET last == CHOOSE c \in Issuing("send", ch) :
                \A d \in Issuing("send", ch) : d <= c
  IN  msg[last].value

SendMeetsReceive ==
  OnChannel("send") /\ Listening(chan) /\ OnlyAdd(<<>>)

(***************************************************************************)
(* Processor::send: the three cases of what the channel's word holds.      *)
(***************************************************************************)
Sending ==
  /\ OnChannel("send")
  /\ ~Listening(chan)
  /\ value' = [value EXCEPT ![chan] = msg[at].value]
  /\ NextCore
  /\ UNCHANGED <<ret, cellVars, heapEnd, heapFree, altSet, hasAltValue, live,
                 sent, started, ended>>

SendParks ==
  /\ Sending
  /\ Empty(chan)
  /\ Park(chan, me, FALSE)
  /\ AddTasks(<<Deschedule(me)>>)
  /\ UNCHANGED <<altReady, got>>

SendUnmarked ==       \* mutant: the sender wakes the alternation, unrecorded
  /\ Sending
  /\ ~Empty(chan) /\ InAlternation(word[chan])
  /\ LET rx == PidOf(word[chan])
     IN  /\ altReady' = altReady \cup {rx}
         /\ AddTasks(<<Schedule(rx), Deschedule(me)>>)
  /\ UNCHANGED <<word, got>>

SendToAlternation ==
  /\ Sending
  /\ ~Empty(chan) /\ InAlternation(word[chan])
  /\ Park(chan, me, TRUE)
  /\ LET rx == PidOf(word[chan])
     IN  IF rx \in altReady
         THEN AddTasks(<<Deschedule(me)>>) /\ UNCHANGED altReady
         ELSE /\ altReady' = altReady \cup {rx}
              /\ AddTasks(<<Schedule(rx), Deschedule(me)>>)
  /\ UNCHANGED got

SendToReceiver ==
  /\ Sending
  /\ ~Empty(chan) /\ ~InAlternation(word[chan])
  /\ PidOf(word[chan]) \in Cells
  /\ Park(chan, NoProcess, FALSE)
  /\ got' = [got EXCEPT ![chan] = Append(@, msg[at].value)]
  /\ AddTasks(<<Schedule(PidOf(word[chan]))>>)
  /\ UNCHANGED altReady

(* cells[rx_proc.pid]: the word of a deleted channel may hold an address.   *)
SendToReceiverFails ==
  /\ OnChannel("send") /\ ~Listening(chan)
  /\ ~InAlternation(word[chan]) /\ PidOf(word[chan]) \notin Cells
  /\ Fail

(***************************************************************************)
(* Receive, with the same-tick meeting and the two cases of                *)
(* Processor::receive.                                                     *)
(***************************************************************************)
Receiving ==
  /\ OnChannel("recv")
  /\ NextCore
  /\ UNCHANGED <<cellVars, value, heapEnd, heapFree, altVars, live, sent,
                 started, ended>>

ReceiveMeetsSend ==
  /\ Receiving
  /\ Offered(chan)
  /\ Answer([NoAnswer EXCEPT !.kind = "receive", !.chan = chan,
                             !.value = OfferedValue(chan)])
  /\ UNCHANGED <<tasks, word, got>>

ReceiveUnmarked ==    \* mutant: the receiver stops, unrecorded
  /\ Receiving
  /\ ~Offered(chan) /\ Empty(chan)
  /\ AddTasks(<<Deschedule(me)>>)
  /\ UNCHANGED <<ret, got, word>>

ReceiveRunsOn ==      \* mutant: the receiver is recorded but goes on
  /\ Receiving
  /\ ~Offered(chan) /\ Empty(chan)
  /\ Park(chan, me, FALSE)
  /\ UNCHANGED <<ret, got, tasks>>

ReceiveParks ==
  /\ Receiving
  /\ ~Offered(chan) /\ Empty(chan)
  /\ Park(chan, me, FALSE)
  /\ AddTasks(<<Deschedule(me)>>)
  /\ UNCHANGED <<ret, got>>

TakeWithoutWaking ==  \* mutant: the sender whose value is taken stays parked
  /\ Receiving
  /\ ~Offered(chan) /\ ~Empty(chan)
  /\ Park(chan, NoProcess, FALSE)
  /\ got' = [got EXCEPT ![chan] = Append(@, value[chan])]
  /\ UNCHANGED <<ret, tasks>>

ReceiveTakes ==
  /\ Receiving
  /\ ~Offered(chan) /\ ~Empty(chan)
  /\ Park(chan, NoProcess, FALSE)
  /\ got' = [got EXCEPT ![chan] = Append(@, value[chan])]
  /\ AddTasks(<<Schedule(PidOf(word[chan]))>>)
  /\ UNCHANGED ret

-----------------------------------------------------------------------------
(***************************************************************************)
(* Alternation.                                                            *)
(***************************************************************************)
HandleAlternationStart ==
  /\ Handling("altstart")
  /\ altSet' = altSet \cup {me}
  /\ NextCore
  /\ UNCHANGED <<ret, tasks, cellVars, channelVars, altReady, hasAltValue,
                 history>>

HandleAlternationWait ==
  /\ Handling("altwait")
  /\ OnlyAdd(IF me \in altReady THEN <<>> ELSE <<Deschedule(me)>>)

HandleAlternationEnd ==
  /\ Handling("altend")
  /\ altSet' = altSet \ {me}
  /\ altReady' = altReady \ {me}
  /\ NextCore
  /\ UNCHANGED <<ret, tasks, cellVars, channelVars, hasAltValue, history>>

HandleEnableChannel ==
  /\ OnChannel("enable")
  /\ IF Empty(chan)
     THEN Park(chan, me, TRUE) /\ UNCHANGED altReady
     ELSE altReady' = altReady \cup {me} /\ UNCHANGED word
  /\ NextCore
  /\ UNCHANGED <<ret, tasks, cellVars, value, heapEnd, heapFree, altSet,
                 hasAltValue, history>>

(***************************************************************************)
(* disable_channel: the channel is still the process's own, or a sender is *)
(* there and its value is taken with a jump to the arm, or a value was     *)
(* taken before (as far as the core remembers) and the sender stays.       *)
(***************************************************************************)
Disabling ==
  /\ OnChannel("disable")
  /\ NextCore
  /\ UNCHANGED <<cellVars, value, heapEnd, heapFree, altVars, live, sent,
                 started, ended>>

DisableWithdraws ==
  /\ Disabling
  /\ ~Empty(chan) /\ PidOf(word[chan]) = me
  /\ Park(chan, NoProcess, FALSE)
  /\ UNCHANGED <<ret, tasks, got>>

DisableTakes ==
  /\ Disabling
  /\ ~Empty(chan) /\ PidOf(word[chan]) # me /\ ~hasAltValue[at]
  /\ got' = [got EXCEPT ![chan] = Append(@, value[chan])]
  /\ Park(chan, NoProcess, FALSE)
  /\ Answer([NoAnswer EXCEPT !.kind = "jump", !.value = msg[at].to])
  /\ AddTasks(<<Schedule(PidOf(word[chan]))>>)

DisableLeaves ==
  /\ Disabling
  /\ ~Empty(chan) => PidOf(word[chan]) # me /\ hasAltValue[at]
  /\ UNCHANGED <<ret, tasks, word, got>>

HandlingDone == phase = "handle" /\ at = NCores /\ Begin("deliver", 0)

-----------------------------------------------------------------------------
(***************************************************************************)
(* The answer of a core reaches it (Core::message); a core without a       *)
(* process joins the inactive cores.  A value received in the same tick    *)
(* sets the core's alternation register.                                   *)
(***************************************************************************)
Deliver ==
  /\ phase = "deliver" /\ at < NCores
  /\ LET a == ret[at]
     IN  /\ env' = IF a.kind = "created"
                   THEN [env EXCEPT ![me][a.name] = a.value] ELSE env
         /\ pc' = IF a.kind = "jump"
                  THEN [pc EXCEPT ![me] = a.value] ELSE pc
         /\ hasAltValue' = IF a.kind = "receive"
                           THEN [hasAltValue EXCEPT ![at] = TRUE]
                           ELSE hasAltValue
         /\ got' = IF a.kind = "receive"
                   THEN [got EXCEPT ![a.chan] = Append(@, a.value)] ELSE got
  /\ idle' = IF me = NoProcess THEN Append(idle, at) ELSE idle
  /\ at' = at + 1
  /\ UNCHANGED <<phase, msg, ret, tasks, tableVars, spare, allocNumber,
                 channelVars, altSet, altReady, live, sent, started, ended>>

DeliverDone == phase = "deliver" /\ at = NCores /\ Begin("deschedule", 1)

(***************************************************************************)
(* set_process_state: the state byte, and the core's entry if it runs.     *)
(***************************************************************************)
SetState(p, state) == proc' = [proc EXCEPT ![p] = state]
task == tasks[at]
TaskIn(loop) == phase = loop /\ at <= Len(tasks)
NextTask ==
  /\ at' = at + 1
  /\ UNCHANGED <<phase, msg, ret, tasks, cellVars, channelVars, altVars, live,
                 sent, got, started>>

DescheduleKeepsCore ==  \* mutant: the state is overwritten before it is read
  /\ TaskIn("deschedule")
  /\ IF task.kind = "schedule"
     THEN UNCHANGED <<proc, finalStacks, ended>>
     ELSE /\ SetState(task.pid,
                      IF task.kind = "destroy" THEN Dead ELSE Inactive)
          /\ finalStacks' = IF task.kind = "destroy"
                            THEN finalStacks \cup {allocNumber[task.pid]}
                            ELSE finalStacks
          /\ ended' = IF task.kind = "destroy" THEN ended + 1 ELSE ended
  /\ UNCHANGED <<corePid, idle>>
  /\ NextTask

DescheduleTask ==
  /\ TaskIn("deschedule")
  /\ IF task.kind = "schedule"
     THEN UNCHANGED <<corePid, proc, idle, finalStacks, ended>>
     ELSE /\ IF IsRunning(task.pid)
             THEN /\ corePid' = [corePid EXCEPT ![proc[task.pid].core] =
                                   NoProcess]
                  /\ idle' = Append(idle, proc[task.pid].core)
             ELSE UNCHANGED <<corePid, idle>>
          /\ SetState(task.pid,
                      IF task.kind = "destroy" THEN Dead ELSE Inactive)
          /\ finalStacks' = IF task.kind = "destroy"
                            THEN finalStacks \cup {allocNumber[task.pid]}
                            ELSE finalStacks
          /\ ended' = IF task.kind = "destroy" THEN ended + 1 ELSE ended
  /\ NextTask

DescheduleDone ==
  phase = "deschedule" /\ at > Len(tasks) /\ Begin("schedule", 1)

(***************************************************************************)
(* inactive_cores.pop(): the process p runs on the core collected last.    *)
(***************************************************************************)
RunOnLastCore(p) ==   \* mutant: last() instead of pop()
  LET c == idle[Len(idle)]
  IN  /\ corePid' = [corePid EXCEPT ![c] = p]
      /\ SetState(p, Running(c))
      /\ UNCHANGED idle

RunOnIdleCore(p) ==
  LET c == idle[Len(idle)]
  IN  /\ idle' = SubSeq(idle, 1, Len(idle) - 1)
      /\ corePid' = [corePid EXCEPT ![c] = p]
      /\ SetState(p, Running(c))

ScheduleUnchecked ==  \* mutant: without the assertion on the process's number
  /\ TaskIn("schedule")
  /\ \/ /\ \/ task.kind # "schedule"
           \/ task.pid \in Cells /\ IsRunning(task.pid)
        /\ UNCHANGED <<corePid, proc, idle>>
     \/ /\ task.kind = "schedule"
        /\ task.pid \in Cells => ~IsRunning(task.pid)
        /\ IF idle # <<>> THEN RunOnIdleCore(task.pid)
           ELSE SetState(task.pid, Waiting) /\ UNCHANGED <<corePid, idle>>
  /\ NextTask
  /\ UNCHANGED <<finalStacks, ended>>

ScheduleTask ==
  /\ TaskIn("schedule")
  /\ \/ /\ task.kind # "schedule"
        /\ UNCHANGED <<corePid, proc, idle>>
     \/ /\ task.kind = "schedule" /\ task.pid \in Cells
        /\ IF IsRunning(task.pid) THEN UNCHANGED <<corePid, proc, idle>>
           ELSE IF idle # <<>> THEN RunOnIdleCore(task.pid)
           ELSE SetState(task.pid, Waiting) /\ UNCHANGED <<corePid, idle>>
  /\ NextTask
  /\ UNCHANGED <<finalStacks, ended>>

ScheduleFails ==      \* assert!(pid < self.cells.len())
  TaskIn("schedule") /\ task.kind = "schedule" /\ task.pid \notin Cells /\ Fail

ScheduleDone == phase = "schedule" /\ at > Len(tasks) /\ Begin("fill", 0)

WaitingPids == {p \in Pids : proc[p].tag = "waiting"}

Fill ==
  /\ phase = "fill" /\ idle # <<>>
  /\ \E p \in WaitingPids :
       /\ \A q \in WaitingPids : p <= q
       /\ RunOnIdleCore(p)
  /\ UNCHANGED <<phase, at, msg, ret, tasks, finalStacks, cellVars,
                 channelVars, altVars, history>>

EndTickAtOnce ==      \* mutant: free cores are left to the next tick
  /\ phase = "fill"
  /\ phase' = IF \A c \in Cores : corePid[c] = NoProcess
              THEN "halted" ELSE "cores"
  /\ at' = 0
  /\ msg' = [c \in Cores |-> NoMessage]
  /\ ret' = [c \in Cores |-> NoAnswer]
  /\ tasks' = <<>> /\ idle' = <<>>
  /\ UNCHANGED machine

EndTick ==
  /\ phase = "fill" /\ (idle = <<>> \/ WaitingPids = {})
  /\ phase' = IF \A c \in Cores : corePid[c] = NoProcess
              THEN "halted" ELSE "cores"
  /\ at' = 0
  /\ msg' = [c \in Cores |-> NoMessage]
  /\ ret' = [c \in Cores |-> NoAnswer]
  /\ tasks' = <<>> /\ idle' = <<>>
  /\ UNCHANGED machine

-----------------------------------------------------------------------------
Handle ==
  \/ HandleNothing \/ HandleYield \/ HandleHalt
  \/ HandleStartProcess \/ HandleStartProcessFails
  \/ HandleCreateChannel \/ HandleCreateChannelFails \/ HandleDeleteChannel
  \/ SendMeetsReceive \/ SendParks \/ SendToAlternation \/ SendToReceiver
  \/ SendToReceiverFails
  \/ ReceiveMeetsSend \/ ReceiveParks \/ ReceiveTakes
  \/ HandleAlternationStart \/ HandleAlternationWait \/ HandleAlternationEnd
  \/ HandleEnableChannel
  \/ DisableWithdraws \/ DisableTakes \/ DisableLeaves
  \/ HandlingDone

Assign ==
  \/ Deliver \/ DeliverDone
  \/ DescheduleTask \/ DescheduleDone
  \/ ScheduleTask \/ ScheduleFails \/ ScheduleDone
  \/ Fill \/ EndTick

Next == CoresTick \/ Handle \/ Assign

Spec == Init /\ [][Next]_vars

(* Processor::run calls tick until it says Halted. *)
FairSpec == Spec /\ WF_vars(Next)

-----------------------------------------------------------------------------
Task == [kind : {"schedule", "deschedule", "destroy"}, pid : Nat]
States == {Dead, Inactive, Waiting} \cup {Running(c) : c \in Cores}

(* Every table of the processor holds values of its kind. *)
TypeOK ==
  /\ phase \in {"cores", "handle", "deliver", "deschedule", "schedule",
                "fill", "halted", "failed"}
  /\ at \in Nat
  /\ corePid \in [Cores -> Cells]
  /\ proc \in [Cells -> States]
  /\ tasks \in Seq(Task)
  /\ idle \in Seq(Cores)
  /\ word \in [Channels -> Nat]
  /\ heapFree \in Nat
  /\ altSet \subseteq Cells
  /\ hasAltValue \in [Cores -> BOOLEAN]

(***************************************************************************)
(* The map core_to_process and the state bytes of the process table, which *)
(* set_process_state and the Deschedule tasks of tick update separately,   *)
(* tell the same story at every moment: a core's process is Running on     *)
(* that core, and a Running process is its core's process.  In particular  *)
(* no process ever runs on two cores.                                      *)
(***************************************************************************)
CoresAndTableAgree ==
  /\ \A c \in Cores : corePid[c] # NoProcess =>
                        proc[corePid[c]] = Running(c)
  /\ \A p \in Cells : IsRunning(p) =>
                        /\ proc[p].core \in Cores
                        /\ corePid[proc[p].core] = p

(***************************************************************************)
(* While tick hands out cores, inactive_cores lists each core without a    *)
(* process once, and no other core: two Schedule tasks never pop one core. *)
(***************************************************************************)
IdleListExact ==
  phase \in {"deschedule", "schedule", "fill"} =>
    /\ \A i \in 1 .. Len(idle) : corePid[idle[i]] = NoProcess
    /\ \A i, j \in 1 .. Len(idle) : i # j => idle[i] # idle[j]
    /\ \A c \in Cores : corePid[c] = NoProcess =>
                          \E i \in 1 .. Len(idle) : idle[i] = c

(***************************************************************************)
(* Between ticks no process waits for a core while a core has none, and    *)
(* the processor does not halt with a process waiting.                     *)
(***************************************************************************)
WorkConserving ==
  phase \in {"cores", "halted"} /\ WaitingPids # {} =>
    \A c \in Cores : corePid[c] # NoProcess

(***************************************************************************)
(* Between ticks, an inactive process that did not yield is written in the *)
(* word of a channel, where its partner will find it: no wake-up is lost   *)
(* between the handling of a message and the tasks it leaves for later.    *)
(***************************************************************************)
LastInstruction(p) == Code[pc[p] - 1]
Yielded(p) == proc[p] = Inactive /\ LastInstruction(p).op = "yield"
Parked(p) == {ch \in live : PidOf(word[ch]) = p}

NoLostWakeUp ==
  phase = "cores" =>
    \A p \in Pids : proc[p] = Inactive => Yielded(p) \/ Parked(p) # {}

(***************************************************************************)
(* Between ticks, the process in a channel's word is really stopped there: *)
(* it is inactive, its last instruction is a send or receive on that very  *)
(* channel, and it is in no other word; but for the words in which a       *)
(* process that alternates has only left its mark.                         *)
(***************************************************************************)
OnlyMarked(ch) ==
  /\ InAlternation(word[ch])
  /\ LastInstruction(PidOf(word[ch])).op \notin {"send", "recv"}

ParkedProcessesStopped ==
  phase = "cores" =>
    \A ch \in live : ~Empty(ch) /\ ~OnlyMarked(ch) =>
      LET p == PidOf(word[ch])
      IN  /\ proc[p] = Inactive
          /\ LastInstruction(p).op \in {"send", "recv"}
          /\ env[p][LastInstruction(p).name] = ch
          /\ Parked(p) = {ch}

(***************************************************************************)
(* Communication is a rendezvous.  The values received from a channel are  *)
(* the values sent, each once and in order, also when a meeting inside a   *)
(* tick follows a meeting through memory; and between ticks a value sent   *)
(* and not yet received has its sender parked in the channel.              *)
(***************************************************************************)
Rendezvous ==
  /\ \A ch \in live : \A i \in 1 .. Len(got[ch]) : got[ch][i] = i
  /\ phase = "cores" =>
       \A ch \in live :
         LET inFlight == sent[ch] - Len(got[ch])
         IN  /\ inFlight \in {0, 1}
             /\ (inFlight = 1) <=>
                  (~Empty(ch) /\ LastInstruction(PidOf(word[ch])).op = "send")

(***************************************************************************)
(* Between ticks, every process started and not ended has a place in the   *)
(* process table: new_process, which finds a slot many steps before the    *)
(* slot is marked, never lets a process overwrite another.  (Programs in   *)
(* which two processes never start one in the same tick.)                  *)
(***************************************************************************)
NoProcessLost ==
  phase \in {"cores", "halted"} =>
    Cardinality({p \in Pids : proc[p] # Dead}) = started - ended

(***************************************************************************)
(* Every process that ended left a final stack of its own: the number      *)
(* StartProcess gives it is no other process's.  (Programs that do not     *)
(* reuse the slot of a process.)                                           *)
(***************************************************************************)
FinalStacksDistinct == Cardinality(finalStacks) = ended

(***************************************************************************)
(* What new_process and StartProcess owe a process: a place in the table   *)
(* as long as it lives, and a final stack of its own when it has ended.    *)
(***************************************************************************)
ProcessesKept == NoProcessLost /\ FinalStacksDistinct

(***************************************************************************)
(* An alternation that waited finds a sender when it is woken, and leaves  *)
(* through that sender's arm: it does not run on to the AlternationEnd     *)
(* after its last DisableChannel, with the sender still parked.            *)
(***************************************************************************)
AlternationServed ==
  phase = "cores" =>
    \A p \in Pids : proc[p] # Dead => Code[pc[p]].op # "altend"

(***************************************************************************)
(* When the processor halts no sender is left parked in the word of a      *)
(* channel whose receiver it found in an alternation.                      *)
(***************************************************************************)
DisableWakesSender ==
  phase = "halted" =>
    \A ch \in live : ~Empty(ch) /\ InAlternation(word[ch]) =>
                       LastInstruction(PidOf(word[ch])).op # "send"

(***************************************************************************)
(* What a process received from a channel was sent on it.                  *)
(***************************************************************************)
ReceivedWasSent ==
  \A ch \in live : \A i \in 1 .. Len(got[ch]) : got[ch][i] \in 1 .. sent[ch]

(***************************************************************************)
(* Every process of a program in which sends and receives match runs to    *)
(* its end, and nothing else ends the run.  Only a sender waits for ever   *)
(* whose message is not wanted any more, because its receiver took another *)
(* arm of its alternation: no other process is left then.                  *)
(***************************************************************************)
PassedOver(p) ==
  /\ LastInstruction(p).op = "send"
  /\ \E ch \in Parked(p) : Len(got[ch]) < sent[ch]
  /\ \A q \in Pids : q # p => proc[q] = Dead

EveryProcessEnds ==
  <>(phase = "halted" /\ \A p \in Pids : proc[p] = Dead \/ PassedOver(p))
==============================================================================
