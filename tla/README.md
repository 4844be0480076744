# Statick and Stannel in TLA+

Stannel is a small concurrent processor: cores that execute stack code, a
process table, channels on which processes rendezvous, and alternations that
wait on several channels. It exists twice, as an instruction-level simulator
in Rust (`statick-tools/src/lib/processor` and its neighbours) and as hardware
in Verilog (`stannel/`). Statick is a typed stack language whose compiler
(`statick-tools/src/lib/statick`) produces Stannel assembly. This directory
specifies the concurrent core of that system, in both of its forms, and the
way of a Statick program from its words through the type checker, the code
generator and the assembler to the simulated cores; checks it with TLC; and
proves its bookkeeping with TLAPS.

## Inventory

| Part | State | Operations | What is hard | What makes it correct |
|---|---|---|---|---|
| Simulated processor (`processor/mod.rs`) | core_to_process, state bytes, channel words, alternation sets, scheduler tasks | `tick`: 13 message handlers, delivery, three scheduling loops | a tick handles the cores one after the other and schedules later; partners meet inside a tick or through memory | tables agree, no core assigned twice, no wake-up lost, rendezvous, every process ends |
| Simulated heap (`memory/heap.rs`) | bump pointer, free list threaded through the blocks | alloc, free | clients write where the links are | blocks disjoint, nothing leaks |
| Simulated core (`core/core_impl.rs`) | flags and the alternation register of a core | one instruction | the registers stay with the core when the process moves | a process sees its own registers |
| Memory cells and stacks (`memory`, `process`) | 512 bytes with a header and two stacks | push, pop, peek, copy, header accesses | the stacks grow towards each other; words of the parent are copied to the child | a word pushed is the word popped; nothing else changes |
| Flags and conditions (`flags.rs`, `condition.rs`) | four bits | set by a comparison, tested, inverted, saved | wrap-around and signs | a condition holds when the order of the operands says so |
| Instruction set (`isa`) | none | encode, decode, shortest push, mnemonics | variable-width pushes | a byte decodes to the instruction it encodes |
| Assembler (`assembler`) | blocks, label table | cut into blocks, shorten, lay out | the width of a push depends on addresses, which depend on widths | every label is pushed as the address it has |
| Lexer, parser, syntax tree (`lexer.rs`, `parser.rs`, `ast.rs`) | position in the tokens | recursive descent | where a term ends is known one token later | what is read is what was written |
| Type checker (`types.rs`, `types/`) | type environment, generic counters | infer, unify, specialise | linear uses of channels, split between processes; generic types and stack variables | a term that is accepted runs clean and leaves what its type says |
| Code generator, optimizer (`codegen.rs`, `optimizer.rs`) | blocks, union-find table | rename, generate, inline, collapse, fold | jumps to jumps, jumps that fall through, any order of the functions | the code does what the term means |
| Hardware scheduler (`Scheduler.v`) | two cores, ring of waiting processes | schedule, deschedule, halt test | requests while it works; stale process numbers | no process on two cores, none forgotten |
| Channel controller (`ChannelController.v`, `Send.v`, `Receive.v`, `Enable.v`, `Disable.v`) | channel words in memory, the two alternation sets | create, destroy, send, receive, enable, disable, begin, wait for and end an alternation | each is a sequence of memory accesses over several cycles, by a unit that is started and dropped in its own way | the same synchronous channels as the simulator's; who stops is found again; one value for an alternation |
| Process allocator, copier (`ProcessAllocator.v`, `Copier.v`) | free list of cells | start a process | exhaustion, copy bounds | distinct cells |
| Message handler, delivery (`ProcessorMessageHandler.v`, `MessageDelivery.v`) | the current message | dispatch, reply | the core may have stopped the process | every message is answered once |
| Hardware heap (`Heap.v`) | as the simulator's | alloc, free | exhaustion test | as the simulator's |
| Cores (`Core.v`, `Execute.v`, ...), ALU, processor, SoC | pipeline registers | instruction execution, arbitration | memory port shared by all units | one owner at a time |

A Statick program is lexed, parsed, checked and compiled to blocks of tokens,
the assembler lays them out as bytes, and these are loaded into the program
memory that all cores share.

The processor calls the core for an instruction and gets a message back
(`CoreMessage`); handlers read and write channel words and leave tasks
(`SchedulerMessage`); answers (`ControllerMessage`) go back to the cores before
the tasks are carried out. Channels live in blocks of the heap.

`PROJECT.json` lists every component with its status, and every hazard of the
code at its line with the properties that watch it.

## Modules

| Module | Models |
|---|---|
| `Allocator` | what a block allocator promises |
| `Heap` | the operations of `memory/heap.rs` |
| `HeapClient` | the heap under every client that returns only what it holds; shown to implement `Allocator` |
| `MCHeap` | its instance for TLC |
| `Processor` | `processor/mod.rs` with `process/state.rs`, `process/channel.rs` and the part of `core/core_impl.rs` that reaches it |
| `Programs` | program skeletons |
| `Discipline` | what a program owes the processor in its use of channels, and the invariant of a tick that follows |
| `SynchronousChannels` | what channels promise the processes at their ends |
| `MCProcessor` | their instance for TLC |
| `ProcessorProofs` | theorems about `Processor` under every program |
| `ChannelProofs` | theorems about `Processor` under programs that keep the discipline |
| `Scheduler` | `stannel/Scheduler.v`, one action per clock edge and state |
| `SchedulerClient` | what shares its clock: the handler's requests (`ProcessorMessageHandler.v`) and the cores that post, save and resume (`Core.v`) |
| `DispatchQueue` | what a scheduler promises: a first come first served queue |
| `MCScheduler` | an instance for TLC |
| `SchedulerProofs` | theorems about `SchedulerClient` |
| `Memory` | `stannel/IceRam.v`: a memory that answers one edge later |
| `HardwareHeap` | `stannel/Heap.v` |
| `HardwareHeapClient` | that heap under clients that keep the rule at its head; shown to implement `Allocator`, as `HeapClient` is |
| `MCHardwareHeap` | its instance for TLC |
| `Copier` | `stannel/Copier.v` |
| `ProcessAllocator` | `stannel/ProcessAllocator.v`, with a `HardwareHeap` and a `Copier` inside |
| `ProcessAllocatorClient` | the process allocator as the message handler enables it |
| `MCProcessAllocator` | its instance for TLC |
| `ProcessAllocatorProofs` | theorems about `ProcessAllocatorClient` |
| `ChannelOperations` | `stannel/Send.v`, `Receive.v`, `Enable.v`, `Disable.v` |
| `ChannelController` | `stannel/ChannelController.v`, with those units, a `HardwareHeap` and a `Memory` inside |
| `ChannelControllerClient` | the controller as the message handler uses it for Statick programs; shown to implement `SynchronousChannels`, as `Processor` is |
| `MCChannelController` | its instance for TLC |
| `ChannelControllerProofs` | theorems about `ChannelControllerClient` |
| `Flags` | `core/flags.rs`, `core/condition.rs` |
| `Isa` | `isa.rs`, `isa/*.rs` |
| `MemoryCell` | `memory/*.rs`, the stacks of `process/` |
| `Core` | `core/core_impl.rs`, one action per instruction |
| `Machine` | cores and the processor that answers them, on real bytes and words |
| `Assembler` | `assembler/mod.rs` |
| `Statick` | the tokens and the tree (`lexer.rs`, `ast.rs`), and the writer of a tree |
| `Parser` | `statick/parser.rs` |
| `Types` | `statick/types.rs`, `statick/types/*.rs` |
| `Codegen` | `statick/codegen.rs`, `statick/codegen/optimizer.rs` |
| `Meaning` | what a sequential term does to a stack: a reference, no model of code |
| `Compiler` | `statick/compiler.rs`: the stages in a row, and the machine behind them |
| `MCCompiler` | the programs TLC compiles and runs |
| `Multiples` | lemmas about the addresses of blocks and about indices that wrap |
| `MemoryProofs` | theorems about `HeapClient`, and about the operators of `Flags` and `MemoryCell` |
| `HardwareHeapProofs` | theorems about `HardwareHeapClient` |

`ProcessAllocator` composes a `HardwareHeap`, a `Copier` and two memories;
`ChannelController` composes a `HardwareHeap`, a memory and four units;
`Processor` contains the `Heap`; `Machine` extends `Core`, which extends
`MemoryCell` and `Isa`; `Compiler` composes `Parser`, `Types`, `Codegen`,
`Assembler` and `Machine`.

### Processor

`tick` is cut at its loops. `phase` names the loop and `at` the index in it, so
that every handler, every delivered answer, every task and every core handed
out is a step of its own and an invariant is checked between them.

| TLA+ | Rust |
|---|---|
| `corePid[c]` (0: no entry) | `core_to_process` |
| `proc[p]` | the state byte of a cell |
| `word`, `value` | the two words of a channel |
| `altSet`, `altReady` | `alternation_set`, `alternation_ready_set` |
| `hasAltValue[c]` | `has_alternation_value` of core c |
| `msg`, `ret` | `messages`, `return_messages` |
| `tasks`, `idle` | `scheduler_tasks`, `inactive_cores` |
| `heapEnd`, `heapFree` | `channel_heap`, through `ChannelHeap == INSTANCE Heap` |
| `allocNumber`, `finalStacks` | `current_pid_to_alloc_number`, the keys of `final_stacks` |
| `CoresTick` | the loop over the cores and `Core::tick` |
| `Handle...`, `Send...`, `Receive...`, `Disable...` | the arms of the match, one action per outcome |
| `Deliver` | `Core::message` and the collection of inactive cores |
| `DescheduleTask`, `ScheduleTask`, `Fill`, `EndTick` | the three loops and the result |
| `Fail` | an `Err` or a failed assertion |

What a process computes is left out. A program is the skeleton of its
instructions that reach the processor (`Code`), and between any two of them a
process may execute other instructions: `Delays` bounds how many each, so
the cores meet in every relative position and not only in lockstep. A channel
on the stack is a named slot of `env`. A branch is taken or not. `live`,
`sent`, `got`, `started` and `ended` are history; no action reads them, except
that a send's value is the count of values sent on its channel, which makes
order visible.

### Scheduler

The variables are the registers of `Scheduler.v`, with the bit vector
`rScheduleState` as a set and the registers of the two cores as functions
(`active[c]` is `core0Active` and `core1Active`). `ram` and `dataOut` are its
memory, which answers one edge after the address. An address nobody drives
reads as `Undriven`, a word no process has for its number, so that a step that
used the word would break an invariant.

`SchedulerClient` adds the handler (`rHandler`: waiting for a message, the
scheduler enabled, or the final messages being delivered) and the cores
(`core[c]`: executing, saving its process, or in `STATE_AWAIT`). Of a message
it keeps what it asks of the scheduler: does its process leave its core, and
which process becomes runnable. A process that becomes runnable was not so
before, or is the sender, which yields. While the handler or the scheduler is
at work a core may post, or end saving, at every clock edge. Two edges of
independent parties are two steps: each reads only registers that the other
does not write in that state.

`runnable` is history: the processes the messages so far made runnable.

### Hardware heap and process allocator

A step is a clock edge here too. What a unit drives in a cycle is an operator
of its registers (`HeapPort`, `oldPort`, `newPort`, `wHeapFree`): an access to a
memory, `Read`, `Write` or `NoAccess`. `HeapClock`, `CopierClock` and `RamClock`
are the edges of the parts, and `PartsClock` and `CellsClock` those of everything
the process allocator owns, so that an edge moves all of them at once. Addresses
wrap at `MemorySize`; a word of a cell is two halves (`Pair`).

`HardwareHeapClient` keeps one request and drops it when the heap is finished.
`ProcessAllocatorClient` is the handler: a request is held in `request` until
`paFinished`, the allocator is disabled in between, and in that time processes
leave whatever stack they like in their cells (`SavedCell`; each word is
different from every other, so that a word copied to the wrong place shows).
`live`, `freed`, `made` and `before`, the cells when the request was made, are
history.

### Hardware channel controller

`ChannelOperations` has for each unit a record of its registers, an action for
each state of its machine (`SendHandleNull`, `SendHandleAlternation`, ...),
and what it asks of the memory (`SendPort`). `ChannelController` has an action
for each state of the controller; `starting`, `wSendEnabled`, `wFree` and the
others are the combinatorial signals, `MemoryPort` is the multiplexer, and
`PartsClock` moves the heap, the memory and the four units with every edge,
enabled or not. `answer` holds the registered outputs.

| TLA+ | Verilog |
|---|---|
| `ccState`, `ccFinished`, `channelOut` | `rState`, `finished`, `channelOut` |
| `answer` | `hasChannelOut`, `hasMessageOut`, `messageOut`, `hasSchedulePidOut`, `schedulePidOut`, `hasDeschedulePidOut`, `deschedulePidOut` |
| `alternationSet`, `alternationReadySet` | the bit vectors of these names |
| `send`, `receive`, `enable`, `disable` | `send0`, `rcv0`, `e0`, `dis0` |
| `channelRam`, `channelOutWord` | `ram0`, `dataOut` |
| `request`, `handler` | the inputs of the controller; `STATE_INIT` and `STATE_CHANNEL_CONTROLLER` of `ProcessorMessageHandler.v` |
| `parked` | the processes the answers so far took off their cores |

`ChannelControllerClient` enables the controller until it is finished, as the
handler does, and then applies the answer: a process is stopped, one is
scheduled, a value goes to the process that asked for it or to the one that is
woken (`Delivered`). Its processes keep to what Statick's types give a program: a channel has
one sender and one receiver, and is destroyed by its receiver when nothing is on
its way. An alternation enables any of its channels in any order, waits,
and disables all of them in any order: in the hardware the jump to an arm is
taken at its end. `hadMessage` is the core's `coreHadMessageInAlt`.

A sender may come at any time: before its arm is enabled, while the alternation
still enables others, while it is stopped, when it has been woken and while it
disables its arms. In two of these cases the hardware does what it should not
(see Disagreements), and the model follows it:

* A sender to an enabled arm of an alternation that has been woken is stopped and
  its word is cleared. `late` holds the channels of such senders, for good, and
  `cleared` those whose arm is not yet disabled.
* The scheduler is told to schedule a process that is not stopped: the one that
  still enables its arms, or process 0, which a cleared word names. The scheduler
  does not look. The cores then run processes that this model does not have, so
  it stops asking (`astray`), and the properties say what holds up to there.

A value that wakes an alternation is put on its stack when it is sent
(`ProcessorMessageHandler.v:636-642`, `MessageDelivery.v:99-133`, or
`Core.v:569-576`) and again when the arm is disabled (`Core.v:586-593`,
`Execute.v:396-404`). `delivered` counts both for the last value of each channel.
`got` has the values that receives and disables took, each at its receive or
disable; it says nothing about the stacks.
`live`, `made`, `tx`, `rx`, `sent`, `delivered`, `got`, `late`, `cleared`,
`astray` and `waited` are history.

### Compiler, core and machine

`Compiler` carries one program through its stages: `LexAndParse`, `CheckTypes`,
`GenerateCode`, `AssembleAndLoad`, each an action that takes what the stage
before made, or stops with the error or the panic of the code. The functions
of a program stand in a hash map, so `GenerateCode` takes any order of them.
`RunProgram` is a step of `Machine`.

| TLA+ | Rust |
|---|---|
| `Lex`, `Parse` | `Lexer`, `Parser::parse`; a parse result is a position with "ok", "none" (`Ok(None)`), "error" or "panic" |
| `TypeCheck`, `Visit`, `UnifyTypes`, `UnifyStacks`, `UnifyUses` | `type_check`, its visit of a declaration and the unifier of `mgu.rs`; one counter numbers what the code numbers with three |
| `Codegen`, `Collapsed`, `CollapseAdjacentBlocks`, `Peephole` | `codegen`, `collapse_adjacent_blocks` with its table of representatives, `optimizer::peephole`; a label is a path in the tree, where the code counts |
| `Assemble` | `assemble`: layout repeated until no address changes |
| `code`, `cells[p]`, `flags[p]`, `hasAlternationValue[p]` | program memory, the memory cell of a process, the registers of its core |
| the actions of `Core` | the arms of the match in `Core::tick` |
| the answers of `Machine` | the arms of `Processor::tick` |
| `failure` | "error" where the simulator returns an `Err` or panics; "misuse" where it would go on with a word that is no channel |

`Machine` is the complement of `Processor`. `Processor` has the exact order of
a tick, and programs without data; `Machine` has the bytes and the words, gives
each process a core of its own, and answers each message in one step at any
time after it was sent. So it allows every interleaving of the processes, and
not what depends on the phases of a tick or on cores that change hands.

`Meaning` says what a sequential program does without instructions, labels or
addresses. It shares the syntax tree with the compiler and nothing with
the machine; `RunsAsWritten` compares the two.

## Runs

| Run | Program | Bounds | Shows |
|---|---|---|---|
| `heap` | every client | 4 blocks of 4 bytes and 2 bytes left over | blocks disjoint, list intact, no leak, `Allocator` implemented |
| `channels` | parent and two workers; two arms with two senders | 2 cores, 3 processes, 2 channels that fill the heap, 4 delays each | tables, idle list, work conservation, wake-ups, rendezvous, all end; who waits in an alternation is woken and served by an arm whose sender is there; the workers keep the discipline the theorems ask for, and the invariant these are proved by; channels are blocks of an `Allocator`, and `SynchronousChannels` |
| `errors` | runs out of processes or channels, disables and ends what it never began, uses a deleted channel | 2 cores, 3 processes | the run stops before a table is damaged |
| `scheduler` | every sequence of requests | 3 processes, 4 words of list memory | nothing lost or held twice, halt test exact, messages routed, queue implemented; under fairness, requests answered and no starvation |
| `hwheap` | every client that keeps the rule of `Heap.v` | 3 blocks of 2 words, a memory of 10 | list intact whatever clients write, no leak, `Allocator` implemented |
| `start` | processes that start others and end | 3 cells of 8 words, at most 3 words passed, 4 processes made | a new process has its own cell and exactly the words passed; requests answered |
| `hwchannels` | three processes, two of which may send to the third | 2 channels in a memory of 8 words, 2 values each | until the scheduler is given a process that is not stopped: who stops is found, but for late senders; an alternation takes one value, which its stack gets twice if its sender woke it; every request is answered within seven cycles; the values taken are those of `SynchronousChannels` |
| `compiled` | 1847 programs, 114 of them tests of the repository | cells of 128 bytes, 3 processes, 2 channels | read as written; what type checks runs clean, leaves the stack its type says, means what was written, ends; the repository's programs, but for six, end with the stacks it states |
| `stale`, `sender` | see below | | two disagreements of the simulator |
| `links` | as `start` | | a disagreement of the hardware |
| `alternating` | one alternation | as `compiled` | a disagreement of the compiler |

Two cores are the smallest number on which a tick has an order; three and four
processes keep one waiting for a core; the channel heap has room for the
channels of the program and no more, so that recycled blocks occur. The delays
are large enough for every action to fire (the runs were examined for that)
and for either partner of a meeting to come first by more than one tick.

Three processes on the scheduler's two cores leave one in the list, and at
times all three while a request is handled; with four words of list memory the
indices wrap every few requests. This run does not check for deadlock: every
process may have ended, or be parked on a channel.

The runs of `Processor` do not check for deadlock: a processor halts or fails,
and both end the behaviour.

Liveness (`EveryProcessEnds`) assumes `WF_vars(Next)` and nothing finer:
`Processor::run` calls `tick` until it says `Halted`, in one thread. Which
core comes first, and which task, is fixed by the code and not by fairness.
In `scheduler` the scheduler, the handler and a core that saves or has a message
to take are fair, because a clock drives them; that a process posts a message
is not assumed, except that `EveryoneGetsATurn` speaks of behaviours in which
processes keep leaving their cores.

With three blocks the heap is exhausted, and a list of three links has a middle.
A cell of eight words has room for its two header words, three words on a stack
and a gap; stacks of 0 to 3 words, of which any number is passed, cover an empty
copy, one and several. `MaxMade` of `start` is the number of cells and one more:
every cell is used once, and one of them a second time. It is the range in
which `NewProcessIsNew` holds, and the hypothesis under which it is proved;
beyond it the free list decides, and `links` shows what that list looks like
(with one process more TLC finds a number handed to two living processes).
No client asks for a block or a cell when none is left: the hardware heap would
answer with whatever `heapFree` holds, 0 out of reset, and nothing in the
hardware prevents it (listed as a hazard).
In `start` the clock is fair (an edge while a request is pending
comes), and that a client asks is not assumed.

In `hwchannels` two channels are the least on which an alternation has a choice,
and two values the least that can be overtaken or taken twice. TLC finds 2.4
million states, in which late senders, cleared words and values put on a stack
twice all occur, and both ways astray. The end of the
heap is odd as it is in the code (255 there, 7 here). The check for deadlock is
on: the clock does not stop (`Elsewhere`). `AnsweredInTime` bounds the time of a
request, so no fairness is needed to say that it is answered.

The programs of `compiled` are all terms of three words over a small
vocabulary, terms with pushed words, all nestings of two levels of branches and
loops, three functions that call, push and recurse into each other, two
processes that use a channel in every short way, texts that the parser must refuse,
and the programs of the repository. Many channel programs are refused by the
checker, as they should be: 27 of 486 are accepted.

`RunsAsExpected` is about the 116 programs that come with final stacks. They are,
word for word, the 63 programs that `compiler/test.rs` compiles and runs, 46 of
the 49 programs under `programs/` that say `# Expect`, 5 of the 8 programs of
`processor/mod.rs` whose stack a test asserts; the program of `README.md`, which
must leave the 42 it sends; and a pipeline of three processes of our own. The
tests of `core_impl.rs` set up a core by hand and are not among them. Six programs
are left out, because they do not end with the stacks stated in every
interleaving; `ContradictedTests` in `MCCompiler` has them:

* `programs/yield.txt` and `programs/yield_with_other_procs.txt`: a process that
  yields is not scheduled again (`processor/mod.rs:217`). A program that yields
  is among those run without an expected stack, to fire the action.
* `programs/alt_two_chan_subsequent.txt` (`# Expect: 40 44 2 0`): after its first
  alternation it begins a second one, which enables a channel of the first. The
  jump of the disable left the process in that word and in the ready set
  (the finding of `stale`), and in other interleavings than the simulator's the
  program ends with other stacks, as 4 44 2 0.
* the tests `alternation`, `alternation_long` and `alternation_very_long` of
  `processor/mod.rs`, which receive on a channel after an alternation, for the same
  reason: what they assert holds in their timing.

Constants fold, blocks of every shape collapse, and labels need pushes of one
and of two bytes, within programs of at most 127 bytes (`set_instructions`
takes fewer bytes than a cell has; the code's cell has 512). Three processes and
two channels are what the largest of these programs makes.
`EveryProgramEnds` assumes that the simulator goes on while a process runs.
This is `WF_vars(RunProgram)`, with its ENABLED written out as `CanRun`,
because TLC takes very long to evaluate it; that a machine which has not
stopped can take a step is what the check for deadlock shows, which is on in
this run (`Rest` is the only stutter, and only when a program is refused or has
ended).

### Disagreements

* `stale`: a successful DisableChannel jumps to its arm, so the other arms are
  not disabled. The other channel's word still names the alternating process,
  whose next receive takes itself for the sender. The program is the one of the
  test `alternation_very_long`, whose timing avoids it.
* `sender`: `has_alternation_value` is a register of a core. A value received
  inside a tick by another process on that core makes `disable_channel` pass
  over a ready sender, which then is parked for ever.
* `links`: in `STATE_WAIT_FOR_HEAP_FREE` the process allocator asks the heap to
  free again in the very cycle in which it is finished. The second free links
  the cell to itself, and the cells freed before it are lost.
* `alternating`: the code generator pushes the label of an arm and then the
  channel before each DisableChannel; the core takes the destination from the
  top and the channel below it. A well-typed program disables a word that is no
  channel.

Modelling the hardware and the simulator's processor showed more, which no run
states:

* `processor/mod.rs:217`: `tick` answers Yield with a `Deschedule` task alone, and
  nothing schedules the process again. `programs/yield.txt` expects the process
  to end, and the hardware reschedules it at once. `NoLostWakeUp` leaves such a
  process out.
* `Send.v:151-163`: a sender to an enabled arm of an alternation that was already
  woken is stopped, and the word in which it should be found is cleared: nobody
  schedules it again. The comment above (`Send.v:147-148`) counts on the
  disable to do so: "This is handled in the sender's disable channel." The simulator
  parks it. The testbench (`ChannelController_tb.v:283-340`) asks only that it
  is stopped. `StoppedAreParked` holds for every other process (`late`).
* `Send.v:146`: a sender that comes to an enabled arm before ALT_WAIT schedules the
  alternating process, which runs; and `Disable.v:114-128`: a word of 0 is not the
  process itself, so it counts as a sender with the number 0. The word is 0 only
  after a late sender. `Scheduler.v:192-206` puts either process on its list
  (`astray`).
* `ChannelController.v:413`: the value is handed to the alternation when it is sent
  and once more when the arm is disabled, so its stack has it twice:
  `programs/alt_one_chan.txt:1` expects one word, "# Expect: 43", and the simulator
  leaves one. `AlternationTakesOne` says that a value can be on a stack before it is
  taken in this case only, and is never put there a third time.
* `ChannelController.v:357`: the first cycle of ENABLE_CHANNEL enables the receiving
  unit, which reads one word and is reset; `Enable` starts a cycle later.
* `ChannelController.v:398`: DESTROY_CHANNEL asks the heap a second time to free the
  block, as the process allocator does. It does no harm here, because the bump
  pointer never meets the odd end and no freed channel is used again; but after
  128 channels the pointer wraps onto channels that may be in use. The model
  ends before (`MaxChannels`).

The programs of `compiled` leave out what modelling the compiler showed to be
wrong. Each is a fact of the source, read there and not stated as a property:

* `optimizer.rs:61-77`: a constant before `not`, behind another token, is
  inverted but the `not` stays, so the branch taken is the wrong one. Folding
  `1 2 -` overflows (a panic in a debug build).
* `mgu.rs:36-41`: two generic types are unified without joining what is
  required of them, and `Channel(Variable)` loses its direction
  when it is dropped. `main = chan_1 'sender proc_1 ? drop` with
  `sender = drop` is accepted, and the receiver waits for ever.
* `codegen.rs:355-373`: a comparison whose result is a value and not a
  condition is compiled to two Compares and a 0.
* An alternation that is not the last of its term has an exit label without a
  block, and a pushed term inside a pushed term is never assembled: `find`
  panics on both. The name `forever` is accepted by the checker and has no code.
* `codegen.rs:635`: two empty blocks that jump to each other make a cycle in
  the table of representatives.
* `types.rs:472` and `types.rs:667`: the result of checking a second turn of a
  loop, and of comparing an inferred with a declared type, is dropped, so a
  recursive function may have branches of different depth; a `repeat` whose
  body has the type S to S panics the checker.
* A process that holds both ends of a channel is well typed and waits for itself.
* `'` before `)` or at the end panics the parser.
* `Op::decode` and `FunctionOp::decode` transmute bytes that are no value of
  the type (2, 3, 12, 13; 2); the assembler never makes them. Shifts by 16 or
  more panic in a debug build. The assembler's peephole pass drops an addition
  of 0 (`assembler/mod.rs:151`) and with it the flags it would set.

## Proofs

`ProcessorProofs` proves, for every number of cores and processes and every
program (also one that misuses channels):

* `TypeCorrect`: `Spec => []TypeOK`
* `TablesAgree`: `Spec => []CoresAndTableAgree`
* `IdleListIsExact`: `Spec => []IdleListExact`
* `WorkIsConserved`: `Spec => []WorkConserving`

They follow from one inductive invariant, `IInv`. What it adds, and why:

* `TasksNamed`: a Deschedule or Destroy task names a cell, and a Schedule task
  never names 0. Otherwise cell 0 could run, and an entry of 0 would not mean
  a free core (`NothingRunsAsNoProcess`).
* `IdleSoFar`: in the delivery loop the idle list is exact for the cores looked
  at so far; from the Deschedule loop on it is exact for all.
* `IndexInRange`: where the index of a loop is, which says that a delivery loop
  that ended has looked at every core.

The steps fall in four groups: handlers are `Quiet` (they change channel words
and add well-named tasks only); steps that move on; `StopKeeps`, a process
gives up its core; `RunOnIdleCoreKeeps`, a process gets one. The assumptions
used are `CoresAssumption`, which `Processor::new` asserts, and nothing about
`Code`.

`ChannelProofs` proves what programs rely on, for every number of cores and
processes, every size of the channel heap and every program that keeps the
discipline of its channels. The discipline is stated in `Discipline` as state
predicates, and a theorem has the form `Spec /\ []Disciplined => []P`:

* `Disciplined`: a process stays within its code, and at the moment in which a
  tick begins to handle its messages, these name channels that exist, a
  channel has at most one process at each end (stopped there or just arriving),
  and it is deleted by one process, when nobody is at either end. This is
  what Statick's types give a program without alternations; the processor
  checks none of it. Alternations are left out because what would have to hold
  of them does not (`stale` and `sender` above).
* `OneStartATick`: two processes do not start one in the same tick. If they do,
  the second overwrites the first (a hazard in `PROJECT.json`).
* `NoSlotReused`: the slot that `new_process` finds was never used. If it was, two
  processes may have the same number.

The last two are asked for only where they are needed. All speak of the moment
before the handlers run; what follows in the middle of the tick is what is
proved. The run `channels` checks all three of the program of workers
(`WorkersMeet`), so they are no empty hypotheses. The theorems:

* `ParkedAreStopped`: `ParkedProcessesStopped`
* `ValuesMeet`: `Rendezvous` (`ChannelsSynchronous` is what the run checks)
* `WakeUpsKept`: `NoLostWakeUp`
* `NoProcessIsLost`: `NoProcessLost`, with `OneStartATick`
* `FinalStacksAreDistinct`: `FinalStacksDistinct`, with `OneStartATick` and
  `NoSlotReused`
* `ProcessesAreKept`: `ProcessesKept`, the conjunction of the two that the run
  `channels` checks
* `ChannelsAreAllocated`: `ChannelsAllocated`, the processor's channels implement
  `Allocator`; what `MemoryProofs` shows of every client is shown here of this one,
  which writes 0 and process numbers where the heap keeps its links
* `ChannelsAreSynchronous`: `ChannelsSynchronous`, the processor's channels implement
  `SynchronousChannels`; `Rendezvous` speaks of the moments between ticks, this one
  of every step: a value is sent when the one before it was received, is received
  once, and no channel is deleted with a value on its way

Between ticks these properties are easy to state, but no step of a tick
preserves them: a sender stands in a word while it still runs, a woken receiver
still counts as inactive, and a value met inside the tick is in no word at all.
`Meetings` is the invariant that holds at every step:

* `Lasting`, which a failed tick leaves too: types, what was received so far is
  in order, and `FreeChannelsLinked`, that channels and freed blocks lie on the grid
  and the links run through freed blocks only, each linked to once.
* `MessagesAreNews`, `Promised`, `AnswersAreNews`: what is left of the program's
  promise while messages are handled in core order. A message is what its
  process executed last; two messages on one channel are a send and a receive;
  where these meet, the word of the channel is empty; an answer in `ret` is the
  value offered.
* `StopsKnown`, `WakesKnown`, with the tasks still to come (`StopsLeft`,
  `WakesLeft`, which shrink as the two loops go on): who will be stopped runs
  and is stopped once; who will be woken is stopped or about to be, or new.
* `WordsKnown`, `StoppedKnown`: a process is in the word of a channel if and
  only if it stops there, or is about to, and nobody has woken it yet.
* `ValuesKnown`: a value sent and not received is in exactly one of three
  places (`InFlight`): with a sender whose message is still to be handled, in a
  meeting inside the tick whose answer is still to be delivered, or with the
  sender in the word.

`Counted` and `Numbered` add that the processes in the table and the new ones
in the tasks are those started and not ended (`Alive`), and that the numbers of
`current_pid_to_alloc_number` are below its size and different. The proof has
one lemma for each handler, through `ChannelStep`: a handler touches one
channel, and for the others it is enough that their words, values and
partners stay. For the refinement of `SynchronousChannels`, the loop over the cores is
the step that sends, on several channels at once if several cores do; a receive is
`SendToReceiver`, `ReceiveTakes` or, for a meeting inside the tick, the delivery of
the answer; every other step but the making and deleting of a channel is a stutter
(`ChannelsChangeIn`).

`SchedulerProofs` proves, for every number of processes and every larger list
memory, each invariant of the run `scheduler`:
`CellsAreOwned`, `RunnableAreHeld`, `HaltIsExact`, `MessagesAreRouted` and
`ProcessesAreSaved`; and `SchedulerTypes` and `ListHasRoom`, which no run repeats. The assumption is that there are fewer
processes than words of list memory (15 and 256 in `defaults.vh`). Its
inductive invariant has five parts beside the types:

* `Accounting`: at every clock edge, not only between requests, the list, the
  cores and the processes still to leave or to be added make up `runnable`,
  each process in one place. That the list never becomes full follows by
  counting (`RoomForOneMore`, with the cardinality of a window of indices).
* `Control`: which state the machine may be in with which request, and what
  the word it has just read is.
* `Readiness`: the cores that hold no process, or that were given one by this
  request, are in `STATE_AWAIT`, except for the core still waited for.
* `Complete`: a request that is finished leaves no core idle beside a process
  in the list; the bits are those of the processes on the cores.
* `Ownership`: core 0 is filled first, so when core 1 holds a process, core 0
  does not keep its number.

`SchedulerIsAQueue` proves that the scheduler implements `DispatchQueue` (the
property `FirstComeFirstServed`): each clock edge maps to a step of the abstract
queue or to a stutter. The queue is what a walk over the window of the ring
from `readPtr` to `writePtr` lists (`WaitingIsListing`). The walk of
`SchedulerClient` filters a sequence; the proof replaces it by a function on
positions (`CountedListing`), on which an addition is an appended word
(`ListingGrows`) and a removal a shift by one (`ListingShrinks`). Where an index
wraps, `WrapsOnce` of `Multiples` says what the remainder is.

`MemoryProofs` proves for every size of heap and block, from `HeapAssumption` and
`WordsAssumption`, the invariants of the run `heap`, `HeapIsAnAllocator`,
that `HeapClient` implements `Allocator`, and `TypeCorrect`, its type invariant,
which no run repeats. The inductive invariant says that the
blocks below `heap_end` are those held and those returned, all on the grid of
multiples of the block size, and that the links visit the returned ones in the
order of the list. `Multiples` has the one fact of arithmetic behind it: two
different multiples of the block size are a block apart (`MultiplesApart`),
which is why blocks that are different do not overlap.

`HardwareHeapProofs` proves the same of `stannel/Heap.v` clock by clock
(`HardwareHeapTypes`, a type invariant no run repeats, `FreedAreLinked`,
`HardwareNothingLeaks`, `HardwareHeapIsAnAllocator`). Its invariant says besides, for each state of the
machine, what request it works on and which word it has read or is writing
(`Control`, `HeadRest`, `HeadTaken`, `HeadGiven`, `HandedOut`): in the middle of
a return the head of the list and its link are in registers. The assumption on
the sizes includes that the limit is on the grid of the blocks
(`ClientAssumption`), which is so for processes and not for channels.

`ProcessAllocatorProofs` proves of the process allocator, its heap, its copier
and the memories around them, clock by clock, for every number of cells, every
size of a cell and every stack passed:

* `ProcessAllocatorTypes`: the registers keep their widths, whatever happens to
  the free list; no run repeats it.
* `ProcessesAreNew`: a new process gets a cell that no living process has.
* `StacksAreHandedOver`: it has exactly the words passed, in their order, at the
  end of its cell, its stack pointer and its program counter; its parent has lost
  these words and nothing else, and no other cell has changed.

The last two assume `FirstReuse`: at most one process is made beyond the number
of cells. That is not for convenience: the list of freed cells loses all but
the last of them (the disagreement `links`), so the second process that takes a
used cell may get one that lives. `CellAssumption`, blocks of one word and a first
number that is not 0, is how `ProcessAllocator.v:128` instantiates its heap. The
inductive invariant says

* `Control`: in which states the allocator, the heap and the copier can be
  together, and with which request;
* `Bumped`, `Ended`: that the cells below the bump pointer are those handed out,
  and that `heapFree`, if any process has ended, is one of them that is free;
* `Requested`, `Fits`: that the request in hand is of a living process with
  a stack of that many words, and where its new cell is from the moment it has one;
* `Pointers`, `Copying`: which word of the old cell is in a register or on its
  way out of a memory that answers an edge late;
* `Cells`: what every word of every cell is in every state: of the new cell, which
  words have been written so far.

`MemoryProofs` also states the stacks of a cell of any size: `PushThenPop`,
`CallThenReturn`, `StacksApart`, and `ChildGetsTheWords`, by which a new process
has the top words of its parent in the same order. That the stacks do not meet
is a hypothesis, because nothing in the code looks (a hazard without a property).

It states, for words of any width, that a condition tested after a
comparison decides the order of the operands (`CompareDecidesUnsigned`,
`CompareDecidesSigned`, the second also when the difference overflows), that
the inverse of a condition holds exactly when it does not (`InvertNegates`), and
that saved flags are read back (`FlagsSurviveEncoding`).

`ChannelControllerProofs` proves, for any number of processes, channels and
values, every size of the memory and every odd end of the heap, clock edge by clock
edge, all that the run `hwchannels` checks, and types:

* `ControllerTypes`: `TypeOK`, of all registers, words and history
* `EveryStoppedProcessIsFound`: `StoppedAreParked`, of every stopped process but the
  late senders, until the scheduler is given a process that is not stopped
* `OneValueEach`: `AlternationTakesOne`, with senders that come at any time, and how
  often a value is put on a stack
* `AnswersInTime`: `AnsweredInTime`
* `HardwareChannelsSynchronous`: `ChannelsSynchronous`, of the values that receives
  and disables take; with `ChannelsAreSynchronous` of `ChannelProofs`, simulator
  and hardware implement the same abstract channels. It says nothing of the
  stacks, where a value may be put twice.

The assumptions are `ChannelAssumption`, how `ChannelController.v:118` instantiates
its heap (blocks of two words from address 0, an odd end), and
`ClientAssumption`: process numbers are addresses and not 0, and the channels made
fit the memory, so that the bump pointer does not wrap. The inductive invariant
`Inv`, which TLC checked before it was proved, is `IInv`, or `Stray`: the scheduler
was given a process that is not stopped, and nothing is asked any more. `IInv` says

* `ChannelsOk`, `ParkedOk`, `AltOk`: between requests, in whose word a process
  stands. The word of a channel is that of the sender stopped there, or else of
  the receiver or alternation that looks at it, or else 0 (`Word`); a channel is
  one value behind exactly while its sender is stopped or is sending, late or not; a
  cleared word is that of an arm of an alternation that has a value (`LateOk`); an
  alternation that is being disabled runs if and only if it took a value or an arm
  has a sender. The two sets of the controller are the processes in an alternation,
  and those of them for which there is a value (`HasValue`).
* `Doing`: where a request is. Before its first cycle the units are idle;
  in it (`CreateAt`, `SendAt`, `ReceiveAt`, `EnableAt`, `DisableAt`, ...) the state of
  the one unit at work says which cycle this is, what word it has read, and
  what it has written; when it is finished, the registered answer is what the
  channel's word at the beginning called for (`SendDone`, `ReceiveDone`, ...). All
  that time other channels are as they were.
* the heap's pointer is at the next channel to be made, and no freed block is
  handed out.

How often a value was put on a stack is an invariant of its own above this one
(`CountsInvariant`): to `Delivery` it adds that a value that is on a stack before
it is taken is the only one its alternation can take (`OnlyOffer`). Without this
another arm could be taken, and the sender be left with its value already
delivered.

There is one lemma for each operation's start, cycles and end, and the step
of the client that follows (`SendStarts`, `SendReadStep`, `SendHandleStep`,
`SendWriteStep`, `SendEnds`, `FinishedSendStops`). For the refinement, the
request of a send is the step that sends, the answer to a send with a waiting
receiver, to a receive or to a disable the one that receives, and every cycle of
the controller a stutter.

Only model-checked: liveness (outside the prover's reach); alternations in
`Processor` (`AlternationServed`, and the properties of channels in programs that
alternate, which hold of some programs and not of others, as the disagreements
show); and the compiler, the assembler and the machine, whose operators are
recursive, which the prover cannot take.

## Not modelled, and the plan

Not modelled:

1. Hardware: what happens after the scheduler was given a process that is not
   stopped (above, `astray`), the registers in which a core keeps the value of an
   alternation until ALT_END (`Execute.v:396`), the steps in which `MessageDelivery`
   puts a value on a stack, what `ProcessorMessageHandler` does between its units
   (the hazard at line 726), the fetching and executing of `Core.v` and `Execute.v`,
   and `Processor.v`, which composes them. The scheduler, the process allocator and the channel controller
   each have a client that stands for the handler; the next step would be one
   handler above all three.
2. Hazards of the simulator without a property: a process that yields (nothing
   schedules it again), flags that stay with a core (no model has
   both the flags and cores that change hands), stacks that meet: `PROJECT.json`
   says why at each. More than 64 cores are excluded by an assumption.
3. The runs keep to programs with one alternation shape, one channel per pair of
   processes and no reuse of a process slot by a well-typed program.
4. How text is cut into words (regular expressions), source positions, the text
   of errors, pretty printing and verbose output; the command line tools, the
   ALU (the same operations as `Core`), the UART, loader, dumper and board
   files, and the host-side scripts.
