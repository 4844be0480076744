------------------------------ MODULE Scheduler ------------------------------
(***************************************************************************)
(* The hardware scheduler, src/stannel/Scheduler.v: the state machine that *)
(* decides which process each of the two cores holds.  Each action below   *)
(* is one rising clock edge in one of its states.  The inputs of a request *)
(* are the fields of the record "in", which the message handler holds      *)
(* still while the scheduler is enabled.                                   *)
(***************************************************************************)
EXTENDS Naturals, FiniteSets

CONSTANTS
    Pids,       \* process numbers, 1 .. CELL_COUNT - 1 in the hardware
    ListSize    \* words in the list memory, 2^addrBits in the hardware

Cores == {0, 1}
NoPid == 0

\* There are fewer processes than words of list memory (15 against 256).
ASSUME SchedulerAssumption ==
    /\ Pids \subseteq Nat \ {NoPid}
    /\ IsFiniteSet(Pids)
    /\ ListSize \in Nat \ {0}
    /\ Cardinality(Pids) < ListSize

VARIABLES
    rState,         \* the state of the machine
    finished,       \* registered output: the request is done
    active,         \* active[c]: core c holds a process
    pid,            \* pid[c]: the last process core c held, kept when it stops
    needsResume,    \* needsResume[c]: this request gave core c a process
    rScheduleState, \* the bits that are set
    ram,            \* the list memory
    dataOut,        \* the word it read at the last edge
    rFront,         \* index of the first entry of the list
    rEnd            \* index after its last entry

schedulerVars == <<rState, finished, active, pid, needsResume,
                   rScheduleState, ram, dataOut, rFront, rEnd>>

Addresses == 0 .. ListSize - 1
Words == Pids \cup {NoPid}
States == {"INIT", "DESCHEDULE_START", "DESCHEDULE_WAIT", "ADD_0", "ADD_1",
           "SCHEDULE_INIT", "READ_NEXT"}

\* What a read at an address nobody drives returns.  No process has this
\* number, so a step that used the word would be seen to.
Undriven == NoPid

\* An index register is exactly as wide as an address, so it wraps.
Bump(i) == IF i = ListSize - 1 THEN 0 ELSE i + 1

canHalt == rScheduleState = {}

\* The indices from f up to, but not including, e.
WindowOf(f, e) == IF f <= e THEN {k \in Addresses : f <= k /\ k < e}
                            ELSE {k \in Addresses : f <= k \/ k < e}

\* The indices that hold the list, the processes in it, and those on a core.
Window == WindowOf(rFront, rEnd)
Queued == {ram[k] : k \in Window}
OnCore == {pid[c] : c \in {d \in Cores : active[d]}}

-----------------------------------------------------------------------------
SchedulerInit ==
    /\ rState = "INIT"
    /\ finished = FALSE
    /\ active = [c \in Cores |-> FALSE]
    /\ pid = [c \in Cores |-> NoPid]
    /\ needsResume = [c \in Cores |-> FALSE]
    /\ rScheduleState = {}
    /\ ram = [k \in Addresses |-> NoPid]
    /\ dataOut = NoPid
    /\ rFront = 0
    /\ rEnd = 0

\* A clock edge while not enabled.
Disabled ==
    /\ rState' = "INIT"
    /\ finished' = FALSE
    /\ needsResume' = [c \in Cores |-> FALSE]
    /\ dataOut' = Undriven
    /\ UNCHANGED <<active, pid, rScheduleState, ram, rFront, rEnd>>

AfterDeschedule(in) == IF in.hasSchedule THEN "ADD_0" ELSE "SCHEDULE_INIT"

StateInit(in) ==
    /\ rState = "INIT"
    /\ rState' = IF in.hasDeschedule THEN "DESCHEDULE_START"
                                     ELSE AfterDeschedule(in)
    /\ finished' = FALSE
    /\ dataOut' = Undriven
    /\ UNCHANGED <<active, pid, needsResume, rScheduleState, ram, rFront, rEnd>>

\* mutant: the bit of the process that leaves is not cleared.
DescheduleStartKeepsBit(in) ==
    /\ rState = "DESCHEDULE_START"
    /\ rState' = "DESCHEDULE_WAIT"
    /\ finished' = FALSE
    /\ active' = [c \in Cores |-> active[c] /\ pid[c] # in.deschedulePid]
    /\ dataOut' = Undriven
    /\ UNCHANGED <<pid, needsResume, rScheduleState, ram, rFront, rEnd>>

\* Stops whichever core last held the process: the test does not ask
\* whether that core is active.
DescheduleStart(in) ==
    /\ rState = "DESCHEDULE_START"
    /\ rState' = "DESCHEDULE_WAIT"
    /\ finished' = FALSE
    /\ active' = [c \in Cores |-> active[c] /\ pid[c] # in.deschedulePid]
    /\ rScheduleState' = rScheduleState \ {in.deschedulePid}
    /\ dataOut' = Undriven
    /\ UNCHANGED <<pid, needsResume, ram, rFront, rEnd>>

\* mutant: the scheduler goes on while the core is still saving.
DescheduleDoesNotWait(in) ==
    /\ rState = "DESCHEDULE_WAIT"
    /\ rState' = AfterDeschedule(in)
    /\ finished' = FALSE
    /\ dataOut' = Undriven
    /\ UNCHANGED <<active, pid, needsResume, rScheduleState, ram, rFront, rEnd>>

\* mutant: it waits for both cores, whichever of them held the process.
DescheduleWaitsForBoth(in) ==
    /\ rState = "DESCHEDULE_WAIT"
    /\ rState' = IF \A c \in Cores : in.ready[c] THEN AfterDeschedule(in)
                                                 ELSE rState
    /\ finished' = FALSE
    /\ dataOut' = Undriven
    /\ UNCHANGED <<active, pid, needsResume, rScheduleState, ram, rFront, rEnd>>

DescheduleWait(in) ==
    /\ rState = "DESCHEDULE_WAIT"
    /\ rState' = IF \E c \in Cores : pid[c] = in.deschedulePid /\ ~in.ready[c]
                   THEN rState ELSE AfterDeschedule(in)
    /\ finished' = FALSE
    /\ dataOut' = Undriven
    /\ UNCHANGED <<active, pid, needsResume, rScheduleState, ram, rFront, rEnd>>

\* The write takes two cycles; only the second moves the end of the list.
AddToList0(in) ==
    /\ rState = "ADD_0"
    /\ rState' = "ADD_1"
    /\ finished' = FALSE
    /\ ram' = [ram EXCEPT ![rEnd] = in.schedulePid]
    /\ dataOut' = ram[rEnd]
    /\ UNCHANGED <<active, pid, needsResume, rScheduleState, rFront, rEnd>>

\* mutant: the process is put at the front of the list.
AddToFront(in) ==
    /\ rState = "ADD_1"
    /\ rState' = "SCHEDULE_INIT"
    /\ finished' = FALSE
    /\ \E k \in Addresses :
          /\ Bump(k) = rFront
          /\ ram' = [ram EXCEPT ![k] = in.schedulePid]
          /\ rFront' = k
    /\ dataOut' = ram[rEnd]
    /\ UNCHANGED <<active, pid, needsResume, rScheduleState, rEnd>>

AddToList1(in) ==
    /\ rState = "ADD_1"
    /\ rState' = "SCHEDULE_INIT"
    /\ finished' = FALSE
    /\ ram' = [ram EXCEPT ![rEnd] = in.schedulePid]
    /\ dataOut' = ram[rEnd]
    /\ rEnd' = Bump(rEnd)
    /\ UNCHANGED <<active, pid, needsResume, rScheduleState, rFront>>

ScheduleInit(in) ==
    /\ rState = "SCHEDULE_INIT"
    /\ dataOut' = ram[rFront]
    /\ \/ /\ rFront = rEnd \/ \A c \in Cores : active[c]
          /\ finished' = TRUE
          /\ rState' = rState
       \/ /\ rFront # rEnd
          /\ \E c \in Cores : ~active[c]
          /\ finished' = FALSE
          /\ rState' = IF \A c \in Cores : active[c] \/ in.ready[c]
                         THEN "READ_NEXT" ELSE rState
    /\ UNCHANGED <<active, pid, needsResume, rScheduleState, ram, rFront, rEnd>>

\* Gives process dataOut to core c.
Activate(c) ==
    /\ active' = [active EXCEPT ![c] = TRUE]
    /\ needsResume' = [needsResume EXCEPT ![c] = TRUE]
    /\ pid' = [pid EXCEPT ![c] = dataOut]

\* mutant: core 1 is filled first.
ReadNextCore1First(in) ==
    /\ rState = "READ_NEXT"
    /\ rState' = "SCHEDULE_INIT"
    /\ Activate(IF active[1] THEN 0 ELSE 1)
    /\ finished' = (active[0] \/ active[1])
    /\ rScheduleState' = rScheduleState \cup {dataOut}
    /\ rFront' = Bump(rFront)
    /\ dataOut' = ram[rFront]
    /\ UNCHANGED <<ram, rEnd>>

\* mutant: the entry stays in the list.
ReadNextKeepsEntry(in) ==
    /\ rState = "READ_NEXT"
    /\ rState' = "SCHEDULE_INIT"
    /\ Activate(IF active[0] THEN 1 ELSE 0)
    /\ finished' = (active[0] \/ active[1])
    /\ rScheduleState' = rScheduleState \cup {dataOut}
    /\ dataOut' = ram[rFront]
    /\ UNCHANGED <<ram, rFront, rEnd>>

ReadNext(in) ==
    /\ rState = "READ_NEXT"
    /\ rState' = "SCHEDULE_INIT"
    /\ Activate(IF active[0] THEN 1 ELSE 0)
    /\ finished' = (active[0] \/ active[1])
    /\ rScheduleState' = rScheduleState \cup {dataOut}
    /\ rFront' = Bump(rFront)
    /\ dataOut' = ram[rFront]
    /\ UNCHANGED <<ram, rEnd>>

\* A clock edge while enabled.
Enabled(in) ==
    \/ StateInit(in)
    \/ DescheduleStart(in)
    \/ DescheduleWait(in)
    \/ AddToList0(in)
    \/ AddToList1(in)
    \/ ScheduleInit(in)
    \/ ReadNext(in)
=============================================================================
