--------------------------- MODULE SchedulerClient ---------------------------
(***************************************************************************)
(* The scheduler with the two parties that share the clock with it: the    *)
(* message handler, which turns one core message at a time into a request  *)
(* (ProcessorMessageHandler.v), and the cores, which post messages and     *)
(* then save their process into its memory cell (Core.v).                  *)
(*                                                                         *)
(* What a message asks of the scheduler is all that is kept of it: whether *)
(* its process leaves its core, and which process, if any, becomes         *)
(* runnable.  The handler's work before the request (allocator, channel    *)
(* controller) is one step; it touches nothing of the scheduler.           *)
(***************************************************************************)
EXTENDS Scheduler, Sequences

VARIABLES
    rHandler,   \* rState of the handler: "INIT", "SCHEDULER" or "DONE"
    request,    \* the request registers of the handler
    core,       \* core[c]: "execute", "save" or "await"
    waking,     \* the cores whose final message is RESUME
    runnable    \* history: the processes the messages so far made runnable

clientVars == <<rHandler, request, core, waking, runnable>>
vars == <<rState, finished, active, pid, needsResume, rScheduleState, ram,
          dataOut, rFront, rEnd, rHandler, request, core, waking, runnable>>

\* The inputs of the scheduler; a core is ready in its state AWAIT.
inputs == [hasDeschedule |-> request.hasDeschedule,
           deschedulePid |-> request.deschedulePid,
           hasSchedule   |-> request.hasSchedule,
           schedulePid   |-> request.schedulePid,
           ready         |-> [c \in Cores |-> core[c] = "await"]]

Request(leaves, p, q) ==
    [hasDeschedule |-> leaves, deschedulePid |-> p,
     hasSchedule |-> q # NoPid, schedulePid |-> q]

\* Out of reset the processor itself posts START for the first process, with
\* core 1 as its source and process number 0.
Init ==
    /\ SchedulerInit
    /\ rHandler = "SCHEDULER"
    /\ \E q \in Pids : /\ request = Request(FALSE, NoPid, q)
                       /\ runnable = {q}
    /\ core = [c \in Cores |-> "await"]
    /\ waking = {}

\* The process of core c executes a message instruction: the core posts the
\* message and starts to save.
Post(c) ==
    /\ active[c]
    /\ core[c] = "execute"
    /\ core' = [core EXCEPT ![c] = "save"]
    /\ UNCHANGED <<schedulerVars, rHandler, request, waking, runnable>>

Saved(c) ==
    /\ core[c] = "save"
    /\ core' = [core EXCEPT ![c] = "await"]
    /\ UNCHANGED <<schedulerVars, rHandler, request, waking, runnable>>

\* The handler has worked out what the message of core c asks.  The process
\* it makes runnable was not runnable before (a new one, or one that waited on
\* a channel), or is the sender itself when it yields.
Handle(c, leaves, q) ==
    /\ rHandler = "INIT"
    /\ active[c]
    /\ core[c] # "execute"
    /\ leaves \/ q # NoPid
    /\ q \notin (IF leaves THEN runnable \ {pid[c]} ELSE runnable)
    /\ rHandler' = "SCHEDULER"
    /\ request' = Request(leaves, pid[c], q)
    /\ waking' = IF leaves THEN {} ELSE {c}
    /\ runnable' = (IF leaves THEN runnable \ {pid[c]} ELSE runnable)
                     \cup ({q} \ {NoPid})
    /\ Disabled
    /\ UNCHANGED core

Schedule ==
    /\ rHandler = "SCHEDULER"
    /\ ~finished
    /\ Enabled(inputs)
    /\ UNCHANGED clientVars

\* The handler sees finished, so it no longer enables the scheduler; the cores
\* that were given a process are to be resumed with the others.
Scheduled ==
    /\ rHandler = "SCHEDULER"
    /\ finished
    /\ rHandler' = "DONE"
    /\ waking' = waking \cup {c \in Cores : needsResume[c]}
    /\ Disabled
    /\ UNCHANGED <<request, core, runnable>>

\* The final message reaches core c, which takes it only in its state AWAIT.
Resume(c) ==
    /\ rHandler = "DONE"
    /\ c \in waking
    /\ core[c] = "await"
    /\ core' = [core EXCEPT ![c] = "execute"]
    /\ waking' = waking \ {c}
    /\ Disabled
    /\ UNCHANGED <<rHandler, request, runnable>>

HandlerFinished ==
    /\ rHandler = "DONE"
    /\ waking = {}
    /\ rHandler' = "INIT"
    /\ Disabled
    /\ UNCHANGED <<request, core, waking, runnable>>

Leave(c) == \E q \in Words : Handle(c, TRUE, q)
Stay(c) == \E q \in Words : Handle(c, FALSE, q)

Next ==
    \/ \E c \in Cores : Post(c) \/ Saved(c) \/ Leave(c) \/ Stay(c) \/ Resume(c)
    \/ Schedule
    \/ Scheduled
    \/ HandlerFinished

Spec == Init /\ [][Next]_vars

\* The clock ticks for ever, and saving a process takes a fixed number of
\* cycles.  When, or whether, a process posts a message is its own affair.
Fairness ==
    /\ WF_vars(Schedule)
    /\ WF_vars(Scheduled)
    /\ WF_vars(HandlerFinished)
    /\ \A c \in Cores : WF_vars(Saved(c)) /\ WF_vars(Resume(c))

FairSpec == Spec /\ Fairness

-----------------------------------------------------------------------------
\* Types of the registers, and the width of each index.
TypeOK ==
    /\ rState \in States
    /\ finished \in BOOLEAN
    /\ active \in [Cores -> BOOLEAN]
    /\ pid \in [Cores -> Words]
    /\ needsResume \in [Cores -> BOOLEAN]
    /\ rScheduleState \in SUBSET Words
    /\ ram \in [Addresses -> Words]
    /\ dataOut \in Words
    /\ rFront \in Addresses
    /\ rEnd \in Addresses
    /\ rHandler \in {"INIT", "SCHEDULER", "DONE"}
    /\ request \in [hasDeschedule : BOOLEAN, deschedulePid : Words,
                    hasSchedule : BOOLEAN, schedulePid : Words]
    /\ core \in [Cores -> {"execute", "save", "await"}]
    /\ waking \in SUBSET Cores
    /\ runnable \in SUBSET Pids

\* The core that memory cell p is wired to, as a set: the process number alone
\* decides, core 0 first, and a stopped core keeps the number it had.
CellUser(p) == {c \in Cores : pid[c] = p /\ (c = 0 \/ pid[0] # p)}

\* The number a stopped core keeps never takes the memory cell of its last
\* process away from the other core once that core runs the process.
CoreOwnsItsCell == \A c \in Cores : active[c] => CellUser(pid[c]) = {c}

Resting == rHandler # "SCHEDULER"

\* When a request is over, the processes on a core and in the list are the
\* runnable ones, and none of them is held twice.
NoneLostNoneTwice ==
    Resting =>
        /\ Queued \cup OnCore = runnable
        /\ Queued \cap OnCore = {}
        /\ \A k, l \in Window : ram[k] = ram[l] => k = l
        /\ \A c, d \in Cores : active[c] /\ active[d] /\ pid[c] = pid[d] => c = d

\* When a request is over, no core is idle while a process waits, so the bits
\* of the processes on the cores are enough to tell whether all have ended.
CanHaltExact ==
    Resting =>
        /\ canHalt <=> runnable = {}
        /\ Queued # {} => \A c \in Cores : active[c]

\* A message for a runnable process goes to the core that runs it, or to
\* memory when it waits in the list: message delivery compares the process
\* numbers and does not ask whether the core is active.
MessagesFindTheirProcess ==
    Resting => \A p \in runnable : CellUser(p) = {c \in Cores : active[c] /\ pid[c] = p}

\* Once a request is answered, a core without a process has written the last
\* one to memory, and a core that was given one is there to be resumed.
StoppedCoreHasSaved ==
    (finished \/ Resting) =>
        \A c \in Cores : ~active[c] \/ needsResume[c] => core[c] = "await"

\* The list never holds every process at once, which is why its indices may
\* wrap and meet only when it is empty.
ListNeverFull == Cardinality(Pids) > 1 => Queued # Pids

\* The list read from its front to its end, and the process of each core, make
\* a first come first served queue.
waiting ==
    LET length == Cardinality(Window)
    IN  [i \in 1 .. length |-> ram[(rFront + i - 1) % ListSize]]
ImplementsDispatchQueue ==
    INSTANCE DispatchQueue WITH
        queue <- waiting,
        running <- [c \in Cores |-> IF active[c] THEN pid[c] ELSE NoPid]
FirstComeFirstServed == ImplementsDispatchQueue!Spec

\* Every request is answered, however the other core goes on meanwhile.
RequestsAnswered == rHandler = "SCHEDULER" ~> rHandler = "INIT"

\* As long as processes keep leaving their cores, one that waits gets its turn.
EveryoneGetsATurn ==
    []<><<\E c \in Cores : Leave(c)>>_vars =>
        \A p \in Pids : p \in Queued ~> p \in OnCore
=============================================================================
