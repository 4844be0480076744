--------------------------- MODULE SchedulerProofs ---------------------------
(***************************************************************************)
(* What the hardware scheduler keeps true for every number of processes    *)
(* and every size of the list memory.                                      *)
(***************************************************************************)
EXTENDS SchedulerClient, FiniteSetTheorems, SequenceTheorems, Multiples, TLAPS

-----------------------------------------------------------------------------
(* The inductive invariant.                                                *)

\* The process that a request still has to take off its core.
Leaving ==
    IF /\ rHandler = "SCHEDULER"
       /\ request.hasDeschedule
       /\ rState \in {"INIT", "DESCHEDULE_START"}
      THEN {request.deschedulePid} ELSE {}

\* The process that a request still has to put in the list.
Coming ==
    IF /\ rHandler = "SCHEDULER"
       /\ request.hasSchedule
       /\ rState \in {"INIT", "DESCHEDULE_START", "DESCHEDULE_WAIT", "ADD_0",
                      "ADD_1"}
      THEN {request.schedulePid} ELSE {}

\* The processes held, up to what the request in hand still has to do.
Accounting ==
    /\ Queued \cup OnCore = (runnable \ Coming) \cup Leaving
    /\ Queued \cap OnCore = {}
    /\ Coming \subseteq runnable
    /\ Leaving \subseteq OnCore
    /\ Leaving \cap (runnable \ Coming) = {}
    /\ \A k, l \in Window : ram[k] = ram[l] => k = l
    /\ rScheduleState = OnCore

\* What the state of the machine says of the request and of the list.
Control ==
    /\ finished => rState = "SCHEDULE_INIT" /\ rHandler = "SCHEDULER"
    /\ Resting => rState = "INIT" /\ \A c \in Cores : ~needsResume[c]
    /\ rState \in {"ADD_0", "ADD_1"} => request.hasSchedule
    /\ rState \in {"DESCHEDULE_START", "DESCHEDULE_WAIT"} => request.hasDeschedule
    /\ request.hasSchedule => request.schedulePid \in Pids
    /\ request.hasDeschedule => request.deschedulePid \in Pids
    /\ rHandler = "SCHEDULER" /\ rState \in {"INIT", "DESCHEDULE_START"} =>
          /\ \A c \in Cores : ~needsResume[c]
          /\ request.hasDeschedule => waking = {}
    /\ rState = "READ_NEXT" =>
          /\ rFront # rEnd
          /\ dataOut = ram[rFront]
          /\ \E c \in Cores : ~active[c]

\* Which cores will be resumed, and which may still be writing a process they
\* no longer hold.
Readiness ==
    \A c \in Cores :
        /\ needsResume[c] => active[c] /\ core[c] = "await"
        /\ c \in waking => active[c]
        /\ ~active[c] /\ core[c] # "await" =>
              rState = "DESCHEDULE_WAIT" /\ pid[c] = request.deschedulePid

\* A request ends only when no core is idle or the list is empty; so when one
\* core is taken from its process while others wait, the second is still busy.
Complete ==
    /\ finished \/ rState \in {"INIT", "DESCHEDULE_START"} =>
          Queued = {} \/ \A c \in Cores : active[c]
    /\ \/ Queued = {}
       \/ \E c \in Cores : active[c]
       \/ /\ rState \in {"SCHEDULE_INIT", "READ_NEXT"}
          /\ \E p \in Pids : Queued = {p}

\* A stopped core 0 does not keep the process that core 1 now holds.
Ownership == pid[0] = pid[1] => ~active[1]

IInv == TypeOK /\ Accounting /\ Control /\ Readiness /\ Complete /\ Ownership

-----------------------------------------------------------------------------
(* The list as a ring.                                                     *)

\* An index stays within the list memory.
LEMMA BumpType ==
    ASSUME NEW i \in Addresses
    PROVE  Bump(i) \in Addresses
  BY SchedulerAssumption DEF Bump, Addresses

\* One more entry: the index after the last one joins the window, unless the
\* list is about to meet its own front.
LEMMA WindowGrows ==
    ASSUME NEW f \in Addresses, NEW e \in Addresses, Bump(e) # f
    PROVE  /\ Bump(e) \in Addresses
           /\ e \notin WindowOf(f, e)
           /\ WindowOf(f, Bump(e)) = WindowOf(f, e) \cup {e}
  BY SchedulerAssumption DEF WindowOf, Bump, Addresses

\* One entry less: the first index leaves the window.
LEMMA WindowShrinks ==
    ASSUME NEW f \in Addresses, NEW e \in Addresses, f # e
    PROVE  /\ Bump(f) \in Addresses
           /\ f \in WindowOf(f, e)
           /\ WindowOf(Bump(f), e) = WindowOf(f, e) \ {f}
  BY SchedulerAssumption DEF WindowOf, Bump, Addresses

\* The list has no entry only when its two indices meet.
LEMMA WindowEmpty ==
    ASSUME NEW f \in Addresses
    PROVE  WindowOf(f, f) = {}
  BY SchedulerAssumption DEF WindowOf, Addresses

\* A window that leaves one index out is every other index.
LEMMA WindowFull ==
    ASSUME NEW f \in Addresses, NEW e \in Addresses, Bump(e) = f
    PROVE  WindowOf(f, e) = Addresses \ {e}
  BY SchedulerAssumption DEF WindowOf, Bump, Addresses

\* There is room for a process that is not in the list: the list memory has
\* more words than there are processes, and no process is in it twice.
LEMMA RoomForOneMore ==
    ASSUME TypeOK, NEW q \in Pids, q \notin Queued, Queued \subseteq Pids,
           \A k, l \in Window : ram[k] = ram[l] => k = l
    PROVE  Bump(rEnd) # rFront
<1> SUFFICES ASSUME Bump(rEnd) = rFront PROVE FALSE
  OBVIOUS
<1> DEFINE slot == [k \in Addresses |-> IF k = rEnd THEN q ELSE ram[k]]
<1>1. Window = Addresses \ {rEnd}
  BY WindowFull DEF TypeOK, Window
<1>2. \A k \in Addresses \ {rEnd} : ram[k] \in Queued
  BY <1>1 DEF Queued
<1>3. slot \in Injection(Addresses, Pids)
  <2>1. slot \in [Addresses -> Pids]
    BY <1>2
  <2>2. ASSUME NEW k \in Addresses, NEW l \in Addresses, slot[k] = slot[l]
        PROVE  k = l
    BY <1>1, <1>2, <2>2
  <2> QED
    BY <2>1, <2>2 DEF Injection, IsInjective
<1>4. Cardinality(Addresses) <= Cardinality(Pids)
  BY <1>3, FS_Injection, SchedulerAssumption
<1>5. Cardinality(Addresses) = ListSize
  <2>1. /\ 0 \in Int
        /\ ListSize - 1 \in Int
        /\ (ListSize - 1) - 0 + 1 = ListSize
        /\ 0 <= ListSize - 1
    BY SchedulerAssumption
  <2> QED
    BY <2>1, FS_Interval DEF Addresses
<1>6. Cardinality(Pids) \in Nat
  BY FS_CardinalityType, SchedulerAssumption
<1> QED
  BY <1>4, <1>5, <1>6, SchedulerAssumption

-----------------------------------------------------------------------------
(* One lemma per step that changes the list or the cores.                  *)

\* Every process in the list or on a core is a process number.
LEMMA HeldArePids == IInv => Queued \subseteq Pids /\ OnCore \subseteq Pids
  BY DEF IInv, TypeOK, Accounting, Control, Leaving

\* A step that leaves the list and the cores alone.
LEMMA SameHolders ==
    ASSUME UNCHANGED <<active, pid, ram, rFront, rEnd>>
    PROVE  Window' = Window /\ Queued' = Queued /\ OnCore' = OnCore
  BY DEF Window, WindowOf, Queued, OnCore, Cores

\* The initial states satisfy the invariant.
LEMMA InitIInv == Init => IInv
<1> SUFFICES ASSUME Init PROVE IInv
  OBVIOUS
<1> USE SchedulerAssumption
<1>1. TypeOK
  <2>1. PICK q \in Pids : request = Request(FALSE, NoPid, q) /\ runnable = {q}
    BY DEF Init
  <2>2. request \in [hasDeschedule : BOOLEAN, deschedulePid : Words,
                     hasSchedule : BOOLEAN, schedulePid : Words]
    BY <2>1 DEF Request, Words
  <2>3. 0 \in Addresses
    BY DEF Addresses
  <2> QED
    BY <2>1, <2>2, <2>3 DEF Init, SchedulerInit, TypeOK, Words, States
<1>2. Window = {} /\ Queued = {} /\ OnCore = {}
  <2>1. 0 \in Addresses
    BY DEF Addresses
  <2>2. Window = {}
    BY <2>1, WindowEmpty DEF Init, SchedulerInit, Window
  <2> QED
    BY <2>2 DEF Init, SchedulerInit, Queued, OnCore
<1>3. Accounting /\ Control
  <2>1. PICK q \in Pids : request = Request(FALSE, NoPid, q) /\ runnable = {q}
    BY DEF Init
  <2>2. /\ ~request.hasDeschedule
        /\ request.hasSchedule
        /\ request.schedulePid = q
    BY <2>1 DEF Request, NoPid
  <2>3. Coming = {q} /\ Leaving = {}
    BY <2>2 DEF Init, SchedulerInit, Coming, Leaving
  <2> QED
    BY <1>2, <2>1, <2>2, <2>3
    DEF Init, SchedulerInit, Accounting, Control, Resting
<1>4. Readiness /\ Complete /\ Ownership
  BY <1>2 DEF Init, SchedulerInit, Readiness, Complete, Ownership, Cores
<1> QED
  BY <1>1, <1>3, <1>4 DEF IInv

\* Each step keeps the types.
LEMMA TypeStep == IInv /\ [Next]_vars => TypeOK'
<1> SUFFICES ASSUME IInv, [Next]_vars PROVE TypeOK'
  OBVIOUS
<1> USE SchedulerAssumption DEF IInv
<1>1. ASSUME NEW c \in Cores, Post(c) \/ Saved(c) PROVE TypeOK'
  BY <1>1 DEF Post, Saved, TypeOK, schedulerVars
<1>2. ASSUME NEW c \in Cores, NEW leaves \in BOOLEAN, NEW q \in Words,
             Handle(c, leaves, q)
      PROVE  TypeOK'
  BY <1>2 DEF Handle, Request, Disabled, TypeOK, Words, States, NoPid, Undriven
<1>3. ASSUME Schedule PROVE TypeOK'
  <2> USE DEF Schedule, clientVars
  <2> DEFINE in == inputs
  <2>1. CASE StateInit(in)
    BY <1>3, <2>1 DEF StateInit, AfterDeschedule, TypeOK, States, Words, Undriven
  <2>2. CASE DescheduleStart(in)
    BY <1>3, <2>2 DEF DescheduleStart, TypeOK, States, Words, Undriven
  <2>3. CASE DescheduleWait(in)
    BY <1>3, <2>3 DEF DescheduleWait, AfterDeschedule, TypeOK, States, Words, Undriven
  <2>4. CASE AddToList0(in)
    BY <1>3, <2>4 DEF AddToList0, TypeOK, States, inputs
  <2>5. CASE AddToList1(in)
    <3>1. Bump(rEnd) \in Addresses
      BY BumpType DEF TypeOK
    <3> QED
      BY <1>3, <2>5, <3>1 DEF AddToList1, TypeOK, States, inputs
  <2>6. CASE ScheduleInit(in)
    BY <1>3, <2>6 DEF ScheduleInit, TypeOK, States
  <2>7. CASE ReadNext(in)
    <3>1. Bump(rFront) \in Addresses
      BY BumpType DEF TypeOK
    <3> QED
      BY <1>3, <2>7, <3>1 DEF ReadNext, Activate, TypeOK, States, Cores
  <2> QED
    BY <1>3, <2>1, <2>2, <2>3, <2>4, <2>5, <2>6, <2>7 DEF Enabled
<1>4. ASSUME Scheduled PROVE TypeOK'
  BY <1>4 DEF Scheduled, Disabled, TypeOK, States, Words, Undriven
<1>5. ASSUME NEW c \in Cores, Resume(c) PROVE TypeOK'
  BY <1>5 DEF Resume, Disabled, TypeOK, States, Words, Undriven
<1>6. ASSUME HandlerFinished PROVE TypeOK'
  BY <1>6 DEF HandlerFinished, Disabled, TypeOK, States, Words, Undriven
<1>7. CASE UNCHANGED vars
  BY <1>7 DEF vars, TypeOK
<1> QED
  BY <1>1, <1>2, <1>3, <1>4, <1>5, <1>6, <1>7 DEF Next, Leave, Stay

\* A request is taken: only what is still to do changes.
LEMMA HandleStep ==
    ASSUME IInv, NEW c \in Cores, NEW leaves \in BOOLEAN, NEW q \in Words,
           Handle(c, leaves, q)
    PROVE  Accounting' /\ Control' /\ Readiness' /\ Complete' /\ Ownership'
<1> USE DEF IInv
<1>1. /\ UNCHANGED <<active, pid, ram, rFront, rEnd, rScheduleState, core>>
      /\ rState' = "INIT" /\ ~finished' /\ rHandler' = "SCHEDULER"
      /\ \A d \in Cores : ~needsResume'[d]
      /\ request'.hasDeschedule = leaves
      /\ request'.deschedulePid = pid[c]
      /\ request'.hasSchedule = (q # NoPid)
      /\ request'.schedulePid = q
      /\ waking' = (IF leaves THEN {} ELSE {c})
      /\ active[c] /\ ~finished /\ rState = "INIT"
  BY DEF Handle, Request, Disabled, Control, Resting
<1>2. Window' = Window /\ Queued' = Queued /\ OnCore' = OnCore
  BY <1>1, SameHolders
<1>3. /\ Queued \cup OnCore = runnable
      /\ pid[c] \in OnCore
      /\ Coming' = {q} \ {NoPid}
      /\ Leaving' = IF leaves THEN {pid[c]} ELSE {}
  <2>1. Coming = {} /\ Leaving = {}
    BY DEF Handle, Coming, Leaving
  <2>2. pid[c] \in OnCore
    BY DEF Handle, OnCore
  <2> QED
    BY <1>1, <2>1, <2>2 DEF Accounting, Coming, Leaving
<1>4. runnable' = (IF leaves THEN runnable \ {pid[c]} ELSE runnable) \cup ({q} \ {NoPid})
      /\ q \notin (IF leaves THEN runnable \ {pid[c]} ELSE runnable)
  BY DEF Handle
<1>5. Accounting'
  BY <1>1, <1>2, <1>3, <1>4 DEF Accounting
<1>6. Control'
  <2>1. pid[c] \in Pids /\ (q # NoPid => q \in Pids)
    BY <1>3, HeldArePids DEF Words
  <2> QED
    BY <1>1, <2>1 DEF Control, Resting
<1>7. Readiness'
  BY <1>1 DEF Handle, Readiness, Control, Resting
<1>8. Complete' /\ Ownership'
  BY <1>1, <1>2 DEF Complete, Ownership
<1> QED
  BY <1>5, <1>6, <1>7, <1>8

\* A step of a core or of the handler that leaves the scheduler's registers
\* alone, or clears what it clears when it is not enabled.
LEMMA QuietStep ==
    ASSUME IInv,
           UNCHANGED <<active, pid, ram, rFront, rEnd, rScheduleState,
                       runnable, request>>,
           \/ UNCHANGED <<rState, finished, needsResume, dataOut, rHandler>>
           \/ Disabled /\ (finished \/ Resting) /\ rHandler' # "SCHEDULER",
           \A c \in Cores : core'[c] # core[c] => core'[c] = "await" \/ active[c],
           \A c \in Cores : c \in waking' => active[c],
           waking' = waking \/ rHandler' # "SCHEDULER",
           \A c \in Cores : core'[c] # core[c] => ~needsResume[c] \/ core'[c] = "await"
    PROVE  Accounting' /\ Control' /\ Readiness' /\ Complete' /\ Ownership'
<1> USE DEF IInv
<1>1. Window' = Window /\ Queued' = Queued /\ OnCore' = OnCore
  BY SameHolders
<1>2. Coming' = Coming /\ Leaving' = Leaving
  BY DEF Disabled, Coming, Leaving, Control, Resting
<1>3. Accounting'
  BY <1>1, <1>2 DEF Accounting
<1>4. Control'
  <2>1. CASE UNCHANGED <<rState, finished, needsResume, dataOut, rHandler>>
    BY <2>1 DEF Control, Resting
  <2>2. CASE Disabled /\ (finished \/ Resting) /\ rHandler' # "SCHEDULER"
    BY <2>2 DEF Control, Resting, Disabled
  <2> QED
    BY <2>1, <2>2
<1>5. Readiness'
  BY DEF Readiness, Disabled, Control, Resting
<1>6. Complete' /\ Ownership'
  BY <1>1 DEF Complete, Ownership, Disabled, Control, Resting, Cores
<1> QED
  BY <1>3, <1>4, <1>5, <1>6

\* A clock edge while enabled: one case per state of the machine.
LEMMA ScheduleStep ==
    ASSUME IInv, Schedule
    PROVE  Accounting' /\ Control' /\ Readiness' /\ Complete' /\ Ownership'
<1> DEFINE in == inputs
<1> USE DEF IInv
<1>1. /\ rHandler = "SCHEDULER" /\ ~finished
      /\ Enabled(in)
      /\ UNCHANGED <<rHandler, request, core, waking, runnable>>
      /\ in.hasDeschedule = request.hasDeschedule
      /\ in.deschedulePid = request.deschedulePid
      /\ in.hasSchedule = request.hasSchedule
      /\ in.schedulePid = request.schedulePid
      /\ \A c \in Cores : in.ready[c] = (core[c] = "await")
  BY DEF Schedule, clientVars, inputs
<1> HIDE DEF in
<1>2. Queued \subseteq Pids /\ OnCore \subseteq Pids
  BY HeldArePids
<1>3. rFront \in Addresses /\ rEnd \in Addresses /\ ram \in [Addresses -> Words]
  BY DEF TypeOK
<1>4. CASE StateInit(in)
  <2>1. Window' = Window /\ Queued' = Queued /\ OnCore' = OnCore
    BY <1>4, SameHolders DEF StateInit
  <2>2. Coming' = Coming /\ Leaving' = Leaving
    BY <1>1, <1>4 DEF StateInit, AfterDeschedule, Coming, Leaving
  <2>3. Accounting'
    BY <1>1, <1>4, <2>1, <2>2 DEF StateInit, Accounting
  <2>4. Control' /\ Readiness'
    BY <1>1, <1>4 DEF StateInit, AfterDeschedule, Control, Readiness, Resting
  <2>5. Complete' /\ Ownership'
    BY <1>1, <1>4, <2>1 DEF StateInit, AfterDeschedule, Complete, Ownership, Cores
  <2> QED
    BY <2>3, <2>4, <2>5
<1>5. CASE DescheduleStart(in)
  <2>1. Window' = Window /\ Queued' = Queued
    BY <1>5 DEF DescheduleStart, Window, WindowOf, Queued
  <2>2. OnCore' = OnCore \ {request.deschedulePid}
    BY <1>1, <1>5 DEF DescheduleStart, OnCore, TypeOK
  <2>3. Coming' = Coming /\ Leaving = {request.deschedulePid} /\ Leaving' = {}
    BY <1>1, <1>5 DEF DescheduleStart, Coming, Leaving, Control
  <2>4. Accounting'
    BY <1>1, <1>5, <2>1, <2>2, <2>3 DEF DescheduleStart, Accounting
  <2>5. Control'
    BY <1>1, <1>5 DEF DescheduleStart, Control, Resting
  <2>6. Readiness'
    <3>1. waking = {} /\ \A c \in Cores : ~needsResume[c]
      BY <1>1, <1>5 DEF DescheduleStart, Control
    <3> QED
      BY <1>1, <1>5, <3>1 DEF DescheduleStart, Readiness, TypeOK
  <2>7. Complete' /\ Ownership'
    BY <1>1, <1>5, <2>1 DEF DescheduleStart, Complete, Ownership, TypeOK, Cores
  <2> QED
    BY <2>4, <2>5, <2>6, <2>7
<1>6. CASE DescheduleWait(in)
  <2>1. Window' = Window /\ Queued' = Queued /\ OnCore' = OnCore
    BY <1>6, SameHolders DEF DescheduleWait
  <2>2. Coming' = Coming /\ Leaving' = Leaving
    BY <1>1, <1>6 DEF DescheduleWait, AfterDeschedule, Coming, Leaving
  <2>3. Accounting'
    BY <1>1, <1>6, <2>1, <2>2 DEF DescheduleWait, Accounting
  <2>4. Control'
    BY <1>1, <1>6 DEF DescheduleWait, AfterDeschedule, Control, Resting
  <2>5. Readiness'
    BY <1>1, <1>6 DEF DescheduleWait, AfterDeschedule, Readiness
  <2>6. Complete' /\ Ownership'
    BY <1>1, <1>6, <2>1 DEF DescheduleWait, AfterDeschedule, Complete, Ownership, Cores
  <2> QED
    BY <2>3, <2>4, <2>5, <2>6
<1>7. ASSUME rState \in {"ADD_0", "ADD_1"}
      PROVE  /\ Coming = {request.schedulePid} /\ request.schedulePid \in Pids
             /\ request.schedulePid \notin Queued \cup OnCore
             /\ Bump(rEnd) # rFront
             /\ rEnd \notin Window
  <2>1. Coming = {request.schedulePid} /\ Leaving = {} /\ request.schedulePid \in Pids
    BY <1>1, <1>7 DEF Coming, Leaving, Control
  <2>2. request.schedulePid \notin Queued \cup OnCore
    BY <2>1 DEF Accounting
  <2>3. Bump(rEnd) # rFront
    BY <1>2, <2>1, <2>2, RoomForOneMore DEF Accounting
  <2> QED
    BY <1>3, <2>1, <2>2, <2>3, WindowGrows DEF Window
<1>8. CASE AddToList0(in)
  <2>1. rState = "ADD_0" /\ rState' = "ADD_1"
    BY <1>8 DEF AddToList0
  <2>2. Window' = Window /\ OnCore' = OnCore
    BY <1>8 DEF AddToList0, Window, WindowOf, OnCore, Cores
  <2>3. \A k \in Window : ram'[k] = ram[k]
    BY <1>3, <1>7, <1>8, <2>1 DEF AddToList0, Window, WindowOf
  <2>4. Queued' = Queued
    BY <2>2, <2>3 DEF Queued
  <2>5. Coming' = Coming /\ Leaving' = Leaving
    BY <1>1, <1>8 DEF AddToList0, Coming, Leaving
  <2>6. Accounting'
    BY <1>1, <1>8, <2>2, <2>3, <2>4, <2>5 DEF AddToList0, Accounting
  <2>7. Control' /\ Readiness'
    BY <1>1, <1>8 DEF AddToList0, Control, Readiness, Resting
  <2>8. Complete' /\ Ownership'
    BY <1>1, <1>8, <2>4 DEF AddToList0, Complete, Ownership, Cores
  <2> QED
    BY <2>6, <2>7, <2>8
<1>9. CASE AddToList1(in)
  <2>1. rState = "ADD_1" /\ rState' = "SCHEDULE_INIT"
    BY <1>9 DEF AddToList1
  <2>2. Window' = Window \cup {rEnd} /\ OnCore' = OnCore
    <3>1. OnCore' = OnCore
      BY <1>9 DEF AddToList1, OnCore, Cores
    <3>2. Window' = WindowOf(rFront, Bump(rEnd))
      BY <1>9 DEF AddToList1, Window
    <3> QED
      BY <1>3, <1>7, <2>1, <3>1, <3>2, WindowGrows DEF Window
  <2>3. /\ \A k \in Window : ram'[k] = ram[k]
        /\ ram'[rEnd] = request.schedulePid
    BY <1>1, <1>3, <1>7, <1>9, <2>1 DEF AddToList1, Window, WindowOf
  <2>4. Queued' = Queued \cup {request.schedulePid}
    BY <2>2, <2>3 DEF Queued
  <2>5. Coming' = {} /\ Leaving' = {} /\ Leaving = {}
    BY <1>1, <1>9 DEF AddToList1, Coming, Leaving
  <2>6. \A k, l \in Window' : ram'[k] = ram'[l] => k = l
    <3>1. \A k \in Window : ram'[k] # request.schedulePid
      BY <1>7, <2>1, <2>3 DEF Queued
    <3> QED
      BY <2>2, <2>3, <3>1 DEF Accounting
  <2>7. Accounting'
    BY <1>1, <1>7, <1>9, <2>1, <2>2, <2>4, <2>5, <2>6 DEF AddToList1, Accounting
  <2>8. Control' /\ Readiness'
    BY <1>1, <1>9 DEF AddToList1, Control, Readiness, Resting
  <2>9. Complete' /\ Ownership'
    BY <1>1, <1>7, <1>9, <2>1, <2>4 DEF AddToList1, Complete, Ownership, Cores
  <2> QED
    BY <2>7, <2>8, <2>9
<1>10. CASE ScheduleInit(in)
  <2>1. Window' = Window /\ Queued' = Queued /\ OnCore' = OnCore
    BY <1>10, SameHolders DEF ScheduleInit
  <2>2. Coming' = Coming /\ Leaving' = Leaving
    BY <1>1, <1>10 DEF ScheduleInit, Coming, Leaving
  <2>3. Accounting'
    BY <1>1, <1>10, <2>1, <2>2 DEF ScheduleInit, Accounting
  <2>4. Control' /\ Readiness'
    BY <1>1, <1>10 DEF ScheduleInit, Control, Readiness, Resting
  <2>5. Complete'
    <3>1. rFront = rEnd => Queued = {}
      BY <1>3, WindowEmpty DEF Queued, Window
    <3> QED
      BY <1>1, <1>10, <2>1, <3>1 DEF ScheduleInit, Complete, Cores
  <2>6. Ownership'
    BY <1>10 DEF ScheduleInit, Ownership
  <2> QED
    BY <2>3, <2>4, <2>5, <2>6
<1>11. CASE ReadNext(in)
  <2> DEFINE t == IF active[0] THEN 1 ELSE 0
  <2>1. /\ rFront # rEnd /\ dataOut = ram[rFront]
        /\ t \in Cores /\ ~active[t]
    BY <1>11 DEF ReadNext, Control, TypeOK, Cores
  <2>2. /\ active' = [active EXCEPT ![t] = TRUE]
        /\ pid' = [pid EXCEPT ![t] = dataOut]
        /\ needsResume' = [needsResume EXCEPT ![t] = TRUE]
        /\ finished' = (active[0] \/ active[1])
        /\ rState = "READ_NEXT" /\ rState' = "SCHEDULE_INIT"
        /\ rScheduleState' = rScheduleState \cup {dataOut}
        /\ rFront' = Bump(rFront) /\ rEnd' = rEnd /\ ram' = ram
    BY <1>11 DEF ReadNext, Activate
  <2>3. rFront \in Window /\ Window' = Window \ {rFront}
    BY <1>3, <2>1, <2>2, WindowShrinks DEF Window
  <2>4. dataOut \in Queued /\ Queued' = Queued \ {dataOut}
    BY <2>1, <2>2, <2>3 DEF Queued, Accounting
  <2>5. OnCore' = OnCore \cup {dataOut}
    BY <2>1, <2>2 DEF OnCore, TypeOK, Cores
  <2>6. Coming' = {} /\ Leaving' = {} /\ Coming = {} /\ Leaving = {}
    BY <1>1, <2>2 DEF Coming, Leaving
  <2>7. Accounting'
    BY <1>1, <2>2, <2>3, <2>4, <2>5, <2>6 DEF Accounting
  <2>8. Control'
    BY <1>1, <2>2 DEF Control, Resting
  <2>9. Readiness'
    BY <1>1, <2>1, <2>2 DEF Readiness, TypeOK
  <2>10. Complete'
    BY <1>1, <2>1, <2>2 DEF Complete, TypeOK, Cores
  <2>11. Ownership'
    <3>1. dataOut \notin OnCore
      BY <2>4 DEF Accounting
    <3>2. \A c \in Cores : active[c] => pid[c] # dataOut
      BY <3>1 DEF OnCore
    <3> QED
      BY <2>1, <2>2, <3>2 DEF Ownership, TypeOK, Cores
  <2> QED
    BY <2>7, <2>8, <2>9, <2>10, <2>11
<1> QED
  BY <1>1, <1>4, <1>5, <1>6, <1>8, <1>9, <1>10, <1>11 DEF Enabled

-----------------------------------------------------------------------------
(* The theorems.                                                           *)

\* Every step keeps the invariant.
LEMMA StepIInv == IInv /\ [Next]_vars => IInv'
<1> SUFFICES ASSUME IInv, [Next]_vars PROVE IInv'
  OBVIOUS
<1>1. TypeOK'
  BY TypeStep
<1> SUFFICES Accounting' /\ Control' /\ Readiness' /\ Complete' /\ Ownership'
  BY <1>1 DEF IInv
<1>2. ASSUME NEW c \in Cores, Post(c) \/ Saved(c)
      PROVE  Accounting' /\ Control' /\ Readiness' /\ Complete' /\ Ownership'
  BY <1>2, QuietStep DEF Post, Saved, schedulerVars, IInv, Readiness, TypeOK
<1>3. ASSUME NEW c \in Cores, Leave(c) \/ Stay(c)
      PROVE  Accounting' /\ Control' /\ Readiness' /\ Complete' /\ Ownership'
  BY <1>3, HandleStep DEF Leave, Stay
<1>4. CASE Schedule
  BY <1>4, ScheduleStep
<1>5. CASE Scheduled
  BY <1>5, QuietStep DEF Scheduled, Disabled, IInv, Readiness
<1>6. ASSUME NEW c \in Cores, Resume(c)
      PROVE  Accounting' /\ Control' /\ Readiness' /\ Complete' /\ Ownership'
  <2>1. rHandler = "DONE" /\ c \in waking /\ core[c] = "await" /\ Disabled
    BY <1>6 DEF Resume
  <2>2. active[c]
    BY <2>1 DEF IInv, Readiness
  <2> QED
    BY <1>6, <2>1, <2>2, QuietStep DEF Resume, Disabled, Resting, IInv, Control, Readiness, TypeOK
<1>7. CASE HandlerFinished
  BY <1>7, QuietStep DEF HandlerFinished, Disabled, Resting, IInv, Readiness
<1>8. CASE UNCHANGED vars
  BY <1>8, QuietStep DEF vars, IInv, Readiness
<1> QED
  BY <1>2, <1>3, <1>4, <1>5, <1>6, <1>7, <1>8 DEF Next

\* The invariant of Scheduler.v between and during requests.
THEOREM Invariance == Spec => []IInv
<1>1. Init => IInv
  BY InitIInv
<1>2. IInv /\ [Next]_vars => IInv'
  BY StepIInv
<1> QED
  BY <1>1, <1>2, PTL DEF Spec

\* The registers of Scheduler.v keep their types and widths, whatever the
\* cores and the handler do in between.
THEOREM SchedulerTypes == Spec => []TypeOK
  BY Invariance, PTL DEF IInv

\* The memory cell of a running process is wired to the core that runs it
\* (Scheduler.v fills core 0 first, ProcessorMessageHandler.v looks at the
\* process number of core 0 first, and stopped cores keep theirs).
THEOREM CellsAreOwned == Spec => []CoreOwnsItsCell
<1>1. IInv => CoreOwnsItsCell
  BY DEF IInv, TypeOK, Ownership, CoreOwnsItsCell, CellUser, Cores
<1> QED
  BY <1>1, Invariance, PTL

\* Between requests the scheduler holds exactly the runnable processes, each
\* once (the list of Scheduler.v, and the two process registers).
THEOREM RunnableAreHeld == Spec => []NoneLostNoneTwice
<1>1. IInv => NoneLostNoneTwice
  <2> SUFFICES ASSUME IInv, Resting PROVE NoneLostNoneTwice
    BY DEF NoneLostNoneTwice
  <2>1. Coming = {} /\ Leaving = {}
    BY DEF Coming, Leaving, Resting
  <2> QED
    BY <2>1 DEF IInv, Accounting, Ownership, NoneLostNoneTwice, Cores
<1> QED
  BY <1>1, Invariance, PTL

\* Between requests canHalt of Scheduler.v says exactly that no process is
\* runnable, although a process in the list has no bit of its own: no core is
\* idle while one waits there.
THEOREM HaltIsExact == Spec => []CanHaltExact
<1>1. IInv => CanHaltExact
  <2> SUFFICES ASSUME IInv, Resting PROVE CanHaltExact
    BY DEF CanHaltExact
  <2>1. Queued \cup OnCore = runnable
    BY DEF IInv, Accounting, Coming, Leaving, Resting
  <2>2. Queued = {} \/ \A c \in Cores : active[c]
    BY DEF IInv, Complete, Control
  <2>3. OnCore = {} => Queued = {}
    BY <2>2 DEF OnCore, Cores
  <2> QED
    BY <2>1, <2>2, <2>3 DEF IInv, Accounting, CanHaltExact, canHalt
<1> QED
  BY <1>1, Invariance, PTL

\* Between requests a message for a runnable process is sent where the process
\* is (MessageDelivery.v compares process numbers only).
THEOREM MessagesAreRouted == Spec => []MessagesFindTheirProcess
<1>1. IInv => MessagesFindTheirProcess
  <2> SUFFICES ASSUME IInv, Resting, NEW p \in runnable
               PROVE  CellUser(p) = {c \in Cores : active[c] /\ pid[c] = p}
    BY DEF MessagesFindTheirProcess
  <2>1. Queued \cup OnCore = runnable
    BY DEF IInv, Accounting, Coming, Leaving, Resting
  <2>2. Queued \cap OnCore = {}
    BY DEF IInv, Accounting
  <2>3. Queued = {} \/ \A c \in Cores : active[c]
    BY DEF IInv, Complete, Control
  <2>4. CASE p \in OnCore
    BY <2>4 DEF IInv, TypeOK, Ownership, CellUser, OnCore, Cores
  <2>5. CASE p \in Queued
    <3>1. \A c \in Cores : active[c] /\ pid[c] # p
      BY <2>2, <2>3, <2>5 DEF OnCore
    <3> QED
      BY <3>1 DEF CellUser
  <2> QED
    BY <2>1, <2>4, <2>5
<1> QED
  BY <1>1, Invariance, PTL

\* A core without a process has saved the last one before any later message is
\* handled, and a core that was given one waits for its message
\* (DESCHEDULE_WAIT of Scheduler.v).
THEOREM ProcessesAreSaved == Spec => []StoppedCoreHasSaved
<1>1. IInv => StoppedCoreHasSaved
  BY DEF IInv, Control, Readiness, StoppedCoreHasSaved
<1> QED
  BY <1>1, Invariance, PTL

\* The list never holds every process, as the comment at its index registers in
\* Scheduler.v says.
THEOREM ListHasRoom == Spec => []ListNeverFull
<1>1. IInv => ListNeverFull
  <2> SUFFICES ASSUME IInv, Cardinality(Pids) > 1, Queued = Pids PROVE FALSE
    BY DEF ListNeverFull
  <2>1. OnCore = {}
    BY HeldArePids DEF IInv, Accounting
  <2>2. \A c \in Cores : ~active[c]
    BY <2>1 DEF OnCore
  <2>3. Pids = {} \/ \E p \in Pids : Pids = {p}
    BY <2>2 DEF IInv, Complete
  <2>4. Cardinality(Pids) \in {0, 1}
    BY <2>3, FS_EmptySet, FS_Singleton
  <2> QED
    BY <2>4
<1> QED
  BY <1>1, Invariance, PTL

-----------------------------------------------------------------------------
(* The scheduler implements a first come first served queue.               *)

\* How many entries a window has, the index of its i-th, and the list from the
\* front to the end, for a memory m.
Size(f, e) == IF f <= e THEN e - f ELSE ListSize - f + e
Slot(f, i) == IF f + i - 1 < ListSize THEN f + i - 1 ELSE f + i - 1 - ListSize
Listing(m, f, e) == [i \in 1 .. Size(f, e) |-> m[Slot(f, i)]]

LEMMA WindowSize ==
    ASSUME NEW f \in Addresses, NEW e \in Addresses
    PROVE  Cardinality(WindowOf(f, e)) = Size(f, e) /\ Size(f, e) \in 0 .. ListSize - 1
<1> USE SchedulerAssumption
<1>1. f \in Int /\ e \in Int /\ ListSize - 1 \in Int /\ e - 1 \in Int
  BY DEF Addresses
<1>2. CASE f <= e
  <2>1. WindowOf(f, e) = f .. e - 1
    BY <1>2 DEF WindowOf, Addresses
  <2>2. Cardinality(f .. e - 1) = IF f > e - 1 THEN 0 ELSE (e - 1) - f + 1
    BY <1>1, FS_Interval
  <2> QED
    BY <1>1, <1>2, <2>1, <2>2 DEF Size, Addresses
<1>3. CASE f > e
  <2> DEFINE upper == f .. ListSize - 1
             lower == 0 .. e - 1
  <2>1. WindowOf(f, e) = upper \cup lower /\ upper \cap lower = {}
    BY <1>3 DEF WindowOf, Addresses
  <2>2. /\ IsFiniteSet(upper)
        /\ Cardinality(upper) = IF f > ListSize - 1 THEN 0 ELSE (ListSize - 1) - f + 1
    BY <1>1, FS_Interval
  <2>3. /\ IsFiniteSet(lower)
        /\ Cardinality(lower) = IF 0 > e - 1 THEN 0 ELSE (e - 1) - 0 + 1
    BY <1>1, FS_Interval
  <2>4. Cardinality(upper) = ListSize - f /\ Cardinality(lower) = e
    BY <1>1, <1>3, <2>2, <2>3 DEF Addresses
  <2>5. Cardinality(upper \cup lower) = Cardinality(upper) + Cardinality(lower) - Cardinality(upper \cap lower)
    BY <2>2, <2>3, FS_Union
  <2>6. Cardinality({}) = 0
    BY FS_EmptySet
  <2> HIDE DEF upper, lower
  <2>7. Cardinality(upper \cap lower) = 0
    BY <2>1, <2>6
  <2>8. Cardinality(WindowOf(f, e)) = (ListSize - f) + e
    BY <1>1, <2>1, <2>4, <2>5, <2>7
  <2> QED
    BY <1>1, <1>3, <2>8 DEF Size, Addresses
<1> QED
  BY <1>1, <1>2, <1>3

\* Positions and indices of a window correspond.
LEMMA SlotFacts ==
    ASSUME NEW f \in Addresses, NEW e \in Addresses
    PROVE  /\ \A i \in 1 .. Size(f, e) : Slot(f, i) \in WindowOf(f, e)
           /\ \A k \in WindowOf(f, e) : \E i \in 1 .. Size(f, e) : k = Slot(f, i)
<1> USE SchedulerAssumption
<1>1. ASSUME NEW i \in 1 .. Size(f, e)
      PROVE  Slot(f, i) \in WindowOf(f, e)
  BY DEF Slot, Size, WindowOf, Addresses
<1>2. ASSUME NEW k \in WindowOf(f, e)
      PROVE  \E i \in 1 .. Size(f, e) : k = Slot(f, i)
  <2>1. CASE f <= k
    <3>1. k - f + 1 \in 1 .. Size(f, e) /\ k = Slot(f, k - f + 1)
      BY <2>1 DEF Slot, Size, WindowOf, Addresses
    <3> QED
      BY <3>1
  <2>2. CASE k < f
    <3>1. k - f + 1 + ListSize \in 1 .. Size(f, e) /\ k = Slot(f, k - f + 1 + ListSize)
      BY <2>2 DEF Slot, Size, WindowOf, Addresses
    <3> QED
      BY <3>1
  <2> QED
    BY <2>1, <2>2 DEF WindowOf, Addresses
<1> QED
  BY <1>1, <1>2

\* Counting the window and wrapping the indices gives the same listing.
LEMMA CountedListing ==
    ASSUME NEW f \in Addresses, NEW e \in Addresses, NEW m
    PROVE  [i \in 1 .. Cardinality(WindowOf(f, e)) |-> m[(f + i - 1) % ListSize]]
             = Listing(m, f, e)
<1> USE SchedulerAssumption
<1>1. /\ Cardinality(WindowOf(f, e)) = Size(f, e)
      /\ Size(f, e) \in 0 .. ListSize - 1
  BY WindowSize
<1>2. ASSUME NEW i \in 1 .. Size(f, e)
      PROVE  (f + i - 1) % ListSize = Slot(f, i)
  <2>1. f + i - 1 \in Nat /\ f + i - 1 < ListSize + ListSize
    BY <1>1 DEF Addresses
  <2>2. PICK n \in Nat : n = f + i - 1
    BY <2>1
  <2>3. n % ListSize = IF n < ListSize THEN n ELSE n - ListSize
    BY <2>1, <2>2, WrapsOnce
  <2>4. Slot(f, i) = IF n < ListSize THEN n ELSE n - ListSize
    BY <1>1, <2>2 DEF Slot, Addresses
  <2>5. (f + i - 1) % ListSize = n % ListSize
    BY <2>2
  <2> QED
    BY <2>3, <2>4, <2>5
<1> QED
  BY <1>1, <1>2 DEF Listing

\* The refinement mapping is such a listing.
LEMMA WaitingIsListing ==
    ASSUME TypeOK
    PROVE  /\ waiting = Listing(ram, rFront, rEnd)
           /\ waiting \in Seq(Words)
           /\ {waiting[i] : i \in DOMAIN waiting} = Queued
<1> DEFINE size == Size(rFront, rEnd)
<1>1. rFront \in Addresses /\ rEnd \in Addresses /\ ram \in [Addresses -> Words]
  BY DEF TypeOK
<1>2. waiting = Listing(ram, rFront, rEnd)
  BY <1>1, CountedListing DEF waiting, Window
<1>3. \A k \in Window : k \in Addresses
  BY DEF Window, WindowOf
<1>4. \A i \in 1 .. size : Slot(rFront, i) \in Window
  BY <1>1, SlotFacts DEF Window
<1>5. \A k \in Window : \E i \in 1 .. size : k = Slot(rFront, i)
  BY <1>1, SlotFacts DEF Window
<1>6. size \in Nat
  BY <1>1, WindowSize, SchedulerAssumption
<1>7. Listing(ram, rFront, rEnd) \in [1 .. size -> Words]
  BY <1>1, <1>3, <1>4 DEF Listing
<1>8. waiting \in Seq(Words) /\ DOMAIN waiting = 1 .. size
  BY <1>2, <1>6, <1>7
<1>9. \A i \in 1 .. size : waiting[i] = ram[Slot(rFront, i)]
  BY <1>2 DEF Listing
<1> HIDE DEF size
<1>10. {waiting[i] : i \in DOMAIN waiting} \subseteq Queued
  BY <1>4, <1>8, <1>9 DEF Queued
<1>11. Queued \subseteq {waiting[i] : i \in DOMAIN waiting}
  BY <1>5, <1>8, <1>9 DEF Queued
<1> QED
  BY <1>2, <1>8, <1>10, <1>11

\* A write past the end of the list is not seen.
LEMMA SameListing ==
    ASSUME NEW f \in Addresses, NEW e \in Addresses, NEW m, NEW n,
           \A k \in WindowOf(f, e) : m[k] = n[k]
    PROVE  Listing(m, f, e) = Listing(n, f, e)
  BY SlotFacts DEF Listing

\* The second cycle of an addition appends.
LEMMA ListingGrows ==
    ASSUME NEW f \in Addresses, NEW e \in Addresses, Bump(e) # f,
           NEW m, NEW n, NEW q \in Words,
           Listing(m, f, e) \in Seq(Words),
           \A k \in WindowOf(f, e) : n[k] = m[k], n[e] = q
    PROVE  Listing(n, f, Bump(e)) = Append(Listing(m, f, e), q)
<1> USE SchedulerAssumption
<1> DEFINE old == Listing(m, f, e)
           new == Listing(n, f, Bump(e))
           size == Size(f, e)
<1>1. Bump(e) \in Addresses
  BY BumpType
<1>2. size \in Nat /\ Size(f, Bump(e)) = size + 1
  BY DEF Size, Bump, Addresses
<1>3. Slot(f, size + 1) = e
  BY DEF Slot, Size, Bump, Addresses
<1>4. \A i \in 1 .. size : new[i] = old[i]
  <2>1. \A i \in 1 .. size : i \in 1 .. size + 1
    BY <1>2
  <2>2. \A i \in 1 .. size : n[Slot(f, i)] = m[Slot(f, i)]
    BY SlotFacts
  <2> QED
    BY <1>2, <2>1, <2>2 DEF Listing
<1>5. new[size + 1] = q
  BY <1>2, <1>3 DEF Listing
<1>6. DOMAIN new = 1 .. size + 1 /\ new = [i \in 1 .. size + 1 |-> new[i]]
  BY <1>2 DEF Listing
<1>7. Len(old) = size
  BY <1>2 DEF Listing
<1>8. /\ Append(old, q) \in Seq(Words)
      /\ Len(Append(old, q)) = size + 1
      /\ \A i \in 1 .. size : Append(old, q)[i] = old[i]
      /\ Append(old, q)[size + 1] = q
  BY <1>7, AppendProperties
<1> HIDE DEF old, new, size
<1>9. \A i \in 1 .. size + 1 : new[i] = Append(old, q)[i]
  BY <1>2, <1>4, <1>5, <1>8
<1>10. Append(old, q) \in [1 .. size + 1 -> Words]
  BY <1>2, <1>8, LenProperties
<1>11. Append(old, q) = [i \in 1 .. size + 1 |-> Append(old, q)[i]]
  BY <1>10
<1>12. new = Append(old, q)
  BY <1>6, <1>9, <1>11
<1> QED
  BY <1>12 DEF new, old

\* Reading the next process takes the first.
LEMMA ListingShrinks ==
    ASSUME NEW f \in Addresses, NEW e \in Addresses, f # e, NEW m,
           Listing(m, f, e) \in Seq(Words)
    PROVE  /\ Listing(m, f, e) # << >>
           /\ Head(Listing(m, f, e)) = m[f]
           /\ Listing(m, Bump(f), e) = Tail(Listing(m, f, e))
<1> USE SchedulerAssumption
<1> DEFINE old == Listing(m, f, e)
           new == Listing(m, Bump(f), e)
           size == Size(f, e)
<1>1. size \in Nat \ {0} /\ Size(Bump(f), e) = size - 1
  BY DEF Size, Bump, Addresses
<1>2. Slot(f, 1) = f /\ \A i \in 1 .. size - 1 : Slot(Bump(f), i) = Slot(f, i + 1)
  BY DEF Slot, Size, Bump, Addresses
<1>3. Len(old) = size /\ old[1] = m[f]
  BY <1>1, <1>2 DEF Listing
<1>4. old # << >>
  BY <1>1, <1>3, EmptySeq
<1>5. /\ Tail(old) \in Seq(Words)
      /\ Len(Tail(old)) = size - 1
      /\ \A i \in 1 .. size - 1 : Tail(old)[i] = old[i + 1]
  BY <1>3, <1>4, HeadTailProperties
<1>6. \A i \in 1 .. size - 1 : new[i] = old[i + 1]
  <2>1. \A i \in 1 .. size - 1 : i + 1 \in 1 .. size
    BY <1>1
  <2> QED
    BY <1>1, <1>2, <2>1 DEF Listing
<1>7. new = [i \in 1 .. size - 1 |-> new[i]]
  BY <1>1 DEF Listing
<1> HIDE DEF old, new, size
<1>8. size - 1 \in Nat
  BY <1>1
<1>9. Tail(old) \in [1 .. size - 1 -> Words]
  BY <1>5, <1>8, LenProperties
<1>10. Tail(old) = [i \in 1 .. size - 1 |-> Tail(old)[i]]
  BY <1>9
<1>11. new = Tail(old)
  BY <1>5, <1>6, <1>7, <1>10
<1>12. Head(old) = m[f]
  BY <1>3
<1> QED
  BY <1>4, <1>11, <1>12 DEF new, old

\* The list in the next state.
LEMMA WaitingNext ==
    ASSUME TypeOK'
    PROVE  waiting' = Listing(ram', rFront', rEnd')
<1>1. rFront' \in Addresses /\ rEnd' \in Addresses
  BY DEF TypeOK
<1>2. [i \in 1 .. Cardinality(WindowOf(rFront', rEnd')) |-> ram'[(rFront' + i - 1) % ListSize]]
        = Listing(ram', rFront', rEnd')
  BY <1>1, CountedListing
<1> QED
  BY <1>2 DEF waiting, Window

\* The process of each core, as the queue sees it.
held == [c \in Cores |-> IF active[c] THEN pid[c] ELSE NoPid]

LEMMA HeldFacts ==
    ASSUME IInv
    PROVE  /\ \A c \in Cores : held[c] # NoPid <=> active[c]
           /\ ImplementsDispatchQueue!Busy = OnCore
<1>1. OnCore \subseteq Pids
  BY HeldArePids DEF IInv
<1>2. \A c \in Cores : active[c] => pid[c] \in Pids
  BY <1>1 DEF OnCore
<1>3. NoPid \notin Pids
  BY SchedulerAssumption
<1>4. \A c \in Cores : held[c] # NoPid <=> active[c]
  BY <1>2, <1>3 DEF held
<1>5. ImplementsDispatchQueue!Busy = {held[c] : c \in Cores} \ {NoPid}
  BY DEF ImplementsDispatchQueue!Busy, held
<1>6. {held[c] : c \in Cores} \ {NoPid} = OnCore
  <2>1. \A c \in Cores : active[c] => held[c] = pid[c]
    BY DEF held
  <2> QED
    BY <1>4, <2>1 DEF OnCore
<1> QED
  BY <1>4, <1>5, <1>6

\* What the machine knows while it writes an entry.
LEMMA AddFacts ==
    ASSUME IInv, rHandler = "SCHEDULER", rState \in {"ADD_0", "ADD_1"}
    PROVE  /\ request.schedulePid \in Pids
           /\ request.schedulePid \notin Queued \cup OnCore
           /\ Bump(rEnd) # rFront
           /\ rEnd \notin Window
<1> USE DEF IInv
<1>1. Coming = {request.schedulePid} /\ Leaving = {} /\ request.schedulePid \in Pids
  BY DEF Coming, Leaving, Control
<1>2. request.schedulePid \notin Queued \cup OnCore
  BY <1>1 DEF Accounting
<1>3. Queued \subseteq Pids
  BY HeldArePids
<1>4. Bump(rEnd) # rFront
  BY <1>1, <1>2, <1>3, RoomForOneMore DEF Accounting
<1>5. rFront \in Addresses /\ rEnd \in Addresses
  BY DEF TypeOK
<1> QED
  BY <1>1, <1>2, <1>4, <1>5, WindowGrows DEF Window

\* A clock edge of the machine is one step of the queue, or none.
LEMMA ScheduleIsAQueueStep ==
    ASSUME IInv, TypeOK', Schedule
    PROVE  ImplementsDispatchQueue!Next \/ UNCHANGED <<waiting, held>>
<1> DEFINE in == inputs
<1>1. /\ rHandler = "SCHEDULER" /\ ~finished
      /\ Enabled(in)
      /\ in.deschedulePid = request.deschedulePid
      /\ in.schedulePid = request.schedulePid
  BY DEF Schedule, inputs
<1> HIDE DEF in
<1>2. rFront \in Addresses /\ rEnd \in Addresses /\ ram \in [Addresses -> Words]
  BY DEF IInv, TypeOK
<1>3. /\ waiting = Listing(ram, rFront, rEnd)
      /\ waiting \in Seq(Words)
      /\ {waiting[i] : i \in DOMAIN waiting} = Queued
      /\ waiting' = Listing(ram', rFront', rEnd')
  BY WaitingIsListing, WaitingNext DEF IInv
<1>4. ASSUME UNCHANGED <<ram, rFront, rEnd, active, pid>>
      PROVE  UNCHANGED <<waiting, held>>
  BY <1>3, <1>4 DEF held
<1>5. CASE StateInit(in) \/ DescheduleWait(in) \/ ScheduleInit(in)
  BY <1>4, <1>5 DEF StateInit, DescheduleWait, ScheduleInit
<1>6. CASE DescheduleStart(in)
  <2>1. /\ active' = [c \in Cores |-> active[c] /\ pid[c] # request.deschedulePid]
        /\ pid' = pid /\ UNCHANGED waiting
    BY <1>1, <1>3, <1>6 DEF DescheduleStart
  <2>2. CASE \A c \in Cores : ~active[c] \/ pid[c] # request.deschedulePid
    BY <2>1, <2>2 DEF held, IInv, TypeOK
  <2>3. ASSUME NEW c \in Cores, active[c], pid[c] = request.deschedulePid
        PROVE  ImplementsDispatchQueue!Release(c)
    <3>1. \A d \in Cores : d # c /\ active[d] => pid[d] # request.deschedulePid
      BY <2>3 DEF IInv, Ownership, Cores
    <3>2. held' = [held EXCEPT ![c] = NoPid]
      BY <2>1, <2>3, <3>1 DEF held
    <3> QED
      BY <2>1, <2>3, <3>2, HeldFacts DEF ImplementsDispatchQueue!Release, held
  <2> QED
    BY <2>2, <2>3 DEF ImplementsDispatchQueue!Next
<1>7. CASE AddToList0(in)
  <2>1. /\ ram' = [ram EXCEPT ![rEnd] = request.schedulePid]
        /\ UNCHANGED <<active, pid, rFront, rEnd>>
        /\ rEnd \notin Window
    BY <1>1, <1>7, AddFacts DEF AddToList0
  <2>2. \A k \in WindowOf(rFront, rEnd) : ram[k] = ram'[k]
    BY <1>2, <2>1 DEF Window, WindowOf
  <2>3. Listing(ram, rFront, rEnd) = Listing(ram', rFront, rEnd)
    BY <1>2, <2>2, SameListing
  <2> QED
    BY <1>3, <2>1, <2>3 DEF held
<1>8. CASE AddToList1(in)
  <2> DEFINE q == request.schedulePid
  <2>1. /\ ram' = [ram EXCEPT ![rEnd] = q]
        /\ UNCHANGED <<active, pid, rFront>>
        /\ rEnd' = Bump(rEnd)
        /\ rEnd \notin Window /\ Bump(rEnd) # rFront
        /\ q \in Pids /\ q \notin Queued \cup OnCore
    BY <1>1, <1>8, AddFacts DEF AddToList1
  <2>2. /\ \A k \in WindowOf(rFront, rEnd) : ram'[k] = ram[k]
        /\ ram'[rEnd] = q /\ q \in Words
    BY <1>2, <2>1 DEF Window, WindowOf, Words
  <2> HIDE DEF q
  <2>3. Listing(ram', rFront, Bump(rEnd)) = Append(Listing(ram, rFront, rEnd), q)
    <3>1. Listing(ram, rFront, rEnd) \in Seq(Words)
      BY <1>3
    <3>2. Bump(rEnd) # rFront
      BY <2>1
    <3> QED
      BY <1>2, <2>2, <3>1, <3>2, ListingGrows
  <2>4. waiting' = Append(waiting, q) /\ held' = held
    BY <1>3, <2>1, <2>3 DEF held
  <2>5. ImplementsDispatchQueue!Enqueue(q)
    BY <1>3, <2>1, <2>4, HeldFacts DEF ImplementsDispatchQueue!Enqueue, held
  <2> QED
    BY <2>1, <2>5 DEF ImplementsDispatchQueue!Next
<1>9. CASE ReadNext(in)
  <2>1. PICK t \in Cores : t = IF active[0] THEN 1 ELSE 0
    BY DEF Cores
  <2>2. rFront # rEnd /\ dataOut = ram[rFront] /\ ~active[t]
    BY <1>9, <2>1 DEF ReadNext, IInv, Control, TypeOK, Cores
  <2>3. /\ active' = [active EXCEPT ![t] = TRUE]
        /\ pid' = [pid EXCEPT ![t] = dataOut]
        /\ rFront' = Bump(rFront) /\ rEnd' = rEnd /\ ram' = ram
    BY <1>9, <2>1 DEF ReadNext, Activate
  <2>4. /\ waiting # << >> /\ Head(waiting) = dataOut
        /\ waiting' = Tail(waiting)
    BY <1>2, <1>3, <2>2, <2>3, ListingShrinks
  <2>5. held' = [held EXCEPT ![t] = Head(waiting)]
    BY <2>3, <2>4 DEF held, IInv, TypeOK
  <2>6. held[t] = NoPid
    BY <2>2, HeldFacts
  <2>7. ImplementsDispatchQueue!Dispatch(t)
    BY <2>4, <2>5, <2>6 DEF ImplementsDispatchQueue!Dispatch, held
  <2> QED
    BY <2>7 DEF ImplementsDispatchQueue!Next
<1>10. \/ StateInit(in) \/ DescheduleWait(in) \/ ScheduleInit(in)
       \/ DescheduleStart(in) \/ AddToList0(in) \/ AddToList1(in)
       \/ ReadNext(in)
  BY <1>1 DEF Enabled
<1> QED
  BY <1>5, <1>6, <1>7, <1>8, <1>9, <1>10

\* The process that Scheduler.v gives an idle core is the one that has waited
\* longest, whatever its list memory does at its end.
THEOREM SchedulerIsAQueue == Spec => FirstComeFirstServed
<1>1. Init => ImplementsDispatchQueue!Init
  <2> SUFFICES ASSUME Init PROVE ImplementsDispatchQueue!Init
    OBVIOUS
  <2>1. TypeOK /\ rFront = 0 /\ rEnd = 0 /\ \A c \in Cores : ~active[c]
    BY InitIInv DEF IInv, Init, SchedulerInit
  <2>2. Size(0, 0) = 0
    BY DEF Size
  <2>3. waiting = Listing(ram, 0, 0)
    BY <2>1, WaitingIsListing
  <2>4. waiting = << >>
    BY <2>2, <2>3 DEF Listing
  <2> QED
    BY <2>1, <2>4 DEF ImplementsDispatchQueue!Init
<1>2. IInv /\ [Next]_vars =>
        [ImplementsDispatchQueue!Next]_<<waiting, held>>
  <2> SUFFICES ASSUME IInv, [Next]_vars
               PROVE  ImplementsDispatchQueue!Next \/ UNCHANGED <<waiting, held>>
    OBVIOUS
  <2>1. TypeOK'
    BY TypeStep DEF IInv
  <2>2. ASSUME UNCHANGED <<active, pid, ram, rFront, rEnd>>
        PROVE  UNCHANGED <<waiting, held>>
    BY <2>2 DEF waiting, Window, held
  <2>3. CASE Schedule
    BY <2>1, <2>3, ScheduleIsAQueueStep
  <2>4. CASE \E c \in Cores : Post(c) \/ Saved(c)
    BY <2>2, <2>4 DEF Post, Saved, schedulerVars
  <2>5. CASE \E c \in Cores : Leave(c) \/ Stay(c) \/ Resume(c)
    BY <2>2, <2>5 DEF Leave, Stay, Handle, Resume, Disabled
  <2>6. CASE Scheduled \/ HandlerFinished
    BY <2>2, <2>6 DEF Scheduled, HandlerFinished, Disabled
  <2>7. CASE UNCHANGED vars
    BY <2>2, <2>7 DEF vars
  <2> QED
    BY <2>3, <2>4, <2>5, <2>6, <2>7 DEF Next
<1> QED
  BY <1>1, <1>2, Invariance, PTL
     DEF Spec, FirstComeFirstServed, ImplementsDispatchQueue!Spec, held
=============================================================================
