------------------------- MODULE ChannelController -------------------------
(***************************************************************************)
(* stannel/ChannelController.v with its heap, its memory and the units of  *)
(* ChannelOperations.  Edge is a rising clock edge while it is enabled and *)
(* DisabledEdge one while it is not; its inputs are the fields of the      *)
(* record r.                                                               *)
(***************************************************************************)
EXTENDS HardwareHeap, ChannelOperations

\* Blocks of two words from address 0, and an odd end: the bump pointer never
\* meets it, so no freed block is handed out again.
ASSUME ChannelAssumption ==
    AllocSize = 2 /\ HeapBase = 0 /\ HeapMax % 2 = 1

VARIABLES
    ccState,                \* rState
    ccFinished,             \* registered output: the request is done
    channelOut,             \* registered output: the channel made
    answer,                 \* the other registered outputs
    alternationSet,         \* processes in an alternation
    alternationReadySet,    \* those that have a sender
    channelRam, channelOutWord  \* the memory and its answer

controllerVars == <<ccState, ccFinished, channelOut, answer, alternationSet,
                    alternationReadySet, channelRam, channelOutWord,
                    heapVars, operationVars>>

Nothing == [hasChannel |-> FALSE, hasMessage |-> FALSE, message |-> Undriven,
            schedules |-> FALSE, schedulePid |-> Undriven,
            deschedules |-> FALSE, deschedulePid |-> Undriven]

\* INIT starts the operation in the same cycle.
starting(enabled, r, op) == ccState = "INIT" /\ enabled /\ r.op = op

wAlloc(enabled, r) == starting(enabled, r, "CREATE_CHANNEL")

\* In DESTROY_CHANNEL this does not look at whether the heap is finished.
wFree(enabled, r) ==
    starting(enabled, r, "DESTROY_CHANNEL") \/ ccState = "DESTROY_CHANNEL"
wFreeAddress(enabled, r) == IF wFree(enabled, r) THEN r.channel ELSE 0

wSendEnabled(enabled, r) ==
    starting(enabled, r, "SEND_MESSAGE") \/ ccState = "SEND_MESSAGE"

\* The first cycle of ENABLE_CHANNEL enables the receiving unit.
wReceiveEnabled(enabled, r) ==
    \/ starting(enabled, r, "RECEIVE_MESSAGE")
    \/ starting(enabled, r, "ENABLE_CHANNEL")
    \/ ccState = "RECEIVE_MESSAGE"
wEnableEnabled == ccState = "ENABLE_CHANNEL" /\ ~enable.finished
wDisableEnabled(enabled, r) ==
    \/ starting(enabled, r, "DISABLE_CHANNEL")
    \/ ccState = "DISABLE_CHANNEL" /\ ~disable.finished

\* The memory belongs to one unit in a cycle.
MemoryPort(enabled, r) ==
    CASE wAlloc(enabled, r) \/ wFree(enabled, r) ->
            HeapPort(wAlloc(enabled, r), wFree(enabled, r),
                     wFreeAddress(enabled, r))
      [] wSendEnabled(enabled, r) -> SendPort(r)
      [] starting(enabled, r, "ENABLE_CHANNEL") \/ wEnableEnabled ->
            EnablePort(r)
      [] starting(enabled, r, "RECEIVE_MESSAGE") \/ ccState = "RECEIVE_MESSAGE"
            -> ReceivePort(r)
      [] wDisableEnabled(enabled, r) -> DisablePort(r)
      [] ccState \in {"ZERO_0", "ZERO_1"} -> Write(channelOut, 0)
      [] OTHER -> NoAccess

\* What every edge does to the heap, the memory and the units.
PartsClock(enabled, r) ==
    /\ HeapClock(wAlloc(enabled, r), wFree(enabled, r),
                 wFreeAddress(enabled, r), channelOutWord)
    /\ RamClock(channelRam, channelOutWord, MemoryPort(enabled, r))
    /\ SendClock(wSendEnabled(enabled, r), r, alternationSet,
                 alternationReadySet, channelOutWord)
    /\ ReceiveClock(wReceiveEnabled(enabled, r), channelOutWord)
    /\ EnableClock(wEnableEnabled, channelOutWord)
    /\ DisableClock(wDisableEnabled(enabled, r), r, channelOutWord)

-----------------------------------------------------------------------------
ControllerInit ==
    /\ HeapInit
    /\ OperationsInit
    /\ ccState = "INIT"
    /\ ccFinished = FALSE
    /\ channelOut = 0
    /\ answer = Nothing
    /\ alternationSet = {} /\ alternationReadySet = {}
    /\ channelRam = [k \in MemoryAddresses |-> 0]
    /\ channelOutWord = Undriven

DisabledEdge(r) ==
    /\ ccState' = "INIT"
    /\ ccFinished' = FALSE
    /\ PartsClock(FALSE, r)
    /\ UNCHANGED <<channelOut, answer, alternationSet, alternationReadySet>>

\* The operations that take more than one cycle.
LongOperations == {"CREATE_CHANNEL", "DESTROY_CHANNEL", "SEND_MESSAGE",
                   "RECEIVE_MESSAGE", "ENABLE_CHANNEL", "DISABLE_CHANNEL"}

Begin(r) ==
    /\ ccState = "INIT"
    /\ r.op \in LongOperations
    /\ ccState' = r.op
    /\ ccFinished' = FALSE
    /\ answer' = Nothing
    /\ UNCHANGED <<channelOut, alternationSet, alternationReadySet>>

AltStart(r) ==
    /\ ccState = "INIT"
    /\ r.op = "ALT_START"
    /\ alternationSet' = alternationSet \cup {r.pid}
    /\ ccFinished' = TRUE
    /\ answer' = Nothing
    /\ UNCHANGED <<ccState, channelOut, alternationReadySet>>

AltWait(r) ==
    /\ ccState = "INIT"
    /\ r.op = "ALT_WAIT"
    /\ ccFinished' = TRUE
    /\ answer' = IF r.pid \in alternationReadySet THEN Nothing
                 ELSE [Nothing EXCEPT !.deschedules = TRUE,
                                      !.deschedulePid = r.pid]
    /\ UNCHANGED <<ccState, channelOut, alternationSet, alternationReadySet>>

AltEnd(r) ==
    /\ ccState = "INIT"
    /\ r.op = "ALT_END"
    /\ alternationSet' = alternationSet \ {r.pid}
    /\ alternationReadySet' = alternationReadySet \ {r.pid}
    /\ ccFinished' = TRUE
    /\ answer' = Nothing
    /\ UNCHANGED <<ccState, channelOut>>

CreateChannel ==
    /\ ccState = "CREATE_CHANNEL"
    /\ ccState' = IF heapFinished THEN "ZERO_0" ELSE ccState
    /\ channelOut' = allocAddress
    /\ ccFinished' = FALSE
    /\ answer' = Nothing
    /\ UNCHANGED <<alternationSet, alternationReadySet>>

\* The second cycle repeats the write.
Zero ==
    /\ ccState \in {"ZERO_0", "ZERO_1"}
    /\ ccState' = IF ccState = "ZERO_0" THEN "ZERO_1" ELSE "INIT"
    /\ ccFinished' = (ccState = "ZERO_1")
    /\ answer' = [Nothing EXCEPT !.hasChannel = ccState = "ZERO_1"]
    /\ UNCHANGED <<channelOut, alternationSet, alternationReadySet>>

\* The unit at work is finished, or the state stays.
Until(finished) ==
    /\ ccFinished' = finished
    /\ ccState' = IF finished THEN "INIT" ELSE ccState

DestroyChannel ==
    /\ ccState = "DESTROY_CHANNEL"
    /\ Until(heapFinished)
    /\ answer' = Nothing
    /\ UNCHANGED <<channelOut, alternationSet, alternationReadySet>>

\* Whoever is woken gets the value; in an alternation Disable hands it over
\* once more.
SendMessage(r) ==
    /\ ccState = "SEND_MESSAGE"
    /\ Until(send.finished)
    /\ answer' = [Nothing EXCEPT !.schedules = send.schedules,
                                 !.schedulePid = send.rxPid,
                                 !.deschedules = send.deschedules,
                                 !.deschedulePid = r.pid,
                                 !.hasMessage = send.schedules,
                                 !.message = send.message]
    /\ alternationReadySet' =
           IF send.finished /\ send.addsReady
           THEN alternationReadySet \cup {send.rxPid} ELSE alternationReadySet
    /\ UNCHANGED <<channelOut, alternationSet>>

ReceiveMessage(r) ==
    /\ ccState = "RECEIVE_MESSAGE"
    /\ Until(receive.finished)
    /\ answer' = [Nothing EXCEPT !.schedules = receive.schedules,
                                 !.schedulePid = receive.txPid,
                                 !.deschedules = receive.deschedules,
                                 !.deschedulePid = r.pid,
                                 !.hasMessage = receive.hasMessage,
                                 !.message = receive.message]
    /\ UNCHANGED <<channelOut, alternationSet, alternationReadySet>>

EnableChannel(r) ==
    /\ ccState = "ENABLE_CHANNEL"
    /\ Until(enable.finished)
    /\ answer' = Nothing
    /\ alternationReadySet' =
           IF enable.canReceive THEN alternationReadySet \cup {r.pid}
                                ELSE alternationReadySet
    /\ UNCHANGED <<channelOut, alternationSet>>

DisableChannel ==
    /\ ccState = "DISABLE_CHANNEL"
    /\ Until(disable.finished)
    /\ answer' = [Nothing EXCEPT !.schedules = disable.schedules,
                                 !.schedulePid = disable.txPid,
                                 !.hasMessage = disable.hasMessage,
                                 !.message = disable.message]
    /\ UNCHANGED <<channelOut, alternationSet, alternationReadySet>>

Edge(r) ==
    /\ PartsClock(TRUE, r)
    /\ \/ Begin(r)
       \/ AltStart(r)
       \/ AltWait(r)
       \/ AltEnd(r)
       \/ CreateChannel
       \/ Zero
       \/ DestroyChannel
       \/ SendMessage(r)
       \/ ReceiveMessage(r)
       \/ EnableChannel(r)
       \/ DisableChannel
=============================================================================
