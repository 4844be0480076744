------------------------- MODULE ChannelOperations -------------------------
(***************************************************************************)
(* The units of the hardware that carry out the operations on a channel:   *)
(* stannel/Send.v, Receive.v, Enable.v and Disable.v.  A channel is two    *)
(* words of a memory: the number of the process that waits at it, or 0,    *)
(* and the value of a sender that waits.                                   *)
(*                                                                         *)
(* Each unit is a record of its registers.  XClock is a rising clock edge, *)
(* on says whether the unit is enabled in this cycle, and the fields of    *)
(* the record r are its inputs; XPort is what it asks of the memory.       *)
(***************************************************************************)
EXTENDS Memory

VARIABLES send, receive, enable, disable

operationVars == <<send, receive, enable, disable>>

\* A process number is the low half of a word, as wide as an address.
PidIn(word) == word % MemorySize
MessageAt(ch) == Plus(ch, 1)

OperationsInit ==
    /\ send = [state |-> "INIT", finished |-> FALSE, rxPid |-> 0,
               pidToWrite |-> 0, message |-> 0, schedules |-> FALSE,
               deschedules |-> FALSE, addsReady |-> FALSE]
    /\ receive = [state |-> "INIT", finished |-> FALSE, txPid |-> 0,
                  message |-> 0, hasMessage |-> FALSE, schedules |-> FALSE,
                  deschedules |-> FALSE]
    /\ enable = [state |-> "INIT", finished |-> FALSE, txPid |-> 0,
                 canReceive |-> FALSE]
    /\ disable = [state |-> "INIT", finished |-> FALSE, txPid |-> 0,
                  message |-> 0, hasMessage |-> FALSE, schedules |-> FALSE]

-----------------------------------------------------------------------------
SendPort(r) ==
    CASE send.state \in {"INIT", "READ_RX_PROC"} -> Read(r.channel)
      [] send.state \in {"WRITE_TX_PROC_0", "WRITE_TX_PROC_1"} ->
            Write(r.channel, send.pidToWrite)
      [] OTHER -> Write(MessageAt(r.channel), r.message)

SendOff ==
    send' = [send EXCEPT !.state = "INIT", !.finished = FALSE,
                         !.pidToWrite = 0, !.schedules = FALSE,
                         !.deschedules = FALSE, !.addsReady = FALSE]

SendInit(r) ==
    /\ send.state = "INIT"
    /\ send' = [send EXCEPT !.state = "READ_RX_PROC", !.finished = FALSE,
                            !.message = r.message]

SendReadRxProc(ramOut) ==
    /\ send.state = "READ_RX_PROC"
    /\ send' = [send EXCEPT !.state = "HANDLE_RX_PROC", !.finished = FALSE,
                            !.rxPid = PidIn(ramOut)]

\* Nobody waits: the sender does.
SendHandleNull(r) ==
    /\ send.state = "HANDLE_RX_PROC"
    /\ send.rxPid = 0
    /\ send' = [send EXCEPT !.state = "NULL_RX_PROC", !.finished = FALSE,
                            !.pidToWrite = r.pid, !.deschedules = TRUE]

\* mutant: the sender goes on, as it does when a receiver waits.
SendRunsOn(r, altSet, readySet) ==
    /\ send.state = "HANDLE_RX_PROC"
    /\ send.rxPid # 0
    /\ send.rxPid \in altSet \ readySet
    /\ send' = [send EXCEPT !.state = "ALT_RX_PROC", !.finished = FALSE,
                            !.pidToWrite = r.pid, !.schedules = TRUE,
                            !.addsReady = TRUE]

\* The first sender to an alternation wakes it, and waits until it is disabled.
SendHandleAlternation(r, altSet, readySet) ==
    /\ send.state = "HANDLE_RX_PROC"
    /\ send.rxPid # 0
    /\ send.rxPid \in altSet \ readySet
    /\ send' = [send EXCEPT !.state = "ALT_RX_PROC", !.finished = FALSE,
                            !.pidToWrite = r.pid, !.schedules = TRUE,
                            !.deschedules = TRUE, !.addsReady = TRUE]

\* A receiver waits; or an alternation that another sender has woken, and then
\* nothing keeps the number of this sender.
SendHandleNormal(altSet, readySet) ==
    /\ send.state = "HANDLE_RX_PROC"
    /\ send.rxPid # 0
    /\ send.rxPid \notin altSet \ readySet
    /\ send' = [send EXCEPT !.state = "NORMAL_RX_PROC", !.finished = FALSE,
                            !.pidToWrite = 0,
                            !.schedules = @ \/ send.rxPid \notin readySet,
                            !.deschedules = @ \/ send.rxPid \in readySet]

\* Each write takes two cycles, the second of which repeats it.
SendOrder == [NULL_RX_PROC |-> "WRITE_TX_PROC_0",
              ALT_RX_PROC |-> "WRITE_TX_PROC_0",
              NORMAL_RX_PROC |-> "WRITE_TX_PROC_1",
              WRITE_TX_PROC_0 |-> "WRITE_TX_PROC_1",
              WRITE_TX_PROC_1 |-> "INIT"]

SendWrites ==
    /\ send.state \in DOMAIN SendOrder
    /\ send' = [send EXCEPT !.state = SendOrder[send.state],
                            !.finished = send.state = "WRITE_TX_PROC_1"]

SendClock(on, r, altSet, readySet, ramOut) ==
    \/ ~on /\ SendOff
    \/ on /\ SendInit(r)
    \/ on /\ SendReadRxProc(ramOut)
    \/ on /\ SendHandleNull(r)
    \/ on /\ SendHandleAlternation(r, altSet, readySet)
    \/ on /\ SendHandleNormal(altSet, readySet)
    \/ on /\ SendWrites

-----------------------------------------------------------------------------
ReceivePort(r) ==
    CASE receive.state \in {"INIT", "READ_TX_PROC"} -> Read(r.channel)
      [] receive.state \in {"HANDLE_TX_PROC", "READ_MESSAGE"} ->
            Read(MessageAt(r.channel))
      [] receive.state \in {"WRITE_RX_PROC_0", "WRITE_RX_PROC_1"} ->
            Write(r.channel, r.pid)
      [] OTHER -> Write(r.channel, 0)

ReceiveOff ==
    receive' = [receive EXCEPT !.state = "INIT", !.finished = FALSE,
                               !.hasMessage = FALSE, !.schedules = FALSE,
                               !.deschedules = FALSE]

ReceiveReadTxProc(ramOut) ==
    /\ receive.state = "READ_TX_PROC"
    /\ receive' = [receive EXCEPT !.state = "HANDLE_TX_PROC",
                                  !.finished = FALSE, !.txPid = PidIn(ramOut)]

\* Nobody waits: the receiver does.
ReceiveHandleNull ==
    /\ receive.state = "HANDLE_TX_PROC"
    /\ receive.txPid = 0
    /\ receive' = [receive EXCEPT !.state = "WRITE_RX_PROC_0",
                                  !.finished = FALSE, !.hasMessage = FALSE,
                                  !.schedules = FALSE, !.deschedules = TRUE]

ReceiveHandleSender ==
    /\ receive.state = "HANDLE_TX_PROC"
    /\ receive.txPid # 0
    /\ receive' = [receive EXCEPT !.state = "READ_MESSAGE",
                                  !.finished = FALSE, !.hasMessage = TRUE,
                                  !.schedules = TRUE, !.deschedules = FALSE]

\* mutant: the number of the sender stays in the word.
ReceiveLeavesWord(ramOut) ==
    /\ receive.state = "READ_MESSAGE"
    /\ receive' = [receive EXCEPT !.state = "INIT", !.finished = TRUE,
                                  !.message = ramOut]

ReceiveReadMessage(ramOut) ==
    /\ receive.state = "READ_MESSAGE"
    /\ receive' = [receive EXCEPT !.state = "WRITE_0", !.finished = FALSE,
                                  !.message = ramOut]

ReceiveOrder == [INIT |-> "READ_TX_PROC",
                 WRITE_RX_PROC_0 |-> "WRITE_RX_PROC_1",
                 WRITE_RX_PROC_1 |-> "INIT",
                 WRITE_0 |-> "WRITE_1",
                 WRITE_1 |-> "INIT"]

ReceiveMoves ==
    /\ receive.state \in DOMAIN ReceiveOrder
    /\ receive' = [receive EXCEPT !.state = ReceiveOrder[receive.state],
                                  !.finished = receive.state \in
                                      {"WRITE_RX_PROC_1", "WRITE_1"}]

ReceiveClock(on, ramOut) ==
    \/ ~on /\ ReceiveOff
    \/ on /\ ReceiveReadTxProc(ramOut)
    \/ on /\ ReceiveHandleNull
    \/ on /\ ReceiveHandleSender
    \/ on /\ ReceiveReadMessage(ramOut)
    \/ on /\ ReceiveMoves

-----------------------------------------------------------------------------
EnablePort(r) ==
    CASE enable.state \in {"INIT", "READ_TX_PROC"} -> Read(r.channel)
      [] enable.state = "HANDLE_TX_PROC" -> NoAccess
      [] OTHER -> Write(r.channel, r.pid)

EnableOff ==
    enable' = [enable EXCEPT !.state = "INIT", !.finished = FALSE,
                             !.canReceive = FALSE]

EnableReadTxProc(ramOut) ==
    /\ enable.state = "READ_TX_PROC"
    /\ enable' = [enable EXCEPT !.state = "HANDLE_TX_PROC",
                                !.finished = FALSE, !.txPid = PidIn(ramOut)]

\* mutant: the unit starts again.
EnableReadsAgain ==
    /\ enable.state = "HANDLE_TX_PROC"
    /\ enable.txPid # 0
    /\ enable' = [enable EXCEPT !.state = "INIT", !.finished = FALSE,
                                !.canReceive = TRUE]

\* A sender waits there: the alternation need not.
EnableHandleSender ==
    /\ enable.state = "HANDLE_TX_PROC"
    /\ enable.txPid # 0
    /\ enable' = [enable EXCEPT !.state = "INIT", !.finished = TRUE,
                                !.canReceive = TRUE]

EnableHandleNull ==
    /\ enable.state = "HANDLE_TX_PROC"
    /\ enable.txPid = 0
    /\ enable' = [enable EXCEPT !.state = "WRITE_RX_PROC_0",
                                !.finished = FALSE]

EnableOrder == [INIT |-> "READ_TX_PROC",
                WRITE_RX_PROC_0 |-> "WRITE_RX_PROC_1",
                WRITE_RX_PROC_1 |-> "INIT"]

EnableMoves ==
    /\ enable.state \in DOMAIN EnableOrder
    /\ enable' = [enable EXCEPT !.state = EnableOrder[enable.state],
                                !.finished = enable.state = "WRITE_RX_PROC_1"]

EnableClock(on, ramOut) ==
    \/ ~on /\ EnableOff
    \/ on /\ EnableReadTxProc(ramOut)
    \/ on /\ EnableHandleSender
    \/ on /\ EnableHandleNull
    \/ on /\ EnableMoves

-----------------------------------------------------------------------------
\* There is nothing to take, or this is the value to take.
DisableClears(r) == disable.txPid = r.pid \/ ~r.hadMessage

DisablePort(r) ==
    CASE disable.state \in {"INIT", "READ_TX_PROC"} -> Read(r.channel)
      [] disable.state = "HANDLE_TX_PROC" ->
            IF DisableClears(r) THEN Write(r.channel, 0) ELSE NoAccess
      [] disable.state = "WRITE_RX_PROC_0" -> Write(r.channel, 0)
      [] OTHER -> Read(MessageAt(r.channel))

DisableOff ==
    disable' = [disable EXCEPT !.state = "INIT", !.finished = FALSE,
                               !.hasMessage = FALSE, !.schedules = FALSE]

DisableReadTxProc(ramOut) ==
    /\ disable.state = "READ_TX_PROC"
    /\ disable' = [disable EXCEPT !.state = "HANDLE_TX_PROC",
                                  !.finished = FALSE, !.txPid = PidIn(ramOut)]

\* mutant: it does not ask whether the alternation has a value.
DisableAlways(r) ==
    /\ disable.state = "HANDLE_TX_PROC"
    /\ LET takes == disable.txPid # r.pid IN
       disable' = [disable EXCEPT !.state = "WRITE_RX_PROC_0",
                                  !.finished = ~DisableClears(r),
                                  !.hasMessage = @ \/ takes,
                                  !.schedules = @ \/ takes]

\* Whoever waits there other than this process is taken for a sender.
DisableHandle(r) ==
    /\ disable.state = "HANDLE_TX_PROC"
    /\ LET takes == disable.txPid # r.pid /\ ~r.hadMessage IN
       disable' = [disable EXCEPT !.state = "WRITE_RX_PROC_0",
                                  !.finished = ~DisableClears(r),
                                  !.hasMessage = @ \/ takes,
                                  !.schedules = @ \/ takes]

DisableReadMessage(ramOut) ==
    /\ disable.state = "READ_MESSAGE_1"
    /\ disable' = [disable EXCEPT !.state = "DONE", !.finished = TRUE,
                                  !.message = ramOut]

DisableOrder == [INIT |-> "READ_TX_PROC",
                 WRITE_RX_PROC_0 |-> "READ_MESSAGE_0",
                 READ_MESSAGE_0 |-> "READ_MESSAGE_1"]

DisableMoves ==
    /\ disable.state \in DOMAIN DisableOrder
    /\ disable' = [disable EXCEPT !.state = DisableOrder[disable.state],
                                  !.finished = disable.state = "WRITE_RX_PROC_0"
                                                   /\ ~disable.hasMessage]

DisableClock(on, r, ramOut) ==
    \/ ~on /\ DisableOff
    \/ on /\ DisableReadTxProc(ramOut)
    \/ on /\ DisableHandle(r)
    \/ on /\ DisableReadMessage(ramOut)
    \/ on /\ DisableMoves
=============================================================================
