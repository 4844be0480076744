---------------------- MODULE ChannelControllerProofs ----------------------
(***************************************************************************)
(* What the channel controller of the hardware keeps true for any number   *)
(* of processes, channels and values, and any size of its memory.          *)
(***************************************************************************)
EXTENDS ChannelControllerClient, SequenceTheorems, TLAPS

-----------------------------------------------------------------------------
(* Types.                                                                  *)

Operations == {"NONE", "CREATE_CHANNEL", "DESTROY_CHANNEL", "SEND_MESSAGE",
               "RECEIVE_MESSAGE", "ENABLE_CHANNEL", "DISABLE_CHANNEL",
               "ALT_START", "ALT_WAIT", "ALT_END"}

Requests == [op : Operations, pid : MemoryAddresses, channel : MemoryAddresses,
             message : Nat, hadMessage : BOOLEAN]

Alternations == [step : {"none", "enable", "disable"},
                 arms : SUBSET MemoryAddresses, taken : Nat]

Answers == [hasChannel : BOOLEAN, hasMessage : BOOLEAN, message : Nat,
            schedules : BOOLEAN, schedulePid : MemoryAddresses,
            deschedules : BOOLEAN, deschedulePid : MemoryAddresses]

SendRegisters ==
    [state : {"INIT", "READ_RX_PROC", "HANDLE_RX_PROC", "NULL_RX_PROC",
              "ALT_RX_PROC", "NORMAL_RX_PROC", "WRITE_TX_PROC_0",
              "WRITE_TX_PROC_1"},
     finished : BOOLEAN, rxPid : MemoryAddresses,
     pidToWrite : MemoryAddresses, message : Nat,
     schedules : BOOLEAN, deschedules : BOOLEAN, addsReady : BOOLEAN]

ReceiveRegisters ==
    [state : {"INIT", "READ_TX_PROC", "HANDLE_TX_PROC", "WRITE_RX_PROC_0",
              "WRITE_RX_PROC_1", "READ_MESSAGE", "WRITE_0", "WRITE_1"},
     finished : BOOLEAN, txPid : MemoryAddresses, message : Nat, hasMessage : BOOLEAN,
     schedules : BOOLEAN, deschedules : BOOLEAN]

EnableRegisters ==
    [state : {"INIT", "READ_TX_PROC", "HANDLE_TX_PROC", "WRITE_RX_PROC_0",
              "WRITE_RX_PROC_1"},
     finished : BOOLEAN, txPid : MemoryAddresses, canReceive : BOOLEAN]

DisableRegisters ==
    [state : {"INIT", "READ_TX_PROC", "HANDLE_TX_PROC", "WRITE_RX_PROC_0",
              "READ_MESSAGE_0", "READ_MESSAGE_1", "DONE"},
     finished : BOOLEAN, txPid : MemoryAddresses, message : Nat, hasMessage : BOOLEAN,
     schedules : BOOLEAN]

UnitsTyped ==
    /\ send \in SendRegisters
    /\ receive \in ReceiveRegisters
    /\ enable \in EnableRegisters
    /\ disable \in DisableRegisters

ControllerTyped ==
    /\ heapState \in {"INIT", "UPDATE_HEAP_FREE", "WRITE_FREE"}
    /\ heapFree \in MemoryAddresses /\ heapEnd \in MemoryAddresses
    /\ allocAddress \in MemoryAddresses
    /\ heapFinished \in BOOLEAN
    /\ ccState \in {"INIT", "ZERO_0", "ZERO_1"} \cup LongOperations
    /\ ccFinished \in BOOLEAN
    /\ channelOut \in MemoryAddresses
    /\ answer \in Answers
    /\ channelRam \in [MemoryAddresses -> Nat]
    /\ channelOutWord \in Nat

ClientTyped ==
    /\ handler \in {"idle", "start", "busy"}
    /\ request \in Requests
    /\ waited \in Nat
    /\ parked \in [Processes -> Requests]
    /\ alt \in [Processes -> Alternations]
    /\ live \subseteq MemoryAddresses
    /\ made \in Nat
    /\ tx \in [MemoryAddresses -> MemoryAddresses]
    /\ rx \in [MemoryAddresses -> MemoryAddresses]
    /\ sent \in [MemoryAddresses -> Nat]
    /\ delivered \in [MemoryAddresses -> Nat]
    /\ got \in [MemoryAddresses -> Seq(Nat)]
    /\ late \subseteq MemoryAddresses /\ cleared \subseteq MemoryAddresses
    /\ astray \in BOOLEAN

TypeOK == UnitsTyped /\ ControllerTyped /\ ClientTyped

-----------------------------------------------------------------------------
(* The processes and the channels between requests.                        *)

SendsAt(ch) ==
    parked[tx[ch]].op = "SEND_MESSAGE" /\ parked[tx[ch]].channel = ch
ReceiverAt(ch) ==
    parked[rx[ch]].op = "RECEIVE_MESSAGE" /\ parked[rx[ch]].channel = ch
ArmAt(ch) == ch \in alt[rx[ch]].arms

\* What the word of a channel says: the sender that waits there, or the
\* receiver that does, or the alternation that looks at it unless a late
\* sender cleared it.
Word(ch) == IF SenderAt(ch) THEN tx[ch]
            ELSE IF ReceiverAt(ch) \/ (ArmAt(ch) /\ ch \notin cleared) THEN rx[ch]
            ELSE 0

\* A disable would take this value.
Offered(ch) == SenderAt(ch) \/ ch \in cleared

AtRest(ch) ==
    /\ channelRam[ch] = Word(ch)
    /\ Offered(ch) => channelRam[MessageAt(ch)] = sent[ch]

\* The channel that a request writes to.
Busy(ch) ==
    /\ handler # "idle" /\ request.channel = ch
    /\ request.op \in {"DESTROY_CHANNEL", "SEND_MESSAGE", "RECEIVE_MESSAGE",
                       "ENABLE_CHANNEL", "DISABLE_CHANNEL"}
Sending(ch) == Busy(ch) /\ request.op = "SEND_MESSAGE"

\* A late sender is stopped at its channel, and the word that it cleared is that
\* of an arm of an alternation that has been woken.
LateOk(ch) ==
    /\ ch \in late => SendsAt(ch)
    /\ ch \in cleared => ch \in late /\ ArmAt(ch) /\ HasValue(rx[ch])

ChannelsOk ==
    /\ \A ch \in live :
         /\ \E k \in 0 .. made - 1 : ch = 2 * k
         /\ tx[ch] \in Processes /\ rx[ch] \in Processes /\ tx[ch] # rx[ch]
         /\ SenderAt(ch) => ~ReceiverAt(ch)
         /\ sent[ch] = IF SenderAt(ch) \/ Sending(ch) \/ ch \in late
                       THEN Len(got[ch]) + 1 ELSE Len(got[ch])
         /\ LateOk(ch)
    /\ \A ch \in live : ~Busy(ch) => AtRest(ch)
    /\ late \subseteq live /\ cleared \subseteq late
    /\ made <= MaxChannels

ParkedOk(p) ==
    \/ Runs(p)
    \/ /\ parked[p].op \in {"SEND_MESSAGE", "RECEIVE_MESSAGE"}
       /\ parked[p].channel \in live
       /\ p = IF parked[p].op = "SEND_MESSAGE" THEN tx[parked[p].channel]
                                               ELSE rx[parked[p].channel]
       /\ alt[p].step = "none"
    \/ /\ parked[p].op = "ALT_WAIT"
       /\ alt[p].step = "disable"
       /\ alt[p].arms # {}

AltOk(p) ==
    /\ alt[p].taken <= 1
    /\ \A ch \in alt[p].arms : ch \in live /\ rx[ch] = p
    /\ alt[p].step = "none" => alt[p] = NoAlternation
    /\ alt[p].step = "enable" => Runs(p) /\ alt[p].taken = 0
    /\ alt[p].step = "disable" => (Runs(p) <=> HasValue(p))

InAlternation == {p \in Processes : alt[p].step # "none"}
WithValue == {p \in Processes : alt[p].step # "none" /\ HasValue(p)}

-----------------------------------------------------------------------------
(* The request in hand: c is its channel and p its process.                *)

\* What the program made sure of before it asked.
Asked(c, p) ==
    /\ p \in Processes /\ Runs(p)
    /\ request.op \in {"DESTROY_CHANNEL", "RECEIVE_MESSAGE",
                       "ENABLE_CHANNEL", "DISABLE_CHANNEL"} =>
         c \in live /\ p = rx[c]
    /\ \/ /\ request.op = "CREATE_CHANNEL"
          /\ made < MaxChannels /\ alt[p].step = "none"
       \/ /\ request.op = "DESTROY_CHANNEL"
          /\ alt[p].step = "none" /\ ~SenderAt(c) /\ c \notin late
       \/ /\ request.op = "SEND_MESSAGE"
          /\ c \in live /\ p = tx[c]
          /\ alt[p].step = "none" /\ request.message = sent[c]
       \/ request.op = "RECEIVE_MESSAGE" /\ alt[p].step = "none"
       \/ request.op = "ALT_START" /\ alt[p].step = "none"
       \/ request.op = "ENABLE_CHANNEL" /\ alt[p].step = "enable" /\ ~ArmAt(c)
       \/ /\ request.op = "ALT_WAIT"
          /\ alt[p].step = "enable" /\ alt[p].arms # {}
       \/ /\ request.op = "DISABLE_CHANNEL"
          /\ alt[p].step = "disable" /\ ArmAt(c)
          /\ request.hadMessage <=> alt[p].taken > 0
       \/ /\ request.op = "ALT_END"
          /\ alt[p].step = "disable" /\ alt[p].arms = {}

\* The units and the heap before the first cycle.
UnitsIdle ==
    /\ send.state = "INIT" /\ ~send.finished /\ ~send.schedules
    /\ ~send.deschedules /\ ~send.addsReady
    /\ receive.state = "INIT" /\ ~receive.finished
    /\ enable.state = "INIT" /\ ~enable.finished /\ ~enable.canReceive
    /\ disable.state = "INIT" /\ ~disable.finished /\ ~disable.hasMessage
    /\ ~disable.schedules
    /\ heapState = "INIT" /\ ~heapFinished

CreateAt ==
    /\ made + 1 < MaxChannels => heapEnd = 2 * (made + 1)
    /\ \/ /\ ccState = "CREATE_CHANNEL" /\ waited = 1
          /\ heapFinished /\ allocAddress = 2 * made
       \/ ccState = "ZERO_0" /\ waited = 2 /\ channelOut = 2 * made
       \/ ccState = "ZERO_1" /\ waited = 3 /\ channelOut = 2 * made

DestroyAt ==
    /\ ccState = "DESTROY_CHANNEL"
    /\ \/ heapState = "WRITE_FREE" /\ waited = 1 /\ ~heapFinished
       \/ heapState = "INIT" /\ waited = 2 /\ heapFinished

\* The sender wakes an alternation, or comes late to one.
Wakes(c) == ArmAt(c) /\ ~HasValue(rx[c])
Lost(c) == ArmAt(c) /\ HasValue(rx[c])

\* Send.v has read the word, or is about to.
SendReads(c) ==
    /\ ~send.finished /\ ~send.schedules /\ ~send.deschedules /\ ~send.addsReady
    /\ send.message = request.message
    /\ \/ send.state = "READ_RX_PROC" /\ waited = 1 /\ channelOutWord = Word(c)
       \/ send.state = "HANDLE_RX_PROC" /\ waited = 2 /\ send.rxPid = Word(c)

\* What it makes of the word.
SendWritesAt(c, p) ==
    /\ send.rxPid = Word(c)
    /\ send.message = request.message
    /\ send.schedules <=> Word(c) # 0 /\ ~Lost(c)
    /\ send.deschedules <=> ~ReceiverAt(c)
    /\ send.addsReady <=> Wakes(c)
    /\ send.pidToWrite = IF ReceiverAt(c) \/ Lost(c) THEN 0 ELSE p
    /\ channelRam[MessageAt(c)] = request.message
    /\ \/ /\ send.state \in {"NULL_RX_PROC", "ALT_RX_PROC", "NORMAL_RX_PROC"}
          /\ waited = 3 /\ ~send.finished
       \/ send.state = "WRITE_TX_PROC_0" /\ waited <= 4 /\ ~send.finished
       \/ send.state = "WRITE_TX_PROC_1" /\ waited <= 5 /\ ~send.finished
       \/ /\ send.state = "INIT" /\ waited <= 6 /\ send.finished
          /\ channelRam[c] = send.pidToWrite

SendAt(c, p) ==
    ccState = "SEND_MESSAGE" /\ (SendReads(c) \/ SendWritesAt(c, p))

ReceiveReads(c) ==
    /\ AtRest(c) /\ ~receive.finished
    /\ \/ receive.state = "READ_TX_PROC" /\ waited = 1 /\ channelOutWord = Word(c)
       \/ receive.state = "HANDLE_TX_PROC" /\ waited = 2 /\ receive.txPid = Word(c)

ReceiveTakes(c) ==
    /\ SenderAt(c)
    /\ receive.txPid = Word(c)
    /\ receive.schedules /\ receive.hasMessage /\ ~receive.deschedules
    /\ \/ /\ receive.state = "READ_MESSAGE" /\ waited = 3 /\ ~receive.finished
          /\ channelOutWord = sent[c]
       \/ /\ receive.state = "WRITE_0" /\ waited = 4 /\ ~receive.finished
          /\ receive.message = sent[c]
       \/ /\ receive.state = "WRITE_1" /\ waited = 5 /\ ~receive.finished
          /\ receive.message = sent[c]
       \/ /\ receive.state = "INIT" /\ waited = 6 /\ receive.finished
          /\ receive.message = sent[c] /\ channelRam[c] = 0

ReceiveStops(c, p) ==
    /\ ~SenderAt(c)
    /\ ~receive.schedules /\ ~receive.hasMessage /\ receive.deschedules
    /\ \/ receive.state = "WRITE_RX_PROC_0" /\ waited = 3 /\ ~receive.finished
       \/ receive.state = "WRITE_RX_PROC_1" /\ waited = 4 /\ ~receive.finished
       \/ /\ receive.state = "INIT" /\ waited = 5 /\ receive.finished
          /\ channelRam[c] = p

ReceiveAt(c, p) ==
    /\ ccState = "RECEIVE_MESSAGE"
    /\ ReceiveReads(c) \/ ReceiveTakes(c) \/ ReceiveStops(c, p)

EnableReads(c) ==
    /\ AtRest(c) /\ ~enable.canReceive /\ ~enable.finished
    /\ \/ enable.state = "INIT" /\ waited = 1
       \/ enable.state = "READ_TX_PROC" /\ waited = 2 /\ channelOutWord = Word(c)
       \/ enable.state = "HANDLE_TX_PROC" /\ waited = 3 /\ enable.txPid = Word(c)

EnableFinds(c) ==
    /\ SenderAt(c) /\ AtRest(c)
    /\ enable.state = "INIT" /\ waited = 4
    /\ enable.finished /\ enable.canReceive

EnableMarks(c, p) ==
    /\ ~SenderAt(c) /\ ~enable.canReceive
    /\ \/ enable.state = "WRITE_RX_PROC_0" /\ waited = 4 /\ ~enable.finished
       \/ enable.state = "WRITE_RX_PROC_1" /\ waited = 5 /\ ~enable.finished
       \/ /\ enable.state = "INIT" /\ waited = 6 /\ enable.finished
          /\ channelRam[c] = p

EnableAt(c, p) ==
    /\ ccState = "ENABLE_CHANNEL"
    /\ EnableReads(c) \/ EnableFinds(c) \/ EnableMarks(c, p)

\* The value of this channel is the one that the alternation takes.
Takes(c) == Offered(c) /\ ~request.hadMessage

\* It stays.
Leaves(c) == Offered(c) /\ request.hadMessage

DisableReads(c) ==
    /\ AtRest(c) /\ ~disable.finished
    /\ ~disable.hasMessage /\ ~disable.schedules
    /\ \/ disable.state = "READ_TX_PROC" /\ waited = 1 /\ channelOutWord = Word(c)
       \/ disable.state = "HANDLE_TX_PROC" /\ waited = 2 /\ disable.txPid = Word(c)

DisableLeaves(c) ==
    /\ Leaves(c) /\ AtRest(c)
    /\ disable.state = "WRITE_RX_PROC_0" /\ waited = 3 /\ disable.finished
    /\ ~disable.hasMessage /\ ~disable.schedules

DisableTakes(c) ==
    /\ Takes(c)
    /\ disable.txPid = Word(c) /\ disable.hasMessage /\ disable.schedules
    /\ channelRam[MessageAt(c)] = sent[c]
    /\ \/ disable.state = "WRITE_RX_PROC_0" /\ waited = 3 /\ ~disable.finished
       \/ /\ channelRam[c] = 0
          /\ \/ disable.state = "READ_MESSAGE_0" /\ waited = 4
                /\ ~disable.finished
             \/ disable.state = "READ_MESSAGE_1" /\ waited = 5
                /\ ~disable.finished /\ channelOutWord = sent[c]
             \/ disable.state = "DONE" /\ waited = 6
                /\ disable.finished /\ disable.message = sent[c]

DisableClears0(c) ==
    /\ ~Offered(c)
    /\ ~disable.hasMessage /\ ~disable.schedules
    /\ \/ disable.state = "WRITE_RX_PROC_0" /\ waited = 3 /\ ~disable.finished
       \/ /\ disable.state = "READ_MESSAGE_0" /\ waited = 4 /\ disable.finished
          /\ channelRam[c] = 0

DisableAt(c) ==
    /\ ccState = "DISABLE_CHANNEL"
    /\ DisableReads(c) \/ DisableLeaves(c) \/ DisableTakes(c) \/ DisableClears0(c)

-----------------------------------------------------------------------------
(* The answer to it.                                                       *)

Scheduling(wakes, p, stops, q) ==
    /\ answer.schedules <=> wakes
    /\ wakes => answer.schedulePid = p
    /\ answer.deschedules <=> stops
    /\ stops => answer.deschedulePid = q

CreateDone ==
    /\ answer = [Nothing EXCEPT !.hasChannel = TRUE]
    /\ channelOut = 2 * made
    /\ channelRam[2 * made] = 0
    /\ made + 1 < MaxChannels => heapEnd = 2 * (made + 1)

SendDone(c, p) ==
    /\ Scheduling(Word(c) # 0 /\ ~Lost(c), Word(c), ~ReceiverAt(c), p)
    /\ answer.hasMessage <=> Word(c) # 0 /\ ~Lost(c)
    /\ answer.message = sent[c]
    /\ channelRam[MessageAt(c)] = sent[c]
    /\ channelRam[c] = IF ReceiverAt(c) \/ Lost(c) THEN 0 ELSE p

ReceiveDone(c, p) ==
    /\ Scheduling(SenderAt(c), tx[c], ~SenderAt(c), p)
    /\ answer.hasMessage <=> SenderAt(c)
    /\ SenderAt(c) => answer.message = sent[c]
    /\ channelRam[c] = IF SenderAt(c) THEN 0 ELSE p

EnableDone(c, p) ==
    /\ answer = Nothing
    /\ IF SenderAt(c) THEN AtRest(c) ELSE channelRam[c] = p

DisableDone(c, p) ==
    /\ Scheduling(Takes(c), Word(c), FALSE, p)
    /\ answer.hasMessage <=> Takes(c)
    /\ Takes(c) => answer.message = sent[c]
    /\ IF Leaves(c) THEN AtRest(c) ELSE channelRam[c] = 0

AltWaitDone(p) ==
    /\ Scheduling(FALSE, 0, ~HasValue(p), p)
    /\ ~answer.hasMessage

Done(c, p) ==
    /\ answer.hasChannel <=> request.op = "CREATE_CHANNEL"
    /\ \/ request.op = "CREATE_CHANNEL" /\ CreateDone
       \/ request.op = "DESTROY_CHANNEL" /\ answer = Nothing
       \/ request.op = "SEND_MESSAGE" /\ SendDone(c, p)
       \/ request.op = "RECEIVE_MESSAGE" /\ ReceiveDone(c, p)
       \/ request.op = "ENABLE_CHANNEL" /\ EnableDone(c, p)
       \/ request.op = "DISABLE_CHANNEL" /\ DisableDone(c, p)
       \/ request.op = "ALT_WAIT" /\ AltWaitDone(p)
       \/ request.op \in {"ALT_START", "ALT_END"} /\ answer = Nothing

\* The sets of the controller, before and after the request.
SetsBefore ==
    alternationSet = InAlternation /\ alternationReadySet = WithValue

SetsAfter(c, p) ==
    /\ alternationSet =
         IF request.op = "ALT_START" THEN InAlternation \cup {p}
         ELSE IF request.op = "ALT_END" THEN InAlternation \ {p}
         ELSE InAlternation
    /\ alternationReadySet =
         IF request.op = "ALT_END" THEN WithValue \ {p}
         ELSE IF request.op = "SEND_MESSAGE" /\ Wakes(c)
              THEN WithValue \cup {rx[c]}
         ELSE IF request.op = "ENABLE_CHANNEL" /\ SenderAt(c)
              THEN WithValue \cup {p}
         ELSE WithValue

-----------------------------------------------------------------------------
(* The inductive invariant.                                                *)

\* The bump pointer, but for the channel that is being made.
Bump == made < MaxChannels => heapEnd = 2 * made

Resting ==
    /\ handler = "idle" /\ request = NoRequest
    /\ ccState = "INIT" /\ ~ccFinished /\ heapState = "INIT"
    /\ SetsBefore /\ Bump

Starting(c, p) ==
    /\ handler = "start" /\ waited = 0
    /\ ccState = "INIT" /\ ~ccFinished /\ UnitsIdle
    /\ SetsBefore /\ Bump
    /\ Asked(c, p) /\ (Busy(c) => AtRest(c))

Working(c, p) ==
    /\ handler = "busy" /\ ~ccFinished
    /\ SetsBefore /\ Asked(c, p)
    /\ request.op # "CREATE_CHANNEL" => Bump
    /\ request.op # "DESTROY_CHANNEL" => heapState = "INIT"
    /\ \/ request.op = "CREATE_CHANNEL" /\ CreateAt
       \/ request.op = "DESTROY_CHANNEL" /\ DestroyAt
       \/ request.op = "SEND_MESSAGE" /\ SendAt(c, p)
       \/ request.op = "RECEIVE_MESSAGE" /\ ReceiveAt(c, p)
       \/ request.op = "ENABLE_CHANNEL" /\ EnableAt(c, p)
       \/ request.op = "DISABLE_CHANNEL" /\ DisableAt(c)

Answered(c, p) ==
    /\ handler = "busy" /\ ccFinished
    /\ ccState = "INIT" /\ waited <= 7
    /\ SetsAfter(c, p) /\ Asked(c, p) /\ Done(c, p)
    /\ request.op # "CREATE_CHANNEL" => Bump
    /\ request.op # "DESTROY_CHANNEL" => heapState = "INIT"

Doing(c, p) ==
    Resting \/ Starting(c, p) \/ Working(c, p) \/ Answered(c, p)

IInv ==
    /\ TypeOK
    /\ ~astray
    /\ ChannelsOk
    /\ \A p \in Processes : ParkedOk(p) /\ AltOk(p)
    /\ heapState # "UPDATE_HEAP_FREE"
    /\ \E c, p \in MemoryAddresses :
         c = request.channel /\ p = request.pid /\ Doing(c, p)

-----------------------------------------------------------------------------
(* Constants and types.                                                    *)

LEMMA Constants ==
  /\ MemorySize \in Nat /\ MemorySize > 0 /\ 0 \in MemoryAddresses
  /\ HeapMax \in MemoryAddresses /\ HeapMax % 2 = 1
  /\ AllocSize = 2 /\ HeapBase = 0
  /\ Processes \subseteq MemoryAddresses /\ 0 \notin Processes
  /\ \A e \in Ends : e[1] \in Processes /\ e[2] \in Processes /\ e[1] # e[2]
  /\ MaxChannels \in Nat /\ 2 * MaxChannels <= MemorySize
  BY HardwareHeapAssumption, ChannelAssumption, ClientAssumption
  DEF MemoryAddresses

LEMMA Wraps ==
  ASSUME NEW n \in Nat
  PROVE  /\ n % MemorySize \in MemoryAddresses
         /\ n \in MemoryAddresses => n % MemorySize = n
<1>1. MemorySize \in Nat \ {0}
  BY Constants
<1>2. n % MemorySize \in 0 .. MemorySize - 1
  BY <1>1
<1>3. n \in 0 .. MemorySize - 1 => n % MemorySize = n
  BY <1>1
<1> QED
  BY <1>2, <1>3 DEF MemoryAddresses

LEMMA SendTypes ==
  ASSUME send \in SendRegisters, NEW r \in Requests, NEW w \in Nat,
         NEW on, NEW altSet, NEW readySet, SendClock(on, r, altSet, readySet, w)
  PROVE  send' \in SendRegisters
<1> USE DEF SendRegisters, Requests
<1>1. PidIn(w) \in MemoryAddresses /\ 0 \in MemoryAddresses
  BY Wraps, Constants DEF PidIn
<1>2. CASE SendOff
  BY <1>2, Constants DEF SendOff
<1>3. CASE SendInit(r)
  BY <1>3 DEF SendInit
<1>4. CASE SendReadRxProc(w)
  BY <1>4, <1>1 DEF SendReadRxProc
<1>5. CASE SendHandleNull(r)
  BY <1>5 DEF SendHandleNull
<1>6. CASE SendHandleAlternation(r, altSet, readySet)
  BY <1>6 DEF SendHandleAlternation
<1>7. CASE SendHandleNormal(altSet, readySet)
  BY <1>7, <1>1 DEF SendHandleNormal
<1>8. CASE SendWrites
  <2>1. SendOrder[send.state] \in {"WRITE_TX_PROC_0", "WRITE_TX_PROC_1", "INIT"}
    BY <1>8 DEF SendWrites, SendOrder
  <2> QED
    BY <1>8, <2>1 DEF SendWrites
<1> QED
  BY <1>2, <1>3, <1>4, <1>5, <1>6, <1>7, <1>8 DEF SendClock

LEMMA ReceiveTypes ==
  ASSUME receive \in ReceiveRegisters, NEW w \in Nat, NEW on, ReceiveClock(on, w)
  PROVE  receive' \in ReceiveRegisters
<1> USE DEF ReceiveRegisters
<1>1. PidIn(w) \in MemoryAddresses
  BY Wraps DEF PidIn
<1>2. CASE ReceiveOff
  BY <1>2 DEF ReceiveOff
<1>3. CASE ReceiveReadTxProc(w)
  BY <1>3, <1>1 DEF ReceiveReadTxProc
<1>4. CASE ReceiveHandleNull \/ ReceiveHandleSender
  BY <1>4 DEF ReceiveHandleNull, ReceiveHandleSender
<1>5. CASE ReceiveReadMessage(w)
  BY <1>5 DEF ReceiveReadMessage
<1>6. CASE ReceiveMoves
  <2>1. ReceiveOrder[receive.state] \in {"READ_TX_PROC", "WRITE_RX_PROC_1", "INIT", "WRITE_1"}
    BY <1>6 DEF ReceiveMoves, ReceiveOrder
  <2>2. PICK done \in BOOLEAN :
          receive' = [receive EXCEPT !.state = ReceiveOrder[receive.state],
                                     !.finished = done]
    <3>1. (receive.state \in {"WRITE_RX_PROC_1", "WRITE_1"}) \in BOOLEAN
      OBVIOUS
    <3> QED
      BY <1>6, <3>1 DEF ReceiveMoves
  <2> QED
    BY <2>1, <2>2
<1> QED
  BY <1>2, <1>3, <1>4, <1>5, <1>6 DEF ReceiveClock

LEMMA EnableTypes ==
  ASSUME enable \in EnableRegisters, NEW w \in Nat, NEW on, EnableClock(on, w)
  PROVE  enable' \in EnableRegisters
<1> USE DEF EnableRegisters
<1>1. PidIn(w) \in MemoryAddresses
  BY Wraps DEF PidIn
<1>2. CASE EnableOff
  BY <1>2 DEF EnableOff
<1>3. CASE EnableReadTxProc(w)
  BY <1>3, <1>1 DEF EnableReadTxProc
<1>4. CASE EnableHandleSender \/ EnableHandleNull
  BY <1>4 DEF EnableHandleSender, EnableHandleNull
<1>5. CASE EnableMoves
  <2>1. EnableOrder[enable.state] \in {"READ_TX_PROC", "WRITE_RX_PROC_1", "INIT"}
    BY <1>5 DEF EnableMoves, EnableOrder
  <2> QED
    BY <1>5, <2>1 DEF EnableMoves
<1> QED
  BY <1>2, <1>3, <1>4, <1>5 DEF EnableClock

LEMMA DisableTypes ==
  ASSUME disable \in DisableRegisters, NEW r \in Requests, NEW w \in Nat,
         NEW on, DisableClock(on, r, w)
  PROVE  disable' \in DisableRegisters
<1> USE DEF DisableRegisters, Requests
<1>1. PidIn(w) \in MemoryAddresses
  BY Wraps DEF PidIn
<1>2. CASE DisableOff
  BY <1>2 DEF DisableOff
<1>3. CASE DisableReadTxProc(w)
  BY <1>3, <1>1 DEF DisableReadTxProc
<1>4. CASE DisableHandle(r)
  BY <1>4 DEF DisableHandle, DisableClears
<1>5. CASE DisableReadMessage(w)
  BY <1>5 DEF DisableReadMessage
<1>6. CASE DisableMoves
  <2>1. DisableOrder[disable.state] \in {"READ_TX_PROC", "READ_MESSAGE_0", "READ_MESSAGE_1"}
    BY <1>6 DEF DisableMoves, DisableOrder
  <2> QED
    BY <1>6, <2>1 DEF DisableMoves
<1> QED
  BY <1>2, <1>3, <1>4, <1>5, <1>6 DEF DisableClock

LEMMA HeapTypes ==
  ASSUME ControllerTyped, heapState # "UPDATE_HEAP_FREE",
         NEW a \in MemoryAddresses, NEW w, NEW al, NEW fr, HeapClock(al, fr, a, w),
         al => heapEnd # HeapMax
  PROVE  /\ heapState' \in {"INIT", "WRITE_FREE"}
         /\ heapFree' \in MemoryAddresses /\ heapEnd' \in MemoryAddresses
         /\ allocAddress' \in MemoryAddresses
         /\ heapFinished' \in BOOLEAN
<1>1. Plus(heapEnd, AllocSize) \in MemoryAddresses
  <2>1. heapEnd + AllocSize \in Nat
    BY Constants DEF ControllerTyped, MemoryAddresses
  <2> QED
    BY <2>1, Wraps DEF Plus
<1>2. CASE HeapIdle(al, fr)
  BY <1>2 DEF HeapIdle, ControllerTyped
<1>3. CASE AllocFromEnd(al)
  BY <1>3, <1>1 DEF AllocFromEnd, ControllerTyped
<1>4. CASE StartFree(al, fr, a)
  BY <1>4 DEF StartFree, ControllerTyped
<1>5. CASE WriteFree(a)
  BY <1>5 DEF WriteFree, ControllerTyped
<1> QED
  BY <1>2, <1>3, <1>4, <1>5 DEF HeapClock, AllocFromList, UpdateHeapFree

\* What a unit may ask of the memory.
Ports == [write : BOOLEAN, at : MemoryAddresses \cup {MemorySize}, data : Nat]

LEMMA PortKinds ==
  /\ NoAccess \in Ports /\ ~NoAccess.write
  /\ \A a \in MemoryAddresses :
       /\ Read(a) \in Ports /\ ~Read(a).write /\ Read(a).at = a
       /\ \A d \in Nat : Write(a, d) \in Ports
  BY DEF Ports, NoAccess, Read, Write

LEMMA RamTypes ==
  ASSUME ControllerTyped, NEW port \in Ports,
         RamClock(channelRam, channelOutWord, port)
  PROVE  /\ channelRam' \in [MemoryAddresses -> Nat]
         /\ channelOutWord' \in Nat
  BY DEF Ports, RamClock, Stored, Answer, Undriven, ControllerTyped

LEMMA MessageAddress ==
  ASSUME NEW c \in MemoryAddresses PROVE MessageAt(c) \in MemoryAddresses
<1>1. c + 1 \in Nat
  BY Constants DEF MemoryAddresses
<1> QED
  BY <1>1, Wraps DEF MessageAt, Plus

LEMMA PortTypes ==
  ASSUME TypeOK, NEW on PROVE MemoryPort(on, request) \in Ports
<1>1. /\ request.channel \in MemoryAddresses /\ MessageAt(request.channel) \in MemoryAddresses
      /\ request.pid \in MemoryAddresses /\ request.message \in Nat
      /\ channelOut \in MemoryAddresses
      /\ heapFree \in MemoryAddresses
      /\ 0 \in MemoryAddresses
      /\ send.pidToWrite \in MemoryAddresses
  BY Constants, MessageAddress
  DEF TypeOK, ClientTyped, ControllerTyped, UnitsTyped, Requests, SendRegisters
<1>2. MemoryAddresses \subseteq Nat
  BY Constants DEF MemoryAddresses
<1>3. /\ NoAccess \in Ports
      /\ \A a \in MemoryAddresses : Read(a) \in Ports /\ Write(a, 0) \in Ports
      /\ \A a, d \in MemoryAddresses : Write(a, d) \in Ports
      /\ \A a \in MemoryAddresses, d \in Nat : Write(a, d) \in Ports
  BY <1>2, PortKinds
<1>4. wFreeAddress(on, request) \in MemoryAddresses
  BY <1>1 DEF wFreeAddress
<1>5. HeapPort(wAlloc(on, request), wFree(on, request),
               wFreeAddress(on, request)) \in Ports
  BY <1>1, <1>3, <1>4 DEF HeapPort
<1>6. SendPort(request) \in Ports
  BY <1>1, <1>3 DEF SendPort
<1>7. ReceivePort(request) \in Ports
  BY <1>1, <1>3 DEF ReceivePort
<1>8. EnablePort(request) \in Ports
  BY <1>1, <1>3 DEF EnablePort
<1>9. DisablePort(request) \in Ports
  BY <1>1, <1>3 DEF DisablePort
<1>10. Write(channelOut, 0) \in Ports
  BY <1>1, <1>3
<1> HIDE DEF Ports
<1> QED
  BY <1>3, <1>5, <1>6, <1>7, <1>8, <1>9, <1>10 DEF MemoryPort

\* The heap is asked for a block only where its bump pointer has not met its
\* end: it never does.
BumpFree == request.op = "CREATE_CHANNEL" /\ ccState = "INIT" => heapEnd # HeapMax

LEMMA PartsTypes ==
  ASSUME TypeOK, heapState # "UPDATE_HEAP_FREE", NEW on, on => BumpFree,
         PartsClock(on, request)
  PROVE  /\ UnitsTyped'
         /\ heapState' \in {"INIT", "WRITE_FREE"}
         /\ heapFree' \in MemoryAddresses /\ heapEnd' \in MemoryAddresses
         /\ allocAddress' \in MemoryAddresses
         /\ heapFinished' \in BOOLEAN
         /\ channelRam' \in [MemoryAddresses -> Nat]
         /\ channelOutWord' \in Nat
<1>1. request \in Requests /\ channelOutWord \in Nat
  BY DEF TypeOK, ClientTyped, ControllerTyped
<1>2. UnitsTyped'
  BY <1>1, SendTypes, ReceiveTypes, EnableTypes, DisableTypes
  DEF PartsClock, UnitsTyped, TypeOK
<1>3. wFreeAddress(on, request) \in MemoryAddresses
  BY <1>1, Constants DEF wFreeAddress, Requests
<1>4. wAlloc(on, request) => heapEnd # HeapMax
  BY DEF wAlloc, starting, BumpFree
<1>5. /\ HeapClock(wAlloc(on, request), wFree(on, request),
                   wFreeAddress(on, request), channelOutWord)
      /\ RamClock(channelRam, channelOutWord, MemoryPort(on, request))
  BY DEF PartsClock
<1>6. ControllerTyped
  BY DEF TypeOK
<1> QED
  BY <1>2, <1>3, <1>4, <1>5, <1>6, HeapTypes, RamTypes, PortTypes

LEMMA AnswerTypes ==
  ASSUME TypeOK, heapState # "UPDATE_HEAP_FREE", Edge(request)
  PROVE  /\ answer' \in Answers
         /\ ccState' \in {"INIT", "ZERO_0", "ZERO_1"} \cup LongOperations
         /\ ccFinished' \in BOOLEAN
         /\ channelOut' \in MemoryAddresses
<1> USE DEF TypeOK, ControllerTyped
<1>1. Nothing \in Answers
  BY Constants DEF Nothing, Answers, Undriven
<1>2. /\ request.pid \in MemoryAddresses
      /\ send \in SendRegisters /\ receive \in ReceiveRegisters
      /\ enable \in EnableRegisters /\ disable \in DisableRegisters
  BY DEF UnitsTyped, ClientTyped, Requests
<1>3. CASE Begin(request) \/ AltStart(request) \/ AltEnd(request)
  BY <1>3, <1>1 DEF Begin, AltStart, AltEnd, LongOperations
<1>4. CASE AltWait(request)
  BY <1>4, <1>1, <1>2 DEF AltWait, Answers
<1>5. CASE CreateChannel
  BY <1>5, <1>1 DEF CreateChannel
<1>6. CASE Zero
  BY <1>6, <1>1 DEF Zero, Answers
<1>7. CASE DestroyChannel
  BY <1>7, <1>1 DEF DestroyChannel, Until
<1>8. CASE SendMessage(request)
  BY <1>8, <1>1, <1>2 DEF SendMessage, Until, Answers, SendRegisters
<1>9. CASE ReceiveMessage(request)
  BY <1>9, <1>1, <1>2 DEF ReceiveMessage, Until, Answers, ReceiveRegisters
<1>10. CASE EnableChannel(request)
  BY <1>10, <1>1, <1>2 DEF EnableChannel, Until, EnableRegisters
<1>11. CASE DisableChannel
  BY <1>11, <1>1, <1>2 DEF DisableChannel, Until, Answers, DisableRegisters
<1> QED
  BY <1>3, <1>4, <1>5, <1>6, <1>7, <1>8, <1>9, <1>10, <1>11 DEF Edge

-----------------------------------------------------------------------------
(* A cycle in which the controller is enabled changes nothing of the       *)
(* processes and the channels.                                             *)

LEMMA ClientFrame ==
  ASSUME UNCHANGED clientVars, NEW ch, NEW q
  PROVE  /\ (SenderAt(ch)' <=> SenderAt(ch)) /\ (ReceiverAt(ch)' <=> ReceiverAt(ch))
         /\ (ArmAt(ch)' <=> ArmAt(ch)) /\ Word(ch)' = Word(ch)
         /\ (Offered(ch)' <=> Offered(ch)) /\ (LateOk(ch)' <=> LateOk(ch))
         /\ (Wakes(ch)' <=> Wakes(ch)) /\ (Lost(ch)' <=> Lost(ch))
         /\ (HasValue(q)' <=> HasValue(q)) /\ (Runs(q)' <=> Runs(q))
         /\ (ParkedOk(q)' <=> ParkedOk(q)) /\ (AltOk(q)' <=> AltOk(q))
         /\ InAlternation' = InAlternation /\ WithValue' = WithValue
<1> USE DEF clientVars, histories
<1>1. \A x : (SenderAt(x)' <=> SenderAt(x)) /\ (ReceiverAt(x)' <=> ReceiverAt(x))
             /\ (ArmAt(x)' <=> ArmAt(x))
  BY DEF SenderAt, ReceiverAt, ArmAt
<1>2. \A x : (HasValue(x)' <=> HasValue(x)) /\ (Runs(x)' <=> Runs(x))
  BY <1>1 DEF HasValue, Runs
<1>3. Word(ch)' = Word(ch) /\ (Offered(ch)' <=> Offered(ch))
  BY <1>1 DEF Word, Offered
<1>6. /\ (Wakes(ch)' <=> Wakes(ch)) /\ (Lost(ch)' <=> Lost(ch))
      /\ LateOk(ch)' <=> LateOk(ch)
  BY <1>1, <1>2 DEF Wakes, Lost, LateOk, SendsAt
<1>4. (ParkedOk(q)' <=> ParkedOk(q)) /\ (AltOk(q)' <=> AltOk(q))
  BY <1>2 DEF ParkedOk, AltOk
<1>5. InAlternation' = InAlternation /\ WithValue' = WithValue
  BY <1>2 DEF InAlternation, WithValue
<1> QED
  BY <1>1, <1>2, <1>3, <1>4, <1>5, <1>6

LEMMA RequestFrame ==
  ASSUME UNCHANGED clientVars, UNCHANGED request, NEW c, NEW p
  PROVE  /\ (Asked(c, p)' <=> Asked(c, p))
         /\ (Takes(c)' <=> Takes(c)) /\ (Leaves(c)' <=> Leaves(c))
<1>1. /\ (SenderAt(c)' <=> SenderAt(c)) /\ (ArmAt(c)' <=> ArmAt(c))
      /\ (Offered(c)' <=> Offered(c)) /\ \A q : Runs(q)' <=> Runs(q)
  BY ClientFrame
<1>2. Takes(c)' <=> Takes(c)
  BY <1>1 DEF Takes
<1>3. Leaves(c)' <=> Leaves(c)
  BY <1>1 DEF Leaves
<1> QED
  BY <1>1, <1>2, <1>3 DEF Asked, clientVars, histories

\* Where channels lie.
LEMMA ChannelPlaces ==
  ASSUME ChannelsOk, ClientTyped, NEW d \in live
  PROVE  /\ d \in MemoryAddresses /\ MessageAt(d) \in MemoryAddresses
         /\ MessageAt(d) = d + 1 /\ d \in Nat
         /\ \E k \in 0 .. made - 1 : d = 2 * k
<1>1. PICK k \in 0 .. made - 1 : d = 2 * k
  BY DEF ChannelsOk
<1>2. made \in Nat /\ made <= MaxChannels
  BY DEF ChannelsOk, ClientTyped
<1>3. d + 1 \in MemoryAddresses /\ d + 1 \in Nat
  BY <1>1, <1>2, Constants DEF MemoryAddresses
<1>4. MessageAt(d) = d + 1
  BY <1>3, Wraps DEF MessageAt, Plus
<1>5. d \in MemoryAddresses
  BY DEF ClientTyped
<1>6. d \in Nat
  BY <1>5, Constants DEF MemoryAddresses
<1>7. MessageAt(d) \in MemoryAddresses
  BY <1>3, <1>4
<1> QED
  BY <1>1, <1>4, <1>5, <1>6, <1>7

LEMMA ChannelsApart ==
  ASSUME ChannelsOk, ClientTyped, NEW c \in live, NEW d \in live, c # d
  PROVE  /\ MessageAt(c) # d /\ MessageAt(c) # MessageAt(d) /\ MessageAt(c) # c
         /\ c # MessageAt(d)
<1>1. PICK k \in 0 .. made - 1 : c = 2 * k
  BY DEF ChannelsOk
<1>2. PICK l \in 0 .. made - 1 : d = 2 * l
  BY DEF ChannelsOk
<1>3. MessageAt(c) = c + 1 /\ MessageAt(d) = d + 1 /\ made \in Nat
  BY ChannelPlaces DEF ClientTyped
<1> QED
  BY <1>1, <1>2, <1>3

\* The channels that the request does not touch keep their words.
KeepsRam ==
    \A d \in live : ~Busy(d) =>
        channelRam'[d] = channelRam[d]
        /\ channelRam'[MessageAt(d)] = channelRam[MessageAt(d)]

LEMMA ReadKeeps ==
  ASSUME ControllerTyped, NEW port \in Ports, ~port.write,
         RamClock(channelRam, channelOutWord, port)
  PROVE  channelRam' = channelRam /\ KeepsRam
         /\ (port.at \in MemoryAddresses => channelOutWord' = channelRam[port.at])
  BY Constants DEF RamClock, Stored, Answer, KeepsRam, Ports, MemoryAddresses

LEMMA WriteKeeps ==
  ASSUME IInv, NEW c \in live, Busy(c), NEW a \in {c, MessageAt(c)}, NEW d,
         RamClock(channelRam, channelOutWord, Write(a, d))
  PROVE  /\ KeepsRam
         /\ channelRam'[a] = d
         /\ a = c => channelRam'[MessageAt(c)] = channelRam[MessageAt(c)]
         /\ a # c => channelRam'[c] = channelRam[c]
<1>1. ChannelsOk /\ ClientTyped /\ channelRam \in [MemoryAddresses -> Nat]
  BY DEF IInv, TypeOK, ControllerTyped
<1>2. a \in MemoryAddresses /\ c \in MemoryAddresses /\ MessageAt(c) \in MemoryAddresses
  BY <1>1, ChannelPlaces
<1>3. MessageAt(c) # c
  BY <1>1, ChannelPlaces
<1>4. channelRam' = [channelRam EXCEPT ![a] = d]
  BY DEF RamClock, Stored, Write
<1>5. ASSUME NEW e \in live, ~Busy(e)
      PROVE  e # a /\ MessageAt(e) # a /\ e \in MemoryAddresses
             /\ MessageAt(e) \in MemoryAddresses
  <2>1. e # c
    BY <1>5
  <2> QED
    BY <1>1, <2>1, ChannelPlaces, ChannelsApart
<1> QED
  BY <1>1, <1>2, <1>3, <1>4, <1>5 DEF KeepsRam

LEMMA BumpIsFree == ASSUME IInv, enabled PROVE BumpFree
<1> SUFFICES ASSUME request.op = "CREATE_CHANNEL", ccState = "INIT"
             PROVE  heapEnd # HeapMax
  BY DEF BumpFree
<1>1. PICK c, p \in MemoryAddresses : Doing(c, p)
  BY DEF IInv
<1>2. Starting(c, p)
  BY <1>1 DEF Doing, Resting, Working, Answered, enabled, CreateAt
<1>3. made < MaxChannels /\ made \in Nat
  BY <1>2 DEF Starting, Asked, IInv, TypeOK, ClientTyped
<1>4. heapEnd = 2 * made
  BY <1>2, <1>3 DEF Starting, Bump
<1>5. (2 * made) % 2 = 0
  BY <1>3
<1> QED
  BY <1>4, <1>5, Constants

LEMMA WaitTypes == ASSUME IInv, Wait PROVE TypeOK'
<1>1. /\ TypeOK /\ heapState # "UPDATE_HEAP_FREE"
      /\ PartsClock(TRUE, request) /\ Edge(request) /\ BumpFree
  BY BumpIsFree DEF IInv, Wait, Edge
<1>2. UnitsTyped' /\ ControllerTyped'
  BY <1>1, PartsTypes, AnswerTypes DEF ControllerTyped
<1>3. ClientTyped'
  BY <1>1 DEF Wait, clientVars, histories, TypeOK, ClientTyped
<1> QED
  BY <1>2, <1>3 DEF TypeOK

\* What is left to prove of a cycle.
LEMMA WaitFrame ==
  ASSUME IInv, Wait, KeepsRam,
         NEW c \in MemoryAddresses, NEW p \in MemoryAddresses,
         c = request.channel, p = request.pid, Doing(c, p)'
  PROVE  IInv'
<1>1. UNCHANGED clientVars /\ UNCHANGED request /\ handler # "idle" /\ handler' = "busy"
  BY DEF Wait, enabled
<1>2. TypeOK' /\ ~astray'
  BY <1>1, WaitTypes DEF clientVars, histories, IInv
<1>3. \A ch : /\ SenderAt(ch)' <=> SenderAt(ch)
              /\ ReceiverAt(ch)' <=> ReceiverAt(ch)
              /\ Offered(ch)' <=> Offered(ch)
              /\ ArmAt(ch)' <=> ArmAt(ch)
              /\ Word(ch)' = Word(ch)
              /\ LateOk(ch)' <=> LateOk(ch)
  BY <1>1, ClientFrame
<1>4. \A ch : (Busy(ch)' <=> Busy(ch)) /\ (Sending(ch)' <=> Sending(ch))
  BY <1>1 DEF Busy, Sending
<1>5. \A ch \in live : ~Busy(ch) => AtRest(ch)'
  <2> SUFFICES ASSUME NEW ch \in live, ~Busy(ch) PROVE AtRest(ch)'
    OBVIOUS
  <2>1. AtRest(ch)
    BY DEF IInv, ChannelsOk
  <2>2. channelRam'[ch] = channelRam[ch]
        /\ channelRam'[MessageAt(ch)] = channelRam[MessageAt(ch)]
    BY DEF KeepsRam
  <2>3. sent' = sent
    BY <1>1 DEF clientVars
  <2> QED
    BY <1>3, <2>1, <2>2, <2>3 DEF AtRest
<1>6. ChannelsOk'
  BY <1>1, <1>3, <1>4, <1>5 DEF IInv, ChannelsOk, clientVars, histories
<1>7. \A q \in Processes : ParkedOk(q)' /\ AltOk(q)'
  BY <1>1, ClientFrame DEF IInv
<1>8. heapState' # "UPDATE_HEAP_FREE"
  <2>1. /\ TypeOK /\ heapState # "UPDATE_HEAP_FREE"
        /\ PartsClock(TRUE, request) /\ BumpFree
    BY BumpIsFree DEF IInv, Wait, Edge
  <2> QED
    BY <2>1, PartsTypes
<1> QED
  BY <1>1, <1>2, <1>6, <1>7, <1>8 DEF IInv

LEMMA HeapRests ==
  ASSUME heapState = "INIT", NEW a, NEW w, HeapClock(FALSE, FALSE, a, w)
  PROVE  /\ heapState' = "INIT" /\ ~heapFinished'
         /\ UNCHANGED <<heapFree, heapEnd, allocAddress>>
  BY DEF HeapClock, HeapIdle, AllocFromEnd, AllocFromList, UpdateHeapFree,
         StartFree, WriteFree

\* What an enabled cycle does in each state of the controller.
LEMMA EdgeSteps ==
  ASSUME Edge(request)
  PROVE  /\ ccState = "INIT" /\ request.op \in LongOperations => Begin(request)
         /\ ccState = "INIT" /\ request.op = "ALT_START" => AltStart(request)
         /\ ccState = "INIT" /\ request.op = "ALT_WAIT" => AltWait(request)
         /\ ccState = "INIT" /\ request.op = "ALT_END" => AltEnd(request)
         /\ ccState = "CREATE_CHANNEL" => CreateChannel
         /\ ccState \in {"ZERO_0", "ZERO_1"} => Zero
         /\ ccState = "DESTROY_CHANNEL" => DestroyChannel
         /\ ccState = "SEND_MESSAGE" => SendMessage(request)
         /\ ccState = "RECEIVE_MESSAGE" => ReceiveMessage(request)
         /\ ccState = "ENABLE_CHANNEL" => EnableChannel(request)
         /\ ccState = "DISABLE_CHANNEL" => DisableChannel
  BY DEF Edge, Begin, AltStart, AltWait, AltEnd, CreateChannel, Zero,
         DestroyChannel, SendMessage, ReceiveMessage, EnableChannel,
         DisableChannel, LongOperations

\* The unit at work in each operation and its port.
LEMMA SendParts ==
  ASSUME PartsClock(TRUE, request), request.op = "SEND_MESSAGE",
         ccState \in {"INIT", "SEND_MESSAGE"}
  PROVE  /\ HeapClock(FALSE, FALSE, 0, channelOutWord)
         /\ RamClock(channelRam, channelOutWord, SendPort(request))
         /\ SendClock(TRUE, request, alternationSet, alternationReadySet,
                      channelOutWord)
<1>1. /\ wAlloc(TRUE, request) = FALSE /\ wFree(TRUE, request) = FALSE
      /\ wFreeAddress(TRUE, request) = 0
      /\ wSendEnabled(TRUE, request) = TRUE
      /\ ~starting(TRUE, request, "RECEIVE_MESSAGE")
      /\ ~starting(TRUE, request, "ENABLE_CHANNEL") /\ ~wEnableEnabled
      /\ wDisableEnabled(TRUE, request) = FALSE
  BY DEF wAlloc, wFree, wFreeAddress, wSendEnabled, wEnableEnabled,
         wDisableEnabled, starting
<1>2. MemoryPort(TRUE, request) = SendPort(request)
  BY <1>1 DEF MemoryPort
<1> QED
  BY <1>1, <1>2 DEF PartsClock

LEMMA ReceiveParts ==
  ASSUME PartsClock(TRUE, request), request.op = "RECEIVE_MESSAGE",
         ccState \in {"INIT", "RECEIVE_MESSAGE"}
  PROVE  /\ HeapClock(FALSE, FALSE, 0, channelOutWord)
         /\ RamClock(channelRam, channelOutWord, ReceivePort(request))
         /\ ReceiveClock(TRUE, channelOutWord)
<1>1. /\ wAlloc(TRUE, request) = FALSE /\ wFree(TRUE, request) = FALSE
      /\ wFreeAddress(TRUE, request) = 0
      /\ wSendEnabled(TRUE, request) = FALSE
      /\ ~starting(TRUE, request, "ENABLE_CHANNEL") /\ ~wEnableEnabled
      /\ wReceiveEnabled(TRUE, request) = TRUE
      /\ wDisableEnabled(TRUE, request) = FALSE
      /\ starting(TRUE, request, "RECEIVE_MESSAGE") \/ ccState = "RECEIVE_MESSAGE"
  BY DEF wAlloc, wFree, wFreeAddress, wSendEnabled, wReceiveEnabled,
         wEnableEnabled, wDisableEnabled, starting
<1>2. MemoryPort(TRUE, request) = ReceivePort(request)
  BY <1>1 DEF MemoryPort
<1> QED
  BY <1>1, <1>2 DEF PartsClock

LEMMA EnableParts ==
  ASSUME PartsClock(TRUE, request), request.op = "ENABLE_CHANNEL",
         ccState \in {"INIT", "ENABLE_CHANNEL"}
  PROVE  /\ HeapClock(FALSE, FALSE, 0, channelOutWord)
         /\ RamClock(channelRam, channelOutWord,
                     IF ccState = "INIT" \/ ~enable.finished
                     THEN EnablePort(request) ELSE NoAccess)
         /\ EnableClock(ccState = "ENABLE_CHANNEL" /\ ~enable.finished,
                        channelOutWord)
<1>1. /\ wAlloc(TRUE, request) = FALSE /\ wFree(TRUE, request) = FALSE
      /\ wFreeAddress(TRUE, request) = 0
      /\ wSendEnabled(TRUE, request) = FALSE
      /\ ~starting(TRUE, request, "RECEIVE_MESSAGE")
      /\ ccState # "RECEIVE_MESSAGE" /\ ccState \notin {"ZERO_0", "ZERO_1"}
      /\ wDisableEnabled(TRUE, request) = FALSE
      /\ starting(TRUE, request, "ENABLE_CHANNEL") <=> ccState = "INIT"
      /\ wEnableEnabled <=> ccState = "ENABLE_CHANNEL" /\ ~enable.finished
  BY DEF wAlloc, wFree, wFreeAddress, wSendEnabled, wEnableEnabled,
         wDisableEnabled, starting
<1>2. MemoryPort(TRUE, request) =
        IF ccState = "INIT" \/ ~enable.finished THEN EnablePort(request)
                                                ELSE NoAccess
  BY <1>1 DEF MemoryPort
<1>3. EnableClock(ccState = "ENABLE_CHANNEL" /\ ~enable.finished, channelOutWord)
  BY DEF PartsClock, wEnableEnabled
<1> QED
  BY <1>1, <1>2, <1>3 DEF PartsClock

LEMMA DisableParts ==
  ASSUME PartsClock(TRUE, request), request.op = "DISABLE_CHANNEL",
         ccState \in {"INIT", "DISABLE_CHANNEL"}
  PROVE  /\ HeapClock(FALSE, FALSE, 0, channelOutWord)
         /\ RamClock(channelRam, channelOutWord,
                     IF ccState = "INIT" \/ ~disable.finished
                     THEN DisablePort(request) ELSE NoAccess)
         /\ ccState = "INIT" \/ ~disable.finished =>
              DisableClock(TRUE, request, channelOutWord)
<1>1. /\ wAlloc(TRUE, request) = FALSE /\ wFree(TRUE, request) = FALSE
      /\ wFreeAddress(TRUE, request) = 0
      /\ wSendEnabled(TRUE, request) = FALSE
      /\ ~starting(TRUE, request, "RECEIVE_MESSAGE")
      /\ ccState # "RECEIVE_MESSAGE" /\ ccState \notin {"ZERO_0", "ZERO_1"}
      /\ ~starting(TRUE, request, "ENABLE_CHANNEL") /\ ~wEnableEnabled
      /\ wDisableEnabled(TRUE, request) = (ccState = "INIT" \/ ~disable.finished)
  BY DEF wAlloc, wFree, wFreeAddress, wSendEnabled, wEnableEnabled,
         wDisableEnabled, starting
<1>2. MemoryPort(TRUE, request) =
        IF ccState = "INIT" \/ ~disable.finished THEN DisablePort(request)
                                                 ELSE NoAccess
  BY <1>1 DEF MemoryPort
<1>3. DisableClock(ccState = "INIT" \/ ~disable.finished, request, channelOutWord)
  BY <1>1 DEF PartsClock
<1> QED
  BY <1>1, <1>2, <1>3 DEF PartsClock

\* The operations on an alternation, and the making of a channel.
LEMMA CreateParts ==
  ASSUME PartsClock(TRUE, request), request.op = "CREATE_CHANNEL",
         ccState \in {"INIT", "CREATE_CHANNEL", "ZERO_0", "ZERO_1"},
         heapEnd # HeapMax \/ ccState # "INIT", heapState = "INIT"
  PROVE  /\ HeapClock(ccState = "INIT", FALSE, 0, channelOutWord)
         /\ RamClock(channelRam, channelOutWord,
                     IF ccState \in {"ZERO_0", "ZERO_1"} THEN Write(channelOut, 0)
                     ELSE NoAccess)
<1>1. /\ wAlloc(TRUE, request) = (ccState = "INIT") /\ wFree(TRUE, request) = FALSE
      /\ wFreeAddress(TRUE, request) = 0
      /\ wSendEnabled(TRUE, request) = FALSE
      /\ ~starting(TRUE, request, "RECEIVE_MESSAGE")
      /\ ccState # "RECEIVE_MESSAGE"
      /\ ~starting(TRUE, request, "ENABLE_CHANNEL") /\ ~wEnableEnabled
      /\ wDisableEnabled(TRUE, request) = FALSE
  BY DEF wAlloc, wFree, wFreeAddress, wSendEnabled, wEnableEnabled,
         wDisableEnabled, starting
<1>2. ccState = "INIT" => HeapPort(TRUE, FALSE, 0) = NoAccess
  BY DEF HeapPort
<1>3. MemoryPort(TRUE, request) =
        IF ccState \in {"ZERO_0", "ZERO_1"} THEN Write(channelOut, 0) ELSE NoAccess
  <2>1. CASE ccState = "INIT"
    BY <1>1, <1>2, <2>1 DEF MemoryPort
  <2>2. CASE ccState # "INIT"
    BY <1>1, <2>2 DEF MemoryPort
  <2> QED
    BY <2>1, <2>2
<1> QED
  BY <1>1, <1>3 DEF PartsClock

LEMMA AlternationParts ==
  ASSUME PartsClock(TRUE, request),
         request.op \in {"ALT_START", "ALT_WAIT", "ALT_END"}, ccState = "INIT"
  PROVE  /\ HeapClock(FALSE, FALSE, 0, channelOutWord)
         /\ RamClock(channelRam, channelOutWord, NoAccess)
<1>1. /\ wAlloc(TRUE, request) = FALSE /\ wFree(TRUE, request) = FALSE
      /\ wFreeAddress(TRUE, request) = 0
      /\ wSendEnabled(TRUE, request) = FALSE
      /\ ~starting(TRUE, request, "RECEIVE_MESSAGE")
      /\ ~starting(TRUE, request, "ENABLE_CHANNEL") /\ ~wEnableEnabled
      /\ wDisableEnabled(TRUE, request) = FALSE
  BY DEF wAlloc, wFree, wFreeAddress, wSendEnabled, wEnableEnabled,
         wDisableEnabled, starting
<1>2. MemoryPort(TRUE, request) = NoAccess
  BY <1>1 DEF MemoryPort
<1> QED
  BY <1>1, <1>2 DEF PartsClock

LEMMA DestroyParts ==
  ASSUME PartsClock(TRUE, request), request.op = "DESTROY_CHANNEL",
         ccState \in {"INIT", "DESTROY_CHANNEL"},
         heapState \in {"INIT", "WRITE_FREE"}
  PROVE  /\ HeapClock(FALSE, TRUE, request.channel, channelOutWord)
         /\ RamClock(channelRam, channelOutWord, Write(request.channel, heapFree))
<1>1. /\ wAlloc(TRUE, request) = FALSE /\ wFree(TRUE, request) = TRUE
      /\ wFreeAddress(TRUE, request) = request.channel
      /\ wSendEnabled(TRUE, request) = FALSE
      /\ ~starting(TRUE, request, "RECEIVE_MESSAGE")
      /\ ~starting(TRUE, request, "ENABLE_CHANNEL") /\ ~wEnableEnabled
      /\ wDisableEnabled(TRUE, request) = FALSE
  BY DEF wAlloc, wFree, wFreeAddress, wSendEnabled, wEnableEnabled,
         wDisableEnabled, starting
<1>2. HeapPort(FALSE, TRUE, request.channel) = Write(request.channel, heapFree)
  BY DEF HeapPort
<1>3. MemoryPort(TRUE, request) = Write(request.channel, heapFree)
  BY <1>1, <1>2 DEF MemoryPort
<1> QED
  BY <1>1, <1>3 DEF PartsClock

\* A cycle after which the request is not answered, and one after which it is,
\* for the operations that leave the heap alone.
LEMMA WorkingFrame ==
  ASSUME IInv, Wait, KeepsRam,
         NEW c \in MemoryAddresses, NEW p \in MemoryAddresses,
         c = request.channel, p = request.pid,
         Asked(c, p), SetsBefore, Bump, ~ccFinished', heapState' = "INIT",
         UNCHANGED <<alternationSet, alternationReadySet, heapEnd>>,
         \/ request.op = "SEND_MESSAGE" /\ SendAt(c, p)'
         \/ request.op = "RECEIVE_MESSAGE" /\ ReceiveAt(c, p)'
         \/ request.op = "ENABLE_CHANNEL" /\ EnableAt(c, p)'
         \/ request.op = "DISABLE_CHANNEL" /\ DisableAt(c)'
  PROVE  IInv'
<1>1. UNCHANGED clientVars /\ UNCHANGED request /\ handler' = "busy"
  BY DEF Wait
<1>2. Asked(c, p)' /\ InAlternation' = InAlternation /\ WithValue' = WithValue
  BY <1>1, RequestFrame, ClientFrame
<1>3. Bump' /\ SetsBefore'
  BY <1>1, <1>2 DEF Bump, SetsBefore, clientVars, histories
<1>4. Working(c, p)'
  BY <1>1, <1>2, <1>3 DEF Working
<1> QED
  BY <1>4, WaitFrame DEF Doing

LEMMA AnsweredFrame ==
  ASSUME IInv, Wait, KeepsRam,
         NEW c \in MemoryAddresses, NEW p \in MemoryAddresses,
         c = request.channel, p = request.pid,
         Asked(c, p), Bump, ccFinished', ccState' = "INIT", waited' <= 7,
         heapState' = "INIT", heapEnd' = heapEnd,
         SetsAfter(c, p)', Done(c, p)'
  PROVE  IInv'
<1>1. UNCHANGED clientVars /\ UNCHANGED request /\ handler' = "busy"
  BY DEF Wait
<1>2. Asked(c, p)' /\ Bump'
  BY <1>1, RequestFrame DEF Bump, clientVars
<1>3. Answered(c, p)'
  BY <1>1, <1>2 DEF Answered
<1> QED
  BY <1>3, WaitFrame DEF Doing

\* What a process that runs is not, and what one that is stopped is.
LEMMA Runner ==
  ASSUME NEW q, Runs(q)
  PROVE  /\ parked[q].op = "NONE"
         /\ \A ch : tx[ch] = q => ~SenderAt(ch)
         /\ \A ch : rx[ch] = q => ~ReceiverAt(ch)
  BY DEF Runs, NoRequest, SenderAt, ReceiverAt

LEMMA NoArms ==
  ASSUME IInv, NEW q \in Processes, alt[q].step = "none"
  PROVE  alt[q].arms = {} /\ alt[q].taken = 0 /\ q \notin InAlternation
         /\ q \notin WithValue /\ ~HasValue(q)
<1>1. alt[q] = NoAlternation
  BY DEF IInv, AltOk
<1> QED
  BY <1>1 DEF NoAlternation, InAlternation, WithValue, HasValue

\* A late sender is stopped, and its channel is an arm until it is disabled.
LEMMA LateSender ==
  ASSUME IInv, NEW c
  PROVE  /\ c \in late => c \in live /\ ~Runs(tx[c]) /\ ~SenderAt(c)
         /\ c \in cleared => c \in late /\ ArmAt(c) /\ HasValue(rx[c])
         /\ Runs(tx[c]) => c \notin late /\ c \notin cleared /\ ~Offered(c)
         /\ ~ArmAt(c) => (Offered(c) <=> SenderAt(c))
<1>1. c \in late => c \in live /\ ~Runs(tx[c]) /\ ~SenderAt(c)
  BY Runner DEF IInv, ChannelsOk, LateOk, SendsAt, SenderAt
<1>2. c \in cleared => c \in late /\ ArmAt(c) /\ HasValue(rx[c])
  BY DEF IInv, ChannelsOk, LateOk
<1>3. Runs(tx[c]) => ~SenderAt(c)
  BY Runner
<1> QED
  BY <1>1, <1>2, <1>3 DEF Offered

LEMMA Receiver ==
  ASSUME IInv, NEW c \in live, ReceiverAt(c)
  PROVE  /\ ~ArmAt(c) /\ ~SenderAt(c) /\ Word(c) = rx[c]
         /\ rx[c] \notin InAlternation /\ rx[c] \notin WithValue
         /\ alt[rx[c]].step = "none" /\ ~Runs(rx[c])
<1>1. rx[c] \in Processes /\ ~SenderAt(c)
  BY DEF IInv, ChannelsOk
<1>2. ~Runs(rx[c])
  BY Runner
<1>3. alt[rx[c]].step = "none"
  BY <1>1, <1>2 DEF IInv, ParkedOk, ReceiverAt
<1> QED
  BY <1>1, <1>2, <1>3, NoArms DEF ArmAt, Word

LEMMA Alternative ==
  ASSUME IInv, NEW c \in live, ArmAt(c), ~Runs(rx[c])
  PROVE  /\ ~ReceiverAt(c) /\ ~SenderAt(c) /\ Word(c) = rx[c]
         /\ rx[c] \in InAlternation /\ rx[c] \notin WithValue
         /\ alt[rx[c]].step = "disable" /\ ~HasValue(rx[c])
<1>1. rx[c] \in Processes
  BY DEF IInv, ChannelsOk
<1>2. ~ReceiverAt(c)
  BY Receiver
<1>3. alt[rx[c]].step # "none"
  BY <1>1, NoArms DEF ArmAt
<1>4. alt[rx[c]] \in Alternations
  BY <1>1 DEF IInv, TypeOK, ClientTyped
<1>5. AltOk(rx[c])
  BY <1>1 DEF IInv
<1>6. alt[rx[c]].step = "disable" /\ ~HasValue(rx[c])
  BY <1>3, <1>4, <1>5 DEF AltOk, Alternations
<1>7. ~SenderAt(c) /\ c \notin cleared
  BY <1>6, LateSender DEF HasValue, ArmAt
<1> QED
  BY <1>1, <1>2, <1>6, <1>7 DEF Word, InAlternation, WithValue

LEMMA WordTypes ==
  ASSUME IInv, NEW c \in live
  PROVE  /\ Word(c) \in MemoryAddresses /\ PidIn(Word(c)) = Word(c)
         /\ tx[c] \in Processes /\ rx[c] \in Processes /\ tx[c] # rx[c]
         /\ tx[c] # 0 /\ rx[c] # 0
<1>1. tx[c] \in Processes /\ rx[c] \in Processes /\ tx[c] # rx[c]
  BY DEF IInv, ChannelsOk
<1>2. Word(c) \in MemoryAddresses
  BY <1>1, Constants DEF Word
<1>3. Word(c) \in Nat
  BY <1>2, Constants DEF MemoryAddresses
<1> QED
  BY <1>1, <1>2, <1>3, Wraps, Constants DEF PidIn

-----------------------------------------------------------------------------
(* Sending.                                                                *)

LEMMA SendFacts ==
  ASSUME IInv, NEW c, NEW p, Asked(c, p), request.op = "SEND_MESSAGE"
  PROVE  /\ c \in live /\ p = tx[c] /\ p \in Processes /\ p # 0
         /\ ~SenderAt(c) /\ request.message = sent[c]
         /\ Word(c) = IF ReceiverAt(c) \/ ArmAt(c) THEN rx[c] ELSE 0
         /\ Word(c) = 0 <=> ~ReceiverAt(c) /\ ~ArmAt(c)
         /\ ReceiverAt(c) => ~ArmAt(c)
         /\ ReceiverAt(c) => Word(c) \notin InAlternation /\ Word(c) \notin WithValue
         /\ ArmAt(c) => /\ Word(c) \in InAlternation
                        /\ Word(c) \in WithValue <=> Lost(c)
         /\ Wakes(c) <=> ArmAt(c) /\ ~Lost(c)
         /\ Lost(c) => ArmAt(c)
<1>1. /\ c \in live /\ p = tx[c] /\ p \in Processes /\ Runs(p)
      /\ request.message = sent[c]
  BY DEF Asked
<1>2. ~SenderAt(c) /\ c \notin cleared
  BY <1>1, Runner, LateSender
<1>3. Word(c) = IF ReceiverAt(c) \/ ArmAt(c) THEN rx[c] ELSE 0
  BY <1>2 DEF Word
<1>4. p # 0 /\ rx[c] # 0 /\ rx[c] \in Processes
  BY <1>1, WordTypes
<1>5. Word(c) = 0 <=> ~ReceiverAt(c) /\ ~ArmAt(c)
  BY <1>3, <1>4
<1>6. ReceiverAt(c) => /\ ~ArmAt(c)
                       /\ Word(c) \notin InAlternation /\ Word(c) \notin WithValue
  BY <1>1, Receiver
<1>7. ArmAt(c) => /\ Word(c) \in InAlternation
                  /\ Word(c) \in WithValue <=> Lost(c)
  <2>1. ArmAt(c) => alt[rx[c]].step # "none"
    BY <1>4, NoArms DEF ArmAt
  <2> QED
    BY <1>3, <1>4, <2>1 DEF InAlternation, WithValue, Lost
<1>8. (Wakes(c) <=> ArmAt(c) /\ ~Lost(c)) /\ (Lost(c) => ArmAt(c))
  BY DEF Wakes, Lost
<1> QED
  BY <1>1, <1>2, <1>3, <1>4, <1>5, <1>6, <1>7, <1>8

LEMMA SendStarts ==
  ASSUME IInv, Wait, NEW c \in MemoryAddresses, NEW p \in MemoryAddresses,
         c = request.channel, p = request.pid, Starting(c, p),
         request.op = "SEND_MESSAGE"
  PROVE  IInv'
<1>1. /\ PartsClock(TRUE, request) /\ ccState = "INIT" /\ Edge(request)
      /\ waited' = waited + 1 /\ waited = 0 /\ UNCHANGED clientVars
      /\ UNCHANGED request
      /\ Asked(c, p) /\ SetsBefore /\ Bump /\ UnitsIdle
      /\ Busy(c) => AtRest(c)
  BY DEF Wait, Edge, Starting
<1>2. /\ HeapClock(FALSE, FALSE, 0, channelOutWord)
      /\ RamClock(channelRam, channelOutWord, SendPort(request))
      /\ SendClock(TRUE, request, alternationSet, alternationReadySet,
                   channelOutWord)
  BY <1>1, SendParts
<1>3. Begin(request)
  BY <1>1, EdgeSteps DEF LongOperations
<1>4. SendInit(request)
  BY <1>1, <1>2 DEF SendClock, UnitsIdle, SendReadRxProc, SendHandleNull,
                    SendHandleAlternation, SendHandleNormal, SendWrites, SendOrder
<1>5. heapState' = "INIT" /\ heapEnd' = heapEnd
  BY <1>1, <1>2, HeapRests DEF UnitsIdle
<1>6. SendPort(request) = Read(c)
  BY <1>1 DEF SendPort, UnitsIdle
<1>7. KeepsRam /\ channelOutWord' = channelRam[c]
  BY <1>2, <1>6, ReadKeeps, PortKinds DEF IInv, TypeOK
<1>8. AtRest(c)
  BY <1>1 DEF Busy, Starting
<1>9. Word(c)' = Word(c)
  BY <1>1, ClientFrame
<1>10. send \in SendRegisters
  BY DEF IInv, TypeOK, UnitsTyped
<1>11. SendAt(c, p)'
  BY <1>1, <1>3, <1>4, <1>7, <1>8, <1>9, <1>10
  DEF SendAt, SendReads, SendInit, Begin, UnitsIdle, AtRest, SendRegisters
<1> QED
  BY <1>1, <1>3, <1>5, <1>7, <1>11, WorkingFrame DEF Begin

\* A cycle of Send.v that does not end it.
LEMMA SendContinues ==
  ASSUME IInv, Wait, NEW c \in MemoryAddresses, NEW p \in MemoryAddresses,
         c = request.channel, p = request.pid, Working(c, p),
         request.op = "SEND_MESSAGE", ~send.finished
  PROVE  /\ RamClock(channelRam, channelOutWord, SendPort(request))
         /\ SendClock(TRUE, request, alternationSet, alternationReadySet,
                      channelOutWord)
         /\ waited' = waited + 1
         /\ \A ch : /\ Word(ch)' = Word(ch)
                    /\ ReceiverAt(ch)' <=> ReceiverAt(ch)
                    /\ Wakes(ch)' <=> Wakes(ch)
                    /\ Lost(ch)' <=> Lost(ch)
         /\ KeepsRam /\ SendAt(c, p)' => IInv'
         /\ ccState' = "SEND_MESSAGE" /\ request' = request
<1>1. /\ PartsClock(TRUE, request) /\ ccState = "SEND_MESSAGE" /\ Edge(request)
      /\ waited' = waited + 1 /\ UNCHANGED clientVars /\ UNCHANGED request
      /\ Asked(c, p) /\ SetsBefore /\ Bump /\ heapState = "INIT"
  BY DEF Wait, Edge, Working, SendAt
<1>2. /\ HeapClock(FALSE, FALSE, 0, channelOutWord)
      /\ RamClock(channelRam, channelOutWord, SendPort(request))
      /\ SendClock(TRUE, request, alternationSet, alternationReadySet,
                   channelOutWord)
  BY <1>1, SendParts
<1>3. SendMessage(request)
  BY <1>1, EdgeSteps
<1>4. heapState' = "INIT" /\ heapEnd' = heapEnd
  BY <1>1, <1>2, HeapRests
<1>5. ~ccFinished' /\ ccState' = "SEND_MESSAGE"
      /\ UNCHANGED <<alternationSet, alternationReadySet>>
  BY <1>1, <1>3 DEF SendMessage, Until
<1>6. \A ch : /\ Word(ch)' = Word(ch)
              /\ ReceiverAt(ch)' <=> ReceiverAt(ch)
              /\ Wakes(ch)' <=> Wakes(ch)
              /\ Lost(ch)' <=> Lost(ch)
  BY <1>1, ClientFrame
<1>7. KeepsRam /\ SendAt(c, p)' => IInv'
  BY <1>1, <1>4, <1>5, WorkingFrame
<1> QED
  BY <1>1, <1>2, <1>5, <1>6, <1>7

LEMMA SendReadStep ==
  ASSUME IInv, Wait, NEW c \in MemoryAddresses, NEW p \in MemoryAddresses,
         c = request.channel, p = request.pid, Working(c, p),
         request.op = "SEND_MESSAGE", SendReads(c), send.state = "READ_RX_PROC"
  PROVE  IInv'
<1>1. /\ RamClock(channelRam, channelOutWord, SendPort(request))
      /\ SendClock(TRUE, request, alternationSet, alternationReadySet,
                   channelOutWord)
      /\ waited' = waited + 1 /\ Word(c)' = Word(c)
      /\ KeepsRam /\ SendAt(c, p)' => IInv'
      /\ ccState' = "SEND_MESSAGE" /\ request' = request
  BY SendContinues DEF SendReads
<1>2. SendReadRxProc(channelOutWord)
  BY <1>1 DEF SendClock, SendInit, SendHandleNull,
              SendHandleAlternation, SendHandleNormal, SendWrites, SendOrder
<1>3. SendPort(request) = Read(c)
  BY DEF SendPort
<1>4. KeepsRam
  BY <1>1, <1>3, ReadKeeps, PortKinds DEF IInv, TypeOK
<1>5. send \in SendRegisters
  BY DEF IInv, TypeOK, UnitsTyped
<1>6. PidIn(Word(c)) = Word(c)
  BY SendFacts, WordTypes DEF Working
<1>7. SendReads(c)'
  BY <1>1, <1>2, <1>5, <1>6 DEF SendReads, SendReadRxProc, SendRegisters
<1> QED
  BY <1>1, <1>4, <1>7 DEF SendAt

LEMMA SendHandleStep ==
  ASSUME IInv, Wait, NEW c \in MemoryAddresses, NEW p \in MemoryAddresses,
         c = request.channel, p = request.pid, Working(c, p),
         request.op = "SEND_MESSAGE", SendReads(c), send.state = "HANDLE_RX_PROC"
  PROVE  IInv'
<1>1. /\ RamClock(channelRam, channelOutWord, SendPort(request))
      /\ SendClock(TRUE, request, alternationSet, alternationReadySet,
                   channelOutWord)
      /\ waited' = waited + 1 /\ Word(c)' = Word(c)
      /\ ReceiverAt(c)' <=> ReceiverAt(c)
      /\ Wakes(c)' <=> Wakes(c)
      /\ Lost(c)' <=> Lost(c)
      /\ KeepsRam /\ SendAt(c, p)' => IInv'
      /\ ccState' = "SEND_MESSAGE" /\ request' = request
  BY SendContinues DEF SendReads
<1>2. /\ c \in live /\ p # 0
      /\ Word(c) = 0 <=> ~ReceiverAt(c) /\ ~ArmAt(c)
      /\ ReceiverAt(c) => ~ArmAt(c)
      /\ ReceiverAt(c) => Word(c) \notin InAlternation /\ Word(c) \notin WithValue
      /\ ArmAt(c) => /\ Word(c) \in InAlternation
                     /\ Word(c) \in WithValue <=> Lost(c)
      /\ Wakes(c) <=> ArmAt(c) /\ ~Lost(c)
      /\ Lost(c) => ArmAt(c)
  BY SendFacts DEF Working
<1>3. SetsBefore /\ send \in SendRegisters /\ send.rxPid = Word(c)
      /\ waited = 2 /\ Busy(c)
  BY DEF Working, SendReads, IInv, TypeOK, UnitsTyped, Busy
<1>4. SendPort(request) = Write(MessageAt(c), request.message)
  BY DEF SendPort
<1>5. KeepsRam /\ channelRam'[MessageAt(c)] = request.message
  BY <1>1, <1>2, <1>3, <1>4, WriteKeeps
<1>6. \/ Word(c) = 0 /\ SendHandleNull(request)
      \/ /\ Word(c) # 0 /\ Word(c) \in InAlternation \ WithValue
         /\ SendHandleAlternation(request, alternationSet, alternationReadySet)
      \/ /\ Word(c) # 0 /\ Word(c) \notin InAlternation \ WithValue
         /\ SendHandleNormal(alternationSet, alternationReadySet)
  BY <1>1, <1>3
  DEF SendClock, SendInit, SendReadRxProc, SendHandleNull, SendHandleAlternation,
      SendHandleNormal, SendWrites, SendOrder, SetsBefore
<1>7. SendWritesAt(c, p)'
  <2>1. CASE Word(c) = 0
    <3>1. SendHandleNull(request) /\ ~ReceiverAt(c) /\ ~Wakes(c) /\ ~Lost(c)
      BY <1>2, <1>6, <2>1
    <3>2. ~send.schedules /\ ~send.deschedules /\ ~send.addsReady
      BY DEF SendReads
    <3>3. /\ send'.state = "NULL_RX_PROC" /\ ~send'.finished
          /\ send'.rxPid = send.rxPid /\ send'.message = send.message
          /\ ~send'.schedules /\ send'.deschedules /\ ~send'.addsReady
          /\ send'.pidToWrite = p
      BY <1>3, <3>1, <3>2 DEF SendHandleNull, SendRegisters
    <3> QED
      BY <1>1, <1>3, <1>5, <2>1, <3>1, <3>3 DEF SendWritesAt, SendReads
  <2>2. CASE Wakes(c)
    <3>1. SendHandleAlternation(request, alternationSet, alternationReadySet)
          /\ ~ReceiverAt(c) /\ Word(c) # 0 /\ ~Lost(c)
      BY <1>2, <1>6, <2>2
    <3>2. ~send.schedules /\ ~send.deschedules /\ ~send.addsReady
      BY DEF SendReads
    <3>3. /\ send'.state = "ALT_RX_PROC" /\ ~send'.finished
          /\ send'.rxPid = send.rxPid /\ send'.message = send.message
          /\ send'.schedules /\ send'.deschedules /\ send'.addsReady
          /\ send'.pidToWrite = p
      BY <1>3, <3>1, <3>2 DEF SendHandleAlternation, SendRegisters
    <3> QED
      BY <1>1, <1>3, <1>5, <2>2, <3>1, <3>3 DEF SendWritesAt, SendReads
  <2>3. CASE ReceiverAt(c)
    <3>1. SendHandleNormal(alternationSet, alternationReadySet)
          /\ ~Wakes(c) /\ ~Lost(c) /\ Word(c) # 0
          /\ Word(c) \notin alternationReadySet
      BY <1>2, <1>3, <1>6, <2>3 DEF SetsBefore
    <3>2. ~send.schedules /\ ~send.deschedules /\ ~send.addsReady
      BY DEF SendReads
    <3>3. /\ send'.state = "NORMAL_RX_PROC" /\ ~send'.finished
          /\ send'.rxPid = send.rxPid /\ send'.message = send.message
          /\ send'.schedules /\ ~send'.deschedules /\ ~send'.addsReady
          /\ send'.pidToWrite = 0
      BY <1>3, <3>1, <3>2 DEF SendHandleNormal, SendRegisters
    <3> QED
      BY <1>1, <1>3, <1>5, <2>3, <3>1, <3>3 DEF SendWritesAt, SendReads
  <2>4. CASE Lost(c)
    <3>1. SendHandleNormal(alternationSet, alternationReadySet)
          /\ ~ReceiverAt(c) /\ ~Wakes(c) /\ Word(c) # 0
          /\ Word(c) \in alternationReadySet
      BY <1>2, <1>3, <1>6, <2>4 DEF SetsBefore
    <3>2. ~send.schedules /\ ~send.deschedules /\ ~send.addsReady
      BY DEF SendReads
    <3>3. /\ send'.state = "NORMAL_RX_PROC" /\ ~send'.finished
          /\ send'.rxPid = send.rxPid /\ send'.message = send.message
          /\ ~send'.schedules /\ send'.deschedules /\ ~send'.addsReady
          /\ send'.pidToWrite = 0
      BY <1>3, <3>1, <3>2 DEF SendHandleNormal, SendRegisters
    <3> QED
      BY <1>1, <1>3, <1>5, <2>4, <3>1, <3>3 DEF SendWritesAt, SendReads
  <2> QED
    BY <1>2, <2>1, <2>2, <2>3, <2>4
<1> QED
  BY <1>1, <1>5, <1>7 DEF SendAt

LEMMA SendWriteStep ==
  ASSUME IInv, Wait, NEW c \in MemoryAddresses, NEW p \in MemoryAddresses,
         c = request.channel, p = request.pid, Working(c, p),
         request.op = "SEND_MESSAGE", SendWritesAt(c, p), ~send.finished
  PROVE  IInv'
<1>1. /\ RamClock(channelRam, channelOutWord, SendPort(request))
      /\ SendClock(TRUE, request, alternationSet, alternationReadySet,
                   channelOutWord)
      /\ waited' = waited + 1 /\ Word(c)' = Word(c)
      /\ ReceiverAt(c)' <=> ReceiverAt(c)
      /\ Wakes(c)' <=> Wakes(c)
      /\ Lost(c)' <=> Lost(c)
      /\ KeepsRam /\ SendAt(c, p)' => IInv'
      /\ ccState' = "SEND_MESSAGE" /\ request' = request
  BY SendContinues
<1>2. c \in live
  BY SendFacts DEF Working
<1>3. send \in SendRegisters /\ Busy(c) /\ waited \in Nat
  BY DEF Working, IInv, TypeOK, UnitsTyped, ClientTyped, Busy
<1>4. SendWrites
  BY <1>1
  DEF SendClock, SendInit, SendReadRxProc, SendHandleNull, SendHandleAlternation,
      SendHandleNormal, SendWritesAt
<1>9. /\ send'.state = SendOrder[send.state]
      /\ send'.finished <=> send.state = "WRITE_TX_PROC_1"
      /\ send'.rxPid = send.rxPid /\ send'.message = send.message
      /\ send'.schedules <=> send.schedules
      /\ send'.deschedules <=> send.deschedules
      /\ send'.addsReady <=> send.addsReady
      /\ send'.pidToWrite = send.pidToWrite
  BY <1>3, <1>4 DEF SendWrites, SendRegisters
<1>5. CASE send.state \in {"NULL_RX_PROC", "ALT_RX_PROC", "NORMAL_RX_PROC"}
  <2>1. SendPort(request) = Write(MessageAt(c), request.message)
    BY <1>5 DEF SendPort
  <2>2. KeepsRam /\ channelRam'[MessageAt(c)] = request.message
    BY <1>1, <1>2, <1>3, <2>1, WriteKeeps
  <2>3. waited = 3
    BY <1>5 DEF SendWritesAt
  <2>4. send'.state \in {"WRITE_TX_PROC_0", "WRITE_TX_PROC_1"} /\ ~send'.finished
    BY <1>5, <1>9 DEF SendOrder
  <2>5. SendWritesAt(c, p)'
    BY <1>1, <1>9, <2>2, <2>3, <2>4 DEF SendWritesAt
  <2> QED
    BY <1>1, <2>2, <2>5 DEF SendAt
<1>6. CASE send.state \in {"WRITE_TX_PROC_0", "WRITE_TX_PROC_1"}
  <2>1. SendPort(request) = Write(c, send.pidToWrite)
    BY <1>6 DEF SendPort
  <2>2. /\ KeepsRam /\ channelRam'[c] = send.pidToWrite
        /\ channelRam'[MessageAt(c)] = channelRam[MessageAt(c)]
    BY <1>1, <1>2, <1>3, <2>1, WriteKeeps
  <2>3. send.state = "WRITE_TX_PROC_0" =>
          send'.state = "WRITE_TX_PROC_1" /\ ~send'.finished
    BY <1>6, <1>9 DEF SendOrder
  <2>4. send.state = "WRITE_TX_PROC_1" =>
          send'.state = "INIT" /\ send'.finished
    BY <1>6, <1>9 DEF SendOrder
  <2>6. SendWritesAt(c, p)'
    BY <1>1, <1>3, <1>6, <1>9, <2>2, <2>3, <2>4 DEF SendWritesAt
  <2> QED
    BY <1>1, <2>2, <2>6 DEF SendAt
<1> QED
  BY <1>5, <1>6 DEF SendWritesAt

LEMMA SendEnds ==
  ASSUME IInv, Wait, NEW c \in MemoryAddresses, NEW p \in MemoryAddresses,
         c = request.channel, p = request.pid, Working(c, p),
         request.op = "SEND_MESSAGE", SendWritesAt(c, p), send.finished
  PROVE  IInv'
<1>1. /\ PartsClock(TRUE, request) /\ ccState = "SEND_MESSAGE" /\ Edge(request)
      /\ waited' = waited + 1 /\ UNCHANGED clientVars /\ UNCHANGED request
      /\ Asked(c, p) /\ SetsBefore /\ Bump /\ heapState = "INIT"
  BY DEF Wait, Edge, Working, SendAt
<1>2. /\ HeapClock(FALSE, FALSE, 0, channelOutWord)
      /\ RamClock(channelRam, channelOutWord, SendPort(request))
  BY <1>1, SendParts
<1>3. SendMessage(request)
  BY <1>1, EdgeSteps
<1>4. heapState' = "INIT" /\ heapEnd' = heapEnd
  BY <1>1, <1>2, HeapRests
<1>5. send.state = "INIT" /\ waited <= 6 /\ channelRam[c] = send.pidToWrite
      /\ waited \in Nat
  BY DEF SendWritesAt, IInv, TypeOK, ClientTyped
<1>6. SendPort(request) = Read(c)
  BY <1>5 DEF SendPort
<1>7. KeepsRam /\ channelRam' = channelRam
  BY <1>2, <1>6, ReadKeeps, PortKinds DEF IInv, TypeOK
<1>8. /\ c \in live /\ p = tx[c] /\ request.message = sent[c]
      /\ ~SenderAt(c)
      /\ Word(c) = IF ReceiverAt(c) \/ ArmAt(c) THEN rx[c] ELSE 0
      /\ Wakes(c) => ArmAt(c)
  BY <1>1, SendFacts
<1>9. /\ Word(c)' = Word(c) /\ (ReceiverAt(c)' <=> ReceiverAt(c))
      /\ (Wakes(c)' <=> Wakes(c)) /\ (Lost(c)' <=> Lost(c))
      /\ InAlternation' = InAlternation /\ WithValue' = WithValue
  BY <1>1, ClientFrame
<1>10. SetsAfter(c, p)'
  <2>1. /\ alternationSet' = InAlternation
        /\ alternationReadySet' = IF Wakes(c) THEN WithValue \cup {rx[c]}
                                              ELSE WithValue
    BY <1>1, <1>3, <1>8 DEF SendMessage, SendWritesAt, SetsBefore
  <2>2. rx' = rx
    BY <1>1 DEF clientVars
  <2> QED
    BY <1>1, <1>9, <2>1, <2>2 DEF SetsAfter
<1>11. Done(c, p)'
  <2>1. /\ answer'.schedules = send.schedules
        /\ answer'.schedulePid = send.rxPid
        /\ answer'.deschedules = send.deschedules
        /\ answer'.deschedulePid = p
        /\ answer'.hasMessage = send.schedules
        /\ answer'.message = send.message
        /\ answer'.hasChannel = FALSE
    BY <1>3 DEF SendMessage, Nothing
  <2>2. SendDone(c, p)'
    BY <1>1, <1>5, <1>7, <1>8, <1>9, <2>1
    DEF SendDone, Scheduling, SendWritesAt, clientVars
  <2> QED
    BY <1>1, <2>1, <2>2 DEF Done
<1>12. ccFinished' /\ ccState' = "INIT"
  BY <1>3 DEF SendMessage, Until
<1>13. waited' <= 7
  BY <1>1, <1>5
<1> QED
  BY <1>1, <1>4, <1>7, <1>10, <1>11, <1>12, <1>13, AnsweredFrame

-----------------------------------------------------------------------------
(* Receiving.                                                              *)

LEMMA ReceiveFacts ==
  ASSUME IInv, NEW c, NEW p, Asked(c, p), request.op = "RECEIVE_MESSAGE"
  PROVE  /\ c \in live /\ p = rx[c] /\ p \in Processes
         /\ ~ReceiverAt(c) /\ ~ArmAt(c)
         /\ Word(c) = IF SenderAt(c) THEN tx[c] ELSE 0
         /\ Word(c) = 0 <=> ~SenderAt(c)
<1>1. /\ c \in live /\ p = rx[c] /\ p \in Processes /\ Runs(p)
      /\ alt[p].step = "none"
  BY DEF Asked
<1>2. ~ReceiverAt(c) /\ ~ArmAt(c)
  BY <1>1, Runner, NoArms DEF ArmAt
<1>3. Word(c) = IF SenderAt(c) THEN tx[c] ELSE 0
  BY <1>2 DEF Word
<1>4. tx[c] # 0
  BY <1>1, WordTypes
<1>5. Word(c) = 0 <=> ~SenderAt(c)
  BY <1>3, <1>4
<1> QED
  BY <1>1, <1>2, <1>3, <1>5

LEMMA ReceiveStarts ==
  ASSUME IInv, Wait, NEW c \in MemoryAddresses, NEW p \in MemoryAddresses,
         c = request.channel, p = request.pid, Starting(c, p),
         request.op = "RECEIVE_MESSAGE"
  PROVE  IInv'
<1>1. /\ PartsClock(TRUE, request) /\ ccState = "INIT" /\ Edge(request)
      /\ waited' = waited + 1 /\ waited = 0 /\ UNCHANGED clientVars
      /\ UNCHANGED request
      /\ Asked(c, p) /\ SetsBefore /\ Bump /\ UnitsIdle
      /\ AtRest(c)
  BY DEF Wait, Edge, Starting, Busy
<1>2. /\ HeapClock(FALSE, FALSE, 0, channelOutWord)
      /\ RamClock(channelRam, channelOutWord, ReceivePort(request))
      /\ ReceiveClock(TRUE, channelOutWord)
  BY <1>1, ReceiveParts
<1>3. Begin(request)
  BY <1>1, EdgeSteps DEF LongOperations
<1>4. ReceiveMoves
  BY <1>1, <1>2 DEF ReceiveClock, UnitsIdle, ReceiveReadTxProc, ReceiveHandleNull,
                    ReceiveHandleSender, ReceiveReadMessage
<1>5. heapState' = "INIT" /\ heapEnd' = heapEnd
  BY <1>1, <1>2, HeapRests DEF UnitsIdle
<1>6. ReceivePort(request) = Read(c)
  BY <1>1 DEF ReceivePort, UnitsIdle
<1>7. KeepsRam /\ channelRam' = channelRam /\ channelOutWord' = channelRam[c]
  BY <1>2, <1>6, ReadKeeps, PortKinds DEF IInv, TypeOK
<1>8. Word(c)' = Word(c) /\ (SenderAt(c)' <=> SenderAt(c))
      /\ (Offered(c)' <=> Offered(c)) /\ sent' = sent
  BY <1>1, ClientFrame DEF clientVars
<1>9. receive \in ReceiveRegisters
  BY DEF IInv, TypeOK, UnitsTyped
<1>10. receive'.state = "READ_TX_PROC" /\ ~receive'.finished
  BY <1>1, <1>4, <1>9 DEF ReceiveMoves, ReceiveOrder, UnitsIdle, ReceiveRegisters
<1>11. AtRest(c)'
  BY <1>1, <1>7, <1>8 DEF AtRest
<1>12. ReceiveAt(c, p)'
  BY <1>1, <1>3, <1>7, <1>8, <1>10, <1>11
  DEF ReceiveAt, ReceiveReads, Begin, AtRest
<1> QED
  BY <1>1, <1>3, <1>5, <1>7, <1>12, WorkingFrame DEF Begin

\* A cycle of Receive.v that does not end it.
LEMMA ReceiveContinues ==
  ASSUME IInv, Wait, NEW c \in MemoryAddresses, NEW p \in MemoryAddresses,
         c = request.channel, p = request.pid, Working(c, p),
         request.op = "RECEIVE_MESSAGE", ~receive.finished
  PROVE  /\ RamClock(channelRam, channelOutWord, ReceivePort(request))
         /\ ReceiveClock(TRUE, channelOutWord)
         /\ waited' = waited + 1
         /\ Word(c)' = Word(c)
         /\ SenderAt(c)' <=> SenderAt(c)
         /\ Offered(c)' <=> Offered(c)
         /\ sent' = sent
         /\ KeepsRam /\ ReceiveAt(c, p)' => IInv'
         /\ ccState' = "RECEIVE_MESSAGE"
<1>1. /\ PartsClock(TRUE, request) /\ ccState = "RECEIVE_MESSAGE" /\ Edge(request)
      /\ waited' = waited + 1 /\ UNCHANGED clientVars /\ UNCHANGED request
      /\ Asked(c, p) /\ SetsBefore /\ Bump /\ heapState = "INIT"
  BY DEF Wait, Edge, Working, ReceiveAt
<1>2. /\ HeapClock(FALSE, FALSE, 0, channelOutWord)
      /\ RamClock(channelRam, channelOutWord, ReceivePort(request))
      /\ ReceiveClock(TRUE, channelOutWord)
  BY <1>1, ReceiveParts
<1>3. ReceiveMessage(request)
  BY <1>1, EdgeSteps
<1>4. heapState' = "INIT" /\ heapEnd' = heapEnd
  BY <1>1, <1>2, HeapRests
<1>5. ~ccFinished' /\ ccState' = "RECEIVE_MESSAGE"
      /\ UNCHANGED <<alternationSet, alternationReadySet>>
  BY <1>1, <1>3 DEF ReceiveMessage, Until
<1>6. Word(c)' = Word(c) /\ (SenderAt(c)' <=> SenderAt(c))
      /\ (Offered(c)' <=> Offered(c)) /\ sent' = sent
  BY <1>1, ClientFrame DEF clientVars
<1>7. KeepsRam /\ ReceiveAt(c, p)' => IInv'
  BY <1>1, <1>4, <1>5, WorkingFrame
<1> QED
  BY <1>1, <1>2, <1>5, <1>6, <1>7

LEMMA ReceiveReadStep ==
  ASSUME IInv, Wait, NEW c \in MemoryAddresses, NEW p \in MemoryAddresses,
         c = request.channel, p = request.pid, Working(c, p),
         request.op = "RECEIVE_MESSAGE", ReceiveReads(c)
  PROVE  IInv'
<1>1. /\ RamClock(channelRam, channelOutWord, ReceivePort(request))
      /\ ReceiveClock(TRUE, channelOutWord)
      /\ waited' = waited + 1
      /\ Word(c)' = Word(c)
      /\ SenderAt(c)' <=> SenderAt(c)
      /\ Offered(c)' <=> Offered(c)
      /\ sent' = sent
      /\ KeepsRam /\ ReceiveAt(c, p)' => IInv'
      /\ ccState' = "RECEIVE_MESSAGE"
  BY ReceiveContinues DEF ReceiveReads
<1>2. receive \in ReceiveRegisters /\ AtRest(c) /\ ControllerTyped
  BY DEF IInv, TypeOK, UnitsTyped, ReceiveReads
<1>3. /\ c \in live /\ PidIn(Word(c)) = Word(c)
      /\ Word(c) = 0 <=> ~SenderAt(c)
  BY ReceiveFacts, WordTypes DEF Working
<1>4. CASE receive.state = "READ_TX_PROC"
  <2>1. ReceiveReadTxProc(channelOutWord)
    BY <1>1, <1>4 DEF ReceiveClock, ReceiveHandleNull, ReceiveHandleSender,
                      ReceiveReadMessage, ReceiveMoves, ReceiveOrder
  <2>2. ReceivePort(request) = Read(c)
    BY <1>4 DEF ReceivePort
  <2>3. KeepsRam /\ channelRam' = channelRam
    BY <1>1, <1>2, <2>2, ReadKeeps, PortKinds
  <2>4. AtRest(c)'
    BY <1>1, <1>2, <2>3 DEF AtRest
  <2>5. ReceiveReads(c)'
    BY <1>1, <1>2, <1>3, <1>4, <2>1, <2>4
    DEF ReceiveReads, ReceiveReadTxProc, ReceiveRegisters
  <2> QED
    BY <1>1, <2>3, <2>5 DEF ReceiveAt
<1>5. CASE receive.state = "HANDLE_TX_PROC" /\ SenderAt(c)
  <2>1. ReceiveHandleSender
    BY <1>1, <1>3, <1>5
    DEF ReceiveClock, ReceiveReadTxProc, ReceiveHandleNull,
        ReceiveReadMessage, ReceiveMoves, ReceiveOrder, ReceiveReads
  <2>2. ReceivePort(request) = Read(MessageAt(c))
    BY <1>5 DEF ReceivePort
  <2>3. KeepsRam /\ channelOutWord' = channelRam[MessageAt(c)]
    BY <1>1, <1>2, <2>2, ReadKeeps, PortKinds, MessageAddress
  <2>4. channelOutWord' = sent[c]
    BY <1>2, <1>5, <2>3 DEF AtRest, Offered
  <2>5. /\ receive'.state = "READ_MESSAGE" /\ ~receive'.finished
        /\ receive'.hasMessage /\ receive'.schedules /\ ~receive'.deschedules
        /\ receive'.txPid = receive.txPid
    BY <1>2, <2>1 DEF ReceiveHandleSender, ReceiveRegisters
  <2>6. ReceiveTakes(c)'
    BY <1>1, <1>5, <2>4, <2>5 DEF ReceiveTakes, ReceiveReads
  <2> QED
    BY <1>1, <2>3, <2>6 DEF ReceiveAt
<1>6. CASE receive.state = "HANDLE_TX_PROC" /\ ~SenderAt(c)
  <2>1. ReceiveHandleNull
    BY <1>1, <1>3, <1>6
    DEF ReceiveClock, ReceiveReadTxProc, ReceiveHandleSender,
        ReceiveReadMessage, ReceiveMoves, ReceiveOrder, ReceiveReads
  <2>2. ReceivePort(request) = Read(MessageAt(c))
    BY <1>6 DEF ReceivePort
  <2>3. KeepsRam
    BY <1>1, <1>2, <2>2, ReadKeeps, PortKinds, MessageAddress
  <2>4. /\ receive'.state = "WRITE_RX_PROC_0" /\ ~receive'.finished
        /\ ~receive'.hasMessage /\ ~receive'.schedules /\ receive'.deschedules
    BY <1>2, <2>1 DEF ReceiveHandleNull, ReceiveRegisters
  <2>5. ReceiveStops(c, p)'
    BY <1>1, <1>6, <2>4 DEF ReceiveStops, ReceiveReads
  <2> QED
    BY <1>1, <2>3, <2>5 DEF ReceiveAt
<1> QED
  BY <1>4, <1>5, <1>6 DEF ReceiveReads

LEMMA ReceiveTakeStep ==
  ASSUME IInv, Wait, NEW c \in MemoryAddresses, NEW p \in MemoryAddresses,
         c = request.channel, p = request.pid, Working(c, p),
         request.op = "RECEIVE_MESSAGE", ReceiveTakes(c), ~receive.finished
  PROVE  IInv'
<1>1. /\ RamClock(channelRam, channelOutWord, ReceivePort(request))
      /\ ReceiveClock(TRUE, channelOutWord)
      /\ waited' = waited + 1
      /\ Word(c)' = Word(c)
      /\ SenderAt(c)' <=> SenderAt(c)
      /\ Offered(c)' <=> Offered(c)
      /\ sent' = sent
      /\ KeepsRam /\ ReceiveAt(c, p)' => IInv'
      /\ ccState' = "RECEIVE_MESSAGE"
  BY ReceiveContinues
<1>2. receive \in ReceiveRegisters /\ ControllerTyped /\ c \in live /\ Busy(c)
  BY ReceiveFacts DEF IInv, TypeOK, UnitsTyped, Working, Busy
<1>3. CASE receive.state = "READ_MESSAGE"
  <2>1. ReceiveReadMessage(channelOutWord)
    BY <1>1, <1>3 DEF ReceiveClock, ReceiveReadTxProc, ReceiveHandleNull,
                      ReceiveHandleSender, ReceiveMoves, ReceiveOrder
  <2>2. ReceivePort(request) = Read(MessageAt(c))
    BY <1>3 DEF ReceivePort
  <2>3. KeepsRam
    BY <1>1, <1>2, <2>2, ReadKeeps, PortKinds, MessageAddress
  <2>4. /\ receive'.state = "WRITE_0" /\ ~receive'.finished
        /\ receive'.hasMessage <=> receive.hasMessage
        /\ receive'.schedules <=> receive.schedules
        /\ receive'.deschedules <=> receive.deschedules
        /\ receive'.txPid = receive.txPid
        /\ receive'.message = channelOutWord
    BY <1>2, <2>1 DEF ReceiveReadMessage, ReceiveRegisters
  <2>5. ReceiveTakes(c)'
    BY <1>1, <1>3, <2>4 DEF ReceiveTakes
  <2> QED
    BY <1>1, <2>3, <2>5 DEF ReceiveAt
<1>4. CASE receive.state \in {"WRITE_0", "WRITE_1"}
  <2>1. ReceiveMoves
    BY <1>1, <1>4 DEF ReceiveClock, ReceiveReadTxProc, ReceiveHandleNull,
                      ReceiveHandleSender, ReceiveReadMessage
  <2>2. ReceivePort(request) = Write(c, 0)
    BY <1>4 DEF ReceivePort
  <2>3. KeepsRam /\ channelRam'[c] = 0
    BY <1>1, <1>2, <2>2, WriteKeeps
  <2>4. /\ receive'.state = ReceiveOrder[receive.state]
        /\ receive'.finished <=> receive.state \in {"WRITE_RX_PROC_1", "WRITE_1"}
        /\ receive'.hasMessage <=> receive.hasMessage
        /\ receive'.schedules <=> receive.schedules
        /\ receive'.deschedules <=> receive.deschedules
        /\ receive'.txPid = receive.txPid
        /\ receive'.message = receive.message
    BY <1>2, <2>1 DEF ReceiveMoves, ReceiveRegisters
  <2>5. /\ receive.state = "WRITE_0" => receive'.state = "WRITE_1"
        /\ receive.state = "WRITE_1" => receive'.state = "INIT"
    BY <2>4 DEF ReceiveOrder
  <2>6. ReceiveTakes(c)'
    BY <1>1, <1>4, <2>3, <2>4, <2>5 DEF ReceiveTakes
  <2> QED
    BY <1>1, <2>3, <2>6 DEF ReceiveAt
<1> QED
  BY <1>3, <1>4 DEF ReceiveTakes

LEMMA ReceiveStopStep ==
  ASSUME IInv, Wait, NEW c \in MemoryAddresses, NEW p \in MemoryAddresses,
         c = request.channel, p = request.pid, Working(c, p),
         request.op = "RECEIVE_MESSAGE", ReceiveStops(c, p), ~receive.finished
  PROVE  IInv'
<1>1. /\ RamClock(channelRam, channelOutWord, ReceivePort(request))
      /\ ReceiveClock(TRUE, channelOutWord)
      /\ waited' = waited + 1
      /\ SenderAt(c)' <=> SenderAt(c)
      /\ Offered(c)' <=> Offered(c)
      /\ KeepsRam /\ ReceiveAt(c, p)' => IInv'
      /\ ccState' = "RECEIVE_MESSAGE"
  BY ReceiveContinues
<1>2. receive \in ReceiveRegisters /\ c \in live /\ Busy(c)
  BY ReceiveFacts DEF IInv, TypeOK, UnitsTyped, Working, Busy
<1>3. receive.state \in {"WRITE_RX_PROC_0", "WRITE_RX_PROC_1"}
  BY DEF ReceiveStops
<1>4. ReceiveMoves
  BY <1>1, <1>3 DEF ReceiveClock, ReceiveReadTxProc, ReceiveHandleNull,
                    ReceiveHandleSender, ReceiveReadMessage
<1>5. ReceivePort(request) = Write(c, p)
  BY <1>3 DEF ReceivePort
<1>6. KeepsRam /\ channelRam'[c] = p
  BY <1>1, <1>2, <1>5, WriteKeeps
<1>7. /\ receive'.state = ReceiveOrder[receive.state]
      /\ receive'.finished <=> receive.state \in {"WRITE_RX_PROC_1", "WRITE_1"}
      /\ receive'.hasMessage <=> receive.hasMessage
      /\ receive'.schedules <=> receive.schedules
      /\ receive'.deschedules <=> receive.deschedules
  BY <1>2, <1>4 DEF ReceiveMoves, ReceiveRegisters
<1>8. /\ receive.state = "WRITE_RX_PROC_0" => receive'.state = "WRITE_RX_PROC_1"
      /\ receive.state = "WRITE_RX_PROC_1" => receive'.state = "INIT"
  BY <1>7 DEF ReceiveOrder
<1>9. ReceiveStops(c, p)'
  BY <1>1, <1>3, <1>6, <1>7, <1>8 DEF ReceiveStops
<1> QED
  BY <1>1, <1>6, <1>9 DEF ReceiveAt

LEMMA ReceiveEnds ==
  ASSUME IInv, Wait, NEW c \in MemoryAddresses, NEW p \in MemoryAddresses,
         c = request.channel, p = request.pid, Working(c, p),
         request.op = "RECEIVE_MESSAGE", ReceiveAt(c, p), receive.finished
  PROVE  IInv'
<1>1. /\ PartsClock(TRUE, request) /\ ccState = "RECEIVE_MESSAGE" /\ Edge(request)
      /\ waited' = waited + 1 /\ UNCHANGED clientVars /\ UNCHANGED request
      /\ Asked(c, p) /\ SetsBefore /\ Bump /\ heapState = "INIT"
  BY DEF Wait, Edge, Working, ReceiveAt
<1>2. /\ HeapClock(FALSE, FALSE, 0, channelOutWord)
      /\ RamClock(channelRam, channelOutWord, ReceivePort(request))
  BY <1>1, ReceiveParts
<1>3. ReceiveMessage(request)
  BY <1>1, EdgeSteps
<1>4. heapState' = "INIT" /\ heapEnd' = heapEnd
  BY <1>1, <1>2, HeapRests
<1>5. /\ receive.state = "INIT" /\ waited <= 6 /\ waited \in Nat
      /\ receive.schedules <=> SenderAt(c)
      /\ receive.hasMessage <=> SenderAt(c)
      /\ receive.deschedules <=> ~SenderAt(c)
      /\ SenderAt(c) => receive.txPid = Word(c) /\ receive.message = sent[c]
      /\ channelRam[c] = IF SenderAt(c) THEN 0 ELSE p
  BY DEF ReceiveAt, ReceiveReads, ReceiveTakes, ReceiveStops, IInv, TypeOK,
         ClientTyped
<1>6. ReceivePort(request) = Read(c)
  BY <1>5 DEF ReceivePort
<1>7. KeepsRam /\ channelRam' = channelRam
  BY <1>2, <1>6, ReadKeeps, PortKinds DEF IInv, TypeOK
<1>8. Word(c) = IF SenderAt(c) THEN tx[c] ELSE 0
  BY <1>1, ReceiveFacts
<1>9. /\ SenderAt(c)' <=> SenderAt(c)
      /\ Offered(c)' <=> Offered(c)
      /\ InAlternation' = InAlternation /\ WithValue' = WithValue
      /\ tx' = tx /\ sent' = sent
  BY <1>1, ClientFrame DEF clientVars
<1>10. SetsAfter(c, p)'
  BY <1>1, <1>3, <1>9 DEF SetsAfter, SetsBefore, ReceiveMessage
<1>11. Done(c, p)'
  <2>1. /\ answer'.schedules = receive.schedules
        /\ answer'.schedulePid = receive.txPid
        /\ answer'.deschedules = receive.deschedules
        /\ answer'.deschedulePid = p
        /\ answer'.hasMessage = receive.hasMessage
        /\ answer'.message = receive.message
        /\ answer'.hasChannel = FALSE
    BY <1>3 DEF ReceiveMessage, Nothing
  <2>2. ReceiveDone(c, p)'
    BY <1>5, <1>7, <1>8, <1>9, <2>1 DEF ReceiveDone, Scheduling
  <2> QED
    BY <1>1, <2>1, <2>2 DEF Done
<1>12. ccFinished' /\ ccState' = "INIT"
  BY <1>3 DEF ReceiveMessage, Until
<1>13. waited' <= 7
  BY <1>1, <1>5
<1> QED
  BY <1>1, <1>4, <1>7, <1>10, <1>11, <1>12, <1>13, AnsweredFrame

-----------------------------------------------------------------------------
(* Enabling the arm of an alternation.                                     *)

LEMMA EnableFacts ==
  ASSUME IInv, NEW c, NEW p, Asked(c, p), request.op = "ENABLE_CHANNEL"
  PROVE  /\ c \in live /\ p = rx[c] /\ p \in Processes
         /\ ~ReceiverAt(c) /\ ~ArmAt(c)
         /\ alt[p].step = "enable"
         /\ Word(c) = IF SenderAt(c) THEN tx[c] ELSE 0
         /\ Word(c) = 0 <=> ~SenderAt(c)
<1>1. /\ c \in live /\ p = rx[c] /\ p \in Processes /\ Runs(p)
      /\ alt[p].step = "enable" /\ ~ArmAt(c)
  BY DEF Asked
<1>2. ~ReceiverAt(c)
  BY <1>1, Runner
<1>3. Word(c) = IF SenderAt(c) THEN tx[c] ELSE 0
  BY <1>1, <1>2 DEF Word
<1>4. tx[c] # 0
  BY <1>1, WordTypes
<1>5. Word(c) = 0 <=> ~SenderAt(c)
  BY <1>3, <1>4
<1> QED
  BY <1>1, <1>2, <1>3, <1>5

LEMMA EnableStarts ==
  ASSUME IInv, Wait, NEW c \in MemoryAddresses, NEW p \in MemoryAddresses,
         c = request.channel, p = request.pid, Starting(c, p),
         request.op = "ENABLE_CHANNEL"
  PROVE  IInv'
<1>1. /\ PartsClock(TRUE, request) /\ ccState = "INIT" /\ Edge(request)
      /\ waited' = waited + 1 /\ waited = 0 /\ UNCHANGED clientVars
      /\ UNCHANGED request
      /\ Asked(c, p) /\ SetsBefore /\ Bump /\ UnitsIdle
      /\ AtRest(c)
  BY DEF Wait, Edge, Starting, Busy
<1>2. /\ HeapClock(FALSE, FALSE, 0, channelOutWord)
      /\ RamClock(channelRam, channelOutWord, EnablePort(request))
      /\ EnableClock(FALSE, channelOutWord)
  BY <1>1, EnableParts
<1>3. Begin(request)
  BY <1>1, EdgeSteps DEF LongOperations
<1>4. EnableOff
  BY <1>2 DEF EnableClock
<1>5. heapState' = "INIT" /\ heapEnd' = heapEnd
  BY <1>1, <1>2, HeapRests DEF UnitsIdle
<1>6. EnablePort(request) = Read(c)
  BY <1>1 DEF EnablePort, UnitsIdle
<1>7. KeepsRam /\ channelRam' = channelRam
  BY <1>2, <1>6, ReadKeeps, PortKinds DEF IInv, TypeOK
<1>8. Word(c)' = Word(c) /\ (SenderAt(c)' <=> SenderAt(c))
      /\ (Offered(c)' <=> Offered(c)) /\ sent' = sent
  BY <1>1, ClientFrame DEF clientVars
<1>9. enable \in EnableRegisters
  BY DEF IInv, TypeOK, UnitsTyped
<1>10. enable'.state = "INIT" /\ ~enable'.finished /\ ~enable'.canReceive
  BY <1>4, <1>9 DEF EnableOff, EnableRegisters
<1>11. AtRest(c)'
  BY <1>1, <1>7, <1>8 DEF AtRest
<1>12. EnableAt(c, p)'
  BY <1>1, <1>3, <1>10, <1>11 DEF EnableAt, EnableReads, Begin
<1> QED
  BY <1>1, <1>3, <1>5, <1>7, <1>12, WorkingFrame DEF Begin

\* A cycle of Enable.v that does not end it.
LEMMA EnableContinues ==
  ASSUME IInv, Wait, NEW c \in MemoryAddresses, NEW p \in MemoryAddresses,
         c = request.channel, p = request.pid, Working(c, p),
         request.op = "ENABLE_CHANNEL", ~enable.finished, ~enable.canReceive
  PROVE  /\ RamClock(channelRam, channelOutWord, EnablePort(request))
         /\ EnableClock(TRUE, channelOutWord)
         /\ waited' = waited + 1
         /\ Word(c)' = Word(c)
         /\ SenderAt(c)' <=> SenderAt(c)
         /\ Offered(c)' <=> Offered(c)
         /\ sent' = sent
         /\ KeepsRam /\ EnableAt(c, p)' => IInv'
         /\ ccState' = "ENABLE_CHANNEL"
<1>1. /\ PartsClock(TRUE, request) /\ ccState = "ENABLE_CHANNEL" /\ Edge(request)
      /\ waited' = waited + 1 /\ UNCHANGED clientVars /\ UNCHANGED request
      /\ Asked(c, p) /\ SetsBefore /\ Bump /\ heapState = "INIT"
  BY DEF Wait, Edge, Working, EnableAt
<1>2. /\ HeapClock(FALSE, FALSE, 0, channelOutWord)
      /\ RamClock(channelRam, channelOutWord, EnablePort(request))
      /\ EnableClock(TRUE, channelOutWord)
  BY <1>1, EnableParts
<1>3. EnableChannel(request)
  BY <1>1, EdgeSteps
<1>4. heapState' = "INIT" /\ heapEnd' = heapEnd
  BY <1>1, <1>2, HeapRests
<1>5. ~ccFinished' /\ ccState' = "ENABLE_CHANNEL"
      /\ UNCHANGED <<alternationSet, alternationReadySet>>
  BY <1>1, <1>3 DEF EnableChannel, Until
<1>6. Word(c)' = Word(c) /\ (SenderAt(c)' <=> SenderAt(c))
      /\ (Offered(c)' <=> Offered(c)) /\ sent' = sent
  BY <1>1, ClientFrame DEF clientVars
<1>7. KeepsRam /\ EnableAt(c, p)' => IInv'
  BY <1>1, <1>4, <1>5, WorkingFrame
<1> QED
  BY <1>1, <1>2, <1>5, <1>6, <1>7

LEMMA EnableReadStep ==
  ASSUME IInv, Wait, NEW c \in MemoryAddresses, NEW p \in MemoryAddresses,
         c = request.channel, p = request.pid, Working(c, p),
         request.op = "ENABLE_CHANNEL", EnableReads(c)
  PROVE  IInv'
<1>1. /\ RamClock(channelRam, channelOutWord, EnablePort(request))
      /\ EnableClock(TRUE, channelOutWord)
      /\ waited' = waited + 1
      /\ Word(c)' = Word(c)
      /\ SenderAt(c)' <=> SenderAt(c)
      /\ Offered(c)' <=> Offered(c)
      /\ sent' = sent
      /\ KeepsRam /\ EnableAt(c, p)' => IInv'
      /\ ccState' = "ENABLE_CHANNEL"
  BY EnableContinues DEF EnableReads
<1>2. enable \in EnableRegisters /\ AtRest(c) /\ ControllerTyped
  BY DEF IInv, TypeOK, UnitsTyped, EnableReads
<1>3. /\ c \in live /\ PidIn(Word(c)) = Word(c)
      /\ Word(c) = 0 <=> ~SenderAt(c)
  BY EnableFacts, WordTypes DEF Working
<1>4. /\ enable.state \in {"INIT", "READ_TX_PROC"} => EnablePort(request) = Read(c)
      /\ enable.state = "HANDLE_TX_PROC" => EnablePort(request) = NoAccess
  BY DEF EnablePort
<1>5. /\ KeepsRam /\ channelRam' = channelRam
      /\ enable.state \in {"INIT", "READ_TX_PROC"} => channelOutWord' = channelRam[c]
  BY <1>1, <1>2, <1>4, ReadKeeps, PortKinds DEF EnableReads
<1>6. AtRest(c)'
  BY <1>1, <1>2, <1>5 DEF AtRest
<1>7. CASE enable.state = "INIT"
  <2>1. EnableMoves
    BY <1>1, <1>7 DEF EnableClock, EnableReadTxProc, EnableHandleSender,
                      EnableHandleNull
  <2>2. /\ enable'.state = "READ_TX_PROC" /\ ~enable'.finished
        /\ enable'.canReceive <=> enable.canReceive
    <3>1. /\ enable'.state = EnableOrder[enable.state]
          /\ enable'.finished <=> enable.state = "WRITE_RX_PROC_1"
          /\ enable'.canReceive <=> enable.canReceive
      BY <1>2, <2>1 DEF EnableMoves, EnableRegisters
    <3> QED
      BY <1>7, <3>1 DEF EnableOrder
  <2>3. EnableReads(c)'
    BY <1>1, <1>2, <1>5, <1>6, <1>7, <2>2 DEF EnableReads, AtRest
  <2> QED
    BY <1>1, <1>5, <2>3 DEF EnableAt
<1>8. CASE enable.state = "READ_TX_PROC"
  <2>1. EnableReadTxProc(channelOutWord)
    BY <1>1, <1>8 DEF EnableClock, EnableHandleSender, EnableHandleNull,
                      EnableMoves, EnableOrder
  <2>2. /\ enable'.state = "HANDLE_TX_PROC" /\ ~enable'.finished
        /\ enable'.canReceive <=> enable.canReceive
        /\ enable'.txPid = PidIn(channelOutWord)
    BY <1>2, <2>1 DEF EnableReadTxProc, EnableRegisters
  <2>3. EnableReads(c)'
    BY <1>1, <1>3, <1>6, <1>8, <2>2 DEF EnableReads
  <2> QED
    BY <1>1, <1>5, <2>3 DEF EnableAt
<1>9. CASE enable.state = "HANDLE_TX_PROC" /\ SenderAt(c)
  <2>1. EnableHandleSender
    BY <1>1, <1>3, <1>9 DEF EnableClock, EnableReadTxProc, EnableHandleNull,
                            EnableMoves, EnableOrder, EnableReads
  <2>2. enable'.state = "INIT" /\ enable'.finished /\ enable'.canReceive
    BY <1>2, <2>1 DEF EnableHandleSender, EnableRegisters
  <2>3. EnableFinds(c)'
    BY <1>1, <1>6, <1>9, <2>2 DEF EnableFinds, EnableReads
  <2> QED
    BY <1>1, <1>5, <2>3 DEF EnableAt
<1>10. CASE enable.state = "HANDLE_TX_PROC" /\ ~SenderAt(c)
  <2>1. EnableHandleNull
    BY <1>1, <1>3, <1>10 DEF EnableClock, EnableReadTxProc, EnableHandleSender,
                             EnableMoves, EnableOrder, EnableReads
  <2>2. /\ enable'.state = "WRITE_RX_PROC_0" /\ ~enable'.finished
        /\ enable'.canReceive <=> enable.canReceive
    BY <1>2, <2>1 DEF EnableHandleNull, EnableRegisters
  <2>3. EnableMarks(c, p)'
    BY <1>1, <1>10, <2>2 DEF EnableMarks, EnableReads
  <2> QED
    BY <1>1, <1>5, <2>3 DEF EnableAt
<1> QED
  BY <1>7, <1>8, <1>9, <1>10 DEF EnableReads

LEMMA EnableMarkStep ==
  ASSUME IInv, Wait, NEW c \in MemoryAddresses, NEW p \in MemoryAddresses,
         c = request.channel, p = request.pid, Working(c, p),
         request.op = "ENABLE_CHANNEL", EnableMarks(c, p), ~enable.finished
  PROVE  IInv'
<1>1. /\ RamClock(channelRam, channelOutWord, EnablePort(request))
      /\ EnableClock(TRUE, channelOutWord)
      /\ waited' = waited + 1
      /\ SenderAt(c)' <=> SenderAt(c)
      /\ Offered(c)' <=> Offered(c)
      /\ KeepsRam /\ EnableAt(c, p)' => IInv'
      /\ ccState' = "ENABLE_CHANNEL"
  BY EnableContinues DEF EnableMarks
<1>2. enable \in EnableRegisters /\ c \in live /\ Busy(c)
  BY EnableFacts DEF IInv, TypeOK, UnitsTyped, Working, Busy
<1>3. enable.state \in {"WRITE_RX_PROC_0", "WRITE_RX_PROC_1"}
  BY DEF EnableMarks
<1>4. EnableMoves
  BY <1>1, <1>3 DEF EnableClock, EnableReadTxProc, EnableHandleSender,
                    EnableHandleNull
<1>5. EnablePort(request) = Write(c, p)
  BY <1>3 DEF EnablePort
<1>6. KeepsRam /\ channelRam'[c] = p
  BY <1>1, <1>2, <1>5, WriteKeeps
<1>7. /\ enable'.state = EnableOrder[enable.state]
      /\ enable'.finished <=> enable.state = "WRITE_RX_PROC_1"
      /\ enable'.canReceive <=> enable.canReceive
  BY <1>2, <1>4 DEF EnableMoves, EnableRegisters
<1>8. /\ enable.state = "WRITE_RX_PROC_0" => enable'.state = "WRITE_RX_PROC_1"
      /\ enable.state = "WRITE_RX_PROC_1" => enable'.state = "INIT"
  BY <1>7 DEF EnableOrder
<1>9. EnableMarks(c, p)'
  BY <1>1, <1>3, <1>6, <1>7, <1>8 DEF EnableMarks
<1> QED
  BY <1>1, <1>6, <1>9 DEF EnableAt

LEMMA EnableEnds ==
  ASSUME IInv, Wait, NEW c \in MemoryAddresses, NEW p \in MemoryAddresses,
         c = request.channel, p = request.pid, Working(c, p),
         request.op = "ENABLE_CHANNEL", EnableAt(c, p), enable.finished
  PROVE  IInv'
<1>1. /\ PartsClock(TRUE, request) /\ ccState = "ENABLE_CHANNEL" /\ Edge(request)
      /\ waited' = waited + 1 /\ UNCHANGED clientVars /\ UNCHANGED request
      /\ Asked(c, p) /\ SetsBefore /\ Bump /\ heapState = "INIT"
  BY DEF Wait, Edge, Working, EnableAt
<1>2. /\ HeapClock(FALSE, FALSE, 0, channelOutWord)
      /\ RamClock(channelRam, channelOutWord, NoAccess)
  BY <1>1, EnableParts
<1>3. EnableChannel(request)
  BY <1>1, EdgeSteps
<1>4. heapState' = "INIT" /\ heapEnd' = heapEnd
  BY <1>1, <1>2, HeapRests
<1>5. /\ waited <= 6 /\ waited \in Nat
      /\ enable.canReceive <=> SenderAt(c)
      /\ IF SenderAt(c) THEN AtRest(c) ELSE channelRam[c] = p
  BY DEF EnableAt, EnableReads, EnableFinds, EnableMarks, IInv, TypeOK,
         ClientTyped
<1>6. KeepsRam /\ channelRam' = channelRam
  BY <1>2, ReadKeeps, PortKinds DEF IInv, TypeOK
<1>7. /\ SenderAt(c)' <=> SenderAt(c)
      /\ Offered(c)' <=> Offered(c)
      /\ InAlternation' = InAlternation /\ WithValue' = WithValue
      /\ Word(c)' = Word(c) /\ sent' = sent
  BY <1>1, ClientFrame DEF clientVars
<1>8. SetsAfter(c, p)'
  BY <1>1, <1>3, <1>5, <1>7 DEF SetsAfter, SetsBefore, EnableChannel
<1>9. Done(c, p)'
  <2>1. answer' = Nothing /\ answer'.hasChannel = FALSE
    BY <1>3 DEF EnableChannel, Nothing
  <2>2. SenderAt(c) => AtRest(c)'
    BY <1>5, <1>6, <1>7 DEF AtRest
  <2>3. EnableDone(c, p)'
    BY <1>5, <1>6, <1>7, <2>1, <2>2 DEF EnableDone, Nothing
  <2> QED
    BY <1>1, <2>1, <2>3 DEF Done
<1>10. ccFinished' /\ ccState' = "INIT"
  BY <1>1, <1>3 DEF EnableChannel, Until
<1>11. waited' <= 7
  BY <1>1, <1>5
<1> QED
  BY <1>1, <1>4, <1>6, <1>8, <1>9, <1>10, <1>11, AnsweredFrame

-----------------------------------------------------------------------------
(* Disabling it.                                                           *)

LEMMA DisableFacts ==
  ASSUME IInv, NEW c, NEW p, Asked(c, p), request.op = "DISABLE_CHANNEL"
  PROVE  /\ c \in live /\ p = rx[c] /\ p \in Processes
         /\ ~ReceiverAt(c) /\ ArmAt(c) /\ HasValue(p)
         /\ alt[p].step = "disable"
         /\ request.hadMessage <=> alt[p].taken > 0
         /\ Word(c) = IF SenderAt(c) THEN tx[c]
                      ELSE IF c \in cleared THEN 0 ELSE p
         /\ Word(c) = p <=> ~Offered(c)
<1>1. /\ c \in live /\ p = rx[c] /\ p \in Processes /\ Runs(p)
      /\ alt[p].step = "disable" /\ ArmAt(c)
      /\ request.hadMessage <=> alt[p].taken > 0
  BY DEF Asked
<1>2. ~ReceiverAt(c)
  BY <1>1, Runner
<1>3. Word(c) = IF SenderAt(c) THEN tx[c]
                ELSE IF c \in cleared THEN 0 ELSE p
  BY <1>1, <1>2 DEF Word
<1>4. tx[c] # p /\ p # 0
  BY <1>1, WordTypes
<1>5. Word(c) = p <=> ~Offered(c)
  BY <1>3, <1>4 DEF Offered
<1>6. HasValue(p)
  BY <1>1 DEF IInv, AltOk
<1> QED
  BY <1>1, <1>2, <1>3, <1>5, <1>6

LEMMA DisableStarts ==
  ASSUME IInv, Wait, NEW c \in MemoryAddresses, NEW p \in MemoryAddresses,
         c = request.channel, p = request.pid, Starting(c, p),
         request.op = "DISABLE_CHANNEL"
  PROVE  IInv'
<1>1. /\ PartsClock(TRUE, request) /\ ccState = "INIT" /\ Edge(request)
      /\ waited' = waited + 1 /\ waited = 0 /\ UNCHANGED clientVars
      /\ UNCHANGED request
      /\ Asked(c, p) /\ SetsBefore /\ Bump /\ UnitsIdle
      /\ AtRest(c)
  BY DEF Wait, Edge, Starting, Busy
<1>2. /\ HeapClock(FALSE, FALSE, 0, channelOutWord)
      /\ RamClock(channelRam, channelOutWord, DisablePort(request))
      /\ DisableClock(TRUE, request, channelOutWord)
  BY <1>1, DisableParts
<1>3. Begin(request)
  BY <1>1, EdgeSteps DEF LongOperations
<1>4. DisableMoves
  BY <1>1, <1>2 DEF DisableClock, UnitsIdle, DisableReadTxProc, DisableHandle,
                    DisableReadMessage
<1>5. heapState' = "INIT" /\ heapEnd' = heapEnd
  BY <1>1, <1>2, HeapRests DEF UnitsIdle
<1>6. DisablePort(request) = Read(c)
  BY <1>1 DEF DisablePort, UnitsIdle
<1>7. KeepsRam /\ channelRam' = channelRam /\ channelOutWord' = channelRam[c]
  BY <1>2, <1>6, ReadKeeps, PortKinds DEF IInv, TypeOK
<1>8. Word(c)' = Word(c) /\ (SenderAt(c)' <=> SenderAt(c))
      /\ (Offered(c)' <=> Offered(c)) /\ sent' = sent
  BY <1>1, ClientFrame DEF clientVars
<1>9. disable \in DisableRegisters
  BY DEF IInv, TypeOK, UnitsTyped
<1>10. /\ disable'.state = "READ_TX_PROC" /\ ~disable'.finished
       /\ ~disable'.hasMessage /\ ~disable'.schedules
  <2>1. /\ disable'.state = DisableOrder[disable.state]
        /\ disable'.finished <=>
             disable.state = "WRITE_RX_PROC_0" /\ ~disable.hasMessage
        /\ disable'.hasMessage <=> disable.hasMessage
        /\ disable'.schedules <=> disable.schedules
    BY <1>4, <1>9 DEF DisableMoves, DisableRegisters
  <2> QED
    BY <1>1, <2>1 DEF DisableOrder, UnitsIdle
<1>11. AtRest(c)'
  BY <1>1, <1>7, <1>8 DEF AtRest
<1>12. DisableAt(c)'
  BY <1>1, <1>3, <1>7, <1>8, <1>10, <1>11
  DEF DisableAt, DisableReads, Begin, AtRest
<1> QED
  BY <1>1, <1>3, <1>5, <1>7, <1>12, WorkingFrame DEF Begin

\* A cycle of Disable.v that does not end it.
LEMMA DisableContinues ==
  ASSUME IInv, Wait, NEW c \in MemoryAddresses, NEW p \in MemoryAddresses,
         c = request.channel, p = request.pid, Working(c, p),
         request.op = "DISABLE_CHANNEL", ~disable.finished
  PROVE  /\ RamClock(channelRam, channelOutWord, DisablePort(request))
         /\ DisableClock(TRUE, request, channelOutWord)
         /\ waited' = waited + 1
         /\ Word(c)' = Word(c)
         /\ SenderAt(c)' <=> SenderAt(c)
         /\ Offered(c)' <=> Offered(c)
         /\ Takes(c)' <=> Takes(c)
         /\ Leaves(c)' <=> Leaves(c)
         /\ sent' = sent
         /\ KeepsRam /\ DisableAt(c)' => IInv'
         /\ ccState' = "DISABLE_CHANNEL"
<1>1. /\ PartsClock(TRUE, request) /\ ccState = "DISABLE_CHANNEL" /\ Edge(request)
      /\ waited' = waited + 1 /\ UNCHANGED clientVars /\ UNCHANGED request
      /\ Asked(c, p) /\ SetsBefore /\ Bump /\ heapState = "INIT"
  BY DEF Wait, Edge, Working, DisableAt
<1>2. /\ HeapClock(FALSE, FALSE, 0, channelOutWord)
      /\ RamClock(channelRam, channelOutWord, DisablePort(request))
      /\ DisableClock(TRUE, request, channelOutWord)
  BY <1>1, DisableParts
<1>3. DisableChannel
  BY <1>1, EdgeSteps
<1>4. heapState' = "INIT" /\ heapEnd' = heapEnd
  BY <1>1, <1>2, HeapRests
<1>5. ~ccFinished' /\ ccState' = "DISABLE_CHANNEL"
      /\ UNCHANGED <<alternationSet, alternationReadySet>>
  BY <1>1, <1>3 DEF DisableChannel, Until
<1>6. Word(c)' = Word(c) /\ (SenderAt(c)' <=> SenderAt(c))
      /\ (Offered(c)' <=> Offered(c)) /\ sent' = sent
  BY <1>1, ClientFrame DEF clientVars
<1>7. (Takes(c)' <=> Takes(c)) /\ (Leaves(c)' <=> Leaves(c))
  BY <1>1, RequestFrame
<1>8. KeepsRam /\ DisableAt(c)' => IInv'
  BY <1>1, <1>4, <1>5, WorkingFrame
<1> QED
  BY <1>1, <1>2, <1>5, <1>6, <1>7, <1>8

LEMMA DisableReadStep ==
  ASSUME IInv, Wait, NEW c \in MemoryAddresses, NEW p \in MemoryAddresses,
         c = request.channel, p = request.pid, Working(c, p),
         request.op = "DISABLE_CHANNEL", DisableReads(c)
  PROVE  IInv'
<1>1. /\ RamClock(channelRam, channelOutWord, DisablePort(request))
      /\ DisableClock(TRUE, request, channelOutWord)
      /\ waited' = waited + 1
      /\ Word(c)' = Word(c)
      /\ SenderAt(c)' <=> SenderAt(c)
      /\ Offered(c)' <=> Offered(c)
      /\ Takes(c)' <=> Takes(c)
      /\ Leaves(c)' <=> Leaves(c)
      /\ sent' = sent
      /\ KeepsRam /\ DisableAt(c)' => IInv'
      /\ ccState' = "DISABLE_CHANNEL"
  BY DisableContinues DEF DisableReads
<1>2. disable \in DisableRegisters /\ AtRest(c) /\ ControllerTyped /\ Busy(c)
      /\ ~disable.hasMessage /\ ~disable.schedules
  BY DEF IInv, TypeOK, UnitsTyped, DisableReads, Busy, Working
<1>3. /\ c \in live /\ PidIn(Word(c)) = Word(c)
      /\ Word(c) = p <=> ~Offered(c)
  BY DisableFacts, WordTypes DEF Working
<1>4. CASE disable.state = "READ_TX_PROC"
  <2>1. DisableReadTxProc(channelOutWord)
    BY <1>1, <1>4 DEF DisableClock, DisableHandle, DisableReadMessage,
                      DisableMoves, DisableOrder
  <2>2. DisablePort(request) = Read(c)
    BY <1>4 DEF DisablePort
  <2>3. KeepsRam /\ channelRam' = channelRam
    BY <1>1, <1>2, <2>2, ReadKeeps, PortKinds
  <2>4. AtRest(c)'
    BY <1>1, <1>2, <2>3 DEF AtRest
  <2>5. /\ disable'.state = "HANDLE_TX_PROC" /\ ~disable'.finished
        /\ disable'.txPid = PidIn(channelOutWord)
        /\ ~disable'.hasMessage /\ ~disable'.schedules
    BY <1>2, <2>1 DEF DisableReadTxProc, DisableRegisters
  <2>6. DisableReads(c)'
    BY <1>1, <1>3, <1>4, <2>4, <2>5 DEF DisableReads
  <2> QED
    BY <1>1, <2>3, <2>6 DEF DisableAt
<1>5. CASE disable.state = "HANDLE_TX_PROC"
  <2>1. DisableHandle(request)
    BY <1>1, <1>5 DEF DisableClock, DisableReadTxProc, DisableReadMessage,
                      DisableMoves, DisableOrder
  <2>2. disable.txPid = Word(c) /\ waited = 2
    BY <1>5 DEF DisableReads
  <2>3. DisableClears(request) <=> ~Leaves(c)
    BY <1>3, <2>2 DEF DisableClears, Leaves
  <2>4. /\ disable'.state = "WRITE_RX_PROC_0"
        /\ disable'.finished <=> Leaves(c)
        /\ disable'.hasMessage <=> Takes(c)
        /\ disable'.schedules <=> Takes(c)
        /\ disable'.txPid = disable.txPid
    <3>1. PICK takes \in BOOLEAN :
            takes <=> disable.txPid # request.pid /\ ~request.hadMessage
      OBVIOUS
    <3>2. PICK clears \in BOOLEAN : clears <=> DisableClears(request)
      OBVIOUS
    <3>3. disable' = [disable EXCEPT !.state = "WRITE_RX_PROC_0",
                                     !.finished = ~DisableClears(request),
                                     !.hasMessage = @ \/ takes,
                                     !.schedules = @ \/ takes]
      BY <2>1, <3>1 DEF DisableHandle
    <3>4. takes <=> Takes(c)
      BY <1>3, <2>2, <3>1 DEF Takes
    <3>5. clears <=> ~Leaves(c)
      BY <2>3, <3>2
    <3>6. /\ disable'.state = "WRITE_RX_PROC_0"
          /\ disable'.finished <=> ~clears
          /\ disable'.hasMessage <=> takes
          /\ disable'.schedules <=> takes
          /\ disable'.txPid = disable.txPid
      BY <1>2, <3>2, <3>3 DEF DisableRegisters
    <3> QED
      BY <3>4, <3>5, <3>6
  <2>5. CASE Leaves(c)
    <3>1. DisablePort(request) = NoAccess
      BY <1>5, <2>3, <2>5 DEF DisablePort
    <3>2. KeepsRam /\ channelRam' = channelRam
      BY <1>1, <1>2, <3>1, ReadKeeps, PortKinds
    <3>3. AtRest(c)'
      BY <1>1, <1>2, <3>2 DEF AtRest
    <3>4. ~Takes(c)
      BY <2>5 DEF Takes, Leaves
    <3>5. DisableLeaves(c)'
      BY <1>1, <2>2, <2>4, <2>5, <3>3, <3>4 DEF DisableLeaves
    <3> QED
      BY <1>1, <3>2, <3>5 DEF DisableAt
  <2>6. CASE ~Leaves(c)
    <3>1. DisablePort(request) = Write(c, 0)
      BY <1>5, <2>3, <2>6 DEF DisablePort
    <3>2. /\ KeepsRam /\ channelRam'[c] = 0
          /\ channelRam'[MessageAt(c)] = channelRam[MessageAt(c)]
      BY <1>1, <1>2, <1>3, <3>1, WriteKeeps
    <3>3. CASE Takes(c)
      <4>1. channelRam'[MessageAt(c)] = sent[c]
        BY <1>2, <3>2, <3>3 DEF AtRest, Takes
      <4>2. DisableTakes(c)'
        BY <1>1, <2>2, <2>4, <2>6, <3>2, <3>3, <4>1 DEF DisableTakes
      <4> QED
        BY <1>1, <3>2, <4>2 DEF DisableAt
    <3>4. CASE ~Takes(c)
      <4>1. ~Offered(c)
        BY <2>6, <3>4 DEF Takes, Leaves
      <4>2. DisableClears0(c)'
        BY <1>1, <2>2, <2>4, <2>6, <3>4, <4>1 DEF DisableClears0
      <4> QED
        BY <1>1, <3>2, <4>2 DEF DisableAt
    <3> QED
      BY <3>3, <3>4
  <2> QED
    BY <2>5, <2>6
<1> QED
  BY <1>4, <1>5 DEF DisableReads

LEMMA DisableTakeStep ==
  ASSUME IInv, Wait, NEW c \in MemoryAddresses, NEW p \in MemoryAddresses,
         c = request.channel, p = request.pid, Working(c, p),
         request.op = "DISABLE_CHANNEL", DisableTakes(c), ~disable.finished
  PROVE  IInv'
<1>1. /\ RamClock(channelRam, channelOutWord, DisablePort(request))
      /\ DisableClock(TRUE, request, channelOutWord)
      /\ waited' = waited + 1
      /\ Word(c)' = Word(c)
      /\ Takes(c)' <=> Takes(c)
      /\ sent' = sent
      /\ KeepsRam /\ DisableAt(c)' => IInv'
      /\ ccState' = "DISABLE_CHANNEL"
  BY DisableContinues
<1>2. /\ disable \in DisableRegisters /\ ControllerTyped /\ Busy(c) /\ c \in live
      /\ channelRam[MessageAt(c)] = sent[c]
      /\ MessageAt(c) \in MemoryAddresses
  BY DisableFacts, MessageAddress
  DEF IInv, TypeOK, UnitsTyped, Busy, Working, DisableTakes
<1>3. CASE disable.state \in {"WRITE_RX_PROC_0", "READ_MESSAGE_0"}
  <2>1. DisableMoves
    BY <1>1, <1>3 DEF DisableClock, DisableReadTxProc, DisableHandle,
                      DisableReadMessage
  <2>2. /\ disable'.state = DisableOrder[disable.state]
        /\ disable'.finished <=>
             disable.state = "WRITE_RX_PROC_0" /\ ~disable.hasMessage
        /\ disable'.hasMessage <=> disable.hasMessage
        /\ disable'.schedules <=> disable.schedules
        /\ disable'.txPid = disable.txPid
    BY <1>2, <2>1 DEF DisableMoves, DisableRegisters
  <2>3. /\ disable.state = "WRITE_RX_PROC_0" => disable'.state = "READ_MESSAGE_0"
        /\ disable.state = "READ_MESSAGE_0" => disable'.state = "READ_MESSAGE_1"
    BY <2>2 DEF DisableOrder
  <2>4. CASE disable.state = "WRITE_RX_PROC_0"
    <3>1. DisablePort(request) = Write(c, 0)
      BY <2>4 DEF DisablePort
    <3>2. /\ KeepsRam /\ channelRam'[c] = 0
          /\ channelRam'[MessageAt(c)] = channelRam[MessageAt(c)]
      BY <1>1, <1>2, <3>1, WriteKeeps
    <3>3. DisableTakes(c)'
      BY <1>1, <1>2, <2>2, <2>3, <2>4, <3>2 DEF DisableTakes
    <3> QED
      BY <1>1, <3>2, <3>3 DEF DisableAt
  <2>5. CASE disable.state = "READ_MESSAGE_0"
    <3>1. DisablePort(request) = Read(MessageAt(c))
      BY <2>5 DEF DisablePort
    <3>2. /\ KeepsRam /\ channelRam' = channelRam
          /\ channelOutWord' = channelRam[MessageAt(c)]
      BY <1>1, <1>2, <3>1, ReadKeeps, PortKinds
    <3>3. DisableTakes(c)'
      BY <1>1, <1>2, <2>2, <2>3, <2>5, <3>2 DEF DisableTakes
    <3> QED
      BY <1>1, <3>2, <3>3 DEF DisableAt
  <2> QED
    BY <1>3, <2>4, <2>5
<1>4. CASE disable.state = "READ_MESSAGE_1"
  <2>1. DisableReadMessage(channelOutWord)
    BY <1>1, <1>4 DEF DisableClock, DisableReadTxProc, DisableHandle,
                      DisableMoves, DisableOrder
  <2>2. DisablePort(request) = Read(MessageAt(c))
    BY <1>4 DEF DisablePort
  <2>3. KeepsRam /\ channelRam' = channelRam
    BY <1>1, <1>2, <2>2, ReadKeeps, PortKinds
  <2>4. /\ disable'.state = "DONE" /\ disable'.finished
        /\ disable'.hasMessage <=> disable.hasMessage
        /\ disable'.schedules <=> disable.schedules
        /\ disable'.txPid = disable.txPid
        /\ disable'.message = channelOutWord
    BY <1>2, <2>1 DEF DisableReadMessage, DisableRegisters
  <2>5. DisableTakes(c)'
    BY <1>1, <1>2, <1>4, <2>3, <2>4 DEF DisableTakes
  <2> QED
    BY <1>1, <2>3, <2>5 DEF DisableAt
<1> QED
  BY <1>3, <1>4 DEF DisableTakes

LEMMA DisableClearStep ==
  ASSUME IInv, Wait, NEW c \in MemoryAddresses, NEW p \in MemoryAddresses,
         c = request.channel, p = request.pid, Working(c, p),
         request.op = "DISABLE_CHANNEL", DisableClears0(c), ~disable.finished
  PROVE  IInv'
<1>1. /\ RamClock(channelRam, channelOutWord, DisablePort(request))
      /\ DisableClock(TRUE, request, channelOutWord)
      /\ waited' = waited + 1
      /\ SenderAt(c)' <=> SenderAt(c)
      /\ Offered(c)' <=> Offered(c)
      /\ KeepsRam /\ DisableAt(c)' => IInv'
      /\ ccState' = "DISABLE_CHANNEL"
  BY DisableContinues
<1>2. /\ disable \in DisableRegisters /\ Busy(c) /\ c \in live
      /\ disable.state = "WRITE_RX_PROC_0" /\ waited = 3 /\ ~disable.hasMessage
      /\ ~disable.schedules
  BY DisableFacts DEF IInv, TypeOK, UnitsTyped, Busy, Working, DisableClears0
<1>3. DisableMoves
  BY <1>1, <1>2 DEF DisableClock, DisableReadTxProc, DisableHandle,
                    DisableReadMessage
<1>4. /\ disable'.state = DisableOrder[disable.state]
      /\ disable'.finished <=>
           disable.state = "WRITE_RX_PROC_0" /\ ~disable.hasMessage
      /\ disable'.hasMessage <=> disable.hasMessage
      /\ disable'.schedules <=> disable.schedules
  BY <1>2, <1>3 DEF DisableMoves, DisableRegisters
<1>5. disable'.state = "READ_MESSAGE_0"
  BY <1>2, <1>4 DEF DisableOrder
<1>6. DisablePort(request) = Write(c, 0)
  BY <1>2 DEF DisablePort
<1>7. KeepsRam /\ channelRam'[c] = 0
  BY <1>1, <1>2, <1>6, WriteKeeps
<1>8. DisableClears0(c)'
  BY <1>1, <1>2, <1>4, <1>5, <1>7 DEF DisableClears0
<1> QED
  BY <1>1, <1>7, <1>8 DEF DisableAt

LEMMA DisableEnds ==
  ASSUME IInv, Wait, NEW c \in MemoryAddresses, NEW p \in MemoryAddresses,
         c = request.channel, p = request.pid, Working(c, p),
         request.op = "DISABLE_CHANNEL", DisableAt(c), disable.finished
  PROVE  IInv'
<1>1. /\ PartsClock(TRUE, request) /\ ccState = "DISABLE_CHANNEL" /\ Edge(request)
      /\ waited' = waited + 1 /\ UNCHANGED clientVars /\ UNCHANGED request
      /\ Asked(c, p) /\ SetsBefore /\ Bump /\ heapState = "INIT"
  BY DEF Wait, Edge, Working, DisableAt
<1>2. /\ HeapClock(FALSE, FALSE, 0, channelOutWord)
      /\ RamClock(channelRam, channelOutWord, NoAccess)
  BY <1>1, DisableParts
<1>3. DisableChannel
  BY <1>1, EdgeSteps
<1>4. heapState' = "INIT" /\ heapEnd' = heapEnd
  BY <1>1, <1>2, HeapRests
<1>5. /\ waited <= 6 /\ waited \in Nat
      /\ disable.schedules <=> Takes(c)
      /\ disable.hasMessage <=> Takes(c)
      /\ Takes(c) => disable.txPid = Word(c) /\ disable.message = sent[c]
      /\ IF Leaves(c) THEN AtRest(c) ELSE channelRam[c] = 0
  <2>1. waited \in Nat
    BY DEF IInv, TypeOK, ClientTyped
  <2>2. CASE DisableLeaves(c)
    BY <2>1, <2>2 DEF DisableLeaves, Takes, Leaves
  <2>3. CASE DisableTakes(c)
    BY <2>1, <2>3 DEF DisableTakes, Takes, Leaves
  <2>4. CASE DisableClears0(c)
    BY <2>1, <2>4 DEF DisableClears0, Takes, Leaves
  <2> QED
    BY <2>2, <2>3, <2>4 DEF DisableAt, DisableReads
<1>6. KeepsRam /\ channelRam' = channelRam
  BY <1>2, ReadKeeps, PortKinds DEF IInv, TypeOK
<1>7. /\ SenderAt(c)' <=> SenderAt(c)
      /\ Offered(c)' <=> Offered(c)
      /\ InAlternation' = InAlternation /\ WithValue' = WithValue
      /\ Word(c)' = Word(c) /\ sent' = sent /\ tx' = tx
  BY <1>1, ClientFrame DEF clientVars
<1>8. (Takes(c)' <=> Takes(c)) /\ (Leaves(c)' <=> Leaves(c))
  BY <1>1, RequestFrame
<1>10. SetsAfter(c, p)'
  BY <1>1, <1>3, <1>7 DEF SetsAfter, SetsBefore, DisableChannel
<1>11. Done(c, p)'
  <2>1. /\ answer'.schedules = disable.schedules
        /\ answer'.schedulePid = disable.txPid
        /\ ~answer'.deschedules
        /\ answer'.hasMessage = disable.hasMessage
        /\ answer'.message = disable.message
        /\ answer'.hasChannel = FALSE
    BY <1>3 DEF DisableChannel, Nothing
  <2>2. Leaves(c) => AtRest(c)'
    BY <1>5, <1>6, <1>7 DEF AtRest
  <2>3. DisableDone(c, p)'
    BY <1>5, <1>6, <1>7, <1>8, <2>1, <2>2 DEF DisableDone, Scheduling
  <2> QED
    BY <1>1, <2>1, <2>3 DEF Done
<1>12. ccFinished' /\ ccState' = "INIT"
  BY <1>1, <1>3 DEF DisableChannel, Until
<1>13. waited' <= 7
  BY <1>1, <1>5
<1> QED
  BY <1>1, <1>4, <1>6, <1>10, <1>11, <1>12, <1>13, AnsweredFrame

-----------------------------------------------------------------------------
(* Making and destroying a channel.                                        *)

LEMMA CreateStarts ==
  ASSUME IInv, Wait, NEW c \in MemoryAddresses, NEW p \in MemoryAddresses,
         c = request.channel, p = request.pid, Starting(c, p),
         request.op = "CREATE_CHANNEL"
  PROVE  IInv'
<1>1. /\ PartsClock(TRUE, request) /\ ccState = "INIT" /\ Edge(request)
      /\ waited' = waited + 1 /\ waited = 0 /\ UNCHANGED clientVars
      /\ UNCHANGED request /\ handler' = "busy"
      /\ Asked(c, p) /\ SetsBefore /\ Bump /\ UnitsIdle
  BY DEF Wait, Edge, Starting
<1>2. heapEnd # HeapMax /\ heapState = "INIT" /\ ControllerTyped
  BY <1>1, BumpIsFree DEF BumpFree, enabled, Starting, UnitsIdle, IInv, TypeOK
<1>3. /\ HeapClock(TRUE, FALSE, 0, channelOutWord)
      /\ RamClock(channelRam, channelOutWord, NoAccess)
  <2>1. (ccState = "INIT") = TRUE
    BY <1>1
  <2> QED
    BY <1>1, <1>2, <2>1, CreateParts
<1>4. AllocFromEnd(TRUE)
  BY <1>2, <1>3 DEF HeapClock, HeapIdle, AllocFromList, UpdateHeapFree,
                    StartFree, WriteFree
<1>5. Begin(request)
  BY <1>1, EdgeSteps DEF LongOperations
<1>6. KeepsRam
  BY <1>2, <1>3, ReadKeeps, PortKinds
<1>7. made \in Nat /\ made < MaxChannels /\ heapEnd = 2 * made
  BY <1>1 DEF Asked, Bump, IInv, TypeOK, ClientTyped
<1>8. made + 1 < MaxChannels => heapEnd' = 2 * (made + 1)
  <2> SUFFICES ASSUME made + 1 < MaxChannels PROVE heapEnd' = 2 * (made + 1)
    OBVIOUS
  <2>1. 2 * made + 2 \in Nat /\ 2 * made + 2 \in MemoryAddresses
    BY <1>7, Constants DEF MemoryAddresses
  <2>2. (2 * made + 2) % MemorySize = 2 * made + 2
    BY <2>1, Wraps
  <2>3. heapEnd' = Plus(2 * made, 2)
    BY <1>4, <1>7, Constants DEF AllocFromEnd
  <2> QED
    BY <1>7, <2>2, <2>3 DEF Plus
<1>9. CreateAt'
  <2>1. heapFinished' /\ allocAddress' = 2 * made /\ waited' = 1
    BY <1>1, <1>4, <1>7 DEF AllocFromEnd
  <2>2. made' = made /\ ccState' = "CREATE_CHANNEL"
    BY <1>1, <1>5 DEF clientVars, Begin
  <2> QED
    BY <1>8, <2>1, <2>2 DEF CreateAt
<1>10. Asked(c, p)' /\ InAlternation' = InAlternation /\ WithValue' = WithValue
  BY <1>1, RequestFrame, ClientFrame
<1>11. Working(c, p)'
  <2>1. SetsBefore' /\ ~ccFinished'
    BY <1>1, <1>5, <1>10 DEF SetsBefore, Begin
  <2>2. heapState' = "INIT"
    BY <1>2, <1>4 DEF AllocFromEnd
  <2> QED
    BY <1>1, <1>9, <1>10, <2>1, <2>2 DEF Working
<1> QED
  BY <1>6, <1>11, WaitFrame DEF Doing

\* A cycle of the making of a channel that is under way.
LEMMA CreateContinues ==
  ASSUME IInv, Wait, NEW c \in MemoryAddresses, NEW p \in MemoryAddresses,
         c = request.channel, p = request.pid, Working(c, p),
         request.op = "CREATE_CHANNEL"
  PROVE  IInv'
<1>1. /\ PartsClock(TRUE, request) /\ Edge(request)
      /\ waited' = waited + 1 /\ UNCHANGED clientVars
      /\ UNCHANGED request /\ handler' = "busy"
      /\ Asked(c, p) /\ SetsBefore /\ CreateAt /\ heapState = "INIT"
  BY DEF Wait, Edge, Working
<1>2. /\ ccState \in {"CREATE_CHANNEL", "ZERO_0", "ZERO_1"}
      /\ ControllerTyped /\ made \in Nat /\ made < MaxChannels
  BY <1>1 DEF CreateAt, Asked, IInv, TypeOK, ClientTyped
<1>3. /\ HeapClock(FALSE, FALSE, 0, channelOutWord)
      /\ RamClock(channelRam, channelOutWord,
                  IF ccState \in {"ZERO_0", "ZERO_1"} THEN Write(channelOut, 0)
                  ELSE NoAccess)
  <2>1. (ccState = "INIT") = FALSE
    BY <1>2
  <2> QED
    BY <1>1, <1>2, <2>1, CreateParts
<1>4. heapState' = "INIT" /\ heapEnd' = heapEnd
  BY <1>1, <1>3, HeapRests
<1>5. 2 * made \in MemoryAddresses
  BY <1>2, Constants DEF MemoryAddresses
<1>6. /\ Asked(c, p)' /\ InAlternation' = InAlternation
      /\ WithValue' = WithValue /\ made' = made
  BY <1>1, RequestFrame, ClientFrame DEF clientVars
<1>7. CASE ccState = "CREATE_CHANNEL"
  <2>1. CreateChannel /\ waited = 1 /\ heapFinished /\ allocAddress = 2 * made
    BY <1>1, <1>7, EdgeSteps DEF CreateAt
  <2>2. KeepsRam
    BY <1>2, <1>3, <1>7, ReadKeeps, PortKinds
  <2>3. CreateAt'
    BY <1>1, <1>4, <1>6, <2>1 DEF CreateChannel, CreateAt
  <2>4. SetsBefore' /\ ~ccFinished'
    BY <1>1, <1>6, <2>1 DEF SetsBefore, CreateChannel
  <2>5. Working(c, p)'
    BY <1>1, <1>4, <1>6, <2>3, <2>4 DEF Working
  <2> QED
    BY <2>2, <2>5, WaitFrame DEF Doing
<1>8. CASE ccState \in {"ZERO_0", "ZERO_1"}
  <2>1. Zero /\ channelOut = 2 * made
    BY <1>1, <1>8, EdgeSteps DEF CreateAt
  <2>2. /\ channelRam' = [channelRam EXCEPT ![2 * made] = 0]
        /\ channelOut' = channelOut
    BY <1>3, <1>8, <2>1 DEF RamClock, Stored, Write, Zero
  <2>3. KeepsRam
    <3> SUFFICES ASSUME NEW d \in live
                 PROVE  d # 2 * made /\ MessageAt(d) # 2 * made
      BY <1>2, <2>2 DEF KeepsRam, ControllerTyped
    <3>1. PICK k \in 0 .. made - 1 : d = 2 * k
      BY DEF IInv, ChannelsOk
    <3>2. MessageAt(d) = d + 1
      BY ChannelPlaces DEF IInv, TypeOK
    <3> QED
      BY <1>2, <3>1, <3>2
  <2>4. CASE ccState = "ZERO_0"
    <3>1. CreateAt'
      BY <1>1, <1>4, <1>6, <2>1, <2>4 DEF Zero, CreateAt
    <3>2. SetsBefore' /\ ~ccFinished'
      BY <1>1, <1>6, <2>1, <2>4 DEF SetsBefore, Zero
    <3>3. Working(c, p)'
      BY <1>1, <1>4, <1>6, <3>1, <3>2 DEF Working
    <3> QED
      BY <2>3, <3>3, WaitFrame DEF Doing
  <2>5. CASE ccState = "ZERO_1"
    <3>1. waited' = 4 /\ ccState' = "INIT" /\ ccFinished'
      <4>1. waited = 3
        BY <1>1, <2>5 DEF CreateAt
      <4>2. ccFinished' = TRUE /\ ccState' = "INIT"
        BY <2>1, <2>5 DEF Zero
      <4> QED
        BY <1>1, <4>1, <4>2
    <3>2. SetsAfter(c, p)'
      BY <1>1, <1>6, <2>1 DEF SetsBefore, SetsAfter, Zero
    <3>3. answer' = [Nothing EXCEPT !.hasChannel = TRUE]
      BY <2>1, <2>5 DEF Zero
    <3>4. CreateDone'
      BY <1>1, <1>2, <1>4, <1>5, <1>6, <2>1, <2>2, <3>3
      DEF CreateDone, CreateAt, ControllerTyped
    <3>5. Done(c, p)'
      <4>1. answer'.hasChannel
        BY <3>3 DEF Nothing
      <4> QED
        BY <1>1, <3>4, <4>1 DEF Done
    <3>6. Answered(c, p)'
      BY <1>1, <1>4, <1>6, <3>1, <3>2, <3>5 DEF Answered
    <3> QED
      BY <2>3, <3>6, WaitFrame DEF Doing
  <2> QED
    BY <1>8, <2>4, <2>5
<1> QED
  BY <1>2, <1>7, <1>8

\* The heap's two cycles of writing the head of its list.
LEMMA DestroyStarts ==
  ASSUME IInv, Wait, NEW c \in MemoryAddresses, NEW p \in MemoryAddresses,
         c = request.channel, p = request.pid, Starting(c, p),
         request.op = "DESTROY_CHANNEL"
  PROVE  IInv'
<1>1. /\ PartsClock(TRUE, request) /\ ccState = "INIT" /\ Edge(request)
      /\ waited' = waited + 1 /\ waited = 0 /\ UNCHANGED clientVars
      /\ UNCHANGED request /\ handler' = "busy"
      /\ Asked(c, p) /\ SetsBefore /\ Bump /\ heapState = "INIT"
  BY DEF Wait, Edge, Starting, UnitsIdle
<1>2. c \in live /\ Busy(c)
  BY <1>1 DEF Asked, Busy, Starting
<1>3. /\ HeapClock(FALSE, TRUE, c, channelOutWord)
      /\ RamClock(channelRam, channelOutWord, Write(c, heapFree))
  BY <1>1, DestroyParts
<1>4. StartFree(FALSE, TRUE, c)
  BY <1>1, <1>3 DEF HeapClock, HeapIdle, AllocFromEnd, AllocFromList,
                    UpdateHeapFree, WriteFree
<1>5. Begin(request)
  BY <1>1, EdgeSteps DEF LongOperations
<1>6. KeepsRam
  BY <1>2, <1>3, WriteKeeps
<1>7. DestroyAt'
  BY <1>1, <1>4, <1>5 DEF DestroyAt, StartFree, Begin
<1>8. /\ Asked(c, p)' /\ InAlternation' = InAlternation
      /\ WithValue' = WithValue /\ made' = made
  BY <1>1, RequestFrame, ClientFrame DEF clientVars
<1>9. Working(c, p)'
  <2>1. SetsBefore' /\ ~ccFinished' /\ Bump'
    BY <1>1, <1>4, <1>5, <1>8 DEF SetsBefore, Begin, Bump, StartFree
  <2> QED
    BY <1>1, <1>7, <1>8, <2>1 DEF Working
<1> QED
  BY <1>6, <1>9, WaitFrame DEF Doing

\* The head of the list is written; the next cycle starts the same free again.
LEMMA DestroyContinues ==
  ASSUME IInv, Wait, NEW c \in MemoryAddresses, NEW p \in MemoryAddresses,
         c = request.channel, p = request.pid, Working(c, p),
         request.op = "DESTROY_CHANNEL"
  PROVE  IInv'
<1>1. /\ PartsClock(TRUE, request) /\ Edge(request)
      /\ waited' = waited + 1 /\ UNCHANGED clientVars
      /\ UNCHANGED request /\ handler' = "busy" /\ ccState = "DESTROY_CHANNEL"
      /\ Asked(c, p) /\ SetsBefore /\ Bump /\ DestroyAt
  BY DEF Wait, Edge, Working, DestroyAt
<1>2. c \in live /\ Busy(c) /\ heapState \in {"INIT", "WRITE_FREE"}
  BY <1>1 DEF Asked, Busy, Working, DestroyAt
<1>3. /\ HeapClock(FALSE, TRUE, c, channelOutWord)
      /\ RamClock(channelRam, channelOutWord, Write(c, heapFree))
  BY <1>1, <1>2, DestroyParts
<1>4. DestroyChannel
  BY <1>1, EdgeSteps
<1>5. KeepsRam
  BY <1>2, <1>3, WriteKeeps
<1>6. heapEnd' = heapEnd
  BY <1>2, <1>3 DEF HeapClock, HeapIdle, AllocFromEnd, AllocFromList,
                    UpdateHeapFree, StartFree, WriteFree
<1>7. /\ Asked(c, p)' /\ InAlternation' = InAlternation
      /\ WithValue' = WithValue /\ Bump'
  BY <1>1, <1>6, RequestFrame, ClientFrame DEF clientVars, Bump
<1>8. CASE heapState = "WRITE_FREE"
  <2>1. WriteFree(c) /\ waited = 1 /\ ~heapFinished
    BY <1>1, <1>3, <1>8 DEF HeapClock, HeapIdle, AllocFromEnd, AllocFromList,
                       UpdateHeapFree, StartFree, DestroyAt
  <2>2. SetsBefore' /\ ~ccFinished' /\ DestroyAt'
    BY <1>1, <1>4, <1>7, <2>1
    DEF SetsBefore, DestroyChannel, Until, DestroyAt, WriteFree
  <2>3. Working(c, p)'
    BY <1>1, <1>7, <2>2 DEF Working
  <2> QED
    BY <1>5, <2>3, WaitFrame DEF Doing
<1>9. CASE heapState = "INIT"
  <2>1. waited' = 3 /\ heapFinished
    BY <1>1, <1>9 DEF DestroyAt
  <2>2. ccFinished' /\ ccState' = "INIT" /\ answer' = Nothing
    BY <1>4, <2>1 DEF DestroyChannel, Until
  <2>3. SetsAfter(c, p)'
    BY <1>1, <1>4, <1>7 DEF SetsBefore, SetsAfter, DestroyChannel
  <2>4. Done(c, p)'
    BY <1>1, <2>2 DEF Done, Nothing
  <2>5. Answered(c, p)'
    BY <1>1, <1>7, <2>1, <2>2, <2>3, <2>4 DEF Answered
  <2> QED
    BY <1>5, <2>5, WaitFrame DEF Doing
<1> QED
  BY <1>2, <1>8, <1>9

-----------------------------------------------------------------------------
(* The operations on an alternation.                                       *)

LEMMA AlternationSteps ==
  ASSUME IInv, Wait, NEW c \in MemoryAddresses, NEW p \in MemoryAddresses,
         c = request.channel, p = request.pid, Starting(c, p),
         request.op \in {"ALT_START", "ALT_WAIT", "ALT_END"}
  PROVE  IInv'
<1>1. /\ PartsClock(TRUE, request) /\ ccState = "INIT" /\ Edge(request)
      /\ waited' = waited + 1 /\ waited = 0 /\ UNCHANGED clientVars
      /\ UNCHANGED request
      /\ Asked(c, p) /\ SetsBefore /\ Bump /\ heapState = "INIT"
      /\ ControllerTyped
  BY DEF Wait, Edge, Starting, UnitsIdle, IInv, TypeOK
<1>2. /\ HeapClock(FALSE, FALSE, 0, channelOutWord)
      /\ RamClock(channelRam, channelOutWord, NoAccess)
  BY <1>1, AlternationParts
<1>3. KeepsRam /\ heapState' = "INIT" /\ heapEnd' = heapEnd
  BY <1>1, <1>2, HeapRests, ReadKeeps, PortKinds
<1>4. /\ InAlternation' = InAlternation /\ WithValue' = WithValue
      /\ HasValue(p)' <=> HasValue(p)
  BY <1>1, ClientFrame
<1>5. AltStart(request) \/ AltWait(request) \/ AltEnd(request)
  BY <1>1, EdgeSteps
<1>6. ccFinished' /\ ccState' = "INIT"
  BY <1>1, <1>5 DEF AltStart, AltWait, AltEnd
<1>7. SetsAfter(c, p)' /\ Done(c, p)'
  <2>1. CASE request.op = "ALT_START"
    <3>1. AltStart(request)
      BY <1>1, <2>1, EdgeSteps
    <3> QED
      BY <1>1, <1>4, <2>1, <3>1
      DEF AltStart, SetsBefore, SetsAfter, Done, Nothing
  <2>2. CASE request.op = "ALT_WAIT"
    <3>1. AltWait(request)
      BY <1>1, <2>2, EdgeSteps
    <3>2. p \in alternationReadySet <=> HasValue(p)
      BY <1>1, <2>2 DEF Asked, SetsBefore, WithValue
    <3>3. /\ ~answer'.schedules /\ ~answer'.hasMessage /\ ~answer'.hasChannel
          /\ answer'.deschedules <=> ~HasValue(p)
          /\ ~HasValue(p) => answer'.deschedulePid = p
      BY <1>1, <3>1, <3>2 DEF AltWait, Nothing
    <3>4. AltWaitDone(p)'
      BY <1>4, <3>3 DEF AltWaitDone, Scheduling
    <3> QED
      BY <1>1, <1>4, <2>2, <3>1, <3>3, <3>4
      DEF AltWait, SetsBefore, SetsAfter, Done
  <2>3. CASE request.op = "ALT_END"
    <3>1. AltEnd(request)
      BY <1>1, <2>3, EdgeSteps
    <3> QED
      BY <1>1, <1>4, <2>3, <3>1
      DEF AltEnd, SetsBefore, SetsAfter, Done, Nothing
  <2> QED
    BY <2>1, <2>2, <2>3
<1>8. waited' <= 7
  BY <1>1
<1> QED
  BY <1>1, <1>3, <1>6, <1>7, <1>8, AnsweredFrame

\* A cycle in which the controller is enabled keeps the invariant.
LEMMA WaitStep == ASSUME IInv, Wait PROVE IInv'
<1>1. PICK c, p \in MemoryAddresses :
        c = request.channel /\ p = request.pid /\ Doing(c, p)
  BY DEF IInv
<1>2. Starting(c, p) \/ Working(c, p)
  BY <1>1 DEF Wait, enabled, Doing, Resting, Answered
<1>3. CASE Starting(c, p)
  <2>1. request.op \in {"CREATE_CHANNEL", "DESTROY_CHANNEL", "SEND_MESSAGE",
                        "RECEIVE_MESSAGE", "ENABLE_CHANNEL", "DISABLE_CHANNEL",
                        "ALT_START", "ALT_WAIT", "ALT_END"}
    BY <1>3 DEF Starting, Asked
  <2> QED
    BY <1>1, <1>3, <2>1, CreateStarts, DestroyStarts, SendStarts,
       ReceiveStarts, EnableStarts, DisableStarts, AlternationSteps
<1>4. CASE Working(c, p)
  <2>1. CASE request.op = "CREATE_CHANNEL"
    BY <1>1, <1>4, <2>1, CreateContinues
  <2>2. CASE request.op = "DESTROY_CHANNEL"
    BY <1>1, <1>4, <2>2, DestroyContinues
  <2>3. CASE request.op = "SEND_MESSAGE"
    <3>1. SendReads(c) \/ SendWritesAt(c, p)
      BY <1>4, <2>3 DEF Working, SendAt
    <3>2. SendReads(c) => send.state \in {"READ_RX_PROC", "HANDLE_RX_PROC"}
      BY DEF SendReads
    <3> QED
      BY <1>1, <1>4, <2>3, <3>1, <3>2, SendReadStep, SendHandleStep,
         SendWriteStep, SendEnds
  <2>4. CASE request.op = "RECEIVE_MESSAGE"
    <3>1. /\ ReceiveAt(c, p)
          /\ ReceiveReads(c) \/ ReceiveTakes(c) \/ ReceiveStops(c, p)
      BY <1>4, <2>4 DEF Working, ReceiveAt
    <3> QED
      BY <1>1, <1>4, <2>4, <3>1, ReceiveReadStep, ReceiveTakeStep,
         ReceiveStopStep, ReceiveEnds
  <2>5. CASE request.op = "ENABLE_CHANNEL"
    <3>1. /\ EnableAt(c, p)
          /\ EnableReads(c) \/ EnableFinds(c) \/ EnableMarks(c, p)
      BY <1>4, <2>5 DEF Working, EnableAt
    <3>2. EnableFinds(c) => enable.finished
      BY DEF EnableFinds
    <3> QED
      BY <1>1, <1>4, <2>5, <3>1, <3>2, EnableReadStep, EnableMarkStep,
         EnableEnds
  <2>6. CASE request.op = "DISABLE_CHANNEL"
    <3>1. /\ DisableAt(c)
          /\ \/ DisableReads(c) \/ DisableLeaves(c)
             \/ DisableTakes(c) \/ DisableClears0(c)
      BY <1>4, <2>6 DEF Working, DisableAt
    <3>2. DisableLeaves(c) => disable.finished
      BY DEF DisableLeaves
    <3> QED
      BY <1>1, <1>4, <2>6, <3>1, <3>2, DisableReadStep, DisableTakeStep,
         DisableClearStep, DisableEnds
  <2> QED
    BY <1>4, <2>1, <2>2, <2>3, <2>4, <2>5, <2>6 DEF Working
<1> QED
  BY <1>2, <1>3, <1>4

-----------------------------------------------------------------------------
(* Between requests.                                                       *)

LEMMA InitIInv == Init => IInv
<1> SUFFICES ASSUME Init PROVE IInv
  OBVIOUS
<1> USE DEF Init, ControllerInit, HeapInit, OperationsInit
<1>1. 0 \in MemoryAddresses /\ MemoryAddresses \subseteq Nat /\ 0 \in Nat
  BY Constants DEF MemoryAddresses
<1>2. UnitsTyped
  BY <1>1 DEF UnitsTyped, SendRegisters, ReceiveRegisters, EnableRegisters,
              DisableRegisters
<1>3. ControllerTyped
  BY <1>1, Constants DEF ControllerTyped, Nothing, Answers, Undriven
<1>4. NoRequest \in Requests /\ NoAlternation \in Alternations
  BY <1>1 DEF NoRequest, Requests, Operations, NoAlternation, Alternations
<1>5. ClientTyped
  <2>1. /\ handler \in {"idle", "start", "busy"} /\ request \in Requests
        /\ parked \in [Processes -> Requests] /\ alt \in [Processes -> Alternations]
    BY <1>4
  <2>2. /\ waited \in Nat /\ live \subseteq MemoryAddresses /\ made \in Nat
        /\ late \subseteq MemoryAddresses /\ cleared \subseteq MemoryAddresses
        /\ astray \in BOOLEAN
    OBVIOUS
  <2>3. /\ tx \in [MemoryAddresses -> MemoryAddresses]
        /\ rx \in [MemoryAddresses -> MemoryAddresses]
        /\ sent \in [MemoryAddresses -> Nat]
        /\ delivered \in [MemoryAddresses -> Nat]
        /\ got \in [MemoryAddresses -> Seq(Nat)]
    BY <1>1
  <2> QED
    BY <2>1, <2>2, <2>3 DEF ClientTyped
<1>6. \A q \in Processes : alt[q] = NoAlternation /\ Runs(q)
  BY DEF Runs
<1>7. \A q \in Processes : ParkedOk(q) /\ AltOk(q)
  <2> SUFFICES ASSUME NEW q \in Processes PROVE ParkedOk(q) /\ AltOk(q)
    OBVIOUS
  <2>1. /\ alt[q].step = "none" /\ alt[q].arms = {} /\ alt[q].taken = 0
        /\ alt[q] = NoAlternation /\ Runs(q)
    BY <1>6 DEF NoAlternation
  <2> QED
    BY <2>1 DEF ParkedOk, AltOk
<1>8. InAlternation = {} /\ WithValue = {}
  BY <1>6 DEF InAlternation, WithValue, NoAlternation
<1>9. ChannelsOk
  BY Constants DEF ChannelsOk
<1>10. Resting
  BY <1>8, Constants DEF Resting, SetsBefore, Bump
<1>11. \E c, p \in MemoryAddresses :
         c = request.channel /\ p = request.pid /\ Doing(c, p)
  BY <1>1, <1>10 DEF NoRequest, Doing
<1> QED
  BY <1>2, <1>3, <1>5, <1>7, <1>9, <1>11 DEF IInv, TypeOK

\* A cycle in which the controller is not enabled.
LEMMA DisabledParts ==
  ASSUME TypeOK, heapState # "UPDATE_HEAP_FREE", ccState = "INIT",
         DisabledEdge(request)
  PROVE  /\ UnitsTyped' /\ ControllerTyped'
         /\ channelRam' = channelRam /\ heapEnd' = heapEnd
         /\ heapState' = "INIT" /\ (heapState = "INIT" => UnitsIdle')
         /\ ccState' = "INIT" /\ ~ccFinished'
         /\ UNCHANGED <<answer, channelOut, alternationSet, alternationReadySet>>
<1>1. /\ wAlloc(FALSE, request) = FALSE /\ wFree(FALSE, request) = FALSE
      /\ wFreeAddress(FALSE, request) = 0
      /\ wSendEnabled(FALSE, request) = FALSE
      /\ wReceiveEnabled(FALSE, request) = FALSE
      /\ ~starting(FALSE, request, "RECEIVE_MESSAGE")
      /\ ~starting(FALSE, request, "ENABLE_CHANNEL") /\ wEnableEnabled = FALSE
      /\ wDisableEnabled(FALSE, request) = FALSE
  BY DEF wAlloc, wFree, wFreeAddress, wSendEnabled, wReceiveEnabled,
         wEnableEnabled, wDisableEnabled, starting
<1>2. PartsClock(FALSE, request)
  BY DEF DisabledEdge
<1>3. /\ HeapClock(FALSE, FALSE, 0, channelOutWord)
      /\ RamClock(channelRam, channelOutWord, MemoryPort(FALSE, request))
      /\ SendOff /\ ReceiveOff /\ EnableOff /\ DisableOff
  BY <1>1, <1>2 DEF PartsClock, SendClock, ReceiveClock, EnableClock, DisableClock
<1>5. MemoryPort(FALSE, request) = NoAccess
  BY <1>1 DEF MemoryPort
<1>6. channelRam' = channelRam
  BY <1>3, <1>5, ReadKeeps, PortKinds DEF TypeOK
<1>7. /\ heapState' = "INIT" /\ heapEnd' = heapEnd
      /\ heapState = "INIT" => ~heapFinished'
  BY <1>3 DEF HeapClock, HeapIdle, AllocFromEnd, AllocFromList, UpdateHeapFree,
              StartFree, WriteFree, TypeOK, ControllerTyped
<1>8. /\ UnitsTyped'
      /\ heapFree' \in MemoryAddresses /\ heapEnd' \in MemoryAddresses
      /\ allocAddress' \in MemoryAddresses
      /\ heapFinished' \in BOOLEAN
      /\ channelRam' \in [MemoryAddresses -> Nat]
      /\ channelOutWord' \in Nat
  BY <1>2, PartsTypes
<1>9. /\ ccState' = "INIT" /\ ccFinished' = FALSE
      /\ UNCHANGED <<answer, channelOut, alternationSet, alternationReadySet>>
  BY DEF DisabledEdge
<1>10. ControllerTyped'
  BY <1>7, <1>8, <1>9 DEF TypeOK, ControllerTyped
<1>11. heapState = "INIT" => UnitsIdle'
  <2>1. /\ send'.state = "INIT" /\ ~send'.finished /\ ~send'.schedules
        /\ ~send'.deschedules /\ ~send'.addsReady
    BY <1>3 DEF SendOff, TypeOK, UnitsTyped, SendRegisters
  <2>2. receive'.state = "INIT" /\ ~receive'.finished
    BY <1>3 DEF ReceiveOff, TypeOK, UnitsTyped, ReceiveRegisters
  <2>3. enable'.state = "INIT" /\ ~enable'.finished /\ ~enable'.canReceive
    BY <1>3 DEF EnableOff, TypeOK, UnitsTyped, EnableRegisters
  <2>4. /\ disable'.state = "INIT" /\ ~disable'.finished
        /\ ~disable'.hasMessage /\ ~disable'.schedules
    BY <1>3 DEF DisableOff, TypeOK, UnitsTyped, DisableRegisters
  <2> QED
    BY <1>7, <2>1, <2>2, <2>3, <2>4 DEF UnitsIdle
<1> QED
  BY <1>6, <1>7, <1>8, <1>9, <1>10, <1>11

LEMMA IdleRests ==
  ASSUME IInv, handler = "idle"
  PROVE  /\ Resting /\ TypeOK /\ ChannelsOk
         /\ \A ch \in live : AtRest(ch) /\ ~Busy(ch) /\ ~Sending(ch)
<1>1. Resting /\ TypeOK /\ ChannelsOk
  BY DEF IInv, Doing, Starting, Working, Answered
<1>2. \A ch : ~Busy(ch) /\ ~Sending(ch)
  BY DEF Busy, Sending
<1> QED
  BY <1>1, <1>2 DEF ChannelsOk

LEMMA ElsewhereStep == ASSUME IInv, Elsewhere PROVE IInv'
<1>1. /\ handler = "idle" /\ UNCHANGED <<handler, request, waited>>
      /\ UNCHANGED clientVars /\ DisabledEdge(request)
  BY DEF Elsewhere
<1>2. /\ Resting /\ TypeOK /\ ChannelsOk
      /\ \A ch \in live : AtRest(ch) /\ ~Busy(ch) /\ ~Sending(ch)
  BY <1>1, IdleRests
<1>3. /\ UnitsTyped' /\ ControllerTyped'
      /\ channelRam' = channelRam /\ heapEnd' = heapEnd
      /\ heapState' = "INIT" /\ ccState' = "INIT" /\ ~ccFinished'
      /\ UNCHANGED <<alternationSet, alternationReadySet>>
  BY <1>1, <1>2, DisabledParts DEF Resting
<1>4. TypeOK' /\ ~astray'
  BY <1>1, <1>2, <1>3 DEF TypeOK, ClientTyped, clientVars, histories, IInv
<1>5. InAlternation' = InAlternation /\ WithValue' = WithValue
  BY <1>1, ClientFrame
<1>6. Resting'
  BY <1>1, <1>2, <1>3, <1>5 DEF Resting, SetsBefore, Bump, clientVars
<1>7. \A ch : /\ SenderAt(ch)' <=> SenderAt(ch)
              /\ ReceiverAt(ch)' <=> ReceiverAt(ch)
              /\ Offered(ch)' <=> Offered(ch)
              /\ LateOk(ch)' <=> LateOk(ch)
              /\ Word(ch)' = Word(ch)
              /\ Busy(ch)' <=> Busy(ch)
              /\ Sending(ch)' <=> Sending(ch)
  BY <1>1, ClientFrame DEF Busy, Sending
<1>8. \A ch \in live : AtRest(ch)'
  BY <1>1, <1>2, <1>3, <1>7 DEF AtRest, clientVars
<1>9. ChannelsOk'
  BY <1>1, <1>2, <1>7, <1>8 DEF ChannelsOk, clientVars, histories
<1>10. \A q \in Processes : ParkedOk(q)' /\ AltOk(q)'
  BY <1>1, ClientFrame DEF IInv
<1> QED
  BY <1>1, <1>3, <1>4, <1>6, <1>9, <1>10 DEF IInv, Doing

LEMMA StutterStep == ASSUME IInv, UNCHANGED vars PROVE IInv'
<1>1. /\ UNCHANGED clientVars /\ UNCHANGED controllerVars
      /\ UNCHANGED <<handler, request, waited>>
  BY DEF vars
<1>2. /\ UNCHANGED <<send, receive, enable, disable>>
      /\ UNCHANGED <<heapState, heapFree, heapEnd, heapFinished, allocAddress>>
      /\ UNCHANGED <<ccState, ccFinished, channelOut, answer, alternationSet,
                     alternationReadySet, channelRam, channelOutWord>>
  BY <1>1 DEF controllerVars, heapVars, operationVars
<1>3. TypeOK' /\ ~astray'
  BY <1>1, <1>2 DEF IInv, TypeOK, UnitsTyped, ControllerTyped, ClientTyped,
                    clientVars, histories
<1>4. \A ch : /\ SenderAt(ch)' <=> SenderAt(ch)
              /\ ReceiverAt(ch)' <=> ReceiverAt(ch)
              /\ ArmAt(ch)' <=> ArmAt(ch)
              /\ Offered(ch)' <=> Offered(ch)
              /\ LateOk(ch)' <=> LateOk(ch)
              /\ Wakes(ch)' <=> Wakes(ch)
              /\ Lost(ch)' <=> Lost(ch)
              /\ Word(ch)' = Word(ch)
              /\ Busy(ch)' <=> Busy(ch)
              /\ Sending(ch)' <=> Sending(ch)
  BY <1>1, ClientFrame DEF Busy, Sending
<1>5. \A ch : AtRest(ch)' <=> AtRest(ch)
  BY <1>1, <1>2, <1>4 DEF AtRest, clientVars
<1>6. ChannelsOk'
  BY <1>1, <1>4, <1>5 DEF IInv, ChannelsOk, clientVars, histories
<1>7. \A q \in Processes : ParkedOk(q)' /\ AltOk(q)'
  BY <1>1, ClientFrame DEF IInv
<1>8. \A ch, q : /\ Asked(ch, q)' <=> Asked(ch, q)
                 /\ Takes(ch)' <=> Takes(ch)
                 /\ Leaves(ch)' <=> Leaves(ch)
                 /\ HasValue(q)' <=> HasValue(q)
  BY <1>1, RequestFrame, ClientFrame
<1>9. /\ InAlternation' = InAlternation /\ WithValue' = WithValue
      /\ sent' = sent /\ tx' = tx /\ rx' = rx /\ made' = made
  BY <1>1, ClientFrame DEF clientVars
<1>10. PICK c, p \in MemoryAddresses :
         c = request.channel /\ p = request.pid /\ Doing(c, p)
  BY DEF IInv
<1>11. /\ Resting => Resting'
       /\ Starting(c, p) => Starting(c, p)'
  BY <1>1, <1>2, <1>4, <1>5, <1>8, <1>9
  DEF Resting, Starting, UnitsIdle, SetsBefore, Bump
<1>12. Working(c, p) => Working(c, p)'
  <2>1. /\ CreateAt' <=> CreateAt
        /\ DestroyAt' <=> DestroyAt
    BY <1>1, <1>2, <1>9 DEF CreateAt, DestroyAt
  <2>2. SendAt(c, p)' <=> SendAt(c, p)
    BY <1>1, <1>2, <1>4 DEF SendAt, SendReads, SendWritesAt
  <2>3. ReceiveAt(c, p)' <=> ReceiveAt(c, p)
    BY <1>1, <1>2, <1>4, <1>5, <1>9
    DEF ReceiveAt, ReceiveReads, ReceiveTakes, ReceiveStops
  <2>4. EnableAt(c, p)' <=> EnableAt(c, p)
    BY <1>1, <1>2, <1>4, <1>5, <1>9
    DEF EnableAt, EnableReads, EnableFinds, EnableMarks
  <2>5. DisableAt(c)' <=> DisableAt(c)
    BY <1>1, <1>2, <1>4, <1>5, <1>8, <1>9
    DEF DisableAt, DisableReads, DisableLeaves, DisableTakes, DisableClears0
  <2> QED
    BY <1>1, <1>2, <1>8, <1>9, <2>1, <2>2, <2>3, <2>4, <2>5
    DEF Working, SetsBefore, Bump
<1>13. Answered(c, p) => Answered(c, p)'
  <2>1. SetsAfter(c, p)' <=> SetsAfter(c, p)
    BY <1>1, <1>2, <1>4, <1>9 DEF SetsAfter
  <2>2. Done(c, p)' <=> Done(c, p)
    BY <1>1, <1>2, <1>4, <1>5, <1>8, <1>9
    DEF Done, CreateDone, SendDone, ReceiveDone, EnableDone, DisableDone,
        AltWaitDone, Scheduling
  <2> QED
    BY <1>1, <1>2, <1>8, <1>9, <2>1, <2>2 DEF Answered, Bump
<1>14. Doing(c, p)'
  BY <1>10, <1>11, <1>12, <1>13 DEF Doing
<1> QED
  BY <1>1, <1>2, <1>3, <1>6, <1>7, <1>10, <1>14 DEF IInv

-----------------------------------------------------------------------------
(* Asking.                                                                 *)

\* A request changes the processes and the channels by no more than the number
\* of values sent.
LEMMA AskFrame ==
  ASSUME UNCHANGED <<parked, alt, live, made, tx, rx, histories>>
  PROVE  /\ \A ch : /\ SenderAt(ch)' <=> SenderAt(ch)
                    /\ ReceiverAt(ch)' <=> ReceiverAt(ch)
                    /\ ArmAt(ch)' <=> ArmAt(ch)
                    /\ Offered(ch)' <=> Offered(ch)
                    /\ LateOk(ch)' <=> LateOk(ch)
                    /\ Word(ch)' = Word(ch)
         /\ \A q : /\ HasValue(q)' <=> HasValue(q)
                   /\ Runs(q)' <=> Runs(q)
                   /\ ParkedOk(q)' <=> ParkedOk(q)
                   /\ AltOk(q)' <=> AltOk(q)
         /\ InAlternation' = InAlternation /\ WithValue' = WithValue
<1> USE DEF histories
<1>1. \A x : /\ SenderAt(x)' <=> SenderAt(x)
             /\ ReceiverAt(x)' <=> ReceiverAt(x)
             /\ ArmAt(x)' <=> ArmAt(x)
  BY DEF SenderAt, ReceiverAt, ArmAt
<1>2. \A x : (HasValue(x)' <=> HasValue(x)) /\ (Runs(x)' <=> Runs(x))
  BY <1>1 DEF HasValue, Runs
<1>3. \A ch : /\ Word(ch)' = Word(ch)
              /\ Offered(ch)' <=> Offered(ch)
              /\ LateOk(ch)' <=> LateOk(ch)
  BY <1>1, <1>2 DEF Word, Offered, LateOk, SendsAt
<1>4. \A q : (ParkedOk(q)' <=> ParkedOk(q)) /\ (AltOk(q)' <=> AltOk(q))
  BY <1>2 DEF ParkedOk, AltOk
<1>5. InAlternation' = InAlternation /\ WithValue' = WithValue
  BY <1>2 DEF InAlternation, WithValue
<1> QED
  BY <1>1, <1>2, <1>3, <1>4, <1>5

LEMMA AskStep ==
  ASSUME IInv, NEW c \in MemoryAddresses, NEW p \in MemoryAddresses,
         NEW r \in Requests, r.channel = c, r.pid = p, Ask(r),
         delivered' \in [MemoryAddresses -> Nat],
         \/ r.op # "SEND_MESSAGE" /\ sent' = sent
         \/ /\ r.op = "SEND_MESSAGE" /\ c \in live /\ p = tx[c]
            /\ sent' = [sent EXCEPT ![c] = @ + 1],
         Asked(c, p)'
  PROVE  IInv'
<1>1. /\ handler = "idle" /\ handler' = "start" /\ request' = r /\ waited' = 0
      /\ DisabledEdge(request) /\ Runs(p)
      /\ UNCHANGED <<parked, alt, live, made, tx, rx, histories>>
  BY DEF Ask
<1>2. /\ Resting /\ TypeOK /\ ChannelsOk
      /\ \A ch \in live : AtRest(ch) /\ ~Busy(ch) /\ ~Sending(ch)
  BY <1>1, IdleRests
<1>3. /\ UnitsTyped' /\ ControllerTyped' /\ UnitsIdle'
      /\ channelRam' = channelRam /\ heapEnd' = heapEnd
      /\ heapState' = "INIT" /\ ccState' = "INIT" /\ ~ccFinished'
      /\ UNCHANGED <<alternationSet, alternationReadySet>>
  BY <1>1, <1>2, DisabledParts DEF Resting
<1>4. /\ sent \in [MemoryAddresses -> Nat] /\ live \subseteq MemoryAddresses
      /\ sent' \in [MemoryAddresses -> Nat]
      /\ \A ch \in live :
           sent'[ch] = IF r.op = "SEND_MESSAGE" /\ ch = c THEN sent[ch] + 1
                                                          ELSE sent[ch]
  <2>1. sent \in [MemoryAddresses -> Nat] /\ live \subseteq MemoryAddresses
    BY <1>2 DEF TypeOK, ClientTyped
  <2> QED
    BY <2>1
<1>5. ClientTyped' /\ ~astray'
  <2>1. UNCHANGED <<parked, alt, live, made, tx, rx, got, late, cleared, astray>>
    BY <1>1 DEF histories
  <2>2. ClientTyped'
    BY <1>1, <1>2, <1>4, <2>1 DEF TypeOK, ClientTyped
  <2> QED
    BY <2>1, <2>2 DEF IInv
<1>6. /\ \A ch : /\ SenderAt(ch)' <=> SenderAt(ch)
                 /\ ReceiverAt(ch)' <=> ReceiverAt(ch)
                 /\ ArmAt(ch)' <=> ArmAt(ch)
                 /\ Offered(ch)' <=> Offered(ch)
                 /\ LateOk(ch)' <=> LateOk(ch)
                 /\ Word(ch)' = Word(ch)
      /\ \A q : /\ ParkedOk(q)' <=> ParkedOk(q)
                /\ AltOk(q)' <=> AltOk(q)
      /\ InAlternation' = InAlternation /\ WithValue' = WithValue
  BY <1>1, AskFrame
<1>7. r.op = "SEND_MESSAGE" => ~SenderAt(c) /\ ~Offered(c) /\ c \notin late
  BY <1>1, Runner, LateSender
<1>8. \A ch \in live : AtRest(ch)'
  <2> SUFFICES ASSUME NEW ch \in live PROVE AtRest(ch)'
    OBVIOUS
  <2>1. AtRest(ch)
    BY <1>2
  <2>2. Offered(ch) => sent'[ch] = sent[ch]
    BY <1>4, <1>7
  <2> QED
    BY <1>3, <1>6, <2>1, <2>2 DEF AtRest
<1>9. \A ch : Sending(ch)' <=> r.op = "SEND_MESSAGE" /\ ch = c
  BY <1>1 DEF Sending, Busy
<1>10. ChannelsOk'
  <2>1. \A ch \in live :
          /\ \E k \in 0 .. made - 1 : ch = 2 * k
          /\ tx[ch] \in Processes /\ rx[ch] \in Processes /\ tx[ch] # rx[ch]
          /\ SenderAt(ch) => ~ReceiverAt(ch)
          /\ LateOk(ch)
          /\ sent'[ch] = IF SenderAt(ch) \/ Sending(ch)' \/ ch \in late
                         THEN Len(got[ch]) + 1 ELSE Len(got[ch])
    <3> SUFFICES ASSUME NEW ch \in live
                 PROVE  sent'[ch] = IF SenderAt(ch) \/ Sending(ch)' \/ ch \in late
                                    THEN Len(got[ch]) + 1 ELSE Len(got[ch])
      BY <1>2 DEF ChannelsOk
    <3>1. sent[ch] = IF SenderAt(ch) \/ ch \in late THEN Len(got[ch]) + 1
                                                    ELSE Len(got[ch])
      BY <1>2 DEF ChannelsOk
    <3>2. CASE Sending(ch)'
      BY <1>4, <1>7, <1>9, <3>1, <3>2
    <3>3. CASE ~Sending(ch)'
      BY <1>4, <1>9, <3>1, <3>3
    <3> QED
      BY <3>2, <3>3
  <2> QED
    BY <1>1, <1>2, <1>6, <1>8, <2>1 DEF ChannelsOk, histories
<1>11. \A q \in Processes : ParkedOk(q)' /\ AltOk(q)'
  BY <1>6 DEF IInv
<1>12. Starting(c, p)'
  <2>1. SetsBefore' /\ Bump'
    BY <1>1, <1>2, <1>3, <1>6 DEF Resting, SetsBefore, Bump
  <2>2. Busy(c)' => c \in live
    BY <1>1 DEF Busy, Asked
  <2> QED
    BY <1>1, <1>3, <1>8, <2>1, <2>2 DEF Starting
<1> QED
  BY <1>1, <1>3, <1>5, <1>10, <1>11, <1>12 DEF IInv, TypeOK, Doing

\* The requests that a process makes.
LEMMA RequestTypes ==
  ASSUME NEW op \in Operations, NEW p \in MemoryAddresses,
         NEW c \in MemoryAddresses
  PROVE  /\ Request(op, p) \in Requests
         /\ Request(op, p).op = op /\ Request(op, p).pid = p
         /\ Request(op, p).channel = 0
         /\ On(op, p, c) \in Requests
         /\ On(op, p, c).op = op /\ On(op, p, c).pid = p
         /\ On(op, p, c).channel = c
<1>1. 0 \in MemoryAddresses /\ 0 \in Nat
  BY Constants
<1> QED
  BY <1>1 DEF Request, On, NoRequest, Requests, Operations

LEMMA AskSteps ==
  ASSUME IInv
  PROVE  /\ \A p \in Processes : AskCreate(p) => IInv'
         /\ \A p \in Processes : AskAltStart(p) => IInv'
         /\ \A p \in Processes : AskAltWait(p) => IInv'
         /\ \A p \in Processes : AskAltEnd(p) => IInv'
         /\ \A ch \in live : AskDestroy(ch) => IInv'
         /\ \A ch \in live : AskReceive(ch) => IInv'
         /\ \A ch \in live : AskEnable(ch) => IInv'
         /\ \A ch \in live : AskDisable(ch) => IInv'
         /\ \A ch \in live : AskSend(ch) => IInv'
<1>1. /\ live \subseteq MemoryAddresses /\ Processes \subseteq MemoryAddresses
      /\ 0 \in MemoryAddresses /\ TypeOK
      /\ \A ch \in live : rx[ch] \in Processes /\ tx[ch] \in Processes
      /\ sent \in [MemoryAddresses -> Nat]
      /\ delivered \in [MemoryAddresses -> Nat]
  BY Constants DEF IInv, TypeOK, ClientTyped, ChannelsOk
<1>2. /\ \A r : Ask(r) => /\ request' = r /\ Runs(r.pid) /\ handler = "idle"
                          /\ UNCHANGED <<parked, alt, live, made, tx, rx, histories>>
  BY DEF Ask
<1>3. \A ch : UNCHANGED <<parked, alt, live, made, tx, rx, histories>> =>
                /\ SenderAt(ch)' <=> SenderAt(ch)
                /\ ArmAt(ch)' <=> ArmAt(ch)
                /\ Runs(ch)' <=> Runs(ch)
  BY AskFrame
<1>4. ASSUME NEW p \in Processes, AskCreate(p) PROVE IInv'
  <2> DEFINE r == Request("CREATE_CHANNEL", p)
  <2>1. /\ r \in Requests /\ r.op = "CREATE_CHANNEL" /\ r.pid = p /\ r.channel = 0
    BY <1>1, RequestTypes DEF Operations
  <2>2. Ask(r) /\ UNCHANGED <<sent, delivered>> /\ alt[p].step = "none" /\ made < MaxChannels
    BY <1>4 DEF AskCreate
  <2>3. Asked(0, p)'
    BY <1>2, <1>3, <2>1, <2>2 DEF Asked
  <2> QED
    BY <1>1, <2>1, <2>2, <2>3, AskStep
<1>5. ASSUME NEW p \in Processes, AskAltStart(p) PROVE IInv'
  <2> DEFINE r == Request("ALT_START", p)
  <2>1. /\ r \in Requests /\ r.op = "ALT_START" /\ r.pid = p /\ r.channel = 0
    BY <1>1, RequestTypes DEF Operations
  <2>2. Ask(r) /\ UNCHANGED <<sent, delivered>> /\ alt[p].step = "none"
    BY <1>5 DEF AskAltStart
  <2>3. Asked(0, p)'
    BY <1>2, <1>3, <2>1, <2>2 DEF Asked
  <2> QED
    BY <1>1, <2>1, <2>2, <2>3, AskStep
<1>6. ASSUME NEW p \in Processes, AskAltWait(p) PROVE IInv'
  <2> DEFINE r == Request("ALT_WAIT", p)
  <2>1. /\ r \in Requests /\ r.op = "ALT_WAIT" /\ r.pid = p /\ r.channel = 0
    BY <1>1, RequestTypes DEF Operations
  <2>2. Ask(r) /\ UNCHANGED <<sent, delivered>> /\ alt[p].step = "enable" /\ alt[p].arms # {}
    BY <1>6 DEF AskAltWait
  <2>3. Asked(0, p)'
    BY <1>2, <1>3, <2>1, <2>2 DEF Asked
  <2> QED
    BY <1>1, <2>1, <2>2, <2>3, AskStep
<1>7. ASSUME NEW p \in Processes, AskAltEnd(p) PROVE IInv'
  <2> DEFINE r == Request("ALT_END", p)
  <2>1. /\ r \in Requests /\ r.op = "ALT_END" /\ r.pid = p /\ r.channel = 0
    BY <1>1, RequestTypes DEF Operations
  <2>2. Ask(r) /\ UNCHANGED <<sent, delivered>> /\ alt[p].step = "disable" /\ alt[p].arms = {}
    BY <1>7 DEF AskAltEnd
  <2>3. Asked(0, p)'
    BY <1>2, <1>3, <2>1, <2>2 DEF Asked
  <2> QED
    BY <1>1, <2>1, <2>2, <2>3, AskStep
<1>8. ASSUME NEW c \in live, AskDestroy(c) PROVE IInv'
  <2>0. PICK p \in Processes : p = rx[c]
    BY <1>1
  <2> DEFINE r == On("DESTROY_CHANNEL", p, c)
  <2>1. /\ r \in Requests /\ r.op = "DESTROY_CHANNEL" /\ r.pid = p
        /\ r.channel = c /\ p \in MemoryAddresses /\ c \in MemoryAddresses
    BY <1>1, RequestTypes DEF Operations
  <2>2. Ask(r) /\ UNCHANGED <<sent, delivered>> /\ alt[p].step = "none" /\ Idle(c)
    BY <1>8, <2>0 DEF AskDestroy
  <2>3. ~SenderAt(c) /\ c \notin late
    <3>1. sent[c] = IF SenderAt(c) \/ Sending(c) \/ c \in late
                    THEN Len(got[c]) + 1 ELSE Len(got[c])
      BY DEF IInv, ChannelsOk
    <3>2. Len(got[c]) \in Nat
      BY <1>1 DEF TypeOK, ClientTyped
    <3> QED
      BY <2>2, <3>1, <3>2 DEF Idle
  <2>4. Asked(c, p)'
    BY <1>1, <1>2, <1>3, <2>0, <2>1, <2>2, <2>3 DEF Asked, histories
  <2> QED
    BY <1>1, <2>0, <2>1, <2>2, <2>4, AskStep
<1>9. ASSUME NEW c \in live, AskReceive(c) PROVE IInv'
  <2>0. PICK p \in Processes : p = rx[c]
    BY <1>1
  <2> DEFINE r == On("RECEIVE_MESSAGE", p, c)
  <2>1. /\ r \in Requests /\ r.op = "RECEIVE_MESSAGE" /\ r.pid = p
        /\ r.channel = c /\ p \in MemoryAddresses /\ c \in MemoryAddresses
    BY <1>1, RequestTypes DEF Operations
  <2>2. Ask(r) /\ UNCHANGED <<sent, delivered>> /\ alt[p].step = "none"
    BY <1>9, <2>0 DEF AskReceive
  <2>4. Asked(c, p)'
    BY <1>1, <1>2, <1>3, <2>0, <2>1, <2>2 DEF Asked
  <2> QED
    BY <1>1, <2>0, <2>1, <2>2, <2>4, AskStep
<1>10. ASSUME NEW c \in live, AskEnable(c) PROVE IInv'
  <2>0. PICK p \in Processes : p = rx[c]
    BY <1>1
  <2> DEFINE r == On("ENABLE_CHANNEL", p, c)
  <2>1. /\ r \in Requests /\ r.op = "ENABLE_CHANNEL" /\ r.pid = p
        /\ r.channel = c /\ p \in MemoryAddresses /\ c \in MemoryAddresses
    BY <1>1, RequestTypes DEF Operations
  <2>2. Ask(r) /\ UNCHANGED <<sent, delivered>> /\ alt[p].step = "enable" /\ ~ArmAt(c)
    BY <1>10, <2>0 DEF AskEnable, ArmAt
  <2>4. Asked(c, p)'
    BY <1>1, <1>2, <1>3, <2>0, <2>1, <2>2 DEF Asked
  <2> QED
    BY <1>1, <2>0, <2>1, <2>2, <2>4, AskStep
<1>11. ASSUME NEW c \in live, AskDisable(c) PROVE IInv'
  <2>0. PICK p \in Processes : p = rx[c]
    BY <1>1
  <2>1. PICK had \in BOOLEAN : had <=> alt[p].taken > 0
    <3>1. CASE alt[p].taken > 0
      <4> WITNESS TRUE \in BOOLEAN
      <4> QED
        BY <3>1
    <3>2. CASE ~(alt[p].taken > 0)
      <4> WITNESS FALSE \in BOOLEAN
      <4> QED
        BY <3>2
    <3> QED
      BY <3>1, <3>2
  <2> DEFINE r == [On("DISABLE_CHANNEL", p, c) EXCEPT !.hadMessage = had]
  <2>2. /\ r \in Requests /\ r.op = "DISABLE_CHANNEL" /\ r.pid = p
        /\ r.channel = c /\ (r.hadMessage <=> alt[p].taken > 0)
        /\ p \in MemoryAddresses /\ c \in MemoryAddresses
    BY <1>1, <2>1 DEF On, Request, NoRequest, Requests, Operations
  <2>3. Ask(r) /\ UNCHANGED <<sent, delivered>> /\ alt[p].step = "disable" /\ ArmAt(c)
    BY <1>11, <2>0, <2>1 DEF AskDisable, ArmAt
  <2>4. Asked(c, p)'
    BY <1>1, <1>2, <1>3, <2>0, <2>1, <2>2, <2>3 DEF Asked
  <2> QED
    BY <1>1, <2>0, <2>1, <2>2, <2>3, <2>4, AskStep
<1>12. ASSUME NEW c \in live, AskSend(c) PROVE IInv'
  <2>0. PICK p \in Processes : p = tx[c]
    BY <1>1
  <2>1. PICK m \in Nat : m = sent[c] + 1
    BY <1>1
  <2> DEFINE r == [On("SEND_MESSAGE", p, c) EXCEPT !.message = m]
  <2>2. /\ r \in Requests /\ r.op = "SEND_MESSAGE" /\ r.pid = p
        /\ r.channel = c /\ r.message = sent[c] + 1
        /\ p \in MemoryAddresses /\ c \in MemoryAddresses
    BY <1>1, <2>1, Constants DEF On, Request, NoRequest, Requests, Operations
  <2>3. /\ Ask(r) /\ sent' = [sent EXCEPT ![c] = @ + 1] /\ alt[p].step = "none"
        /\ delivered' \in [MemoryAddresses -> Nat]
    BY <1>1, <1>12, <2>0, <2>1 DEF AskSend
  <2>4. sent'[c] = sent[c] + 1
    BY <1>1, <2>1, <2>3
  <2>5. Asked(c, p)'
    BY <1>1, <1>2, <1>3, <2>0, <2>1, <2>2, <2>3, <2>4 DEF Asked
  <2> QED
    BY <1>1, <2>0, <2>1, <2>2, <2>3, <2>5, AskStep
<1> QED
  BY <1>4, <1>5, <1>6, <1>7, <1>8, <1>9, <1>10, <1>11, <1>12

-----------------------------------------------------------------------------
(* Finishing.                                                              *)

\* Whom the answer names.
Told(c, p) ==
    /\ answer.schedules =>
         /\ answer.schedulePid \in Processes /\ answer.schedulePid # p
         /\ ~Runs(answer.schedulePid) /\ Busy(c)
         /\ \/ parked[answer.schedulePid].op = "ALT_WAIT"
            \/ parked[answer.schedulePid].channel = c
    /\ answer.deschedules =>
         answer.deschedulePid = p /\ (Busy(c) \/ request.op = "ALT_WAIT")
    /\ answer.hasMessage => Busy(c)

LEMMA AnswerTells ==
  ASSUME IInv, NEW c \in MemoryAddresses, NEW p \in MemoryAddresses,
         c = request.channel, p = request.pid, Answered(c, p), ~GoesAstray
  PROVE  Told(c, p)
<1>1. Asked(c, p) /\ Done(c, p) /\ handler # "idle"
  BY DEF Answered
<1>7. answer.schedules =>
        answer.schedulePid \in Processes /\ ~Runs(answer.schedulePid)
  BY DEF GoesAstray
<1>2. request.op \in {"DESTROY_CHANNEL", "SEND_MESSAGE", "RECEIVE_MESSAGE",
                      "ENABLE_CHANNEL", "DISABLE_CHANNEL"} => Busy(c)
  BY <1>1 DEF Busy
<1>3. CASE request.op \in {"CREATE_CHANNEL", "DESTROY_CHANNEL", "ENABLE_CHANNEL",
                           "ALT_START", "ALT_END"}
  <2>1. answer = Nothing \/ answer = [Nothing EXCEPT !.hasChannel = TRUE]
    BY <1>1, <1>3 DEF Done, CreateDone, EnableDone
  <2> QED
    BY <2>1 DEF Told, Nothing
<1>4. CASE request.op = "ALT_WAIT"
  BY <1>1, <1>4 DEF Done, AltWaitDone, Scheduling, Told
<1>5. CASE request.op = "SEND_MESSAGE"
  <2>1. SendDone(c, p)
    BY <1>1, <1>5 DEF Done
  <2>2. /\ c \in live /\ p = tx[c]
        /\ Word(c) = IF ReceiverAt(c) \/ ArmAt(c) THEN rx[c] ELSE 0
        /\ Word(c) = 0 <=> ~ReceiverAt(c) /\ ~ArmAt(c)
    BY <1>1, <1>5, SendFacts
  <2>3. rx[c] \in Processes /\ rx[c] # p
    BY <2>2, WordTypes
  <2>4. ArmAt(c) /\ ~Runs(rx[c]) => parked[rx[c]].op = "ALT_WAIT"
    <3> SUFFICES ASSUME ArmAt(c), ~Runs(rx[c])
                 PROVE  parked[rx[c]].op = "ALT_WAIT"
      OBVIOUS
    <3>2. alt[rx[c]].step = "disable"
      BY <2>2, Alternative
    <3> QED
      BY <2>3, <3>2 DEF IInv, ParkedOk
  <2>5. ReceiverAt(c) => ~Runs(rx[c]) /\ parked[rx[c]].channel = c
    BY <2>2, Receiver DEF ReceiverAt
  <2>6. answer.schedules => answer.schedulePid = rx[c] /\ (ReceiverAt(c) \/ ArmAt(c))
    BY <2>1, <2>2 DEF SendDone, Scheduling
  <2>7. answer.deschedules => answer.deschedulePid = p
    BY <2>1 DEF SendDone, Scheduling
  <2> QED
    BY <1>2, <1>5, <1>7, <2>3, <2>4, <2>5, <2>6, <2>7 DEF Told
<1>6. CASE request.op = "RECEIVE_MESSAGE" \/ request.op = "DISABLE_CHANNEL"
  <2>1. c \in live /\ p = rx[c]
    BY <1>1, <1>6 DEF Asked
  <2>2. tx[c] \in Processes /\ tx[c] # p
    BY <2>1, WordTypes
  <2>3. SenderAt(c) => ~Runs(tx[c]) /\ parked[tx[c]].channel = c
    BY Runner DEF SenderAt
  <2>4. /\ answer.schedules => SenderAt(c) /\ answer.schedulePid = tx[c]
        /\ answer.deschedules => answer.deschedulePid = p
    <3>1. CASE request.op = "RECEIVE_MESSAGE"
      BY <1>1, <3>1 DEF Done, ReceiveDone, Scheduling
    <3>2. CASE request.op = "DISABLE_CHANNEL"
      <4>1. DisableDone(c, p)
        BY <1>1, <3>2 DEF Done
      <4>2. /\ Word(c) = IF SenderAt(c) THEN tx[c]
                         ELSE IF c \in cleared THEN 0 ELSE p
            /\ Takes(c) => SenderAt(c) \/ c \in cleared
        BY <1>1, <3>2, DisableFacts DEF Takes, Offered
      <4>3. answer.schedules => Takes(c) /\ answer.schedulePid = Word(c)
        BY <4>1 DEF DisableDone, Scheduling
      <4>4. answer.schedules => SenderAt(c)
        BY <1>7, <4>2, <4>3, Constants
      <4>5. ~answer.deschedules
        BY <4>1 DEF DisableDone, Scheduling
      <4> QED
        BY <4>2, <4>3, <4>4, <4>5
    <3> QED
      BY <1>6, <3>1, <3>2
  <2> QED
    BY <1>2, <1>6, <2>2, <2>3, <2>4 DEF Told
<1> QED
  BY <1>1, <1>3, <1>4, <1>5, <1>6 DEF Asked

LEMMA Finishing ==
  ASSUME IInv, Finish, NEW c \in MemoryAddresses, NEW p \in MemoryAddresses,
         c = request.channel, p = request.pid
  PROVE  /\ Answered(c, p) /\ Asked(c, p) /\ Done(c, p) /\ SetsAfter(c, p)
         /\ ~astray' => Told(c, p)
         /\ handler' = "idle" /\ request' = NoRequest /\ waited' = 0
         /\ UnitsTyped' /\ ControllerTyped'
         /\ channelRam' = channelRam /\ heapEnd' = heapEnd
         /\ heapState' = "INIT" /\ ccState' = "INIT" /\ ~ccFinished'
         /\ UNCHANGED <<alternationSet, alternationReadySet>>
         /\ parked' = [q \in Processes |->
                         IF answer.schedules /\ q = answer.schedulePid
                         THEN NoRequest
                         ELSE IF answer.deschedules /\ q = p THEN request
                         ELSE parked[q]]
         /\ alt' = [alt EXCEPT ![p] = Progress(request.op, @)]
<1>1. /\ handler = "busy" /\ ccFinished
      /\ handler' = "idle" /\ request' = NoRequest /\ waited' = 0
      /\ parked' = Rescheduled
      /\ alt' = [alt EXCEPT ![p] = Progress(request.op, @)]
      /\ DisabledEdge(request)
  BY DEF Finish
<1>2. Answered(c, p)
  BY <1>1 DEF IInv, Doing, Resting, Starting, Working
<1>3. ccState = "INIT" /\ Asked(c, p) /\ Done(c, p) /\ SetsAfter(c, p)
  BY <1>2 DEF Answered
<1>4. ~astray' => Told(c, p)
  BY <1>2, AnswerTells DEF Finish
<1>7. answer.deschedules => answer.deschedulePid = p
  BY <1>3 DEF Done, CreateDone, SendDone, ReceiveDone, EnableDone, DisableDone,
              AltWaitDone, Scheduling, Nothing
<1>8. answer.schedules => answer.schedulePid # p
  <2>1. CASE request.op = "SEND_MESSAGE"
    <3>1. /\ SendDone(c, p) /\ p = tx[c] /\ tx[c] # rx[c] /\ p # 0
          /\ Word(c) = IF ReceiverAt(c) \/ ArmAt(c) THEN rx[c] ELSE 0
      BY <1>3, <2>1, SendFacts, WordTypes DEF Done
    <3> QED
      BY <3>1 DEF SendDone, Scheduling
  <2>2. CASE request.op = "RECEIVE_MESSAGE"
    <3>1. ReceiveDone(c, p) /\ p = rx[c] /\ tx[c] # rx[c]
      BY <1>3, <2>2, ReceiveFacts, WordTypes DEF Done
    <3> QED
      BY <3>1 DEF ReceiveDone, Scheduling
  <2>3. CASE request.op = "DISABLE_CHANNEL"
    <3>1. /\ DisableDone(c, p) /\ p = rx[c] /\ tx[c] # rx[c] /\ p # 0
          /\ Word(c) = IF SenderAt(c) THEN tx[c]
                       ELSE IF c \in cleared THEN 0 ELSE p
          /\ Takes(c) => SenderAt(c) \/ c \in cleared
      BY <1>3, <2>3, DisableFacts, WordTypes DEF Done, Takes, Offered
    <3> QED
      BY <3>1 DEF DisableDone, Scheduling
  <2>4. CASE request.op \notin {"SEND_MESSAGE", "RECEIVE_MESSAGE",
                                "DISABLE_CHANNEL"}
    <3>1. \/ answer = Nothing \/ answer = [Nothing EXCEPT !.hasChannel = TRUE]
          \/ AltWaitDone(p)
      BY <1>3, <2>4 DEF Done, CreateDone, EnableDone
    <3>2. AltWaitDone(p) => ~answer.schedules
      BY DEF AltWaitDone, Scheduling
    <3> QED
      BY <3>1, <3>2 DEF Nothing
  <2> QED
    BY <2>1, <2>2, <2>3, <2>4
<1>5. Rescheduled = [q \in Processes |->
                       IF answer.schedules /\ q = answer.schedulePid
                       THEN NoRequest
                       ELSE IF answer.deschedules /\ q = p THEN request
                       ELSE parked[q]]
  BY <1>7, <1>8 DEF Rescheduled
<1>6. TypeOK /\ heapState # "UPDATE_HEAP_FREE"
  BY DEF IInv
<1> QED
  BY <1>1, <1>2, <1>3, <1>4, <1>5, <1>6, DisabledParts

\* The values that the requests take.
LEMMA Values ==
  ASSUME IInv, Finished, NEW c \in MemoryAddresses, NEW p \in MemoryAddresses,
         c = request.channel, p = request.pid
  PROVE  /\ request.op = "SEND_MESSAGE" =>
              got' = IF ReceiverAt(c) THEN [got EXCEPT ![c] = Append(@, sent[c])]
                                      ELSE got
         /\ request.op = "RECEIVE_MESSAGE" =>
              got' = IF SenderAt(c) THEN [got EXCEPT ![c] = Append(@, sent[c])]
                                    ELSE got
         /\ request.op = "DISABLE_CHANNEL" =>
              got' = IF Takes(c) THEN [got EXCEPT ![c] = Append(@, sent[c])]
                                 ELSE got
         /\ request.op \notin {"SEND_MESSAGE", "RECEIVE_MESSAGE",
                               "DISABLE_CHANNEL"} => got' = got
<1>1. Asked(c, p) /\ Done(c, p) /\ ~answer.hasChannel /\ got' = Taken
  BY Finishing DEF Finished
<1>2. CASE request.op = "SEND_MESSAGE"
  <2>1. /\ SendDone(c, p) /\ c \in live /\ rx[c] \in Processes
        /\ Word(c) = 0 <=> ~ReceiverAt(c) /\ ~ArmAt(c)
        /\ ReceiverAt(c) => ~ArmAt(c)
        /\ Lost(c) => ArmAt(c)
    BY <1>1, <1>2, SendFacts, WordTypes DEF Done
  <2>2. /\ answer.hasMessage <=> Word(c) # 0 /\ ~Lost(c)
        /\ answer.message = sent[c]
    BY <2>1 DEF SendDone
  <2>3. CASE ReceiverAt(c)
    <3>1. alt[rx[c]].step = "none" /\ answer.hasMessage
      BY <2>1, <2>2, <2>3, Receiver
    <3> QED
      BY <1>1, <1>2, <2>2, <2>3, <3>1 DEF Taken
  <2>4. CASE ~ReceiverAt(c)
    <3>1. answer.hasMessage => alt[rx[c]].step # "none"
      BY <2>1, <2>2, <2>4, NoArms DEF ArmAt
    <3> QED
      BY <1>1, <1>2, <2>4, <3>1 DEF Taken
  <2> QED
    BY <2>3, <2>4, <1>2
<1>3. CASE request.op = "RECEIVE_MESSAGE"
  <2>1. ReceiveDone(c, p)
    BY <1>1, <1>3 DEF Done
  <2> QED
    BY <1>1, <1>3, <2>1 DEF ReceiveDone, Taken
<1>4. CASE request.op = "DISABLE_CHANNEL"
  <2>1. DisableDone(c, p)
    BY <1>1, <1>4 DEF Done
  <2> QED
    BY <1>1, <1>4, <2>1 DEF DisableDone, Taken
<1>5. CASE request.op \notin {"SEND_MESSAGE", "RECEIVE_MESSAGE",
                              "DISABLE_CHANNEL"}
  <2>1. answer = Nothing \/ AltWaitDone(p)
    BY <1>1, <1>5 DEF Done, EnableDone
  <2>2. ~answer.hasMessage
    <3>1. AltWaitDone(p) => ~answer.hasMessage
      BY ZenonT(30) DEF AltWaitDone
    <3>2. answer = Nothing => ~answer.hasMessage
      BY DEF Nothing
    <3> QED
      BY <2>1, <3>1, <3>2
  <2> QED
    BY <1>1, <1>5, <2>2 DEF Taken
<1> QED
  BY <1>2, <1>3, <1>4, <1>5

\* What is left to prove of a request that is done.
LEMMA FinishFrame ==
  ASSUME IInv, Finish, ClientTyped', Bump', SetsBefore', made' <= MaxChannels,
         ~astray', late' \subseteq live', cleared' \subseteq late',
         \A ch \in live' :
           /\ \E k \in 0 .. made' - 1 : ch = 2 * k
           /\ tx'[ch] \in Processes /\ rx'[ch] \in Processes /\ tx'[ch] # rx'[ch]
           /\ SenderAt(ch)' => ~ReceiverAt(ch)'
           /\ sent'[ch] = IF SenderAt(ch)' \/ ch \in late'
                          THEN Len(got'[ch]) + 1 ELSE Len(got'[ch])
           /\ LateOk(ch)' /\ AtRest(ch)',
         \A q \in Processes : ParkedOk(q)' /\ AltOk(q)'
  PROVE  IInv'
<1>1. PICK c, p \in MemoryAddresses : c = request.channel /\ p = request.pid
  BY DEF IInv
<1>2. /\ UnitsTyped' /\ ControllerTyped' /\ handler' = "idle"
      /\ request' = NoRequest /\ heapState' = "INIT"
      /\ ccState' = "INIT" /\ ~ccFinished'
  BY <1>1, Finishing
<1>3. Resting'
  BY <1>2 DEF Resting
<1>4. \A ch : ~Busy(ch)' /\ ~Sending(ch)'
  BY <1>2 DEF Busy, Sending
<1>5. ChannelsOk'
  BY <1>4 DEF ChannelsOk
<1>6. 0 \in MemoryAddresses /\ request'.channel = 0 /\ request'.pid = 0
  BY <1>2, Constants DEF NoRequest
<1>7. \E d, q \in MemoryAddresses :
         d = request'.channel /\ q = request'.pid /\ Doing(d, q)'
  BY <1>3, <1>6 DEF Doing
<1> QED
  BY <1>2, <1>5, <1>7 DEF IInv, TypeOK

\* Only the process that asked is stopped, and a process that is woken waited
\* at the channel of the request or in an alternation.
LEMMA Restarted ==
  ASSUME IInv, Finish, NEW c \in MemoryAddresses, NEW p \in MemoryAddresses,
         c = request.channel, p = request.pid
  PROVE  /\ answer.deschedules => Busy(c) \/ request.op = "ALT_WAIT"
         /\ answer.hasMessage => Busy(c)
         /\ \A q \in Processes :
              \/ parked'[q] = parked[q]
              \/ /\ parked'[q] = NoRequest /\ Busy(c)
                 /\ parked[q].op = "ALT_WAIT" \/ parked[q].channel = c
              \/ /\ q = p /\ parked'[q] = request
                 /\ Busy(c) \/ request.op = "ALT_WAIT"
<1>1. /\ Asked(c, p) /\ Done(c, p) /\ handler # "idle"
      /\ ~astray' => Told(c, p)
      /\ parked' = [q \in Processes |->
                      IF answer.schedules /\ q = answer.schedulePid
                      THEN NoRequest
                      ELSE IF answer.deschedules /\ q = p THEN request
                      ELSE parked[q]]
  BY Finishing DEF Answered
<1>2. request.op \in {"SEND_MESSAGE", "RECEIVE_MESSAGE", "DISABLE_CHANNEL"} =>
        Busy(c)
  BY <1>1 DEF Busy
<1>3. CASE request.op \notin {"SEND_MESSAGE", "RECEIVE_MESSAGE",
                              "DISABLE_CHANNEL", "ALT_WAIT"}
  <2>1. answer = Nothing \/ answer = [Nothing EXCEPT !.hasChannel = TRUE]
    BY <1>1, <1>3 DEF Done, CreateDone, EnableDone
  <2> QED
    BY <1>1, <2>1 DEF Nothing
<1>4. CASE request.op \in {"SEND_MESSAGE", "RECEIVE_MESSAGE", "DISABLE_CHANNEL"}
  <2>1. ASSUME NEW q \in Processes, answer.schedules, q = answer.schedulePid
        PROVE  \/ parked'[q] = parked[q]
               \/ /\ parked'[q] = NoRequest
                  /\ parked[q].op = "ALT_WAIT" \/ parked[q].channel = c
    <3>1. parked'[q] = NoRequest
      BY <1>1, <2>1
    <3>2. CASE astray'
      BY <2>1, <3>1, <3>2 DEF Finish, GoesAstray, Runs
    <3>3. CASE ~astray'
      BY <1>1, <2>1, <3>1, <3>3 DEF Told
    <3> QED
      BY <3>2, <3>3
  <2> QED
    BY <1>1, <1>2, <1>4, <2>1
<1>5. CASE request.op = "ALT_WAIT"
  <2>1. AltWaitDone(p)
    BY <1>1, <1>5 DEF Done
  <2>2. ~answer.schedules
    BY <2>1 DEF AltWaitDone, Scheduling
  <2>3. ~answer.hasMessage
    BY <2>1, ZenonT(30) DEF AltWaitDone
  <2> QED
    BY <1>1, <1>5, <2>2, <2>3
<1> QED
  BY <1>3, <1>4, <1>5

\* What the end of a request does to those that it does not name.
LEMMA OtherChannels ==
  ASSUME IInv, Finished, NEW c \in MemoryAddresses, NEW p \in MemoryAddresses,
         c = request.channel, p = request.pid, NEW ch \in live, ~Busy(ch)
  PROVE  /\ ch \in late' <=> ch \in late
         /\ ch \in cleared' <=> ch \in cleared
         /\ SendsAt(ch)' <=> SendsAt(ch)
         /\ SenderAt(ch)' <=> SenderAt(ch)
         /\ ReceiverAt(ch)' <=> ReceiverAt(ch)
         /\ ArmAt(ch)' <=> ArmAt(ch)
         /\ got'[ch] = got[ch]
<1>1. /\ Finish /\ got' = Taken /\ tx' = tx /\ rx' = rx
  BY DEF Finished
<1>2. /\ Asked(c, p) /\ handler # "idle"
      /\ alt' = [alt EXCEPT ![p] = Progress(request.op, @)]
      /\ answer.hasMessage => Busy(c)
  BY <1>1, Finishing, Restarted DEF Answered
<1>3. Busy(c) => ch # c
  OBVIOUS
<1>4. /\ ch \in MemoryAddresses /\ tx[ch] \in Processes /\ rx[ch] \in Processes
      /\ got \in [MemoryAddresses -> Seq(Nat)] /\ alt \in [Processes -> Alternations]
      /\ p \in Processes /\ Runs(p)
  BY <1>2, ChannelPlaces DEF IInv, TypeOK, ClientTyped, ChannelsOk, Asked
<1>5. \A q \in Processes :
        \/ parked'[q] = parked[q]
        \/ /\ parked'[q] = NoRequest
           /\ parked[q].op = "ALT_WAIT" \/ parked[q].channel # ch
        \/ /\ q = p /\ parked'[q] = request
           /\ request.op = "ALT_WAIT" \/ request.channel # ch
  BY <1>1, <1>3, Restarted
<1>6. parked[p].op = "NONE" /\ NoRequest.op = "NONE"
  BY <1>4, Runner DEF NoRequest
<1>11. /\ ch \in late' <=> ch \in late
       /\ ch \in cleared' <=> ch \in cleared
  <2>1. request.op \in {"SEND_MESSAGE", "DISABLE_CHANNEL"} => ch # c
    BY <1>2 DEF Busy
  <2> QED
    BY <2>1 DEF Finished, ComesLate
<1>7. (SendsAt(ch)' <=> SendsAt(ch)) /\ (SenderAt(ch)' <=> SenderAt(ch))
  <2>1. SendsAt(ch)' <=> SendsAt(ch)
    BY <1>1, <1>4, <1>5, <1>6 DEF SendsAt
  <2>2. /\ SenderAt(ch) <=> SendsAt(ch) /\ ch \notin late
        /\ SenderAt(ch)' <=> SendsAt(ch)' /\ ch \notin late'
    BY DEF SenderAt, SendsAt
  <2> QED
    BY <1>11, <2>1, <2>2
<1>8. ReceiverAt(ch)' <=> ReceiverAt(ch)
  BY <1>1, <1>4, <1>5, <1>6 DEF ReceiverAt
<1>9. ArmAt(ch)' <=> ArmAt(ch)
  <2>1. CASE rx[ch] # p
    BY <1>1, <1>2, <1>4, <2>1 DEF ArmAt
  <2>2. CASE rx[ch] = p
    <3>1. alt'[p] = Progress(request.op, alt[p])
      BY <1>2, <1>4
    <3>2. CASE request.op \in {"ENABLE_CHANNEL", "DISABLE_CHANNEL"}
      <4>1. Busy(c) /\ ch # c
        BY <1>2, <1>3, <3>2 DEF Busy
      <4> QED
        BY <1>1, <1>4, <2>2, <3>1, <3>2, <4>1 DEF Progress, ArmAt, Alternations
    <3>3. CASE request.op = "ALT_END"
      <4>1. alt[p].arms = {}
        BY <1>2, <3>3 DEF Asked
      <4> QED
        BY <1>1, <2>2, <3>1, <3>3, <4>1 DEF Progress, ArmAt, NoAlternation
    <3>4. CASE request.op \notin {"ENABLE_CHANNEL", "DISABLE_CHANNEL", "ALT_END"}
      BY <1>1, <1>4, <2>2, <3>1, <3>4 DEF Progress, ArmAt, Alternations
    <3> QED
      BY <3>2, <3>3, <3>4
  <2> QED
    BY <2>1, <2>2
<1>10. got'[ch] = got[ch]
  BY <1>1, <1>2, <1>3, <1>4 DEF Taken
<1> QED
  BY <1>7, <1>8, <1>9, <1>10, <1>11

\* A process that did not ask, and does not wait in an alternation at the
\* channel of the request.
LEMMA Bystander ==
  ASSUME IInv, Finished, NEW c \in MemoryAddresses, NEW p \in MemoryAddresses,
         c = request.channel, p = request.pid, ~astray',
         NEW q \in Processes, q # p,
         Busy(c) /\ ArmAt(c) => rx[c] # q
  PROVE  /\ ParkedOk(q)' /\ AltOk(q)' /\ alt'[q] = alt[q]
         /\ HasValue(q)' <=> HasValue(q)
<1>1. /\ Finish /\ tx' = tx /\ rx' = rx
      /\ live' = IF request.op = "DESTROY_CHANNEL" THEN live \ {c} ELSE live
  BY DEF Finished
<1>2. /\ Asked(c, p) /\ Told(c, p) /\ handler # "idle"
      /\ alt' = [alt EXCEPT ![p] = Progress(request.op, @)]
      /\ parked' = [r \in Processes |->
                      IF answer.schedules /\ r = answer.schedulePid
                      THEN NoRequest
                      ELSE IF answer.deschedules /\ r = p THEN request
                      ELSE parked[r]]
  BY <1>1, Finishing DEF Answered
<1>3. /\ alt \in [Processes -> Alternations] /\ parked \in [Processes -> Requests]
      /\ ParkedOk(q) /\ AltOk(q)
  BY DEF IInv, TypeOK, ClientTyped
<1>4. alt'[q] = alt[q]
  BY <1>2, <1>3
<1>5. \A ch \in alt[q].arms : ch \in live /\ rx[ch] = q /\ ~Busy(ch) /\ ArmAt(ch)
  <2> SUFFICES ASSUME NEW ch \in alt[q].arms
               PROVE  ch \in live /\ rx[ch] = q /\ ~Busy(ch) /\ ArmAt(ch)
    OBVIOUS
  <2>1. ch \in live /\ rx[ch] = q
    BY <1>3 DEF AltOk
  <2>2. ArmAt(ch)
    BY <2>1 DEF ArmAt
  <2>3. Busy(ch) => ch = c
    BY DEF Busy
  <2> QED
    BY <2>1, <2>2, <2>3
<1>6. \A ch \in alt[q].arms : SenderAt(ch)' <=> SenderAt(ch)
  BY <1>5, OtherChannels
<1>7. HasValue(q)' <=> HasValue(q)
  BY <1>4, <1>6 DEF HasValue
<1>8. \A ch \in alt[q].arms : ch \in live'
  <2>1. request.op = "DESTROY_CHANNEL" => Busy(c)
    BY <1>2 DEF Busy
  <2> QED
    BY <1>1, <1>5, <2>1
<1>9. \/ parked'[q] = parked[q]
      \/ /\ parked'[q] = NoRequest /\ Busy(c) /\ ~Runs(q)
         /\ parked[q].op = "ALT_WAIT" \/ parked[q].channel = c
         /\ q = answer.schedulePid /\ answer.schedules
  BY <1>2 DEF Told
<1>10. CASE parked'[q] = parked[q]
  <2>1. Runs(q)' <=> Runs(q)
    BY <1>10 DEF Runs
  <2>2. AltOk(q)'
    BY <1>1, <1>3, <1>4, <1>5, <1>7, <1>8, <2>1 DEF AltOk
  <2>3. CASE request.op # "DESTROY_CHANNEL"
    <3>1. live' = live
      BY <1>1, <2>3
    <3>2. ParkedOk(q)'
      BY <1>1, <1>3, <1>4, <1>10, <2>1, <3>1 DEF ParkedOk
    <3> QED
      BY <1>4, <1>7, <2>2, <3>2
  <2>4. CASE request.op = "DESTROY_CHANNEL"
    <3>1. p = rx[c] /\ ~SenderAt(c) /\ c \notin late
      BY <1>2, <2>4 DEF Asked
    <3>2. parked[q].op \in {"SEND_MESSAGE", "RECEIVE_MESSAGE"}
            => parked[q].channel # c \/ Runs(q)
      BY <1>3, <3>1 DEF ParkedOk, SenderAt
    <3>3. live' = live \ {c}
      BY <1>1, <2>4
    <3>4. ParkedOk(q)'
      BY <1>1, <1>3, <1>4, <1>10, <2>1, <3>2, <3>3 DEF ParkedOk
    <3> QED
      BY <1>4, <1>7, <2>2, <3>4
  <2> QED
    BY <2>3, <2>4
<1>11. CASE parked'[q] # parked[q]
  <2>1. parked'[q] = NoRequest /\ Busy(c) /\ ~Runs(q)
        /\ (parked[q].op = "ALT_WAIT" \/ parked[q].channel = c)
        /\ answer.schedules /\ q = answer.schedulePid
    BY <1>9, <1>11
  <2>2. alt[q].step = "none"
    <3>1. CASE request.op = "SEND_MESSAGE"
      <4>1. /\ c \in live
            /\ Word(c) = IF ReceiverAt(c) \/ ArmAt(c) THEN rx[c] ELSE 0
            /\ Word(c) = 0 <=> ~ReceiverAt(c) /\ ~ArmAt(c)
        BY <1>2, <3>1, SendFacts
      <4>2. Done(c, p)
        BY <1>1, Finishing
      <4>3. SendDone(c, p)
        BY <3>1, <4>2 DEF Done
      <4>4. q = rx[c] /\ (ReceiverAt(c) \/ ArmAt(c))
        BY <2>1, <4>1, <4>3 DEF SendDone, Scheduling
      <4>5. ReceiverAt(c)
        BY <2>1, <4>4
      <4> QED
        BY <4>1, <4>4, <4>5, Receiver
    <3>2. CASE request.op # "SEND_MESSAGE"
      <4>1. Done(c, p)
        BY <1>1, Finishing
      <4>2. SenderAt(c) /\ q = tx[c]
        <5>1. CASE request.op = "DISABLE_CHANNEL"
          <6>1. DisableDone(c, p)
            BY <4>1, <5>1 DEF Done
          <6>2. /\ Word(c) = IF SenderAt(c) THEN tx[c]
                             ELSE IF c \in cleared THEN 0 ELSE p
                /\ Takes(c) => SenderAt(c) \/ c \in cleared
            BY <1>2, <5>1, DisableFacts DEF Takes, Offered
          <6>3. Takes(c) /\ q = Word(c)
            BY <2>1, <6>1 DEF DisableDone, Scheduling
          <6> QED
            BY <6>2, <6>3, Constants
        <5>2. CASE request.op # "DISABLE_CHANNEL"
          BY <1>2, <2>1, <3>2, <4>1, <5>2
          DEF Done, CreateDone, EnableDone, ReceiveDone, AltWaitDone,
              Scheduling, Nothing
        <5> QED
          BY <5>1, <5>2
      <4> QED
        BY <1>3, <2>1, <4>2 DEF ParkedOk, SenderAt
    <3> QED
      BY <3>1, <3>2
  <2>3. Runs(q)' /\ alt[q].arms = {} /\ alt[q].taken = 0
    BY <2>1, <2>2, NoArms DEF Runs
  <2>4. alt[q] = NoAlternation
    BY <1>3, <2>2 DEF AltOk
  <2>5. ParkedOk(q)' /\ AltOk(q)'
    BY <1>4, <2>2, <2>3, <2>4 DEF ParkedOk, AltOk
  <2> QED
    BY <1>4, <1>7, <2>5
<1> QED
  BY <1>10, <1>11

\* The types do not need the scheduler.
LEMMA FinishedTypes ==
  ASSUME IInv, Finished, NEW c \in MemoryAddresses, NEW p \in MemoryAddresses,
         c = request.channel, p = request.pid
  PROVE  ClientTyped'
<1>1. /\ Finish /\ UNCHANGED <<made, tx, rx, sent>> /\ got' = Taken
      /\ live' = IF request.op = "DESTROY_CHANNEL" THEN live \ {c} ELSE live
  BY DEF Finished
<1>2. /\ Asked(c, p)
      /\ handler' = "idle" /\ request' = NoRequest /\ waited' = 0
      /\ alt' = [alt EXCEPT ![p] = Progress(request.op, @)]
      /\ parked' = [r \in Processes |->
                      IF answer.schedules /\ r = answer.schedulePid
                      THEN NoRequest
                      ELSE IF answer.deschedules /\ r = p THEN request
                      ELSE parked[r]]
  BY <1>1, Finishing
<1>3. TypeOK /\ ClientTyped /\ p \in Processes
  BY <1>2 DEF IInv, TypeOK, Asked
<1>4. ClientTyped'
  <2>1. parked' \in [Processes -> Requests] /\ NoRequest \in Requests
    <3>1. NoRequest \in Requests
      BY Constants DEF NoRequest, Requests, Operations
    <3> QED
      BY <1>2, <1>3, <3>1 DEF ClientTyped
  <2>2. Progress(request.op, alt[p]) \in Alternations
    <3>1. NoAlternation \in Alternations /\ alt[p] \in Alternations
      BY <1>3 DEF NoAlternation, Alternations, ClientTyped
    <3>2. request.channel \in MemoryAddresses
      OBVIOUS
    <3>3. CASE request.op = "ENABLE_CHANNEL"
      BY <3>1, <3>2, <3>3 DEF Progress, Alternations
    <3>4. CASE request.op = "DISABLE_CHANNEL"
      <4>1. PICK n \in Nat : n = IF answer.hasMessage THEN alt[p].taken + 1
                                                     ELSE alt[p].taken
        BY <3>1 DEF Alternations
      <4>2. Progress(request.op, alt[p]) =
              [alt[p] EXCEPT !.arms = @ \ {request.channel}, !.taken = n]
        BY <3>4, <4>1 DEF Progress
      <4>3. alt[p].arms \ {request.channel} \in SUBSET MemoryAddresses
        BY <3>1 DEF Alternations
      <4> QED
        BY <3>1, <4>2, <4>3 DEF Alternations
    <3>5. CASE request.op \in {"ALT_START", "ALT_WAIT"}
      BY <3>1, <3>5 DEF Progress, Alternations
    <3>6. CASE request.op = "ALT_END"
      BY <3>1, <3>6 DEF Progress
    <3>7. CASE request.op \notin {"ENABLE_CHANNEL", "DISABLE_CHANNEL",
                                  "ALT_START", "ALT_WAIT", "ALT_END"}
      BY <3>1, <3>7 DEF Progress
    <3> QED
      BY <3>3, <3>4, <3>5, <3>6, <3>7
  <2>3. alt' \in [Processes -> Alternations]
    BY <1>2, <1>3, <2>2 DEF ClientTyped
  <2>4. got' \in [MemoryAddresses -> Seq(Nat)]
    <3>1. answer.message \in Nat /\ got[c] \in Seq(Nat)
      BY <1>3 DEF TypeOK, ClientTyped, ControllerTyped, Answers
    <3>2. Append(got[c], answer.message) \in Seq(Nat)
      BY <3>1
    <3> QED
      BY <1>1, <1>3, <3>2 DEF Taken, ClientTyped
  <2>5. handler' \in {"idle", "start", "busy"} /\ request' \in Requests
        /\ waited' \in Nat
    BY <1>2, <2>1
  <2>6. /\ late' \subseteq MemoryAddresses /\ cleared' \subseteq MemoryAddresses
    BY <1>3 DEF ClientTyped, Finished
  <2>7. delivered' \in [MemoryAddresses -> Nat]
    BY <1>3 DEF Finished, Delivered, ClientTyped
  <2>8. astray' \in BOOLEAN
    <3>1. GoesAstray \in BOOLEAN
      BY DEF GoesAstray
    <3> QED
      BY <1>1, <3>1 DEF Finish
  <2> QED
    BY <1>1, <1>3, <2>1, <2>3, <2>4, <2>5, <2>6, <2>7, <2>8 DEF ClientTyped
<1> QED
  BY <1>4

\* What is left to prove of a request that made no channel.
LEMMA FinishedFrame ==
  ASSUME IInv, Finished, NEW c \in MemoryAddresses, NEW p \in MemoryAddresses,
         c = request.channel, p = request.pid, ~astray',
         ParkedOk(p)', AltOk(p)', SetsBefore',
         HasValue(p) /\ alt'[p].arms # {} => HasValue(p)',
         Busy(c) /\ ArmAt(c) =>
           ParkedOk(rx[c])' /\ AltOk(rx[c])' /\ HasValue(rx[c])',
         Busy(c) /\ request.op # "DESTROY_CHANNEL" =>
           /\ SenderAt(c)' => ~ReceiverAt(c)'
           /\ sent[c] = IF SenderAt(c)' \/ c \in late' THEN Len(got'[c]) + 1
                                                      ELSE Len(got'[c])
           /\ LateOk(c)' /\ AtRest(c)'
  PROVE  IInv'
<1>1. /\ Finish /\ UNCHANGED <<made, tx, rx, sent>> /\ got' = Taken
      /\ live' = IF request.op = "DESTROY_CHANNEL" THEN live \ {c} ELSE live
  BY DEF Finished
<1>2. /\ Asked(c, p) /\ Answered(c, p) /\ Told(c, p)
      /\ handler' = "idle" /\ request' = NoRequest /\ waited' = 0
      /\ alt' = [alt EXCEPT ![p] = Progress(request.op, @)]
      /\ parked' = [r \in Processes |->
                      IF answer.schedules /\ r = answer.schedulePid
                      THEN NoRequest
                      ELSE IF answer.deschedules /\ r = p THEN request
                      ELSE parked[r]]
      /\ channelRam' = channelRam /\ heapEnd' = heapEnd
  BY <1>1, Finishing
<1>3. TypeOK /\ ClientTyped /\ ChannelsOk /\ p \in Processes /\ handler # "idle"
  BY <1>2 DEF IInv, TypeOK, Asked, Answered
<1>4. ClientTyped'
  BY FinishedTypes
<1>5. Bump'
  BY <1>1, <1>2, <1>3 DEF Bump, Finished, Answered, Done, CreateDone
<1>6. ASSUME NEW ch \in live'
      PROVE  /\ \E k \in 0 .. made' - 1 : ch = 2 * k
             /\ tx'[ch] \in Processes /\ rx'[ch] \in Processes /\ tx'[ch] # rx'[ch]
             /\ SenderAt(ch)' => ~ReceiverAt(ch)'
             /\ sent'[ch] = IF SenderAt(ch)' \/ ch \in late'
                            THEN Len(got'[ch]) + 1 ELSE Len(got'[ch])
             /\ LateOk(ch)' /\ AtRest(ch)'
  <2>1. ch \in live
    BY <1>1, <1>6
  <2>2. /\ \E k \in 0 .. made - 1 : ch = 2 * k
        /\ tx[ch] \in Processes /\ rx[ch] \in Processes /\ tx[ch] # rx[ch]
        /\ SenderAt(ch) => ~ReceiverAt(ch)
        /\ sent[ch] = IF SenderAt(ch) \/ Sending(ch) \/ ch \in late
                      THEN Len(got[ch]) + 1 ELSE Len(got[ch])
        /\ LateOk(ch)
        /\ ~Busy(ch) => AtRest(ch)
    BY <1>3, <2>1 DEF ChannelsOk
  <2>3. CASE Busy(ch)
    <3>1. ch = c /\ request.op # "DESTROY_CHANNEL"
      BY <1>1, <1>6, <2>3 DEF Busy
    <3> QED
      BY <1>1, <2>2, <2>3, <3>1
  <2>4. CASE ~Busy(ch)
    <3>1. /\ ch \in late' <=> ch \in late
          /\ ch \in cleared' <=> ch \in cleared
          /\ SendsAt(ch)' <=> SendsAt(ch)
          /\ SenderAt(ch)' <=> SenderAt(ch)
          /\ ReceiverAt(ch)' <=> ReceiverAt(ch)
          /\ ArmAt(ch)' <=> ArmAt(ch)
          /\ got'[ch] = got[ch]
      BY <2>1, <2>4, OtherChannels
    <3>2. Word(ch)' = Word(ch) /\ (Offered(ch)' <=> Offered(ch))
      BY <1>1, <3>1 DEF Word, Offered
    <3>3. AtRest(ch)'
      BY <1>1, <1>2, <2>2, <2>4, <3>1, <3>2 DEF AtRest
    <3>4. ~Sending(ch)
      BY <2>4 DEF Sending
    <3>5. LateOk(ch)'
      <4> SUFFICES ASSUME ch \in cleared PROVE HasValue(rx[ch])'
        BY <2>2, <3>1 DEF LateOk
      <4>1. PICK q \in Processes : q = rx[ch] /\ rx'[ch] = q
        BY <1>1, <2>2
      <4>2. HasValue(q) /\ ArmAt(ch) /\ ArmAt(ch)'
        BY <2>2, <3>1, <4>1 DEF LateOk
      <4>3. CASE q = p
        <5>1. alt'[p].arms # {}
          BY <4>1, <4>2, <4>3 DEF ArmAt
        <5>2. HasValue(p)'
          BY <4>2, <4>3, <5>1
        <5> QED
          BY <4>1, <4>3, <5>2
      <4>4. CASE Busy(c) /\ ArmAt(c) /\ rx[c] = q
        <5>1. rx'[c] = q /\ HasValue(rx[c])'
          BY <1>1, <4>4
        <5> QED
          BY <4>1, <5>1
      <4>5. CASE q # p /\ (Busy(c) /\ ArmAt(c) => rx[c] # q)
        <5>1. HasValue(q)' <=> HasValue(q)
          BY <4>5, Bystander
        <5> QED
          BY <4>1, <4>2, <5>1
      <4> QED
        BY <4>3, <4>4, <4>5
    <3> QED
      BY <1>1, <2>2, <3>1, <3>3, <3>4, <3>5
  <2> QED
    BY <2>3, <2>4
<1>7. ASSUME NEW q \in Processes PROVE ParkedOk(q)' /\ AltOk(q)'
  <2>1. CASE q = p
    BY <2>1
  <2>2. CASE q # p /\ Busy(c) /\ ArmAt(c) /\ rx[c] = q
    <3>1. rx'[c] = q
      BY <1>1, <2>2
    <3> QED
      BY <2>2, <3>1
  <2>3. CASE q # p /\ (Busy(c) /\ ArmAt(c) => rx[c] # q)
    BY <2>3, Bystander
  <2> QED
    BY <2>1, <2>2, <2>3
<1>8. made' <= MaxChannels
  BY <1>1, <1>3 DEF ChannelsOk
<1>9. late' \subseteq live' /\ cleared' \subseteq late'
  <2>1. late \subseteq live /\ cleared \subseteq late
    BY <1>3 DEF ChannelsOk
  <2>2. request.op = "DESTROY_CHANNEL" => c \notin late
    BY <1>2 DEF Asked
  <2>3. request.op = "SEND_MESSAGE" => c \in live
    BY <1>2 DEF Asked
  <2>4. /\ late' = IF ComesLate THEN late \cup {c} ELSE late
        /\ cleared' = IF ComesLate THEN cleared \cup {c}
                      ELSE IF request.op = "DISABLE_CHANNEL"
                           THEN cleared \ {c} ELSE cleared
        /\ ComesLate => request.op = "SEND_MESSAGE"
    BY DEF Finished, ComesLate
  <2> QED
    BY <1>1, <2>1, <2>2, <2>3, <2>4
<1> QED
  BY <1>1, <1>4, <1>5, <1>6, <1>7, <1>8, <1>9, FinishFrame

\* What becomes of the process that asked, and of the sets.
LEMMA Asker ==
  ASSUME IInv, Finished, NEW c \in MemoryAddresses, NEW p \in MemoryAddresses,
         c = request.channel, p = request.pid, ~astray'
  PROVE  /\ Asked(c, p) /\ Done(c, p) /\ SetsAfter(c, p) /\ Runs(p)
         /\ p \in Processes /\ AltOk(p) /\ alt[p] \in Alternations
         /\ alt'[p] = Progress(request.op, alt[p])
         /\ answer.deschedules => parked'[p] = request
         /\ ~answer.deschedules => Runs(p)'
         /\ UNCHANGED <<tx, rx, sent, channelRam>> /\ got' = Taken
         /\ live' = IF request.op = "DESTROY_CHANNEL" THEN live \ {c} ELSE live
         /\ UNCHANGED <<alternationSet, alternationReadySet>>
         /\ InAlternation \subseteq Processes /\ InAlternation' \subseteq Processes
         /\ WithValue \subseteq Processes /\ WithValue' \subseteq Processes
         /\ \A q \in Processes \ {p} :
              (Busy(c) /\ ArmAt(c) => rx[c] # q) =>
                 /\ q \in InAlternation' <=> q \in InAlternation
                 /\ q \in WithValue' <=> q \in WithValue
<1>1. /\ Finish /\ UNCHANGED <<made, tx, rx, sent>> /\ got' = Taken
      /\ live' = IF request.op = "DESTROY_CHANNEL" THEN live \ {c} ELSE live
  BY DEF Finished
<1>2. /\ Asked(c, p) /\ Done(c, p) /\ SetsAfter(c, p) /\ Told(c, p)
      /\ alt' = [alt EXCEPT ![p] = Progress(request.op, @)]
      /\ parked' = [r \in Processes |->
                      IF answer.schedules /\ r = answer.schedulePid
                      THEN NoRequest
                      ELSE IF answer.deschedules /\ r = p THEN request
                      ELSE parked[r]]
      /\ channelRam' = channelRam
      /\ UNCHANGED <<alternationSet, alternationReadySet>>
  BY <1>1, Finishing
<1>3. /\ p \in Processes /\ Runs(p) /\ AltOk(p)
      /\ alt \in [Processes -> Alternations]
  BY <1>2 DEF Asked, IInv, TypeOK, ClientTyped
<1>4. alt'[p] = Progress(request.op, alt[p]) /\ alt[p] \in Alternations
  BY <1>2, <1>3
<1>5. ~(answer.schedules /\ p = answer.schedulePid)
  BY <1>2 DEF Told
<1>6. /\ answer.deschedules => parked'[p] = request
      /\ ~answer.deschedules => Runs(p)'
  BY <1>2, <1>3, <1>5 DEF Runs
<1>7. /\ InAlternation \subseteq Processes /\ InAlternation' \subseteq Processes
      /\ WithValue \subseteq Processes /\ WithValue' \subseteq Processes
  BY DEF InAlternation, WithValue
<1>8. \A q \in Processes \ {p} :
        (Busy(c) /\ ArmAt(c) => rx[c] # q) =>
           /\ q \in InAlternation' <=> q \in InAlternation
           /\ q \in WithValue' <=> q \in WithValue
  BY Bystander DEF InAlternation, WithValue
<1> QED
  BY <1>1, <1>2, <1>3, <1>4, <1>6, <1>7, <1>8

\* Only a sender that comes late is forgotten.
LEMMA LateStep ==
  ASSUME Finished, NEW c, c = request.channel
  PROVE  /\ request.op # "SEND_MESSAGE" \/ ~Lost(c) =>
              late' = late
              /\ (request.op # "DISABLE_CHANNEL" => cleared' = cleared)
         /\ request.op = "SEND_MESSAGE" /\ Lost(c) =>
              late' = late \cup {c} /\ cleared' = cleared \cup {c}
         /\ request.op = "DISABLE_CHANNEL" => cleared' = cleared \ {c}
<1>1. ComesLate <=> request.op = "SEND_MESSAGE" /\ Lost(c)
  BY DEF ComesLate, Lost, ArmAt
<1> QED
  BY <1>1 DEF Finished

LEMMA FinishedDestroy ==
  ASSUME IInv, Finished, NEW c \in MemoryAddresses, NEW p \in MemoryAddresses,
         c = request.channel, p = request.pid, request.op = "DESTROY_CHANNEL",
         ~astray'
  PROVE  IInv'
<1>1. /\ Asked(c, p) /\ Done(c, p) /\ SetsAfter(c, p)
      /\ p \in Processes /\ AltOk(p)
      /\ alt'[p] = Progress(request.op, alt[p])
      /\ ~answer.deschedules => Runs(p)'
      /\ UNCHANGED <<alternationSet, alternationReadySet>>
      /\ InAlternation \subseteq Processes /\ InAlternation' \subseteq Processes
      /\ WithValue \subseteq Processes /\ WithValue' \subseteq Processes
      /\ \A q \in Processes \ {p} :
           (Busy(c) /\ ArmAt(c) => rx[c] # q) =>
              /\ q \in InAlternation' <=> q \in InAlternation
              /\ q \in WithValue' <=> q \in WithValue
  BY Asker
<1>2. p = rx[c] /\ alt[p].step = "none" /\ ~answer.deschedules
  BY <1>1 DEF Asked, Done, Nothing
<1>3. /\ alt[p].arms = {} /\ alt[p].taken = 0 /\ p \notin InAlternation
      /\ p \notin WithValue /\ ~ArmAt(c)
  BY <1>1, <1>2, NoArms DEF ArmAt
<1>4. alt'[p] = alt[p] /\ alt[p] = NoAlternation
  BY <1>1, <1>2 DEF Progress, AltOk
<1>5. ParkedOk(p)' /\ AltOk(p)'
  BY <1>1, <1>2, <1>3, <1>4 DEF ParkedOk, AltOk
<1>6. p \notin InAlternation' /\ p \notin WithValue'
  BY <1>2, <1>4 DEF InAlternation, WithValue
<1>7. InAlternation' = InAlternation /\ WithValue' = WithValue
  BY <1>1, <1>3, <1>6
<1>8. SetsBefore'
  BY <1>1, <1>7 DEF SetsAfter, SetsBefore
<1> QED
  BY <1>3, <1>4, <1>5, <1>8, FinishedFrame DEF NoAlternation

\* A receiver waits, and takes the value.
LEMMA FinishedSendReceiver ==
  ASSUME IInv, Finished, NEW c \in MemoryAddresses, NEW p \in MemoryAddresses,
         c = request.channel, p = request.pid, request.op = "SEND_MESSAGE",
         ReceiverAt(c), ~astray'
  PROVE  IInv'
<1>1. /\ Asked(c, p) /\ Done(c, p) /\ SetsAfter(c, p) /\ Runs(p)
      /\ p \in Processes /\ AltOk(p)
      /\ alt'[p] = Progress(request.op, alt[p])
      /\ ~answer.deschedules => Runs(p)'
      /\ UNCHANGED <<tx, rx, sent, channelRam>> /\ got' = Taken
      /\ live' = live
      /\ UNCHANGED <<alternationSet, alternationReadySet>>
      /\ InAlternation \subseteq Processes /\ InAlternation' \subseteq Processes
      /\ WithValue \subseteq Processes /\ WithValue' \subseteq Processes
      /\ \A q \in Processes \ {p} :
           (Busy(c) /\ ArmAt(c) => rx[c] # q) =>
              /\ q \in InAlternation' <=> q \in InAlternation
              /\ q \in WithValue' <=> q \in WithValue
  BY Asker
<1>2. /\ c \in live /\ p = tx[c] /\ ~SenderAt(c) /\ ~ArmAt(c) /\ ~Lost(c)
      /\ Word(c) = rx[c] /\ Word(c) # 0
      /\ SendDone(c, p) /\ alt[p].step = "none"
  BY <1>1, SendFacts DEF Done, Asked
<1>3. /\ answer.schedules /\ answer.schedulePid = rx[c] /\ ~answer.deschedules
      /\ answer.hasMessage /\ answer.message = sent[c] /\ channelRam[c] = 0
  BY <1>2 DEF SendDone, Scheduling
<1>4. /\ rx[c] \in Processes /\ rx[c] # p /\ alt[rx[c]].step = "none"
  BY <1>2, WordTypes, Receiver
<1>5. parked'[rx[c]] = NoRequest
  <2>1. Finish
    BY DEF Finished
  <2> QED
    BY <1>3, <1>4, <2>1, Finishing
<1>6. alt'[p] = alt[p] /\ alt[p] = NoAlternation
      /\ p \notin InAlternation /\ p \notin WithValue
  BY <1>1, <1>2, NoArms DEF Progress, AltOk
<1>7. ParkedOk(p)' /\ AltOk(p)'
  BY <1>1, <1>3, <1>6 DEF ParkedOk, AltOk, NoAlternation
<1>8. InAlternation' = InAlternation /\ WithValue' = WithValue
  <2>1. p \notin InAlternation' /\ p \notin WithValue'
    BY <1>2, <1>6 DEF InAlternation, WithValue
  <2> QED
    BY <1>1, <1>2, <1>6, <2>1
<1>9. SetsBefore'
  BY <1>1, <1>2, <1>8 DEF SetsAfter, SetsBefore, Wakes
<1>10. ~SenderAt(c)' /\ ~ReceiverAt(c)' /\ ~ArmAt(c)'
  <2>1. alt'[rx[c]] = alt[rx[c]]
    BY <1>2, <1>4, Bystander
  <2>2. parked'[p] = NoRequest
    BY <1>1, <1>3 DEF Runs
  <2> QED
    BY <1>1, <1>2, <1>5, <2>1, <2>2
    DEF SenderAt, ReceiverAt, ArmAt, NoRequest
<1>11. got' = [got EXCEPT ![c] = Append(@, sent[c])]
  BY Values
<1>16. /\ c \notin late /\ c \notin cleared
       /\ c \notin late' /\ c \notin cleared' /\ LateOk(c)'
  BY <1>1, <1>2, LateSender, LateStep DEF LateOk
<1>12. sent[c] = Len(got'[c])
  <2>1. sent[c] = Len(got[c]) + 1
    BY <1>1, <1>2 DEF IInv, ChannelsOk, Sending, Busy, Finished, Finish
  <2>2. got[c] \in Seq(Nat) /\ sent[c] \in Nat /\ got'[c] = Append(got[c], sent[c])
    BY <1>11 DEF IInv, TypeOK, ClientTyped
  <2> QED
    BY <2>1, <2>2
<1>13. AtRest(c)'
  BY <1>1, <1>3, <1>10, <1>16 DEF AtRest, Word, Offered
<1> QED
  BY <1>2, <1>6, <1>7, <1>9, <1>10, <1>12, <1>13, <1>16, FinishedFrame
  DEF NoAlternation

\* Nobody waits, or an alternation does and is woken: the sender stops.
LEMMA FinishedSendStops ==
  ASSUME IInv, Finished, NEW c \in MemoryAddresses, NEW p \in MemoryAddresses,
         c = request.channel, p = request.pid, request.op = "SEND_MESSAGE",
         ~ReceiverAt(c), ~Lost(c), ~astray'
  PROVE  IInv'
<1>1. /\ Asked(c, p) /\ Done(c, p) /\ SetsAfter(c, p) /\ Runs(p)
      /\ p \in Processes /\ AltOk(p)
      /\ alt'[p] = Progress(request.op, alt[p])
      /\ answer.deschedules => parked'[p] = request
      /\ UNCHANGED <<tx, rx, sent, channelRam>> /\ got' = Taken
      /\ live' = live
      /\ UNCHANGED <<alternationSet, alternationReadySet>>
      /\ InAlternation \subseteq Processes /\ InAlternation' \subseteq Processes
      /\ WithValue \subseteq Processes /\ WithValue' \subseteq Processes
      /\ \A q \in Processes \ {p} :
           (Busy(c) /\ ArmAt(c) => rx[c] # q) =>
              /\ q \in InAlternation' <=> q \in InAlternation
              /\ q \in WithValue' <=> q \in WithValue
  BY Asker
<1>2. /\ c \in live /\ p = tx[c] /\ ~SenderAt(c)
      /\ Word(c) = IF ArmAt(c) THEN rx[c] ELSE 0
      /\ Word(c) = 0 <=> ~ArmAt(c)
      /\ SendDone(c, p) /\ alt[p].step = "none"
      /\ Wakes(c) <=> ArmAt(c)
  BY <1>1, SendFacts DEF Done, Asked
<1>3. /\ answer.schedules <=> ArmAt(c)
      /\ ArmAt(c) => answer.schedulePid = rx[c]
      /\ answer.deschedules
      /\ answer.hasMessage <=> ArmAt(c)
      /\ channelRam[MessageAt(c)] = sent[c] /\ channelRam[c] = p
  BY <1>2 DEF SendDone, Scheduling
<1>4. rx[c] \in Processes /\ rx[c] # p
  BY <1>2, WordTypes
<1>5. Finish /\ parked'[p] = request
  BY <1>1, <1>3 DEF Finished
<1>17. ArmAt(c) => ~Runs(rx[c])
  <2>1. Told(c, p)
    BY <1>5, Finishing
  <2> QED
    BY <1>3, <2>1 DEF Told
<1>18. /\ c \notin late /\ c \notin cleared
       /\ c \notin late' /\ c \notin cleared' /\ LateOk(c)'
  BY <1>1, <1>2, LateSender, LateStep DEF LateOk
<1>6. alt'[p] = alt[p] /\ alt[p] = NoAlternation
      /\ p \notin InAlternation /\ p \notin WithValue
  BY <1>1, <1>2, NoArms DEF Progress, AltOk
<1>7. ParkedOk(p)' /\ AltOk(p)'
  BY <1>1, <1>2, <1>5, <1>6 DEF ParkedOk, AltOk, NoAlternation
<1>8. p \notin InAlternation' /\ p \notin WithValue'
  BY <1>2, <1>6 DEF InAlternation, WithValue
<1>9. SenderAt(c)' /\ ~ReceiverAt(c)'
  <2>1. SenderAt(c)'
    BY <1>1, <1>2, <1>5, <1>18 DEF SenderAt
  <2>2. parked'[rx[c]] = parked[rx[c]] \/ parked'[rx[c]] = NoRequest
    BY <1>3, <1>4, <1>5, Finishing
  <2>3. ~ReceiverAt(c)'
    BY <1>1, <2>2 DEF ReceiverAt, NoRequest
  <2> QED
    BY <2>1, <2>3
<1>10. AtRest(c)'
  BY <1>1, <1>2, <1>3, <1>9, <1>18 DEF AtRest, Word, Offered
<1>11. alt'[rx[c]] = alt[rx[c]]
  <2>1. alt' = [alt EXCEPT ![p] = Progress(request.op, @)]
    BY <1>5, Finishing
  <2> QED
    BY <1>4, <2>1 DEF IInv, TypeOK, ClientTyped
<1>12. ArmAt(c) => /\ ParkedOk(rx[c])' /\ AltOk(rx[c])'
                   /\ HasValue(rx[c])' /\ alt[rx[c]].step = "disable"
                   /\ rx[c] \in InAlternation /\ rx[c] \in InAlternation'
                   /\ rx[c] \in WithValue'
  <2> SUFFICES ASSUME ArmAt(c)
               PROVE  /\ ParkedOk(rx[c])' /\ AltOk(rx[c])'
                      /\ HasValue(rx[c])' /\ alt[rx[c]].step = "disable"
                      /\ rx[c] \in InAlternation /\ rx[c] \in InAlternation'
                      /\ rx[c] \in WithValue'
    OBVIOUS
  <2>1. PICK q \in Processes : q = rx[c] /\ rx'[c] = q
    BY <1>1, <1>4
  <2>2. alt[q].step = "disable" /\ q \in InAlternation /\ c \in alt[q].arms
    BY <1>2, <1>17, <2>1, Alternative DEF ArmAt
  <2>3. parked'[q] = NoRequest
    BY <1>3, <1>5, <2>1, Finishing
  <2>4. Runs(q)' /\ alt'[q] = alt[q]
    BY <1>11, <2>1, <2>3 DEF Runs
  <2>5. HasValue(q)'
    BY <1>9, <2>2, <2>4 DEF HasValue
  <2>6. AltOk(q)
    BY DEF IInv
  <2>7. ParkedOk(q)' /\ AltOk(q)'
    BY <1>1, <2>2, <2>4, <2>5, <2>6 DEF ParkedOk, AltOk
  <2>8. q \in InAlternation' /\ q \in WithValue'
    BY <2>2, <2>4, <2>5 DEF InAlternation, WithValue
  <2> QED
    BY <2>1, <2>2, <2>5, <2>7, <2>8
<1>13. InAlternation' = InAlternation
       /\ WithValue' = IF ArmAt(c) THEN WithValue \cup {rx[c]} ELSE WithValue
  <2>1. CASE ArmAt(c)
    BY <1>1, <1>4, <1>6, <1>8, <1>12, <2>1
  <2>2. CASE ~ArmAt(c)
    BY <1>1, <1>6, <1>8, <2>2
  <2> QED
    BY <2>1, <2>2
<1>14. SetsBefore'
  BY <1>1, <1>2, <1>13 DEF SetsAfter, SetsBefore
<1>15. got' = got
  BY Values
<1>16. sent[c] = Len(got'[c]) + 1
  BY <1>2, <1>5, <1>15 DEF IInv, ChannelsOk, Sending, Busy, Finish
<1> QED
  BY <1>6, <1>7, <1>9, <1>10, <1>12, <1>14, <1>16, <1>18, FinishedFrame
  DEF NoAlternation

\* The alternation has been woken: the sender stops, and is forgotten.
LEMMA FinishedSendLost ==
  ASSUME IInv, Finished, NEW c \in MemoryAddresses, NEW p \in MemoryAddresses,
         c = request.channel, p = request.pid, request.op = "SEND_MESSAGE",
         Lost(c), ~astray'
  PROVE  IInv'
<1>1. /\ Asked(c, p) /\ Done(c, p) /\ SetsAfter(c, p) /\ Runs(p)
      /\ p \in Processes /\ AltOk(p)
      /\ alt'[p] = Progress(request.op, alt[p])
      /\ answer.deschedules => parked'[p] = request
      /\ UNCHANGED <<tx, rx, sent, channelRam>>
      /\ live' = live
      /\ UNCHANGED <<alternationSet, alternationReadySet>>
      /\ InAlternation \subseteq Processes /\ InAlternation' \subseteq Processes
      /\ WithValue \subseteq Processes /\ WithValue' \subseteq Processes
      /\ \A q \in Processes \ {p} :
           (Busy(c) /\ ArmAt(c) => rx[c] # q) =>
              /\ q \in InAlternation' <=> q \in InAlternation
              /\ q \in WithValue' <=> q \in WithValue
  BY Asker
<1>2. /\ c \in live /\ p = tx[c] /\ ~SenderAt(c) /\ ArmAt(c) /\ ~Wakes(c)
      /\ SendDone(c, p) /\ alt[p].step = "none" /\ ~ReceiverAt(c)
  BY <1>1, SendFacts DEF Done, Asked
<1>3. /\ ~answer.schedules /\ answer.deschedules
      /\ channelRam[MessageAt(c)] = sent[c] /\ channelRam[c] = 0
  BY <1>2 DEF SendDone, Scheduling
<1>4. rx[c] \in Processes /\ rx[c] # p
  BY <1>2, WordTypes
<1>5. Finish /\ parked'[p] = request /\ parked'[rx[c]] = parked[rx[c]]
  <2>1. Finish
    BY DEF Finished
  <2> QED
    BY <1>1, <1>3, <1>4, <2>1, Finishing
<1>6. alt'[p] = alt[p] /\ alt[p] = NoAlternation
      /\ p \notin InAlternation /\ p \notin WithValue
  BY <1>1, <1>2, NoArms DEF Progress, AltOk
<1>7. ParkedOk(p)' /\ AltOk(p)'
  BY <1>1, <1>2, <1>5, <1>6 DEF ParkedOk, AltOk, NoAlternation
<1>8. p \notin InAlternation' /\ p \notin WithValue'
  BY <1>2, <1>6 DEF InAlternation, WithValue
<1>9. c \in late' /\ c \in cleared'
  BY LateStep
<1>10. /\ SendsAt(c)' /\ ~SenderAt(c)' /\ ~ReceiverAt(c)'
  BY <1>1, <1>2, <1>5, <1>9 DEF SendsAt, SenderAt, ReceiverAt
<1>11. PICK q \in Processes : /\ q = rx[c] /\ rx'[c] = q /\ alt'[q] = alt[q]
                              /\ HasValue(q) /\ AltOk(q) /\ ParkedOk(q)
  <2>1. alt' = [alt EXCEPT ![p] = Progress(request.op, @)]
    BY <1>5, Finishing
  <2>2. alt'[rx[c]] = alt[rx[c]]
    BY <1>4, <2>1 DEF IInv, TypeOK, ClientTyped
  <2> QED
    BY <1>1, <1>4, <2>2 DEF Lost, IInv
<1>12. \A ch \in alt[q].arms \ {c} : SenderAt(ch)' <=> SenderAt(ch)
  <2> SUFFICES ASSUME NEW ch \in alt[q].arms \ {c}
               PROVE  SenderAt(ch)' <=> SenderAt(ch)
    OBVIOUS
  <2>1. ch \in live /\ ~Busy(ch)
    BY <1>11 DEF AltOk, Busy
  <2> QED
    BY <2>1, OtherChannels
<1>13. HasValue(q)'
  BY <1>2, <1>11, <1>12 DEF HasValue
<1>14. ParkedOk(q)' /\ AltOk(q)'
  <2>1. parked'[q] = parked[q] /\ (Runs(q)' <=> Runs(q))
    BY <1>5, <1>11 DEF Runs
  <2> QED
    BY <1>1, <1>11, <1>13, <2>1 DEF ParkedOk, AltOk
<1>15. InAlternation' = InAlternation /\ WithValue' = WithValue
  <2>1. /\ q \in InAlternation' <=> q \in InAlternation
        /\ q \in WithValue' <=> q \in WithValue
    BY <1>11, <1>13 DEF InAlternation, WithValue
  <2> QED
    BY <1>1, <1>6, <1>8, <1>11, <2>1
<1>16. SetsBefore'
  BY <1>1, <1>2, <1>15 DEF SetsAfter, SetsBefore
<1>17. ArmAt(c)' /\ LateOk(c)'
  BY <1>2, <1>9, <1>10, <1>11, <1>13 DEF ArmAt, LateOk
<1>18. AtRest(c)'
  BY <1>1, <1>3, <1>9, <1>10 DEF AtRest, Word
<1>19. sent[c] = Len(got'[c]) + 1
  <2>1. got' = got
    BY <1>2, Values
  <2> QED
    BY <1>2, <1>5, <2>1 DEF IInv, ChannelsOk, Sending, Busy, Finish
<1>20. ParkedOk(rx[c])' /\ AltOk(rx[c])' /\ HasValue(rx[c])'
  BY <1>11, <1>13, <1>14
<1> QED
  BY <1>6, <1>7, <1>9, <1>10, <1>16, <1>17, <1>18, <1>19, <1>20, FinishedFrame
  DEF NoAlternation

\* A sender waits, and its value is taken; or the receiver stops.
LEMMA FinishedReceive ==
  ASSUME IInv, Finished, NEW c \in MemoryAddresses, NEW p \in MemoryAddresses,
         c = request.channel, p = request.pid, request.op = "RECEIVE_MESSAGE",
         ~astray'
  PROVE  IInv'
<1>1. /\ Asked(c, p) /\ Done(c, p) /\ SetsAfter(c, p) /\ Runs(p)
      /\ p \in Processes /\ AltOk(p)
      /\ alt'[p] = Progress(request.op, alt[p])
      /\ answer.deschedules => parked'[p] = request
      /\ ~answer.deschedules => Runs(p)'
      /\ UNCHANGED <<tx, rx, sent, channelRam>> /\ got' = Taken
      /\ live' = live
      /\ UNCHANGED <<alternationSet, alternationReadySet>>
      /\ InAlternation \subseteq Processes /\ InAlternation' \subseteq Processes
      /\ WithValue \subseteq Processes /\ WithValue' \subseteq Processes
      /\ \A q \in Processes \ {p} :
           (Busy(c) /\ ArmAt(c) => rx[c] # q) =>
              /\ q \in InAlternation' <=> q \in InAlternation
              /\ q \in WithValue' <=> q \in WithValue
  BY Asker
<1>2. /\ c \in live /\ p = rx[c] /\ ~ReceiverAt(c) /\ ~ArmAt(c)
      /\ ReceiveDone(c, p) /\ alt[p].step = "none"
  BY <1>1, ReceiveFacts DEF Done, Asked
<1>3. /\ answer.schedules <=> SenderAt(c)
      /\ SenderAt(c) => answer.schedulePid = tx[c] /\ answer.message = sent[c]
      /\ answer.deschedules <=> ~SenderAt(c)
      /\ answer.hasMessage <=> SenderAt(c)
      /\ channelRam[c] = IF SenderAt(c) THEN 0 ELSE p
  BY <1>2 DEF ReceiveDone, Scheduling
<1>4. tx[c] \in Processes /\ tx[c] # p
  BY <1>2, WordTypes
<1>5. Finish
  BY DEF Finished
<1>6. alt'[p] = alt[p] /\ alt[p] = NoAlternation
      /\ p \notin InAlternation /\ p \notin WithValue
  BY <1>1, <1>2, NoArms DEF Progress, AltOk
<1>7. ParkedOk(p)' /\ AltOk(p)'
  BY <1>1, <1>2, <1>6 DEF ParkedOk, AltOk, NoAlternation, Runs
<1>8. p \notin InAlternation' /\ p \notin WithValue'
  BY <1>2, <1>6 DEF InAlternation, WithValue
<1>9. InAlternation' = InAlternation /\ WithValue' = WithValue
  BY <1>1, <1>2, <1>6, <1>8
<1>10. SetsBefore'
  BY <1>1, <1>9 DEF SetsAfter, SetsBefore
<1>11. ~ArmAt(c)'
  BY <1>1, <1>2, <1>6 DEF ArmAt, NoAlternation
<1>12. got' = IF SenderAt(c) THEN [got EXCEPT ![c] = Append(@, sent[c])] ELSE got
  BY Values
<1>16. /\ c \notin cleared /\ late' = late /\ cleared' = cleared
       /\ SenderAt(c) => c \notin late
       /\ LateOk(c) /\ (SenderAt(c) <=> SendsAt(c) /\ c \notin late)
  BY <1>2, LateSender, LateStep DEF SenderAt, SendsAt, IInv, ChannelsOk
<1>13. /\ got[c] \in Seq(Nat) /\ sent[c] \in Nat /\ got \in [MemoryAddresses -> Seq(Nat)]
       /\ sent[c] = IF SenderAt(c) \/ c \in late THEN Len(got[c]) + 1
                                                  ELSE Len(got[c])
  BY <1>2 DEF IInv, ChannelsOk, TypeOK, ClientTyped, Sending
<1>14. CASE SenderAt(c)
  <2>1. parked'[tx[c]] = NoRequest
    BY <1>3, <1>4, <1>5, <1>14, Finishing
  <2>2. ~SenderAt(c)' /\ ~ReceiverAt(c)'
    BY <1>1, <1>2, <1>3, <1>14, <2>1 DEF SenderAt, ReceiverAt, Runs, NoRequest
  <2>3. AtRest(c)'
    BY <1>1, <1>3, <1>11, <1>14, <1>16, <2>2 DEF AtRest, Word, Offered
  <2>4. got'[c] = Append(got[c], sent[c])
    BY <1>12, <1>13, <1>14
  <2>5. sent[c] = Len(got'[c])
    BY <1>13, <1>14, <2>4
  <2>6. LateOk(c)' /\ c \notin late'
    BY <1>14, <1>16 DEF LateOk
  <2> QED
    BY <1>2, <1>6, <1>7, <1>10, <2>2, <2>3, <2>5, <2>6, FinishedFrame
    DEF NoAlternation
<1>15. CASE ~SenderAt(c)
  <2>1. parked'[tx[c]] = parked[tx[c]] /\ parked'[p] = request
    BY <1>1, <1>3, <1>4, <1>5, <1>15, Finishing
  <2>2. ~SenderAt(c)' /\ ReceiverAt(c)'
    BY <1>1, <1>2, <1>15, <1>16, <2>1 DEF SenderAt, ReceiverAt
  <2>3. AtRest(c)'
    BY <1>1, <1>2, <1>3, <1>15, <1>16, <2>2 DEF AtRest, Word, Offered
  <2>4. LateOk(c)'
    BY <1>1, <1>16, <2>1 DEF LateOk, SendsAt
  <2> QED
    BY <1>2, <1>6, <1>7, <1>10, <1>12, <1>13, <1>15, <1>16, <2>2, <2>3, <2>4,
       FinishedFrame
    DEF NoAlternation
<1> QED
  BY <1>14, <1>15

LEMMA FinishedEnable ==
  ASSUME IInv, Finished, NEW c \in MemoryAddresses, NEW p \in MemoryAddresses,
         c = request.channel, p = request.pid, request.op = "ENABLE_CHANNEL",
         ~astray'
  PROVE  IInv'
<1>1. /\ Asked(c, p) /\ Done(c, p) /\ SetsAfter(c, p) /\ Runs(p)
      /\ p \in Processes /\ AltOk(p) /\ alt[p] \in Alternations
      /\ alt'[p] = Progress(request.op, alt[p])
      /\ ~answer.deschedules => Runs(p)'
      /\ UNCHANGED <<tx, rx, sent, channelRam>> /\ got' = Taken
      /\ live' = live
      /\ UNCHANGED <<alternationSet, alternationReadySet>>
      /\ InAlternation \subseteq Processes /\ InAlternation' \subseteq Processes
      /\ WithValue \subseteq Processes /\ WithValue' \subseteq Processes
      /\ \A q \in Processes \ {p} :
           (Busy(c) /\ ArmAt(c) => rx[c] # q) =>
              /\ q \in InAlternation' <=> q \in InAlternation
              /\ q \in WithValue' <=> q \in WithValue
  BY Asker
<1>2. /\ c \in live /\ p = rx[c] /\ ~ReceiverAt(c) /\ ~ArmAt(c)
      /\ EnableDone(c, p) /\ alt[p].step = "enable"
  BY <1>1, EnableFacts DEF Done
<1>3. answer = Nothing /\ ~answer.schedules /\ ~answer.deschedules
      /\ ~answer.hasMessage
      /\ IF SenderAt(c) THEN AtRest(c) ELSE channelRam[c] = p
  BY <1>2 DEF EnableDone, Nothing
<1>4. Finish /\ got' = got
  BY Values DEF Finished
<1>14. c \notin cleared /\ late' = late /\ cleared' = cleared
  BY <1>2, LateSender, LateStep
<1>5. parked' = parked
  <2>1. /\ parked \in [Processes -> Requests]
        /\ parked' = [q \in Processes |-> parked[q]]
    BY <1>3, <1>4, Finishing DEF IInv, TypeOK, ClientTyped
  <2> QED
    BY <2>1
<1>6. /\ alt'[p].step = "enable" /\ alt'[p].taken = alt[p].taken
      /\ alt'[p].arms = alt[p].arms \cup {c}
  BY <1>1, <1>2 DEF Progress, Alternations
<1>7. /\ SenderAt(c)' <=> SenderAt(c)
      /\ ReceiverAt(c)' <=> ReceiverAt(c)
      /\ ArmAt(c)'
      /\ \A ch \in alt[p].arms : SenderAt(ch)' <=> SenderAt(ch)
  BY <1>1, <1>2, <1>5, <1>6, <1>14 DEF SenderAt, ReceiverAt, ArmAt
<1>8. HasValue(p)' <=> HasValue(p) \/ SenderAt(c)
  BY <1>6, <1>7 DEF HasValue
<1>9. ParkedOk(p)' /\ AltOk(p)'
  <2>1. /\ alt[p].taken = 0 /\ \A ch \in alt[p].arms : ch \in live /\ rx[ch] = p
    BY <1>1, <1>2 DEF AltOk
  <2> QED
    BY <1>1, <1>2, <1>3, <1>6, <2>1 DEF ParkedOk, AltOk
<1>10. /\ InAlternation' = InAlternation
       /\ WithValue' = IF SenderAt(c) THEN WithValue \cup {p} ELSE WithValue
  <2>1. /\ p \in InAlternation /\ p \in InAlternation'
        /\ p \in WithValue <=> HasValue(p)
        /\ p \in WithValue' <=> HasValue(p)'
    BY <1>1, <1>2, <1>6 DEF InAlternation, WithValue
  <2> QED
    BY <1>1, <1>2, <1>8, <2>1
<1>11. SetsBefore'
  BY <1>1, <1>10 DEF SetsAfter, SetsBefore
<1>12. AtRest(c)'
  BY <1>1, <1>2, <1>3, <1>7, <1>14 DEF AtRest, Word, Offered
<1>13. sent[c] = IF SenderAt(c)' \/ c \in late' THEN Len(got'[c]) + 1
                                                 ELSE Len(got'[c])
  BY <1>2, <1>4, <1>7, <1>14 DEF IInv, ChannelsOk, Sending
<1>15. LateOk(c)'
  <2>1. LateOk(c)
    BY <1>2 DEF IInv, ChannelsOk
  <2> QED
    BY <1>1, <1>5, <1>14, <2>1 DEF LateOk, SendsAt
<1> QED
  BY <1>2, <1>4, <1>7, <1>8, <1>9, <1>11, <1>12, <1>13, <1>15, FinishedFrame

\* The value is taken, or a sender is left where it is, or the mark is cleared.
LEMMA FinishedDisable ==
  ASSUME IInv, Finished, NEW c \in MemoryAddresses, NEW p \in MemoryAddresses,
         c = request.channel, p = request.pid, request.op = "DISABLE_CHANNEL",
         ~astray'
  PROVE  IInv'
<1>1. /\ Asked(c, p) /\ Done(c, p) /\ SetsAfter(c, p) /\ Runs(p)
      /\ p \in Processes /\ AltOk(p) /\ alt[p] \in Alternations
      /\ alt'[p] = Progress(request.op, alt[p])
      /\ ~answer.deschedules => Runs(p)'
      /\ UNCHANGED <<tx, rx, sent, channelRam>> /\ got' = Taken
      /\ live' = live
      /\ UNCHANGED <<alternationSet, alternationReadySet>>
      /\ InAlternation \subseteq Processes /\ InAlternation' \subseteq Processes
      /\ WithValue \subseteq Processes /\ WithValue' \subseteq Processes
      /\ \A q \in Processes \ {p} :
           (Busy(c) /\ ArmAt(c) => rx[c] # q) =>
              /\ q \in InAlternation' <=> q \in InAlternation
              /\ q \in WithValue' <=> q \in WithValue
  BY Asker
<1>2. /\ c \in live /\ p = rx[c] /\ ~ReceiverAt(c) /\ ArmAt(c) /\ HasValue(p)
      /\ DisableDone(c, p) /\ alt[p].step = "disable"
      /\ request.hadMessage <=> alt[p].taken > 0
      /\ Word(c) = IF SenderAt(c) THEN tx[c]
                   ELSE IF c \in cleared THEN 0 ELSE p
  BY <1>1, DisableFacts DEF Done
<1>17. answer.schedules <=> Takes(c)
  BY <1>2 DEF DisableDone, Scheduling
<1>18. Takes(c) => SenderAt(c)
  <2> SUFFICES ASSUME Takes(c), ~SenderAt(c) PROVE FALSE
    OBVIOUS
  <2>1. c \in cleared /\ Word(c) = 0
    BY <1>2 DEF Takes, Offered
  <2>2. Told(c, p)
    BY Finishing DEF Finished
  <2>3. answer.schedulePid = 0
    BY <1>2, <2>1 DEF DisableDone, Scheduling
  <2> QED
    BY <1>17, <2>2, <2>3, Constants DEF Told
<1>19. /\ late' = late /\ cleared' = cleared \ {c} /\ LateOk(c)
       /\ SenderAt(c) <=> SendsAt(c) /\ c \notin late
       /\ SenderAt(c)' <=> SendsAt(c)' /\ c \notin late'
       /\ c \in cleared => ~SenderAt(c)
  BY <1>2, LateSender, LateStep DEF SenderAt, SendsAt, IInv, ChannelsOk
<1>3. /\ answer.schedules <=> Takes(c)
      /\ Takes(c) => answer.schedulePid = tx[c] /\ answer.message = sent[c]
      /\ ~answer.deschedules
      /\ answer.hasMessage <=> Takes(c)
      /\ IF Leaves(c) THEN AtRest(c) ELSE channelRam[c] = 0
  BY <1>2, <1>18 DEF DisableDone, Scheduling
<1>4. /\ tx[c] \in Processes /\ tx[c] # p /\ Finish
      /\ got \in [MemoryAddresses -> Seq(Nat)] /\ got[c] \in Seq(Nat)
      /\ sent[c] \in Nat
      /\ sent[c] = IF SenderAt(c) \/ c \in late THEN Len(got[c]) + 1
                                                 ELSE Len(got[c])
  BY <1>2, WordTypes
  DEF Finished, IInv, ChannelsOk, TypeOK, ClientTyped, Sending
<1>5. got' = IF Takes(c) THEN [got EXCEPT ![c] = Append(@, sent[c])] ELSE got
  BY Values
<1>6. /\ alt'[p].step = "disable" /\ alt'[p].arms = alt[p].arms \ {c}
      /\ alt'[p].taken = IF Takes(c) THEN alt[p].taken + 1 ELSE alt[p].taken
      /\ alt[p].taken \in Nat
  <2>1. PICK n : n = IF answer.hasMessage THEN alt[p].taken + 1 ELSE alt[p].taken
    OBVIOUS
  <2>2. alt'[p] = [alt[p] EXCEPT !.arms = @ \ {c}, !.taken = n]
    BY <1>1, <1>2, <2>1 DEF Progress
  <2> QED
    BY <1>1, <1>2, <1>3, <2>1, <2>2 DEF Alternations
<1>7. ~ArmAt(c)' /\ ~ReceiverAt(c)' /\ Runs(p)'
  <2>1. Runs(p)' /\ ~ArmAt(c)'
    BY <1>1, <1>2, <1>3, <1>6 DEF ArmAt
  <2> QED
    BY <1>1, <1>2, <2>1 DEF ReceiverAt, Runs, NoRequest
<1>8. /\ SenderAt(c)' <=> SenderAt(c) /\ ~Takes(c)
      /\ c \in late => SendsAt(c)'
  <2>1. CASE Takes(c)
    <3>1. parked'[tx[c]] = NoRequest
      BY <1>3, <1>4, <2>1, Finishing
    <3>2. ~SenderAt(c)'
      BY <1>1, <3>1 DEF SenderAt, NoRequest
    <3> QED
      BY <1>18, <1>19, <2>1, <3>2
  <2>2. CASE ~Takes(c)
    <3>1. parked'[tx[c]] = parked[tx[c]]
      BY <1>3, <1>4, <2>2, Finishing
    <3>2. SendsAt(c)' <=> SendsAt(c)
      BY <1>1, <3>1 DEF SendsAt
    <3> QED
      BY <1>19, <2>2, <3>2 DEF LateOk
  <2> QED
    BY <2>1, <2>2
<1>9. \A ch \in alt[p].arms \ {c} : SenderAt(ch)' <=> SenderAt(ch)
  <2> SUFFICES ASSUME NEW ch \in alt[p].arms \ {c}
               PROVE  SenderAt(ch)' <=> SenderAt(ch)
    OBVIOUS
  <2>1. ch \in live
    BY <1>1 DEF AltOk
  <2>2. ~Busy(ch)
    BY DEF Busy
  <2> QED
    BY <2>1, <2>2, OtherChannels
<1>10. HasValue(p)' /\ alt'[p].taken <= 1
  <2>1. CASE Takes(c)
    <3>1. alt[p].taken = 0
      BY <1>2, <1>6, <2>1 DEF Takes
    <3> QED
      BY <1>6, <2>1, <3>1 DEF HasValue
  <2>2. CASE ~Takes(c)
    <3>1. alt'[p].taken = alt[p].taken /\ alt[p].taken <= 1
      BY <1>1, <1>6, <2>2 DEF AltOk
    <3>2. CASE alt[p].taken > 0
      BY <3>1, <3>2 DEF HasValue
    <3>3. CASE ~(alt[p].taken > 0)
      <4>1. ~SenderAt(c)
        BY <1>2, <2>2, <3>3 DEF Takes, Offered
      <4>2. PICK ch \in alt[p].arms \ {c} : SenderAt(ch)
        BY <1>2, <3>3, <4>1 DEF HasValue
      <4> QED
        BY <1>6, <1>9, <3>1, <4>2 DEF HasValue
    <3> QED
      BY <3>2, <3>3
  <2> QED
    BY <2>1, <2>2
<1>11. ParkedOk(p)' /\ AltOk(p)'
  <2>1. \A ch \in alt'[p].arms : ch \in live' /\ rx'[ch] = p
    BY <1>1, <1>6 DEF AltOk
  <2> QED
    BY <1>6, <1>7, <1>10, <2>1 DEF ParkedOk, AltOk
<1>12. /\ InAlternation' = InAlternation /\ WithValue' = WithValue
  <2>1. /\ p \in InAlternation /\ p \in InAlternation'
        /\ p \in WithValue /\ p \in WithValue'
    BY <1>1, <1>2, <1>6, <1>10 DEF InAlternation, WithValue
  <2> QED
    BY <1>1, <1>2, <2>1
<1>13. SetsBefore'
  BY <1>1, <1>12 DEF SetsAfter, SetsBefore
<1>14. AtRest(c)'
  <2>1. /\ ~Offered(c)' \/ SenderAt(c)'
        /\ Word(c)' = IF SenderAt(c)' THEN tx[c] ELSE 0
    BY <1>1, <1>7, <1>19 DEF Offered, Word
  <2>2. CASE SenderAt(c)'
    <3>1. SenderAt(c) /\ Leaves(c)
      BY <1>8, <2>2 DEF Takes, Leaves, Offered
    <3>2. channelRam[c] = tx[c] /\ channelRam[MessageAt(c)] = sent[c]
      BY <1>2, <1>3, <3>1 DEF AtRest, Leaves
    <3> QED
      BY <1>1, <2>1, <2>2, <3>2 DEF AtRest
  <2>3. CASE ~SenderAt(c)'
    <3>1. Leaves(c) => ~SenderAt(c) /\ c \in cleared
      BY <1>8, <2>3 DEF Takes, Leaves, Offered
    <3>2. channelRam[c] = 0
      BY <1>2, <1>3, <3>1 DEF AtRest
    <3> QED
      BY <1>1, <2>1, <2>3, <3>2 DEF AtRest
  <2> QED
    BY <2>2, <2>3
<1>15. sent[c] = IF SenderAt(c)' \/ c \in late' THEN Len(got'[c]) + 1
                                                 ELSE Len(got'[c])
  <2>1. CASE Takes(c)
    <3>1. got'[c] = Append(got[c], sent[c]) /\ sent[c] = Len(got[c]) + 1
      BY <1>4, <1>5, <1>18, <2>1
    <3>2. c \notin late' /\ ~SenderAt(c)'
      BY <1>8, <1>18, <1>19, <2>1
    <3> QED
      BY <1>4, <3>1, <3>2
  <2>2. CASE ~Takes(c)
    BY <1>4, <1>5, <1>8, <1>19, <2>2
  <2> QED
    BY <2>1, <2>2
<1>20. LateOk(c)'
  BY <1>8, <1>19 DEF LateOk
<1>16. ParkedOk(rx[c])' /\ AltOk(rx[c])' /\ HasValue(rx[c])'
  <2>1. rx'[c] = p
    BY <1>1, <1>2
  <2> QED
    BY <1>10, <1>11, <2>1
<1> QED
  BY <1>7, <1>10, <1>11, <1>13, <1>14, <1>15, <1>16, <1>20, FinishedFrame

LEMMA FinishedAlternation ==
  ASSUME IInv, Finished, NEW c \in MemoryAddresses, NEW p \in MemoryAddresses,
         c = request.channel, p = request.pid,
         request.op \in {"ALT_START", "ALT_WAIT", "ALT_END"}, ~astray'
  PROVE  IInv'
<1>1. /\ Asked(c, p) /\ Done(c, p) /\ SetsAfter(c, p) /\ Runs(p)
      /\ p \in Processes /\ AltOk(p) /\ alt[p] \in Alternations
      /\ alt'[p] = Progress(request.op, alt[p])
      /\ answer.deschedules => parked'[p] = request
      /\ ~answer.deschedules => Runs(p)'
      /\ UNCHANGED <<tx, rx, sent, channelRam>> /\ got' = Taken
      /\ live' = live
      /\ UNCHANGED <<alternationSet, alternationReadySet>>
      /\ InAlternation \subseteq Processes /\ InAlternation' \subseteq Processes
      /\ WithValue \subseteq Processes /\ WithValue' \subseteq Processes
      /\ \A q \in Processes \ {p} :
           (Busy(c) /\ ArmAt(c) => rx[c] # q) =>
              /\ q \in InAlternation' <=> q \in InAlternation
              /\ q \in WithValue' <=> q \in WithValue
  BY Asker
<1>2. ~Busy(c) /\ Finish
  BY DEF Busy, Finished
<1>4. /\ \A ch \in live : SenderAt(ch)' <=> SenderAt(ch)
      /\ \A ch \in alt[p].arms : ch \in live /\ rx[ch] = p
      /\ alt[p].taken <= 1
  <2>1. \A ch \in live : ~Busy(ch)
    BY DEF Busy
  <2> QED
    BY <1>1, <2>1, OtherChannels DEF AltOk
<1>5. CASE request.op = "ALT_START"
  <2>1. alt[p] = NoAlternation /\ answer = Nothing
    BY <1>1, <1>5 DEF Asked, AltOk, Done
  <2>2. /\ alt'[p].step = "enable" /\ alt'[p].arms = {} /\ alt'[p].taken = 0
        /\ Runs(p)'
    BY <1>1, <1>5, <2>1 DEF Progress, NoAlternation, Nothing
  <2>3. ParkedOk(p)' /\ AltOk(p)' /\ ~HasValue(p)'
    BY <2>2 DEF ParkedOk, AltOk, HasValue
  <2>4. /\ p \notin WithValue /\ p \notin WithValue' /\ p \in InAlternation'
    BY <1>1, <2>1, <2>2, <2>3 DEF InAlternation, WithValue, NoAlternation
  <2>5. InAlternation' = InAlternation \cup {p} /\ WithValue' = WithValue
    BY <1>1, <1>2, <2>4
  <2>6. SetsBefore'
    BY <1>1, <1>5, <2>5 DEF SetsAfter, SetsBefore
  <2> QED
    BY <1>2, <2>2, <2>3, <2>6, FinishedFrame
<1>6. CASE request.op = "ALT_WAIT"
  <2>1. /\ alt[p].step = "enable" /\ alt[p].arms # {}
        /\ answer.deschedules <=> ~HasValue(p)
    BY <1>1, <1>6 DEF Asked, Done, AltWaitDone, Scheduling
  <2>2. /\ alt'[p].step = "disable" /\ alt'[p].arms = alt[p].arms
        /\ alt'[p].taken = alt[p].taken
    BY <1>1, <1>6 DEF Progress, Alternations
  <2>3. HasValue(p)' <=> HasValue(p)
    BY <1>4, <2>2 DEF HasValue
  <2>4. Runs(p)' <=> HasValue(p)
    BY <1>1, <1>6, <2>1 DEF Runs, NoRequest
  <2>5. ParkedOk(p)'
    BY <1>1, <1>6, <2>1, <2>2 DEF ParkedOk
  <2>6. AltOk(p)'
    BY <1>1, <1>4, <2>2, <2>3, <2>4 DEF AltOk
  <2>7. /\ p \in InAlternation /\ p \in InAlternation'
        /\ p \in WithValue' <=> p \in WithValue
    BY <1>1, <2>1, <2>2, <2>3 DEF InAlternation, WithValue
  <2>8. InAlternation' = InAlternation /\ WithValue' = WithValue
    BY <1>1, <1>2, <2>7
  <2>9. SetsBefore'
    BY <1>1, <1>6, <2>8 DEF SetsAfter, SetsBefore
  <2> QED
    BY <1>2, <2>3, <2>5, <2>6, <2>9, FinishedFrame
<1>7. CASE request.op = "ALT_END"
  <2>1. answer = Nothing /\ alt'[p] = NoAlternation /\ Runs(p)'
    BY <1>1, <1>7 DEF Done, Progress, Nothing
  <2>2. ParkedOk(p)' /\ AltOk(p)'
    BY <2>1 DEF ParkedOk, AltOk, NoAlternation
  <2>3. p \notin InAlternation' /\ p \notin WithValue'
    BY <2>1 DEF InAlternation, WithValue, NoAlternation
  <2>4. InAlternation' = InAlternation \ {p} /\ WithValue' = WithValue \ {p}
    BY <1>1, <1>2, <2>3
  <2>5. SetsBefore'
    BY <1>1, <1>7, <2>4 DEF SetsAfter, SetsBefore
  <2> QED
    BY <1>2, <2>1, <2>2, <2>5, FinishedFrame DEF NoAlternation
<1> QED
  BY <1>5, <1>6, <1>7

\* A channel is made where there was none.
LEMMA CreatedStep ==
  ASSUME IInv, Created, NEW c \in MemoryAddresses, NEW p \in MemoryAddresses,
         c = request.channel, p = request.pid
  PROVE  /\ IInv'
         /\ channelOut \in MemoryAddresses \ live
         /\ live' = live \cup {channelOut}
         /\ sent' = [sent EXCEPT ![channelOut] = 0]
         /\ got' = [got EXCEPT ![channelOut] = <<>>]
         /\ UNCHANGED <<parked, alt>>
<1>1. Finish /\ answer.hasChannel
  BY DEF Created
<1>2. /\ Asked(c, p) /\ Done(c, p) /\ SetsAfter(c, p)
      /\ handler' = "idle" /\ request' = NoRequest /\ waited' = 0
      /\ ControllerTyped' /\ channelRam' = channelRam /\ heapEnd' = heapEnd
      /\ UNCHANGED <<alternationSet, alternationReadySet>>
      /\ parked' = [q \in Processes |->
                      IF answer.schedules /\ q = answer.schedulePid
                      THEN NoRequest
                      ELSE IF answer.deschedules /\ q = p THEN request
                      ELSE parked[q]]
      /\ alt' = [alt EXCEPT ![p] = Progress(request.op, @)]
  BY <1>1, Finishing
<1>3. request.op = "CREATE_CHANNEL" /\ CreateDone /\ made < MaxChannels
      /\ alt[p].step = "none"
  BY <1>1, <1>2 DEF Done, Asked
<1>4. ~answer.schedules /\ ~answer.deschedules
  BY <1>3 DEF CreateDone, Nothing
<1>5. TypeOK /\ ClientTyped /\ ChannelsOk /\ made \in Nat
  BY DEF IInv, TypeOK, ClientTyped
<1>24. ~astray'
  BY <1>1, <1>4 DEF Finish, GoesAstray
<1>25. late' = late /\ cleared' = cleared
  BY DEF Created
<1>6. parked' = parked /\ alt' = alt
  <2>1. parked' = [q \in Processes |-> parked[q]]
    BY <1>2, <1>4
  <2>2. Progress(request.op, alt[p]) = alt[p]
    BY <1>3 DEF Progress
  <2> QED
    BY <1>2, <1>5, <2>1, <2>2 DEF ClientTyped
<1>7. PICK n : n = 2 * made
  OBVIOUS
<1>8. /\ n \in MemoryAddresses /\ channelOut = n /\ channelRam[n] = 0
      /\ \A ch \in live : ch # n
  <2>1. \A ch \in live : ch # n
    BY <1>5, <1>7 DEF ChannelsOk
  <2> QED
    BY <1>3, <1>5, <1>7, <2>1, Constants DEF CreateDone, MemoryAddresses
<1>9. PICK e \in Ends : /\ tx' = [tx EXCEPT ![n] = e[1]]
                        /\ rx' = [rx EXCEPT ![n] = e[2]]
  BY <1>8 DEF Created
<1>10. /\ live' = live \cup {n} /\ made' = made + 1
       /\ sent' = [sent EXCEPT ![n] = 0] /\ got' = [got EXCEPT ![n] = <<>>]
  BY <1>8 DEF Created
<1>11. /\ e[1] \in Processes /\ e[2] \in Processes /\ e[1] # e[2]
       /\ Processes \subseteq MemoryAddresses
  BY Constants
<1>12. ClientTyped'
  <2>1. NoRequest \in Requests
    BY Constants DEF NoRequest, Requests, Operations
  <2>2. /\ live' \subseteq MemoryAddresses /\ made' \in Nat
        /\ tx' \in [MemoryAddresses -> MemoryAddresses]
        /\ rx' \in [MemoryAddresses -> MemoryAddresses]
        /\ sent' \in [MemoryAddresses -> Nat]
    <3>1. live' \subseteq MemoryAddresses
      BY <1>5, <1>8, <1>10 DEF ClientTyped
    <3>2. made' \in Nat
      BY <1>5, <1>10
    <3>3. e[1] \in MemoryAddresses /\ e[2] \in MemoryAddresses
      BY <1>11
    <3>4. tx' \in [MemoryAddresses -> MemoryAddresses]
      BY <1>5, <1>9, <3>3 DEF ClientTyped
    <3>5. rx' \in [MemoryAddresses -> MemoryAddresses]
      BY <1>5, <1>9, <3>3 DEF ClientTyped
    <3>6. sent' \in [MemoryAddresses -> Nat]
      BY <1>5, <1>10 DEF ClientTyped
    <3> QED
      BY <3>1, <3>2, <3>4, <3>5, <3>6
  <2>3. got' \in [MemoryAddresses -> Seq(Nat)]
    <3>1. <<>> \in Seq(Nat)
      OBVIOUS
    <3> QED
      BY <1>5, <1>8, <1>10, <3>1 DEF ClientTyped
  <2>4. /\ late' \subseteq MemoryAddresses /\ cleared' \subseteq MemoryAddresses
        /\ delivered' \in [MemoryAddresses -> Nat]
    BY <1>5, <1>25 DEF ClientTyped, Created
  <2>5. astray' \in BOOLEAN
    <3>1. GoesAstray \in BOOLEAN
      BY DEF GoesAstray
    <3> QED
      BY <1>1, <3>1 DEF Finish
  <2> QED
    BY <1>2, <1>5, <1>6, <2>1, <2>2, <2>3, <2>4, <2>5 DEF ClientTyped
<1>13. \A ch \in live : tx'[ch] = tx[ch] /\ rx'[ch] = rx[ch] /\ sent'[ch] = sent[ch]
                        /\ got'[ch] = got[ch]
  BY <1>5, <1>8, <1>9, <1>10 DEF ClientTyped
<1>14. \A ch \in live : /\ SenderAt(ch)' <=> SenderAt(ch)
                        /\ SendsAt(ch)' <=> SendsAt(ch)
                        /\ Offered(ch)' <=> Offered(ch)
                        /\ ReceiverAt(ch)' <=> ReceiverAt(ch)
                        /\ ArmAt(ch)' <=> ArmAt(ch)
  BY <1>6, <1>13, <1>25 DEF SenderAt, ReceiverAt, ArmAt, SendsAt, Offered
<1>15. /\ tx'[n] = e[1] /\ rx'[n] = e[2] /\ sent'[n] = 0 /\ got'[n] = <<>>
  BY <1>5, <1>8, <1>9, <1>10 DEF ClientTyped
<1>16. /\ ~SenderAt(n)' /\ ~ReceiverAt(n)' /\ ~ArmAt(n)'
       /\ n \notin late' /\ n \notin cleared'
  <2>1. \A q \in Processes : ParkedOk(q) /\ AltOk(q)
    BY DEF IInv
  <2>2. \A q \in Processes : parked[q].op \in {"SEND_MESSAGE", "RECEIVE_MESSAGE"}
                               => parked[q].channel # n
    BY <1>8, <2>1 DEF ParkedOk, Runs, NoRequest
  <2>3. \A q \in Processes : n \notin alt[q].arms
    BY <1>8, <2>1 DEF AltOk
  <2>4. n \notin late' /\ n \notin cleared'
    BY <1>5, <1>8, <1>25 DEF ChannelsOk
  <2> QED
    BY <1>6, <1>11, <1>15, <2>2, <2>3, <2>4 DEF SenderAt, ReceiverAt, ArmAt
<1>18. /\ \A q : Runs(q)' <=> Runs(q)
       /\ \A q \in Processes : HasValue(q)' <=> HasValue(q)
  <2>1. \A q : Runs(q)' <=> Runs(q)
    BY <1>6 DEF Runs
  <2>2. \A q \in Processes : alt[q].arms \subseteq live
    BY DEF IInv, AltOk
  <2>3. \A q \in Processes : HasValue(q)' <=> HasValue(q)
    BY <1>6, <1>14, <2>2 DEF HasValue
  <2> QED
    BY <2>1, <2>3
<1>17. ASSUME NEW ch \in live'
       PROVE  /\ \E k \in 0 .. made' - 1 : ch = 2 * k
              /\ tx'[ch] \in Processes /\ rx'[ch] \in Processes /\ tx'[ch] # rx'[ch]
              /\ SenderAt(ch)' => ~ReceiverAt(ch)'
              /\ sent'[ch] = IF SenderAt(ch)' \/ ch \in late'
                             THEN Len(got'[ch]) + 1 ELSE Len(got'[ch])
              /\ LateOk(ch)' /\ AtRest(ch)'
  <2>1. CASE ch = n
    <3>1. \E k \in 0 .. made' - 1 : ch = 2 * k
      <4>1. made \in 0 .. made' - 1
        BY <1>5, <1>10
      <4> QED
        BY <1>7, <2>1, <4>1
    <3>2. AtRest(n)' /\ LateOk(n)'
      BY <1>2, <1>8, <1>16 DEF AtRest, Word, Offered, LateOk
    <3>3. Len(got'[n]) = 0
      BY <1>15
    <3> QED
      BY <1>11, <1>15, <1>16, <2>1, <3>1, <3>2, <3>3
  <2>2. CASE ch # n
    <3>1. ch \in live /\ ~Busy(ch) /\ ~Sending(ch)
      BY <1>3, <1>10, <1>17, <2>2 DEF Busy, Sending
    <3>2. /\ \E k \in 0 .. made - 1 : ch = 2 * k
          /\ tx[ch] \in Processes /\ rx[ch] \in Processes /\ tx[ch] # rx[ch]
          /\ SenderAt(ch) => ~ReceiverAt(ch)
          /\ sent[ch] = IF SenderAt(ch) \/ ch \in late
                        THEN Len(got[ch]) + 1 ELSE Len(got[ch])
          /\ LateOk(ch) /\ AtRest(ch)
      BY <1>5, <3>1 DEF ChannelsOk
    <3>3. \E k \in 0 .. made' - 1 : ch = 2 * k
      <4>1. PICK k \in 0 .. made - 1 : ch = 2 * k
        BY <3>2
      <4>2. k \in 0 .. made' - 1
        BY <1>5, <1>10
      <4> QED
        BY <4>1, <4>2
    <3>4. AtRest(ch)'
      BY <1>2, <1>13, <1>14, <1>25, <3>1, <3>2 DEF AtRest, Word
    <3>5. LateOk(ch)'
      <4>1. PICK q \in Processes : q = rx[ch] /\ rx'[ch] = q
        BY <1>13, <3>1, <3>2
      <4>2. HasValue(q)' <=> HasValue(q)
        BY <1>18
      <4> QED
        BY <1>14, <1>25, <3>1, <3>2, <4>1, <4>2 DEF LateOk
    <3> QED
      BY <1>13, <1>14, <1>25, <3>1, <3>2, <3>3, <3>4, <3>5
  <2> QED
    BY <2>1, <2>2
<1>19. \A q \in Processes : ParkedOk(q)' /\ AltOk(q)'
  <2> SUFFICES ASSUME NEW q \in Processes PROVE ParkedOk(q)' /\ AltOk(q)'
    OBVIOUS
  <2>1. ParkedOk(q) /\ AltOk(q)
    BY DEF IInv
  <2>2. ParkedOk(q)'
    BY <1>6, <1>10, <1>13, <1>18, <2>1 DEF ParkedOk
  <2>3. AltOk(q)'
    BY <1>6, <1>10, <1>13, <1>18, <2>1 DEF AltOk
  <2> QED
    BY <2>2, <2>3
<1>20. SetsBefore'
  <2>1. InAlternation' = InAlternation /\ WithValue' = WithValue
    BY <1>6, <1>18 DEF InAlternation, WithValue
  <2> QED
    BY <1>2, <1>3, <2>1 DEF SetsAfter, SetsBefore
<1>21. Bump'
  BY <1>2, <1>3, <1>10 DEF Bump, CreateDone
<1>22. made' <= MaxChannels
  BY <1>3, <1>5, <1>10, Constants
<1>26. late' \subseteq live' /\ cleared' \subseteq late'
  BY <1>5, <1>10, <1>25 DEF ChannelsOk
<1>23. IInv'
  BY <1>1, <1>12, <1>17, <1>19, <1>20, <1>21, <1>22, <1>24, <1>26, FinishFrame
<1> QED
  BY <1>6, <1>8, <1>10, <1>23

-----------------------------------------------------------------------------
(* The invariant.                                                          *)

\* The scheduler was given a process that is not stopped: nothing is asked any
\* more.
Stray ==
    /\ TypeOK /\ astray
    /\ handler = "idle" /\ heapState = "INIT" /\ ccState = "INIT"

Inv == IInv \/ Stray

LEMMA FinishedStep == ASSUME IInv, Finished PROVE Inv'
<1>1. PICK c, p \in MemoryAddresses : c = request.channel /\ p = request.pid
  BY DEF IInv
<1>2. Finish
  BY DEF Finished
<1>3. CASE astray'
  <2>1. /\ UnitsTyped' /\ ControllerTyped' /\ handler' = "idle"
        /\ heapState' = "INIT" /\ ccState' = "INIT"
    BY <1>1, <1>2, Finishing
  <2>2. ClientTyped'
    BY <1>1, FinishedTypes
  <2> QED
    BY <1>3, <2>1, <2>2 DEF Inv, Stray, TypeOK
<1>4. CASE ~astray'
  <2>1. Asked(c, p) /\ Done(c, p) /\ ~answer.hasChannel
    BY <1>1, <1>4, Asker DEF Finished
  <2>2. request.op \in {"DESTROY_CHANNEL", "SEND_MESSAGE", "RECEIVE_MESSAGE",
                        "ENABLE_CHANNEL", "DISABLE_CHANNEL", "ALT_START",
                        "ALT_WAIT", "ALT_END"}
    BY <2>1 DEF Done
  <2>3. CASE request.op = "SEND_MESSAGE"
    BY <1>1, <1>4, <2>3, FinishedSendReceiver, FinishedSendStops,
       FinishedSendLost DEF Inv
  <2> QED
    BY <1>1, <1>4, <2>2, <2>3, FinishedDestroy, FinishedReceive,
       FinishedEnable, FinishedDisable, FinishedAlternation DEF Inv
<1> QED
  BY <1>3, <1>4

\* The memory and the units rest with the controller.
LEMMA StrayStep == ASSUME Stray, [Next]_vars PROVE Stray'
<1>1. ~(\E r : Ask(r)) /\ ~Wait /\ ~Finish
  BY DEF Stray, Ask, Wait, enabled, Finish
<1>2. Elsewhere \/ UNCHANGED vars
  BY <1>1 DEF Next, AskCreate, AskDestroy, AskSend, AskReceive, AskAltStart,
              AskEnable, AskAltWait, AskDisable, AskAltEnd, Created, Finished
<1>3. UNCHANGED clientVars /\ UNCHANGED <<handler, request, waited>>
  BY <1>2 DEF Elsewhere, vars
<1>4. ClientTyped' /\ astray' /\ handler' = "idle"
  BY <1>3 DEF clientVars, histories, Stray, TypeOK, ClientTyped
<1>5. CASE Elsewhere
  <2>1. UnitsTyped' /\ ControllerTyped' /\ heapState' = "INIT" /\ ccState' = "INIT"
    BY <1>5, DisabledParts DEF Stray, Elsewhere
  <2> QED
    BY <1>4, <2>1 DEF Stray, TypeOK
<1>6. CASE UNCHANGED vars
  <2>1. UnitsTyped' /\ ControllerTyped' /\ heapState' = "INIT" /\ ccState' = "INIT"
    BY <1>6 DEF Stray, TypeOK, UnitsTyped, ControllerTyped, vars,
                controllerVars, heapVars, operationVars
  <2> QED
    BY <1>4, <2>1 DEF Stray, TypeOK
<1> QED
  BY <1>2, <1>5, <1>6

LEMMA NextInv == Inv /\ [Next]_vars => Inv'
<1> SUFFICES ASSUME Inv, [Next]_vars PROVE Inv'
  OBVIOUS
<1>9. CASE Stray
  BY <1>9, StrayStep DEF Inv
<1> SUFFICES ASSUME IInv PROVE Inv'
  BY <1>9 DEF Inv
<1>1. CASE \E p \in Processes : AskCreate(p) \/ AskAltStart(p) \/ AskAltWait(p)
                                \/ AskAltEnd(p)
  BY <1>1, AskSteps DEF Inv
<1>2. CASE \E ch \in live : AskDestroy(ch) \/ AskSend(ch) \/ AskReceive(ch)
                            \/ AskEnable(ch) \/ AskDisable(ch)
  BY <1>2, AskSteps DEF Inv
<1>3. CASE Wait
  BY <1>3, WaitStep DEF Inv
<1>4. CASE Created
  <2>1. PICK c, p \in MemoryAddresses : c = request.channel /\ p = request.pid
    BY DEF IInv
  <2> QED
    BY <1>4, <2>1, CreatedStep DEF Inv
<1>5. CASE Finished
  BY <1>5, FinishedStep
<1>6. CASE Elsewhere
  BY <1>6, ElsewhereStep DEF Inv
<1>7. CASE UNCHANGED vars
  BY <1>7, StutterStep DEF Inv
<1> QED
  BY <1>1, <1>2, <1>3, <1>4, <1>5, <1>6, <1>7 DEF Next

\* The inductive invariant holds in every state.
LEMMA ControllerInvariant == Spec => []Inv
<1>1. Init => Inv
  BY InitIInv DEF Inv
<1>2. Inv /\ [Next]_vars => Inv'
  BY NextInv
<1> QED
  BY <1>1, <1>2, PTL DEF Spec

-----------------------------------------------------------------------------
(* How often a value is put on a stack.                                    *)

\* The alternation that the sender at ch has woken has no other value.
OnlyOffer(ch) ==
    /\ alt[rx[ch]].step = "disable" /\ alt[rx[ch]].taken = 0
    /\ \A d \in alt[rx[ch]].arms \ {ch} : ~SenderAt(d)

DeliveryOk(ch) ==
    /\ Delivery(ch)
    /\ Sending(ch) => delivered[ch] = 0
    /\ ~astray /\ ~Idle(ch) /\ delivered[ch] # 0 => OnlyOffer(ch)

DeliveriesOk == \A ch \in live : DeliveryOk(ch)

\* Which requests put a value on a stack.
LEMMA Counts ==
  ASSUME IInv, Finished, NEW c \in MemoryAddresses, NEW p \in MemoryAddresses,
         c = request.channel, p = request.pid
  PROVE  /\ delivered' = IF answer.hasMessage
                         THEN [delivered EXCEPT ![c] = @ + 1] ELSE delivered
         /\ request.op = "SEND_MESSAGE" =>
              (answer.hasMessage <=> ReceiverAt(c) \/ Wakes(c))
         /\ request.op = "RECEIVE_MESSAGE" => (answer.hasMessage <=> SenderAt(c))
         /\ request.op = "DISABLE_CHANNEL" => (answer.hasMessage <=> Takes(c))
         /\ request.op = "ENABLE_CHANNEL" => ~answer.hasMessage
<1>1. Asked(c, p) /\ Done(c, p) /\ delivered' = Delivered
  BY Finishing DEF Finished
<1>2. CASE request.op = "SEND_MESSAGE"
  <2>1. /\ SendDone(c, p)
        /\ Word(c) = 0 <=> ~ReceiverAt(c) /\ ~ArmAt(c)
        /\ ReceiverAt(c) => ~ArmAt(c)
        /\ Wakes(c) <=> ArmAt(c) /\ ~Lost(c)
        /\ Lost(c) => ArmAt(c)
    BY <1>1, <1>2, SendFacts DEF Done
  <2>2. answer.hasMessage <=> Word(c) # 0 /\ ~Lost(c)
    BY <2>1 DEF SendDone
  <2> QED
    BY <1>1, <1>2, <2>1, <2>2 DEF Delivered
<1>3. CASE request.op = "RECEIVE_MESSAGE"
  BY <1>1, <1>3 DEF Done, ReceiveDone, Delivered
<1>4. CASE request.op = "DISABLE_CHANNEL"
  BY <1>1, <1>4 DEF Done, DisableDone, Delivered
<1>5. CASE request.op = "ENABLE_CHANNEL"
  BY <1>1, <1>5 DEF Done, EnableDone, Nothing, Delivered
<1>6. CASE request.op \notin {"SEND_MESSAGE", "RECEIVE_MESSAGE",
                              "DISABLE_CHANNEL", "ENABLE_CHANNEL"}
  BY <1>1, <1>6 DEF Delivered
<1> QED
  BY <1>2, <1>3, <1>4, <1>5, <1>6

\* A request that does not name the channel leaves its count.
LEMMA OtherCounts ==
  ASSUME IInv, Finished, DeliveriesOk, NEW ch \in live, ~Busy(ch)
  PROVE  DeliveryOk(ch)'
<1>1. PICK c, p \in MemoryAddresses : c = request.channel /\ p = request.pid
  BY DEF IInv
<1>2. /\ Finish /\ sent' = sent /\ tx' = tx /\ rx' = rx
      /\ ~Sending(ch)'
  BY <1>1, Finishing DEF Finished, Sending, Busy
<1>3. /\ SenderAt(ch)' <=> SenderAt(ch)
      /\ ArmAt(ch)' <=> ArmAt(ch)
      /\ got'[ch] = got[ch]
  BY <1>1, OtherChannels
<1>4. delivered'[ch] = delivered[ch]
  <2>1. answer.hasMessage => ch # c
    BY <1>1, <1>2, Restarted
  <2> QED
    BY <1>1, <2>1, Counts DEF IInv, TypeOK, ClientTyped
<1>5. Delivery(ch)'
  BY <1>2, <1>3, <1>4 DEF DeliveriesOk, DeliveryOk, Delivery, Idle, ArmAt
<1>6. ASSUME ~astray', ~Idle(ch)', delivered'[ch] # 0
      PROVE  OnlyOffer(ch)'
  <2>1. /\ OnlyOffer(ch) /\ SenderAt(ch) /\ ArmAt(ch)
    BY <1>2, <1>3, <1>4, <1>6
    DEF DeliveriesOk, DeliveryOk, Delivery, Idle, ArmAt, IInv
  <2>2. PICK q \in Processes : q = rx[ch] /\ rx'[ch] = q
    BY <1>2 DEF IInv, ChannelsOk
  <2>3. /\ alt \in [Processes -> Alternations] /\ AltOk(q) /\ ch \in alt[q].arms
        /\ HasValue(q)
    BY <2>1, <2>2 DEF IInv, TypeOK, ClientTyped, ArmAt, HasValue
  <2>4. /\ Asked(c, p) /\ Done(c, p) /\ handler # "idle" /\ p \in Processes
        /\ alt' = [alt EXCEPT ![p] = Progress(request.op, @)]
    BY <1>1, <1>2, Finishing DEF Asked, Answered
  <2>5. ASSUME NEW d \in alt[q].arms \ {ch} PROVE ~SenderAt(d)'
    <3>1. d \in live /\ rx[d] = q /\ ~SenderAt(d) /\ ArmAt(d)
      BY <2>1, <2>2, <2>3, <2>5 DEF AltOk, OnlyOffer, ArmAt
    <3>2. CASE ~Busy(d)
      BY <1>1, <3>1, <3>2, OtherChannels
    <3>3. CASE Busy(d) /\ request.op = "SEND_MESSAGE"
      <4>1. d = c /\ Lost(c)
        BY <1>1, <2>3, <3>1, <3>3 DEF Busy, Lost
      <4>2. d \in late'
        BY <1>1, <3>3, <4>1, LateStep
      <4> QED
        BY <4>2 DEF SenderAt
    <3>4. CASE Busy(d) /\ request.op # "SEND_MESSAGE"
      <4>1. ~answer.deschedules
        <5>1. d = c /\ ArmAt(c) /\ rx[c] = q
          BY <1>1, <3>1, <3>4 DEF Busy
        <5>2. request.op = "DISABLE_CHANNEL"
          BY <2>1, <2>2, <2>3, <2>4, <3>4, <5>1, NoArms DEF Asked, Busy, OnlyOffer
        <5> QED
          BY <2>4, <5>2 DEF Done, DisableDone, Scheduling
      <4>2. tx'[d] = tx[d] /\ tx[d] \in Processes
        BY <1>2, <3>1 DEF IInv, ChannelsOk
      <4>3. parked'[tx[d]] = parked[tx[d]] \/ parked'[tx[d]] = NoRequest
        BY <1>1, <1>2, <4>1, <4>2, Finishing
      <4>4. d \in late' <=> d \in late
        BY <1>1, <3>4, LateStep
      <4> QED
        BY <3>1, <4>2, <4>3, <4>4 DEF SenderAt, NoRequest
    <3> QED
      BY <3>2, <3>3, <3>4
  <2>6. CASE q # p
    <3>1. alt'[q] = alt[q]
      BY <2>3, <2>4, <2>6
    <3> QED
      BY <2>1, <2>2, <2>5, <3>1 DEF OnlyOffer
  <2>7. CASE q = p
    <3>1. request.op = "DISABLE_CHANNEL" /\ c \in alt[q].arms /\ p = rx[c]
      BY <2>1, <2>2, <2>3, <2>4, <2>7 DEF Asked, OnlyOffer, ArmAt
    <3>2. c # ch /\ ~SenderAt(c)
      <4>1. c # ch
        BY <1>1, <2>4, <3>1 DEF Busy
      <4> QED
        BY <2>1, <2>2, <3>1, <4>1 DEF OnlyOffer
    <3>3. ~Takes(c)
      <4> SUFFICES ASSUME Takes(c) PROVE FALSE
        OBVIOUS
      <4>1. Told(c, p) /\ DisableDone(c, p)
        BY <1>1, <1>2, <1>6, <2>4, <3>1, Finishing DEF Done
      <4>2. Word(c) = 0
        BY <2>4, <3>1, <3>2, DisableFacts DEF Takes, Offered
      <4> QED
        BY <4>1, <4>2, Constants DEF Told, DisableDone, Scheduling
    <3>4. ~answer.hasMessage
      BY <1>1, <3>1, <3>3, Counts
    <3>5. alt'[q] = [alt[q] EXCEPT !.arms = @ \ {c}, !.taken = @]
      BY <1>1, <2>3, <2>4, <2>7, <3>1, <3>4 DEF Progress
    <3>6. /\ alt'[q].step = alt[q].step /\ alt'[q].taken = alt[q].taken
          /\ alt'[q].arms \subseteq alt[q].arms
      BY <2>3, <3>5 DEF Alternations
    <3> QED
      BY <2>1, <2>2, <2>5, <3>6 DEF OnlyOffer
  <2> QED
    BY <2>6, <2>7
<1> QED
  BY <1>2, <1>5, <1>6 DEF DeliveryOk

\* What the end of a request does to the count of its own channel.
LEMMA OwnCount ==
  ASSUME IInv, Finished, DeliveriesOk, NEW c \in live, c \in live',
         c = request.channel, Busy(c)
  PROVE  DeliveryOk(c)'
<1>1. PICK p \in MemoryAddresses : p = request.pid
  BY DEF IInv
<1>2. /\ c \in MemoryAddresses /\ Finish
      /\ UNCHANGED <<sent, tx, rx>> /\ ~Sending(c)'
      /\ Asked(c, p) /\ Done(c, p)
  BY <1>1, Finishing DEF IInv, TypeOK, ClientTyped, Finished, Sending, Busy
<1>3. /\ sent[c] \in Nat /\ delivered[c] \in Nat /\ got[c] \in Seq(Nat)
      /\ Len(got[c]) \in Nat
      /\ sent[c] = IF SenderAt(c) \/ Sending(c) \/ c \in late
                   THEN Len(got[c]) + 1 ELSE Len(got[c])
      /\ Delivery(c) /\ (Sending(c) => delivered[c] = 0)
      /\ ~Idle(c) /\ delivered[c] # 0 => OnlyOffer(c)
  <2>1. sent[c] \in Nat /\ delivered[c] \in Nat /\ got[c] \in Seq(Nat)
    BY <1>2 DEF IInv, TypeOK, ClientTyped
  <2>2. sent[c] = IF SenderAt(c) \/ Sending(c) \/ c \in late
                  THEN Len(got[c]) + 1 ELSE Len(got[c])
    BY DEF IInv, ChannelsOk
  <2>3. /\ Delivery(c) /\ (Sending(c) => delivered[c] = 0)
        /\ ~Idle(c) /\ delivered[c] # 0 => OnlyOffer(c)
    BY DEF IInv, DeliveriesOk, DeliveryOk
  <2> QED
    BY <2>1, <2>2, <2>3
\* A value that is taken was on no stack, or on one.
<1>4. ASSUME got' = [got EXCEPT ![c] = Append(@, sent[c])],
             answer.hasMessage, SenderAt(c) \/ Sending(c) \/ c \in late
      PROVE  DeliveryOk(c)'
  <2>1. Idle(c)'
    <3>1. got'[c] = Append(got[c], sent[c])
      BY <1>2, <1>4 DEF IInv, TypeOK, ClientTyped
    <3> QED
      BY <1>2, <1>3, <1>4, <3>1 DEF Idle
  <2>2. ~Idle(c) /\ delivered[c] \in {0, 1}
    BY <1>3, <1>4 DEF Idle, Delivery
  <2>3. delivered'[c] = delivered[c] + 1
    BY <1>1, <1>2, <1>4, Counts DEF IInv, TypeOK, ClientTyped
  <2> QED
    BY <1>2, <2>1, <2>2, <2>3 DEF DeliveryOk, Delivery
\* A value that is left where it is was on no stack.
<1>5. ASSUME got' = got, ~answer.hasMessage, ~Idle(c) => delivered[c] = 0
      PROVE  DeliveryOk(c)'
  <2>1. delivered' = delivered
    BY <1>1, <1>2, <1>5, Counts
  <2> QED
    BY <1>2, <1>3, <1>5, <2>1 DEF DeliveryOk, Delivery, Idle
<1>6. CASE request.op = "SEND_MESSAGE"
  <2>1. /\ Sending(c) /\ p = tx[c] /\ Runs(p) /\ p \in Processes
        /\ c \notin late /\ ~SenderAt(c) /\ alt[p].step = "none"
        /\ rx[c] \in Processes /\ rx[c] # p
    BY <1>2, <1>6, SendFacts, LateSender, WordTypes DEF Asked, Sending
  <2>2. CASE ReceiverAt(c)
    BY <1>1, <1>2, <1>4, <1>6, <2>1, <2>2, Values, Counts
  <2>3. CASE ~ReceiverAt(c) /\ ~Wakes(c)
    BY <1>1, <1>2, <1>3, <1>5, <1>6, <2>1, <2>3, Values, Counts
  <2>4. CASE ~ReceiverAt(c) /\ Wakes(c)
    <3>1. PICK q \in Processes : q = rx[c] /\ rx'[c] = q
      BY <1>2, <2>1
    <3>2. /\ got' = got /\ delivered'[c] = 1 /\ sent'[c] # Len(got'[c])
      <4>1. got' = got /\ delivered' = [delivered EXCEPT ![c] = @ + 1]
        BY <1>1, <1>2, <1>6, <2>4, Values, Counts
      <4> QED
        BY <1>2, <1>3, <2>1, <4>1 DEF IInv, TypeOK, ClientTyped
    <3>3. /\ SendDone(c, p) /\ ~Lost(c)
      BY <1>2, <1>6, <2>4, SendFacts DEF Done
    <3>4. answer.deschedules /\ c \notin late' /\ answer.schedulePid = q
      <4>1. late' = late
        BY <1>2, <3>3, LateStep
      <4>2. Word(c) = q /\ Word(c) # 0
        BY <1>2, <1>6, <2>4, <3>1, SendFacts DEF Wakes
      <4> QED
        BY <2>1, <2>4, <3>3, <4>1, <4>2 DEF SendDone, Scheduling
    <3>5. parked'[p] = request /\ alt'[q] = alt[q] /\ parked'[q] \in {NoRequest, parked[q]}
      BY <1>1, <1>2, <2>1, <3>1, <3>4, Finishing DEF IInv, TypeOK, ClientTyped
    <3>6. SenderAt(c)' /\ c \in alt'[q].arms
      BY <1>2, <1>6, <2>1, <2>4, <3>1, <3>4, <3>5 DEF SenderAt, Wakes, ArmAt
    <3>7. Delivery(c)'
      BY <3>1, <3>2, <3>6 DEF Delivery, Idle
    <3>8. ASSUME ~astray' PROVE OnlyOffer(c)'
      <4>1. ~Runs(q)
        <5>1. Told(c, p) /\ answer.schedules
          BY <1>1, <1>2, <1>6, <2>4, <3>3, <3>8, SendFacts, Finishing
          DEF SendDone, Scheduling
        <5> QED
          BY <3>4, <5>1 DEF Told
      <4>2. alt[q].step = "disable" /\ ~HasValue(q)
        BY <2>4, <3>1, <4>1, Alternative DEF Wakes
      <4>3. alt[q].taken = 0 /\ AltOk(q)
        BY <4>2 DEF HasValue, IInv, TypeOK, ClientTyped, Alternations
      <4>4. ASSUME NEW d \in alt[q].arms \ {c} PROVE ~SenderAt(d)'
        <5>1. d \in live /\ ~Busy(d) /\ ~SenderAt(d)
          BY <4>2, <4>3 DEF AltOk, Busy, HasValue
        <5> QED
          BY <1>1, <1>2, <5>1, OtherChannels
      <4> QED
        BY <3>1, <3>5, <4>2, <4>3, <4>4 DEF OnlyOffer
    <3> QED
      BY <1>2, <3>7, <3>8 DEF DeliveryOk
  <2> QED
    BY <2>2, <2>3, <2>4
<1>7. CASE request.op = "RECEIVE_MESSAGE"
  <2>1. ~ArmAt(c)
    BY <1>2, <1>7, ReceiveFacts
  <2>2. ~Idle(c) => delivered[c] = 0
    BY <1>3, <2>1 DEF Delivery, ArmAt
  <2> QED
    BY <1>1, <1>2, <1>4, <1>5, <1>7, <2>2, Values, Counts
<1>8. CASE request.op = "DISABLE_CHANNEL"
  <2>1. CASE Takes(c)
    <3>1. SenderAt(c) \/ c \in late
      BY <2>1, LateSender DEF Takes, Offered
    <3> QED
      BY <1>1, <1>2, <1>4, <1>8, <2>1, <3>1, Values, Counts
  <2>2. CASE ~Takes(c)
    <3>1. ASSUME ~Idle(c), delivered[c] # 0 PROVE FALSE
      <4>1. SenderAt(c) /\ alt[rx[c]].taken = 0
        BY <1>3, <3>1 DEF Delivery, OnlyOffer
      <4>2. ~request.hadMessage
        BY <1>2, <1>8, <4>1, DisableFacts
      <4> QED
        BY <2>2, <4>1, <4>2 DEF Takes, Offered
    <3> QED
      BY <1>1, <1>2, <1>5, <1>8, <2>2, <3>1, Values, Counts
  <2> QED
    BY <2>1, <2>2
<1>9. CASE request.op = "ENABLE_CHANNEL"
  <2>1. ~ArmAt(c)
    BY <1>2, <1>9 DEF Asked
  <2>2. ~Idle(c) => delivered[c] = 0
    BY <1>3, <2>1 DEF Delivery, ArmAt
  <2> QED
    BY <1>1, <1>2, <1>5, <1>9, <2>2, Values, Counts
<1>10. CASE request.op = "DESTROY_CHANNEL"
  BY <1>10 DEF Finished
<1> QED
  BY <1>6, <1>7, <1>8, <1>9, <1>10 DEF Busy

\* A request that is taken up puts nothing on a stack.
LEMMA AskedCounts ==
  ASSUME IInv, DeliveriesOk, NEW r, Ask(r),
         \/ UNCHANGED <<sent, delivered>> /\ r.op # "SEND_MESSAGE"
         \/ \E ch \in live : AskSend(ch) /\ r.channel = ch
  PROVE  DeliveriesOk'
<1>1. /\ handler = "idle" /\ request' = r
      /\ UNCHANGED <<parked, alt, live, tx, rx, got, late, astray>>
  BY DEF Ask, histories
<1>2. SUFFICES ASSUME NEW ch \in live PROVE DeliveryOk(ch)'
  BY <1>1 DEF DeliveriesOk
<1>3. DeliveryOk(ch) /\ (OnlyOffer(ch)' <=> OnlyOffer(ch))
  BY <1>1 DEF DeliveriesOk, OnlyOffer, SenderAt
<1>4. CASE /\ sent'[ch] = sent[ch] /\ delivered'[ch] = delivered[ch]
           /\ ~Sending(ch)'
  BY <1>1, <1>3, <1>4 DEF DeliveryOk, Delivery, Idle, SenderAt
<1>5. CASE AskSend(ch)
  <2>1. sent'[ch] = sent[ch] + 1 /\ delivered'[ch] = 0
    BY <1>5 DEF AskSend, IInv, TypeOK, ClientTyped
  <2>2. Runs(tx[ch])
    BY <1>5 DEF AskSend, Ask, On, Request, NoRequest
  <2>3. ~SenderAt(ch) /\ ch \notin late /\ ~Sending(ch)
    BY <1>1, <2>2, Runner, LateSender DEF Sending, Busy
  <2>4. sent[ch] = Len(got[ch]) /\ sent[ch] \in Nat
    BY <2>3 DEF IInv, ChannelsOk, TypeOK, ClientTyped
  <2>5. ~Idle(ch)'
    BY <1>1, <2>1, <2>4 DEF Idle
  <2> QED
    BY <2>1, <2>5 DEF DeliveryOk, Delivery
<1>6. CASE \E d \in live : AskSend(d) /\ r.channel = d /\ d # ch
  <2>1. PICK d \in live : AskSend(d) /\ r.channel = d /\ d # ch
    BY <1>6
  <2>2. sent'[ch] = sent[ch] /\ delivered'[ch] = delivered[ch]
    BY <2>1 DEF AskSend, IInv, TypeOK, ClientTyped
  <2>3. ~Sending(ch)'
    BY <1>1, <2>1 DEF Sending, Busy
  <2> QED
    BY <1>4, <2>2, <2>3
<1>7. CASE UNCHANGED <<sent, delivered>> /\ r.op # "SEND_MESSAGE"
  <2>1. ~Sending(ch)'
    BY <1>1, <1>7 DEF Sending
  <2> QED
    BY <1>4, <1>7, <2>1
<1> QED
  BY <1>5, <1>6, <1>7

\* Nor does a new channel, which has no value.
LEMMA CreatedCounts == ASSUME IInv, DeliveriesOk, Created PROVE DeliveriesOk'
<1>1. PICK c, p \in MemoryAddresses : c = request.channel /\ p = request.pid
  BY DEF IInv
<1>2. /\ channelOut \in MemoryAddresses \ live
      /\ live' = live \cup {channelOut}
      /\ sent' = [sent EXCEPT ![channelOut] = 0]
      /\ got' = [got EXCEPT ![channelOut] = <<>>]
      /\ UNCHANGED <<parked, alt, late>>
  BY <1>1, CreatedStep DEF Created
<1>3. \E e \in Ends : /\ tx' = [tx EXCEPT ![channelOut] = e[1]]
                      /\ rx' = [rx EXCEPT ![channelOut] = e[2]]
  BY DEF Created
<1>4. /\ \A ch : ~Sending(ch)'
      /\ delivered' = [delivered EXCEPT ![channelOut] = 0]
  <2>1. Finish
    BY DEF Created
  <2>2. handler' = "idle"
    BY <2>1 DEF Finish
  <2> QED
    BY <2>2 DEF Created, Sending, Busy
<1>5. ASSUME NEW ch \in live PROVE DeliveryOk(ch)'
  <2>1. \A d \in live : /\ tx'[d] = tx[d] /\ rx'[d] = rx[d]
                        /\ SenderAt(d)' <=> SenderAt(d)
    <3>1. \A d \in live : tx'[d] = tx[d] /\ rx'[d] = rx[d]
      BY <1>2, <1>3 DEF IInv, TypeOK, ClientTyped
    <3> QED
      BY <1>2, <3>1 DEF SenderAt
  <2>2. sent'[ch] = sent[ch] /\ got'[ch] = got[ch] /\ delivered'[ch] = delivered[ch]
    BY <1>2, <1>4 DEF IInv, TypeOK, ClientTyped
  <2>3. AltOk(rx[ch])
    BY DEF IInv, ChannelsOk
  <2>4. OnlyOffer(ch) => OnlyOffer(ch)'
    BY <1>2, <2>1, <2>3 DEF OnlyOffer, AltOk
  <2>5. Delivery(ch)'
    BY <1>2, <2>1, <2>2 DEF DeliveriesOk, DeliveryOk, Delivery, Idle
  <2> QED
    BY <1>4, <2>2, <2>4, <2>5 DEF DeliveriesOk, DeliveryOk, Idle, IInv
<1>6. ASSUME NEW ch, ch = channelOut PROVE DeliveryOk(ch)'
  <2>1. sent'[ch] = 0 /\ got'[ch] = <<>> /\ delivered'[ch] = 0
    BY <1>2, <1>4, <1>6 DEF IInv, TypeOK, ClientTyped
  <2> QED
    BY <1>4, <2>1 DEF DeliveryOk, Delivery, Idle
<1> QED
  BY <1>2, <1>5, <1>6 DEF DeliveriesOk

LEMMA RequestFields ==
  ASSUME NEW op, NEW p, NEW ch, NEW m, NEW h
  PROVE  /\ Request(op, p).op = op
         /\ On(op, p, ch).op = op /\ On(op, p, ch).channel = ch
         /\ [On(op, p, ch) EXCEPT !.message = m].channel = ch
         /\ [On(op, p, ch) EXCEPT !.hadMessage = h].op = op
  BY DEF Request, On, NoRequest

LEMMA InitCounts == Init => DeliveriesOk
  BY DEF Init, DeliveriesOk

LEMMA StepCounts ==
  ASSUME Inv, Inv', DeliveriesOk, [Next]_vars
  PROVE  DeliveriesOk'
\* Nothing is done to the channels.
<1>1. ASSUME UNCHANGED clientVars, request' = request,
             handler = "idle" <=> handler' = "idle"
      PROVE  DeliveriesOk'
  <2>1. /\ UNCHANGED <<parked, alt, live, tx, rx, sent, delivered, got, late, astray>>
        /\ \A ch : Sending(ch)' <=> Sending(ch)
    BY <1>1 DEF clientVars, histories, Sending, Busy
  <2>2. \A ch : /\ OnlyOffer(ch)' <=> OnlyOffer(ch)
                /\ Delivery(ch)' <=> Delivery(ch)
                /\ Idle(ch)' <=> Idle(ch)
    BY <2>1 DEF OnlyOffer, Delivery, Idle, SenderAt
  <2> QED
    BY <2>1, <2>2 DEF DeliveriesOk, DeliveryOk
<1>2. CASE Wait \/ Elsewhere \/ UNCHANGED vars
  BY <1>1, <1>2 DEF Wait, Elsewhere, enabled, vars
<1>3. CASE Stray
  <2>1. ~(\E r : Ask(r)) /\ ~Wait /\ ~Finish
    BY <1>3 DEF Stray, Ask, Wait, enabled, Finish
  <2> QED
    BY <1>2, <2>1 DEF Next, AskCreate, AskDestroy, AskSend, AskReceive, AskAltStart,
                      AskEnable, AskAltWait, AskDisable, AskAltEnd, Created, Finished
<1> SUFFICES ASSUME IInv PROVE DeliveriesOk'
  BY <1>3 DEF Inv
<1>4. CASE \E p \in Processes : AskCreate(p) \/ AskAltStart(p) \/ AskAltWait(p)
                                \/ AskAltEnd(p)
  <2>1. PICK op, p : /\ Ask(Request(op, p)) /\ UNCHANGED <<sent, delivered>>
                     /\ op # "SEND_MESSAGE"
    BY <1>4 DEF AskCreate, AskAltStart, AskAltWait, AskAltEnd
  <2>2. PICK r : r = Request(op, p)
    OBVIOUS
  <2>3. Ask(r) /\ r.op # "SEND_MESSAGE"
    BY <2>1, <2>2, RequestFields
  <2> QED
    BY <2>1, <2>3, AskedCounts
<1>5. CASE \E ch \in live : AskDestroy(ch) \/ AskReceive(ch) \/ AskEnable(ch)
                            \/ AskDisable(ch)
  <2>1. CASE \E ch \in live : AskDestroy(ch) \/ AskReceive(ch) \/ AskEnable(ch)
    <3>1. PICK op, ch : /\ Ask(On(op, rx[ch], ch)) /\ UNCHANGED <<sent, delivered>>
                        /\ op # "SEND_MESSAGE"
      BY <2>1 DEF AskDestroy, AskReceive, AskEnable
    <3>2. PICK r : r = On(op, rx[ch], ch)
      OBVIOUS
    <3>3. Ask(r) /\ r.op # "SEND_MESSAGE"
      BY <3>1, <3>2, RequestFields
    <3> QED
      BY <3>1, <3>3, AskedCounts
  <2>2. CASE \E ch \in live : AskDisable(ch)
    <3>1. PICK ch, r : /\ Ask(r) /\ UNCHANGED <<sent, delivered>>
                       /\ r = [On("DISABLE_CHANNEL", rx[ch], ch) EXCEPT
                                 !.hadMessage = alt[rx[ch]].taken > 0]
      BY <2>2 DEF AskDisable
    <3>2. r.op # "SEND_MESSAGE"
      BY <3>1, RequestFields
    <3> QED
      BY <3>1, <3>2, AskedCounts
  <2> QED
    BY <1>5, <2>1, <2>2
<1>6. CASE \E ch \in live : AskSend(ch)
  <2>1. PICK ch \in live : AskSend(ch)
    BY <1>6
  <2>2. PICK r : /\ Ask(r)
                 /\ r = [On("SEND_MESSAGE", tx[ch], ch) EXCEPT
                           !.message = sent[ch] + 1]
    BY <2>1 DEF AskSend
  <2>3. r.channel = ch
    BY <2>2, RequestFields
  <2> QED
    BY <2>1, <2>2, <2>3, AskedCounts
<1>7. CASE Created
  BY <1>7, CreatedCounts
<1>8. CASE Finished
  <2>1. live' \subseteq live
    BY <1>8 DEF Finished
  <2>2. \A ch \in live : Busy(ch) => ch = request.channel
    BY DEF Busy
  <2> QED
    BY <1>8, <2>1, <2>2, OtherCounts, OwnCount DEF DeliveriesOk
<1> QED
  BY <1>2, <1>4, <1>5, <1>6, <1>7, <1>8 DEF Next

LEMMA CountsInvariant == Spec => []DeliveriesOk
<1>1. Inv /\ Inv' /\ DeliveriesOk /\ [Next]_vars => DeliveriesOk'
  BY StepCounts
<1> QED
  BY <1>1, InitCounts, ControllerInvariant, PTL DEF Spec

LEMMA OneValueTaken == Inv /\ DeliveriesOk => AlternationTakesOne
<1> SUFFICES ASSUME Inv, DeliveriesOk PROVE AlternationTakesOne
  OBVIOUS
<1>1. \A ch \in live : Delivery(ch)
  BY DEF DeliveriesOk, DeliveryOk
<1>2. ASSUME handler = "busy", ccFinished, request.op = "ALT_END"
      PROVE  alt[request.pid].taken = 1
  <2>1. IInv
    BY <1>2 DEF Inv, Stray
  <2>2. PICK c, p \in MemoryAddresses :
          c = request.channel /\ p = request.pid /\ Doing(c, p)
    BY <2>1 DEF IInv
  <2>3. Asked(c, p)
    BY <1>2, <2>2 DEF Doing, Resting, Starting, Working, Answered
  <2>4. p \in Processes /\ Runs(p) /\ alt[p].step = "disable" /\ alt[p].arms = {}
    BY <1>2, <2>3 DEF Asked
  <2>5. AltOk(p) /\ alt[p].taken \in Nat
    BY <2>1, <2>4 DEF IInv, TypeOK, ClientTyped, Alternations
  <2>6. alt[p].taken > 0 /\ alt[p].taken <= 1
    BY <2>4, <2>5 DEF AltOk, HasValue
  <2> QED
    BY <2>2, <2>5, <2>6
<1> QED
  BY <1>1, <1>2 DEF AlternationTakesOne

-----------------------------------------------------------------------------
(* What the invariants say of the processes and the channels.              *)

LEMMA NobodyLost == Inv => StoppedAreParked
<1> SUFFICES ASSUME IInv, handler = "idle"
             PROVE  /\ \A p \in Processes :
                         ~Runs(p) => Found(p) \/ \E ch \in late : p = tx[ch]
                    /\ \A ch \in live : channelRam[ch] # 0 =>
                         \/ channelRam[ch] \in {tx[ch], rx[ch]} /\ ~Runs(channelRam[ch])
                         \/ channelRam[ch] = rx[ch] /\ ch \in alt[rx[ch]].arms
  BY DEF StoppedAreParked, Inv, Stray
<1>1. /\ Resting /\ TypeOK /\ ChannelsOk
      /\ \A ch \in live : AtRest(ch) /\ ~Busy(ch) /\ ~Sending(ch)
  BY IdleRests
<1>2. \A ch \in live :
        /\ channelRam[ch] = Word(ch)
        /\ SenderAt(ch) => channelRam[MessageAt(ch)] = sent[ch]
        /\ SenderAt(ch) => ~ReceiverAt(ch)
        /\ sent[ch] = IF SenderAt(ch) \/ ch \in late THEN Len(got[ch]) + 1
                                                     ELSE Len(got[ch])
        /\ Len(got[ch]) \in Nat
  BY <1>1 DEF AtRest, ChannelsOk, TypeOK, ClientTyped, Offered
<1>3. ASSUME NEW p \in Processes, ~Runs(p)
      PROVE  Found(p) \/ \E ch \in late : p = tx[ch]
  <2>1. ParkedOk(p) /\ AltOk(p)
    BY DEF IInv
  <2>2. CASE /\ parked[p].op = "SEND_MESSAGE" /\ parked[p].channel \in live
             /\ p = tx[parked[p].channel]
    <3>1. PICK ch \in live : ch = parked[p].channel
      BY <2>2
    <3> SUFFICES ASSUME ch \notin late PROVE Found(p)
      BY <2>2, <3>1
    <3>2. SenderAt(ch) /\ p = tx[ch]
      BY <2>2, <3>1 DEF SenderAt
    <3>3. /\ channelRam[ch] = p /\ channelRam[MessageAt(ch)] = sent[ch]
          /\ ~Idle(ch)
      BY <1>2, <3>2 DEF Word, Idle
    <3> QED
      BY <3>2, <3>3 DEF Found
  <2>3. CASE /\ parked[p].op = "RECEIVE_MESSAGE" /\ parked[p].channel \in live
             /\ p = rx[parked[p].channel] /\ alt[p].step = "none"
    <3>1. PICK ch \in live : ch = parked[p].channel
      BY <2>3
    <3>2. ReceiverAt(ch) /\ p = rx[ch]
      BY <2>3, <3>1 DEF ReceiverAt
    <3>3. channelRam[ch] = p
      BY <1>2, <3>2 DEF Word
    <3>4. alt[p].arms = {}
      BY <2>3, NoArms
    <3> QED
      BY <3>2, <3>3, <3>4 DEF Found
  <2>4. CASE alt[p].step = "disable" /\ alt[p].arms # {}
    <3>1. ~HasValue(p)
      BY <1>3, <2>1, <2>4 DEF AltOk
    <3>2. p \in alternationSet \ alternationReadySet
      BY <1>1, <2>4, <3>1 DEF Resting, SetsBefore, InAlternation, WithValue
    <3>3. ASSUME NEW ch \in alt[p].arms PROVE channelRam[ch] = p
      <4>1. /\ ch \in live /\ rx[ch] = p /\ ~SenderAt(ch)
            /\ ch \notin cleared
        BY <2>1, <3>1, LateSender DEF AltOk, HasValue
      <4>2. ArmAt(ch)
        BY <4>1 DEF ArmAt
      <4> QED
        BY <1>2, <4>1, <4>2 DEF Word
    <3> QED
      BY <2>4, <3>2, <3>3 DEF Found
  <2> QED
    BY <1>3, <2>1, <2>2, <2>3, <2>4 DEF ParkedOk
<1>4. ASSUME NEW ch \in live, channelRam[ch] # 0
      PROVE  \/ channelRam[ch] \in {tx[ch], rx[ch]} /\ ~Runs(channelRam[ch])
             \/ channelRam[ch] = rx[ch] /\ ch \in alt[rx[ch]].arms
  <2>1. channelRam[ch] = Word(ch)
    BY <1>2
  <2>2. SenderAt(ch) => ~Runs(tx[ch])
    BY Runner
  <2>3. ReceiverAt(ch) => ~Runs(rx[ch])
    BY Runner
  <2> QED
    BY <1>4, <2>1, <2>2, <2>3 DEF Word, ArmAt
<1> QED
  BY <1>3, <1>4

LEMMA Prompt == Inv => AnsweredInTime
<1> SUFFICES ASSUME IInv, handler # "idle" PROVE waited <= 7
  BY DEF AnsweredInTime, Inv, Stray
<1>1. PICK c, p \in MemoryAddresses : Doing(c, p)
  BY DEF IInv
<1>2. waited \in Nat
  BY DEF IInv, TypeOK, ClientTyped
<1>3. CASE Starting(c, p)
  BY <1>3 DEF Starting
<1>4. CASE Answered(c, p)
  BY <1>4 DEF Answered
<1>5. CASE Working(c, p)
  <2>1. CreateAt \/ DestroyAt => waited <= 3
    BY <1>2 DEF CreateAt, DestroyAt
  <2>2. SendAt(c, p) => waited <= 6
    BY <1>2 DEF SendAt, SendReads, SendWritesAt
  <2>3. ReceiveAt(c, p) => waited <= 6
    BY <1>2 DEF ReceiveAt, ReceiveReads, ReceiveTakes, ReceiveStops
  <2>4. EnableAt(c, p) => waited <= 6
    BY <1>2 DEF EnableAt, EnableReads, EnableFinds, EnableMarks
  <2>5. DisableAt(c) => waited <= 6
    BY <1>2 DEF DisableAt, DisableReads, DisableLeaves, DisableTakes, DisableClears0
  <2> QED
    BY <1>2, <1>5, <2>1, <2>2, <2>3, <2>4, <2>5 DEF Working
<1> QED
  BY <1>1, <1>3, <1>4, <1>5 DEF Doing, Resting

\* Every step of the controller and its programs is a step of the channels
\* that promise one value at a time, or none.
LEMMA StepRefines == Inv /\ [Next]_vars => [Abstract!Next]_(Abstract!vars)
<1> SUFFICES ASSUME Inv, [Next]_vars
             PROVE  Abstract!Next \/ UNCHANGED <<live, sent, got>>
  BY DEF Abstract!vars
<1>11. CASE Stray
  <2>1. ~(\E r : Ask(r)) /\ ~Wait /\ ~Finish
    BY <1>11 DEF Stray, Ask, Wait, enabled, Finish
  <2>2. Elsewhere \/ UNCHANGED vars
    BY <2>1 DEF Next, AskCreate, AskDestroy, AskSend, AskReceive, AskAltStart,
                AskEnable, AskAltWait, AskDisable, AskAltEnd, Created, Finished
  <2> QED
    BY <2>2 DEF Elsewhere, vars, clientVars, histories
<1> SUFFICES ASSUME IInv PROVE Abstract!Next \/ UNCHANGED <<live, sent, got>>
  BY <1>11 DEF Inv
<1>1. /\ live \subseteq MemoryAddresses /\ sent \in [MemoryAddresses -> Nat]
      /\ got \in [MemoryAddresses -> Seq(Nat)]
      /\ \A ch \in live :
           sent[ch] = IF SenderAt(ch) \/ Sending(ch) \/ ch \in late
                      THEN Len(got[ch]) + 1 ELSE Len(got[ch])
  BY DEF IInv, TypeOK, ClientTyped, ChannelsOk
<1>2. PICK c, p \in MemoryAddresses : c = request.channel /\ p = request.pid
  BY DEF IInv
<1>3. \A ch : ~Abstract!Idle(ch) <=> Len(got[ch]) # sent[ch]
  BY DEF Abstract!Idle
<1>4. ASSUME c \in live, SenderAt(c) \/ Sending(c) \/ c \in late,
             live' = live, sent' = sent,
             got' = [got EXCEPT ![c] = Append(@, sent[c])]
      PROVE  Abstract!Next
  <2>1. Len(got[c]) # sent[c]
    <3>1. Len(got[c]) \in Nat
      BY <1>1
    <3> QED
      BY <1>1, <1>4, <3>1
  <2>2. Abstract!Receive
    BY <1>1, <1>3, <1>4, <2>1 DEF Abstract!Receive
  <2> QED
    BY <2>2 DEF Abstract!Next
<1>5. CASE \E q \in Processes : AskCreate(q) \/ AskAltStart(q) \/ AskAltWait(q)
                                \/ AskAltEnd(q)
  BY <1>5 DEF AskCreate, AskAltStart, AskAltWait, AskAltEnd, Ask, histories
<1>6. CASE \E ch \in live : AskDestroy(ch) \/ AskReceive(ch) \/ AskEnable(ch)
                            \/ AskDisable(ch)
  BY <1>6 DEF AskDestroy, AskReceive, AskEnable, AskDisable, Ask, histories
<1>7. CASE \E ch \in live : AskSend(ch)
  <2>1. PICK ch \in live : AskSend(ch)
    BY <1>7
  <2>2. /\ handler = "idle" /\ sent' = [sent EXCEPT ![ch] = @ + 1]
        /\ UNCHANGED <<live, got>> /\ Runs(tx[ch])
    BY <2>1, Constants DEF AskSend, Ask, On, Request, NoRequest, histories
  <2>3. ~SenderAt(ch) /\ ~Sending(ch) /\ ch \notin late
    BY <2>2, Runner, LateSender DEF Sending, Busy
  <2>4. Abstract!Idle(ch)
    BY <1>1, <2>3 DEF Abstract!Idle
  <2>5. sent' = [x \in MemoryAddresses |-> IF x \in {ch} THEN sent[x] + 1
                                                         ELSE sent[x]]
    BY <1>1, <2>2
  <2>6. Abstract!Send
    BY <2>2, <2>4, <2>5 DEF Abstract!Send
  <2> QED
    BY <2>6 DEF Abstract!Next
<1>8. CASE Wait \/ Elsewhere \/ UNCHANGED vars
  BY <1>8 DEF Wait, Elsewhere, vars, clientVars, histories
<1>9. CASE Created
  <2>1. /\ channelOut \in MemoryAddresses \ live
        /\ live' = live \cup {channelOut}
        /\ sent' = [sent EXCEPT ![channelOut] = 0]
        /\ got' = [got EXCEPT ![channelOut] = <<>>]
    BY <1>2, <1>9, CreatedStep
  <2> QED
    BY <2>1 DEF Abstract!Open, Abstract!Next
<1>10. CASE Finished
  <2>1. /\ Asked(c, p) /\ Done(c, p) /\ ~answer.hasChannel /\ sent' = sent
        /\ live' = IF request.op = "DESTROY_CHANNEL" THEN live \ {c} ELSE live
        /\ handler = "busy"
    BY <1>2, <1>10, Finishing DEF Finished, Finish
  <2>2. CASE request.op = "DESTROY_CHANNEL"
    <3>1. /\ c \in live /\ ~SenderAt(c) /\ ~Sending(c) /\ c \notin late
          /\ got' = got
      BY <1>2, <1>10, <2>1, <2>2, Values DEF Asked, Sending
    <3>2. Abstract!Idle(c)
      BY <1>1, <3>1 DEF Abstract!Idle
    <3> QED
      BY <2>1, <2>2, <3>1, <3>2 DEF Abstract!Close, Abstract!Next
  <2>3. CASE request.op = "SEND_MESSAGE"
    <3>1. c \in live /\ Sending(c)
      BY <1>2, <2>1, <2>3 DEF Asked, Sending, Busy
    <3> QED
      BY <1>2, <1>4, <1>10, <2>1, <2>3, <3>1, Values
  <2>4. CASE request.op = "RECEIVE_MESSAGE"
    <3>1. c \in live
      BY <2>1, <2>4 DEF Asked
    <3> QED
      BY <1>2, <1>4, <1>10, <2>1, <2>4, <3>1, Values
  <2>5. CASE request.op = "DISABLE_CHANNEL"
    <3>1. c \in live /\ (Takes(c) => SenderAt(c) \/ c \in late)
      BY <2>1, <2>5, LateSender DEF Asked, Takes, Offered
    <3> QED
      BY <1>2, <1>4, <1>10, <2>1, <2>5, <3>1, Values
  <2>6. CASE request.op \in {"ENABLE_CHANNEL", "ALT_START", "ALT_WAIT", "ALT_END"}
    BY <1>2, <1>10, <2>1, <2>6, Values
  <2> QED
    BY <2>1, <2>2, <2>3, <2>4, <2>5, <2>6 DEF Done
<1> QED
  BY <1>5, <1>6, <1>7, <1>8, <1>9, <1>10 DEF Next

-----------------------------------------------------------------------------
(* The theorems.                                                           *)

\* Types, for any number of processes, channels and values and any memory.
THEOREM ControllerTypes == Spec => []TypeOK
<1>1. Inv => TypeOK
  BY DEF Inv, IInv, Stray
<1> QED
  BY <1>1, ControllerInvariant, PTL

\* Until the scheduler is given a process that is not stopped, a stopped process
\* is where its partner will look for it, but for the sender that came to an
\* enabled arm of an alternation that had been woken, and no channel names a
\* process that is not there (Send.v, Receive.v, Enable.v, Disable.v and the
\* sets of ChannelController.v).
THEOREM EveryStoppedProcessIsFound == Spec => []StoppedAreParked
<1> QED
  BY NobodyLost, ControllerInvariant, PTL

\* Until the scheduler is given a process that is not stopped, an alternation
\* that comes to its end took one value, whether its senders came before the arm
\* was enabled, while the alternation was stopped, or after it was woken
\* (Disable.v, ChannelController.v).  A value that has not been taken was put on
\* a stack only if its sender woke an alternation that still has to disable the
\* arm, and then once; one that was taken was put there once or twice
\* (ProcessorMessageHandler.v).
THEOREM OneValueEach == Spec => []AlternationTakesOne
<1> QED
  BY OneValueTaken, ControllerInvariant, CountsInvariant, PTL

\* No unit is left in a state that it does not leave: seven cycles are enough
\* for any request (the state machines of ChannelController.v and its units).
THEOREM AnswersInTime == Spec => []AnsweredInTime
<1> QED
  BY Prompt, ControllerInvariant, PTL

\* The values that receives and disables take are those sent, each once and in
\* order (Send.v, Receive.v, Disable.v, Heap.v).  How often the hardware puts
\* such a value on a stack is another matter: see OneValueEach.
THEOREM HardwareChannelsSynchronous == Spec => ChannelsSynchronous
<1>1. Init => Abstract!Init
  BY DEF Init, Abstract!Init
<1>2. Inv /\ [Next]_vars => [Abstract!Next]_(Abstract!vars)
  BY StepRefines
<1> QED
  BY <1>1, <1>2, ControllerInvariant, PTL DEF Spec, ChannelsSynchronous, Abstract!Spec
=============================================================================
