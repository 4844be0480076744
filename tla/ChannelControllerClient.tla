---------------------- MODULE ChannelControllerClient ----------------------
(***************************************************************************)
(* The channel controller as the message handler uses it                   *)
(* (ProcessorMessageHandler.v): one request at a time, the controller      *)
(* being enabled until it is finished, and then the process that it names  *)
(* is stopped and the one it names is scheduled.                           *)
(*                                                                         *)
(* The processes are Statick programs: a channel has one sender and one    *)
(* receiver, and an alternation is ALT_START, one ENABLE_CHANNEL for each  *)
(* arm, ALT_WAIT, one DISABLE_CHANNEL for each arm and ALT_END.  A sender  *)
(* may come at any time.  Send.v forgets one that comes to an enabled arm  *)
(* when the alternation has been woken (late), and its word then says 0    *)
(* until the arm is disabled.                                              *)
(*                                                                         *)
(* The scheduler does not look whether the process that it is told to      *)
(* schedule is stopped.  When it is not, because it is enabling its arms,  *)
(* or when it is process 0, from the word of a late sender, the processes  *)
(* that the cores run are no longer those of this module, which stops      *)
(* there (astray).                                                         *)
(***************************************************************************)
EXTENDS ChannelController, Sequences

CONSTANTS
    Processes,      \* the numbers of the processes
    Ends,           \* the pairs <<sender, receiver>> a channel may have
    MaxChannels,    \* bound on the channels made
    MaxSends        \* bound on the values sent on a channel

\* 0 is no process, and a number fits an address.  The addresses of the
\* channels made do not wrap.
ASSUME ClientAssumption ==
    /\ Processes \subseteq MemoryAddresses \ {0}
    /\ Ends \subseteq {e \in Processes \X Processes : e[1] # e[2]}
    /\ MaxChannels \in Nat /\ 2 * MaxChannels <= MemorySize
    /\ MaxSends \in Nat

VARIABLES
    handler,        \* "idle", "start" (the first enabled cycle) or "busy"
    request,        \* the message in hand
    waited,         \* history: the cycles it has taken so far
    parked,         \* parked[p]: the request that stopped p, or NoRequest
    alt,            \* alt[p]: how far p is in an alternation
    live, made,     \* the channels there are, and how many were made
    tx, rx,         \* the sender and the receiver of each
    sent,           \* history: how many values were sent on each
    delivered,      \* history: how often the last of them was delivered
    got,            \* history: the values that receives and disables took
    late,           \* history: the channels whose sender was forgotten
    cleared,        \* history: the arms among them not yet disabled
    astray          \* history: a process that is not stopped was scheduled

histories == <<got, late, cleared, astray>>
clientVars == <<parked, alt, live, made, tx, rx, sent, delivered, histories>>
vars == <<controllerVars, handler, request, waited, clientVars>>

NoRequest == [op |-> "NONE", pid |-> 0, channel |-> 0, message |-> 0,
              hadMessage |-> FALSE]
Request(op, p) == [NoRequest EXCEPT !.op = op, !.pid = p]
On(op, p, ch) == [Request(op, p) EXCEPT !.channel = ch]

\* arms: the channels enabled; taken: how many values the disables took.
NoAlternation == [step |-> "none", arms |-> {}, taken |-> 0]

Init ==
    /\ ControllerInit
    /\ handler = "idle"
    /\ request = NoRequest
    /\ waited = 0
    /\ parked = [p \in Processes |-> NoRequest]
    /\ alt = [p \in Processes |-> NoAlternation]
    /\ live = {} /\ made = 0
    /\ tx = [ch \in MemoryAddresses |-> 0]
    /\ rx = [ch \in MemoryAddresses |-> 0]
    /\ sent = [ch \in MemoryAddresses |-> 0]
    /\ delivered = [ch \in MemoryAddresses |-> 0]
    /\ got = [ch \in MemoryAddresses |-> <<>>]
    /\ late = {} /\ cleared = {}
    /\ astray = FALSE

Runs(p) == parked[p] = NoRequest

Ask(r) ==
    /\ handler = "idle"
    /\ Runs(r.pid)
    /\ ~astray
    /\ handler' = "start"
    /\ request' = r
    /\ waited' = 0
    /\ DisabledEdge(request)
    /\ UNCHANGED <<parked, alt, live, made, tx, rx, histories>>

AskCreate(p) ==
    /\ alt[p].step = "none"
    /\ made < MaxChannels
    /\ Ask(Request("CREATE_CHANNEL", p))
    /\ UNCHANGED <<sent, delivered>>

\* Everything sent was received.
Idle(ch) == sent[ch] = Len(got[ch])

AskDestroy(ch) ==
    /\ alt[rx[ch]].step = "none"
    /\ Idle(ch)
    /\ Ask(On("DESTROY_CHANNEL", rx[ch], ch))
    /\ UNCHANGED <<sent, delivered>>

\* The i-th value sent on a channel is the number i.
AskSend(ch) ==
    /\ alt[tx[ch]].step = "none"
    /\ sent[ch] < MaxSends
    /\ Ask([On("SEND_MESSAGE", tx[ch], ch) EXCEPT !.message = sent[ch] + 1])
    /\ sent' = [sent EXCEPT ![ch] = @ + 1]
    /\ delivered' = [delivered EXCEPT ![ch] = 0]

AskReceive(ch) ==
    /\ alt[rx[ch]].step = "none"
    /\ Ask(On("RECEIVE_MESSAGE", rx[ch], ch))
    /\ UNCHANGED <<sent, delivered>>

AskAltStart(p) ==
    /\ alt[p].step = "none"
    /\ Ask(Request("ALT_START", p))
    /\ UNCHANGED <<sent, delivered>>

AskEnable(ch) ==
    /\ alt[rx[ch]].step = "enable"
    /\ ch \notin alt[rx[ch]].arms
    /\ Ask(On("ENABLE_CHANNEL", rx[ch], ch))
    /\ UNCHANGED <<sent, delivered>>

AskAltWait(p) ==
    /\ alt[p].step = "enable"
    /\ alt[p].arms # {}
    /\ Ask(Request("ALT_WAIT", p))
    /\ UNCHANGED <<sent, delivered>>

\* The core remembers that the alternation has a value.
AskDisable(ch) ==
    /\ alt[rx[ch]].step = "disable"
    /\ ch \in alt[rx[ch]].arms
    /\ Ask([On("DISABLE_CHANNEL", rx[ch], ch) EXCEPT
                !.hadMessage = alt[rx[ch]].taken > 0])
    /\ UNCHANGED <<sent, delivered>>

AskAltEnd(p) ==
    /\ alt[p].step = "disable"
    /\ alt[p].arms = {}
    /\ Ask(Request("ALT_END", p))
    /\ UNCHANGED <<sent, delivered>>

enabled == handler = "start" \/ (handler = "busy" /\ ~ccFinished)

Wait ==
    /\ enabled
    /\ handler' = "busy"
    /\ waited' = waited + 1
    /\ Edge(request)
    /\ UNCHANGED <<request, clientVars>>

\* The scheduler takes a process off and puts another on.
Rescheduled ==
    [p \in Processes |->
        CASE answer.schedules /\ p = answer.schedulePid -> NoRequest
          [] answer.deschedules /\ p = answer.deschedulePid -> request
          [] OTHER -> parked[p]]

\* A value is put on the stack of the process that asked for it or, when it is
\* sent, of the one that is woken.
Delivered ==
    IF answer.hasMessage
    THEN [delivered EXCEPT ![request.channel] = @ + 1]
    ELSE delivered

\* The instruction that a value is the result of: the receive, which may have
\* stopped before the value was sent, or the disable.
Taken ==
    IF /\ answer.hasMessage
       /\ request.op = "SEND_MESSAGE" => alt[rx[request.channel]].step = "none"
    THEN [got EXCEPT ![request.channel] = Append(@, answer.message)]
    ELSE got

SenderAt(ch) ==
    /\ parked[tx[ch]].op = "SEND_MESSAGE" /\ parked[tx[ch]].channel = ch
    /\ ch \notin late

\* The alternation of p took a value or has a sender.
HasValue(p) == alt[p].taken > 0 \/ \E ch \in alt[p].arms : SenderAt(ch)

\* A sender comes to an arm when the alternation has been woken.
ComesLate ==
    /\ request.op = "SEND_MESSAGE"
    /\ request.channel \in alt[rx[request.channel]].arms
    /\ HasValue(rx[request.channel])

\* Whom the scheduler is given is not stopped.
GoesAstray ==
    answer.schedules /\ (answer.schedulePid \notin Processes
                            \/ Runs(answer.schedulePid))

Progress(op, a) ==
    CASE op = "ALT_START" -> [a EXCEPT !.step = "enable"]
      [] op = "ENABLE_CHANNEL" ->
            [a EXCEPT !.arms = @ \cup {request.channel}]
      [] op = "ALT_WAIT" -> [a EXCEPT !.step = "disable"]
      [] op = "DISABLE_CHANNEL" ->
            [a EXCEPT !.arms = @ \ {request.channel},
                      !.taken = IF answer.hasMessage THEN @ + 1 ELSE @]
      [] op = "ALT_END" -> NoAlternation
      [] OTHER -> a

Finish ==
    /\ handler = "busy"
    /\ ccFinished
    /\ handler' = "idle"
    /\ parked' = Rescheduled
    /\ alt' = [alt EXCEPT ![request.pid] = Progress(request.op, @)]
    /\ request' = NoRequest
    /\ waited' = 0
    /\ astray' = GoesAstray
    /\ DisabledEdge(request)

Created ==
    /\ Finish
    /\ answer.hasChannel
    /\ live' = live \cup {channelOut}
    /\ made' = made + 1
    /\ \E e \in Ends :
         /\ tx' = [tx EXCEPT ![channelOut] = e[1]]
         /\ rx' = [rx EXCEPT ![channelOut] = e[2]]
    /\ sent' = [sent EXCEPT ![channelOut] = 0]
    /\ delivered' = [delivered EXCEPT ![channelOut] = 0]
    /\ got' = [got EXCEPT ![channelOut] = <<>>]
    /\ UNCHANGED <<late, cleared>>

Finished ==
    /\ Finish
    /\ ~answer.hasChannel
    /\ live' = IF request.op = "DESTROY_CHANNEL" THEN live \ {request.channel}
                                                 ELSE live
    /\ delivered' = Delivered
    /\ got' = Taken
    /\ late' = IF ComesLate THEN late \cup {request.channel} ELSE late
    /\ cleared' = IF ComesLate THEN cleared \cup {request.channel}
                  ELSE IF request.op = "DISABLE_CHANNEL"
                       THEN cleared \ {request.channel} ELSE cleared
    /\ UNCHANGED <<made, tx, rx, sent>>

\* The handler has other messages in hand.
Elsewhere ==
    /\ handler = "idle"
    /\ DisabledEdge(request)
    /\ UNCHANGED <<handler, request, waited, clientVars>>

Next ==
    \/ \E p \in Processes : AskCreate(p)
    \/ \E ch \in live : AskDestroy(ch)
    \/ \E ch \in live : AskSend(ch)
    \/ \E ch \in live : AskReceive(ch)
    \/ \E p \in Processes : AskAltStart(p)
    \/ \E ch \in live : AskEnable(ch)
    \/ \E p \in Processes : AskAltWait(p)
    \/ \E ch \in live : AskDisable(ch)
    \/ \E p \in Processes : AskAltEnd(p)
    \/ Wait
    \/ Created
    \/ Finished
    \/ Elsewhere

Spec == Init /\ [][Next]_vars

-----------------------------------------------------------------------------
\* The values that receives and disables take from a channel are those sent on
\* it, each once and in order, the next one being sent when the last was taken,
\* and a new channel is none of those in use (Send.v, Receive.v, Disable.v and
\* the heap of ChannelController.v).  It says nothing of the stacks: the value
\* of a sender that wakes an alternation is put on its stack twice (Delivery).
Abstract == INSTANCE SynchronousChannels WITH Channels <- MemoryAddresses
ChannelsSynchronous == Abstract!Spec

\* p waits where it will be found: its number is in the word of a channel it
\* sends to, together with the value; of a channel it receives from; or of
\* every arm of an alternation none of whose arms has a sender.
Found(p) ==
    \/ \E ch \in live :
         /\ p = tx[ch]
         /\ channelRam[ch] = p
         /\ channelRam[MessageAt(ch)] = sent[ch] /\ ~Idle(ch)
    \/ \E ch \in live : p = rx[ch] /\ channelRam[ch] = p /\ alt[p].arms = {}
    \/ /\ alt[p].arms # {}
       /\ p \in alternationSet \ alternationReadySet
       /\ \A ch \in alt[p].arms : channelRam[ch] = p

\* Between requests a stopped process will be found, but for the sender that
\* came to an enabled arm of an alternation that had been woken; and the word
\* of a channel holds the number of no process but one that is stopped at it
\* or looks at it as an arm (the units and their use of the alternation sets).
StoppedAreParked ==
    handler = "idle" /\ ~astray =>
        /\ \A p \in Processes :
             ~Runs(p) => Found(p) \/ \E ch \in late : p = tx[ch]
        /\ \A ch \in live : channelRam[ch] # 0 =>
             \/ channelRam[ch] \in {tx[ch], rx[ch]} /\ ~Runs(channelRam[ch])
             \/ channelRam[ch] = rx[ch] /\ ch \in alt[rx[ch]].arms

\* How often the last value of a channel was put on a stack.  One that was not
\* taken is on none, but for that of a sender that woke the alternation, which
\* has had it once and has yet to disable the arm; one that was taken was put
\* there once, or twice.
Delivery(ch) ==
    /\ ~Idle(ch) => \/ delivered[ch] = 0
                    \/ delivered[ch] = 1 /\ SenderAt(ch) /\ ch \in alt[rx[ch]].arms
    /\ Idle(ch) /\ sent[ch] > 0 => delivered[ch] \in {1, 2}

\* An alternation that comes to its end took exactly one value, in whatever
\* order it disables its arms (Send.v, Enable.v, Disable.v), and a value is put
\* on a stack when it is taken.  Once more it is put there only when its sender
\* wakes an alternation, which has it then and again when it disables the arm
\* (ProcessorMessageHandler.v).
AlternationTakesOne ==
    /\ handler = "busy" /\ ccFinished /\ request.op = "ALT_END" =>
          alt[request.pid].taken = 1
    /\ \A ch \in live : Delivery(ch)

\* Every request is answered, and within seven cycles: no unit is left in a
\* state that it does not leave (the message handler waits without a limit).
AnsweredInTime == handler # "idle" => waited <= 7
=============================================================================
