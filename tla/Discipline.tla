----------------------------- MODULE Discipline -----------------------------
(***************************************************************************)
(* What a program owes the simulated processor, and what it then may rely  *)
(* on.                                                                     *)
(*                                                                         *)
(* Statick gives each end of a channel to one process at a time, and       *)
(* drops a channel when both ends are back in one hand.  The processor     *)
(* checks none of this.  Disciplined says it of what the processes do, at  *)
(* the moment in which a tick begins to handle their messages; the         *)
(* invariant below is what Processor::tick makes of it, at every step.     *)
(***************************************************************************)
EXTENDS Processor

-----------------------------------------------------------------------------
(* The program's side.                                                     *)

\* Process p executed `op` on ch last.
LastOn(p, op, ch) ==
  LastInstruction(p).op = op /\ env[p][LastInstruction(p).name] = ch

\* The processes at an end of a channel: stopped there, or just arriving.
AtEnd(op, ch) ==
  {p \in Pids : proc[p] = Inactive /\ LastOn(p, op, ch)}
    \cup {corePid[c] : c \in Issuing(op, ch)}

(***************************************************************************)
(* A program without alternations keeps within its instructions, operates  *)
(* on channels that exist, has at most one process at each end of a        *)
(* channel, and deletes a channel once, when nobody is at either end.      *)
(***************************************************************************)
OnChannels == {"send", "recv", "del"}
Plain == OnChannels \cup {"none", "yield", "halt", "start", "chan"}

Disciplined ==
  /\ phase = "cores" => \A c \in Busy : pc[corePid[c]] \in DOMAIN Code
  /\ phase = "handle" /\ at = 0 =>
       /\ \A c \in Cores : msg[c].op \in Plain
       /\ \A c \in Cores : msg[c].op \in OnChannels => msg[c].chan \in live
       /\ \A op \in {"send", "recv"}, ch \in live :
            \A p, q \in AtEnd(op, ch) : p = q
       /\ \A c \in Cores : msg[c].op = "del" =>
            /\ Issuing("del", msg[c].chan) = {c}
            /\ AtEnd("send", msg[c].chan) = {} /\ AtEnd("recv", msg[c].chan) = {}

(***************************************************************************)
(* Two processes never start one in the same tick: new_process would give  *)
(* both the same slot, which only the Schedule task marks.                 *)
(***************************************************************************)
OneStartATick ==
  phase = "handle" /\ at = 0 =>
    \A c, d \in Cores : msg[c].op = "start" /\ msg[d].op = "start" => c = d

(***************************************************************************)
(* The slot that new_process finds was never used: current_pid_to_alloc_   *)
(* number has one number for each slot.                                    *)
(***************************************************************************)
FirstDead(p) == p \in DeadPids /\ \A q \in DeadPids : p <= q
NoSlotReused ==
  phase = "handle" /\ at = 0 /\ (\E c \in Cores : msg[c].op = "start") =>
    \A p \in DeadPids : FirstDead(p) => p \notin DOMAIN allocNumber

-----------------------------------------------------------------------------
(* What is left to do in a tick.                                           *)

\* The positions of the tasks that will still stop, or wake, a process.
StopsLeft ==
  {i \in 1 .. Len(tasks) :
     /\ tasks[i].kind # "schedule"
     /\ \/ phase \in {"handle", "deliver"}
        \/ phase = "deschedule" /\ i >= at}
WakesLeft ==
  {i \in 1 .. Len(tasks) :
     /\ tasks[i].kind = "schedule"
     /\ \/ phase \in {"handle", "deliver", "deschedule"}
        \/ phase = "schedule" /\ i >= at}

Stopping(p) == \E i \in StopsLeft : tasks[i].pid = p
Waking(p) == \E i \in WakesLeft : tasks[i].pid = p
Stopped(p) == proc[p] = Inactive \/ Stopping(p)

-----------------------------------------------------------------------------
(* The invariant.                                                          *)

Answers == {"none", "created", "receive"}

\* The kinds of what TypeOK leaves out.
Kept ==
  /\ pc \in [Cells -> Nat]
  /\ DOMAIN env = Cells
  /\ DOMAIN value = Channels
  /\ sent \in [Channels -> Nat]
  /\ got \in [Channels -> Seq(Nat)]
  /\ live \in SUBSET Channels
  /\ DOMAIN msg = Cores /\ \A c \in Cores : msg[c].to \in Nat
  /\ DOMAIN ret = Cores

\* Only the cells left for processes run.
OnPids == \A c \in Cores : corePid[c] \in Pids \cup {NoProcess}

\* A tick begins with nothing to do.
NothingLeft ==
  phase = "cores" => tasks = <<>> /\ \A c \in Cores : ret[c].kind = "none"

(***************************************************************************)
(* The channels there are and the freed ones are blocks below heap_end,    *)
(* and the free list runs through blocks that nobody holds, although       *)
(* processes write the words of the others: no freed block is linked to    *)
(* twice, and none to the head.                                            *)
(***************************************************************************)
Links(F) ==
  /\ F \cap live = {}
  /\ heapFree \in F \cup {0}
  /\ \A a \in F : word[a] \in F \cup {0} /\ (heapFree # 0 => word[a] # heapFree)
  /\ \A a, b \in F : word[a] = word[b] /\ word[a] # 0 => a = b
Blocks(end) == {a \in Channels : (a - CellCount) % 4 = 0 /\ a + 4 <= end}
FreeChannelsLinked ==
  /\ heapEnd \in Channels /\ (heapEnd - CellCount) % 4 = 0
  /\ live \subseteq Blocks(heapEnd)
  /\ \E F \in SUBSET Blocks(heapEnd) : Links(F)

\* The message of a core is what its process executed last.
MessagesAreNews ==
  phase \in {"handle", "deliver"} =>
    \A c \in Cores : msg[c].op # "none" =>
      LET p == corePid[c]
      IN  /\ p # NoProcess
          /\ LastInstruction(p).op = msg[c].op
          /\ msg[c].op \in OnChannels =>
               env[p][LastInstruction(p).name] = msg[c].chan

\* What is left of the program's promise while messages are handled.
Meets(ch) == Offered(ch) /\ Listening(ch)
Promised ==
  phase \in {"handle", "deliver"} =>
    /\ \A c \in Cores : msg[c].op \in Plain
    /\ \A c \in Cores : /\ msg[c].op \in {"send", "recv"} => msg[c].chan \in live
                        /\ msg[c].op = "del" /\ c >= at /\ phase = "handle" =>
                             msg[c].chan \in live
    /\ \A c, d \in Cores :
         /\ c # d
         /\ msg[c].op \in OnChannels /\ msg[d].op \in OnChannels
         /\ msg[c].chan = msg[d].chan
         => {msg[c].op, msg[d].op} = {"send", "recv"}
    /\ \A ch \in live : Meets(ch) => word[ch] = NoProcess
    /\ phase = "handle" =>
         \A c \in Cores : c >= at /\ msg[c].op \in OnChannels
                            /\ word[msg[c].chan] # NoProcess =>
           LET last == LastInstruction(word[msg[c].chan]).op
           IN  \/ msg[c].op = "send" /\ last = "recv"
               \/ msg[c].op = "recv" /\ last = "send"

\* A value handed over inside the tick is the one offered.
AnswersAreNews ==
  phase \in {"handle", "deliver"} =>
    \A c \in Cores :
      /\ ret[c].kind \in Answers
      /\ ret[c].kind = "created" => msg[c].op = "chan"
      /\ (ret[c].kind = "receive") <=>
           /\ msg[c].op = "recv" /\ Offered(msg[c].chan)
           /\ phase = "handle" => c < at
      /\ ret[c].kind = "receive" =>
           ret[c].chan = msg[c].chan /\ ret[c].value = sent[msg[c].chan]

\* Who will be stopped runs, and is stopped once; who ends has said so.
StopsKnown ==
  /\ \A i \in StopsLeft :
       /\ tasks[i].pid \in Pids /\ IsRunning(tasks[i].pid)
       /\ tasks[i].kind = "destroy" => LastInstruction(tasks[i].pid).op = "halt"
       /\ tasks[i].kind # "destroy" => LastInstruction(tasks[i].pid).op # "halt"
       /\ phase = "handle" => \E c \in Cores : c < at /\ corePid[c] = tasks[i].pid
  /\ \A i, j \in StopsLeft : tasks[i].pid = tasks[j].pid => i = j

\* Who will be woken is new, or is stopped or about to be.
WakesKnown ==
  \A i \in WakesLeft :
    /\ tasks[i].pid \in Pids
    /\ phase # "schedule" =>
         LET p == tasks[i].pid
         IN  \/ proc[p] = Dead
             \/ Stopped(p) /\ LastInstruction(p).op \in {"send", "recv"}

(***************************************************************************)
(* A process is in the word of a channel if and only if it stops there and *)
(* nobody has woken it yet.                                                *)
(***************************************************************************)
WordsKnown ==
  \A ch \in live : word[ch] # NoProcess =>
    /\ word[ch] \in Pids
    /\ Stopped(word[ch]) /\ ~Waking(word[ch])
    /\ \E op \in {"send", "recv"} : LastOn(word[ch], op, ch)
StoppedKnown ==
  \A p \in Pids : Stopped(p) =>
    \/ Waking(p)
    \/ LastInstruction(p).op \in {"yield", "halt"}
    \/ \E ch \in live : word[ch] = p

(***************************************************************************)
(* Where the value is that was sent and not received: with a sender whose  *)
(* message is not handled yet, in a meeting inside the tick, or with the   *)
(* sender in the channel's word.                                           *)
(***************************************************************************)
SenderIn(ch) == word[ch] # NoProcess /\ LastInstruction(word[ch]).op = "send"
ToHandle(ch) ==
  phase = "handle" /\ ~Listening(ch) /\ \E c \in Issuing("send", ch) : c >= at
ToDeliver(ch) ==
  Offered(ch) /\ \E c \in Issuing("recv", ch) :
                   phase = "handle" \/ (phase = "deliver" /\ c >= at)
InFlight(ch) == SenderIn(ch) \/ ToHandle(ch) \/ ToDeliver(ch)

ValuesKnown ==
  \A ch \in live :
    /\ sent[ch] = Len(got[ch]) + (IF InFlight(ch) THEN 1 ELSE 0)
    /\ SenderIn(ch) => value[ch] = sent[ch]
    /\ phase = "handle" =>
         \A c \in Issuing("send", ch) : msg[c].value = sent[ch]

GotInOrder == \A ch \in live : \A i \in 1 .. Len(got[ch]) : got[ch][i] = i

Lasting == Kept /\ OnPids /\ FreeChannelsLinked /\ GotInOrder

InTick ==
  /\ NothingLeft /\ MessagesAreNews /\ Promised /\ AnswersAreNews
  /\ StopsKnown /\ WakesKnown /\ WordsKnown /\ StoppedKnown
  /\ ValuesKnown

Meetings == Lasting /\ (phase # "failed" => InTick)

-----------------------------------------------------------------------------
(* What NoProcessLost and FinalStacksDistinct need besides.                *)

\* The processes there are, and those about to be.
Alive == {p \in Pids : proc[p] # Dead \/ Waking(p)}

StartsKnown ==
  phase = "handle" =>
    /\ \A c, d \in Cores : msg[c].op = "start" /\ msg[d].op = "start" => c = d
    /\ \A p \in Pids : proc[p] = Dead /\ Waking(p) =>
         \E c \in Cores : c < at /\ msg[c].op = "start"
Counted ==
  phase # "failed" =>
    StartsKnown /\ started \in Nat /\ ended \in Nat
    /\ Cardinality(Alive) = started - ended

Numbers == DOMAIN allocNumber
Numbered ==
  /\ Numbers \subseteq Pids
  /\ \A p \in Numbers : allocNumber[p] \in Nat /\ allocNumber[p] < Cardinality(Numbers)
  /\ \A p, q \in Numbers : allocNumber[p] = allocNumber[q] => p = q
  /\ Cardinality(finalStacks) = ended
  /\ phase # "failed" =>
       /\ Alive \subseteq Numbers
       /\ finalStacks = {allocNumber[p] : p \in Numbers \ Alive}
       /\ phase = "handle" /\ (\E c \in Cores : c >= at /\ msg[c].op = "start") =>
            \A p \in DeadPids : FirstDead(p) => p \notin Numbers

-----------------------------------------------------------------------------
(***************************************************************************)
(* The channels are what an allocator of blocks hands out (create_channel  *)
(* and DeleteChannel, on top of the heap): no two of them share a word,    *)
(* although the words of a channel, which processes write, are also where  *)
(* the heap keeps its links.                                               *)
(***************************************************************************)
ChannelAllocator == INSTANCE Allocator
                      WITH Base <- CellCount, Max <- ChannelLimit, Size <- 4,
                           held <- Cardinality(live)

ChannelsAllocated == ChannelAllocator!Spec

(***************************************************************************)
(* The channels of the processor are synchronous: whatever the order in    *)
(* which a tick handles messages and carries out tasks, a second value is  *)
(* not sent before the first is received, each value is received once, as  *)
(* it was sent, and no channel is deleted with a value on its way.         *)
(***************************************************************************)
SynchronousChannel == INSTANCE SynchronousChannels

ChannelsSynchronous == SynchronousChannel!Spec
==============================================================================
