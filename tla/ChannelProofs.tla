---------------------------- MODULE ChannelProofs ----------------------------
(***************************************************************************)
(* Proofs about the channels of Processor, for every number of cores and   *)
(* processes and every program that keeps the discipline of its channels.  *)
(***************************************************************************)
EXTENDS Discipline, ProcessorProofs, Multiples, FiniteSetTheorems

USE DEF NoProcess

-----------------------------------------------------------------------------
(* Constants.                                                              *)

LEMMA NumbersApart ==
  /\ Pids \subseteq Cells /\ Cells \subseteq Nat /\ 0 \notin Pids
  /\ Channels \subseteq Nat /\ 0 \notin Channels
  /\ CellCount \in Nat /\ 0 < CellCount
  /\ \A ch \in Channels : ch >= CellCount
<1>1. CellCount \in Nat /\ 0 < CellCount
  BY CoresAssumption DEF CellCount
<1>2. Channels = CellCount .. ChannelLimit
  BY DEF Channels, ChannelHeap!Addresses
<1>3. QED
  BY <1>1, <1>2, ConstantsTyped, ChannelLimitAssumption

\* A cell's number as a channel's word is that cell, outside an alternation.
LEMMA PlainWords ==
  ASSUME NEW w \in Pids \cup {NoProcess}
  PROVE  PidOf(w) = w /\ ~InAlternation(w)
<1>1. w \in Nat /\ w < AltBit
  <2>1. w \in Cells
    BY ConstantsTyped
  <2>2. CellCount < AltBit /\ CellCount \in Nat
    BY ChannelLimitAssumption, CoresAssumption DEF CellCount, AltBit
  <2>3. QED
    BY <2>1, <2>2 DEF Cells, AltBit
<1>2. QED
  BY <1>1 DEF PidOf, InAlternation, AltBit

-----------------------------------------------------------------------------
(* Tasks.                                                                  *)

LEMMA AddsNothing ==
  ASSUME phase = "handle", phase' = "handle", tasks' = tasks
  PROVE  StopsLeft' = StopsLeft /\ WakesLeft' = WakesLeft
BY DEF StopsLeft, WakesLeft

LEMMA AddsOne ==
  ASSUME tasks \in Seq(Task), phase = "handle", phase' = "handle",
         NEW t \in Task, AddTasks(<<t>>)
  PROVE  /\ StopsLeft' = StopsLeft \cup
              (IF t.kind = "schedule" THEN {} ELSE {Len(tasks) + 1})
         /\ WakesLeft' = WakesLeft \cup
              (IF t.kind = "schedule" THEN {Len(tasks) + 1} ELSE {})
         /\ StopsLeft \cup WakesLeft \subseteq 1 .. Len(tasks)
         /\ Len(tasks) \in Nat /\ tasks' \in Seq(Task)
         /\ tasks'[Len(tasks) + 1] = t
         /\ \A i \in 1 .. Len(tasks) : tasks'[i] = tasks[i]
<1>1. tasks' = tasks \o <<t>>
  BY DEF AddTasks
<1>2. /\ Len(tasks') = Len(tasks) + 1 /\ Len(tasks) \in Nat
      /\ tasks' \in Seq(Task)
      /\ tasks'[Len(tasks) + 1] = t
      /\ \A i \in 1 .. Len(tasks) : tasks'[i] = tasks[i]
  BY <1>1
<1>3. \A i : i \in 1 .. Len(tasks') <=> i \in 1 .. Len(tasks) \/ i = Len(tasks) + 1
  BY <1>2
<1>4. QED
  BY <1>2, <1>3 DEF StopsLeft, WakesLeft

LEMMA AddsAStop ==
  ASSUME tasks \in Seq(Task), phase = "handle", phase' = "handle",
         NEW t \in Task, t.kind # "schedule", AddTasks(<<t>>)
  PROVE  /\ \A p : Stopping(p)' <=> Stopping(p) \/ p = t.pid
         /\ \A p : Waking(p)' <=> Waking(p)
BY AddsOne DEF Stopping, Waking

LEMMA AddsAWake ==
  ASSUME tasks \in Seq(Task), phase = "handle", phase' = "handle",
         NEW t \in Task, t.kind = "schedule", AddTasks(<<t>>)
  PROVE  /\ \A p : Stopping(p)' <=> Stopping(p)
         /\ \A p : Waking(p)' <=> Waking(p) \/ p = t.pid
BY AddsOne DEF Stopping, Waking

-----------------------------------------------------------------------------
(* The heap.                                                               *)

\* The list stays as it is while processes write the words of their channels.
LEMMA FreeListUntouched ==
  ASSUME FreeChannelsLinked, UNCHANGED <<heapEnd, heapFree, live>>,
         \A a \in Channels \ live : word'[a] = word[a]
  PROVE  FreeChannelsLinked'
<1>1. PICK F \in SUBSET Blocks(heapEnd) : Links(F)
  BY DEF FreeChannelsLinked
<1>2. F \subseteq Channels
  BY DEF Blocks
<1>3. Links(F)'
  BY <1>1, <1>2 DEF Links
<1>4. QED
  BY <1>3 DEF FreeChannelsLinked

\* Different blocks share no word.
Apart(a, b) == a + 4 <= b \/ b + 4 <= a

LEMMA BlocksApart ==
  ASSUME NEW a \in Channels, NEW b \in Channels, a # b,
         (a - CellCount) % 4 = 0, (b - CellCount) % 4 = 0
  PROVE  Apart(a, b)
<1>1. a - CellCount \in Nat /\ b - CellCount \in Nat
  BY NumbersApart
<1>2. PICK m \in Nat : m = a - CellCount
  BY <1>1
<1>3. PICK n \in Nat : n = b - CellCount
  BY <1>1
<1>4. m + 4 <= n \/ n + 4 <= m
  <2>1. m # n
    BY <1>2, <1>3, NumbersApart
  <2>2. CASE m < n
    BY <1>2, <1>3, <2>2, MultiplesApart
  <2>3. CASE n < m
    BY <1>2, <1>3, <2>3, MultiplesApart
  <2>4. QED
    BY <2>1, <2>2, <2>3
<1>5. QED
  BY <1>2, <1>3, <1>4, NumbersApart DEF Apart

\* The block that alloc hands out is whole, and no word of it is anybody's.
LEMMA Allocates ==
  ASSUME FreeChannelsLinked, word \in [Channels -> Nat],
         live \subseteq Channels, NEW ch \in Channels,
         ChannelHeap!AllocNew(ch) \/ ChannelHeap!AllocFreed(ch),
         live' = live \cup {ch}, word' = [word EXCEPT ![ch] = NoProcess]
  PROVE  /\ ch \notin live /\ FreeChannelsLinked'
         /\ ch + 4 <= ChannelLimit /\ \A b \in live : Apart(ch, b)
<1>1. PICK F \in SUBSET Blocks(heapEnd) : Links(F)
  BY DEF FreeChannelsLinked
<1>2. /\ heapEnd \in Channels /\ heapEnd \in Nat /\ heapEnd <= ChannelLimit
      /\ ChannelLimit \in Nat
      /\ (heapEnd - CellCount) % 4 = 0
      /\ \A a \in live \cup F : /\ a \in Channels /\ a \in Nat /\ a + 4 <= heapEnd
                               /\ (a - CellCount) % 4 = 0
  BY <1>1, NumbersApart, ChannelLimitAssumption
     DEF FreeChannelsLinked, Blocks, Channels, ChannelHeap!Addresses
<1>3. CASE ChannelHeap!AllocNew(ch)
  <2>1. /\ ch = heapEnd /\ heapEnd' = heapEnd + 4 /\ heapFree' = heapFree
        /\ heapEnd + 4 <= ChannelLimit
    BY <1>3 DEF ChannelHeap!AllocNew, ChannelHeap!HasFresh
  <2>2. ch \notin live /\ ch \notin F
    BY <1>2, <2>1
  <2>3. Links(F)'
    BY <2>1, <2>2, <1>1 DEF Links
  <2>4. heapEnd' \in Channels /\ (heapEnd' - CellCount) % 4 = 0
    <3>1. heapEnd - CellCount \in Nat
      BY <1>2, NumbersApart
    <3>2. PICK n \in Nat : n = heapEnd - CellCount
      BY <3>1
    <3>3. (n + 4) % 4 = 0
      BY <1>2, <3>2
    <3>4. heapEnd' - CellCount = n + 4
      BY <1>2, <2>1, <3>2, NumbersApart
    <3>5. heapEnd' \in Channels
      BY <1>2, <2>1, NumbersApart DEF Channels, ChannelHeap!Addresses
    <3>6. QED
      BY <3>3, <3>4, <3>5
  <2>5. Blocks(heapEnd) \cup {ch} \subseteq Blocks(heapEnd')
    <3>1. \A a \in Channels : a + 4 <= heapEnd => a + 4 <= heapEnd'
      BY <1>2, <2>1, NumbersApart
    <3>2. ch + 4 <= heapEnd'
      BY <1>2, <2>1
    <3>3. ch \in Blocks(heapEnd')
      BY <1>2, <2>1, <3>2 DEF Blocks
    <3>4. Blocks(heapEnd) \subseteq Blocks(heapEnd')
      BY <3>1 DEF Blocks
    <3>5. QED
      BY <3>3, <3>4
  <2>6. live' \subseteq Blocks(heapEnd') /\ F \in SUBSET Blocks(heapEnd')
    BY <2>5 DEF FreeChannelsLinked
  <2>7. \A b \in live : Apart(ch, b)
    BY <1>2, <2>1 DEF Apart
  <2>8. FreeChannelsLinked'
    BY <2>3, <2>4, <2>6 DEF FreeChannelsLinked
  <2>9. QED
    BY <2>1, <2>2, <2>7, <2>8
<1>4. CASE ChannelHeap!AllocFreed(ch)
  <2>1. /\ ch = heapFree /\ heapFree # 0 /\ heapFree' = word[ch]
        /\ heapEnd' = heapEnd
    BY <1>4 DEF ChannelHeap!AllocFreed
  <2>2. ch \in F /\ ch \notin live
    BY <2>1, <1>1 DEF Links
  <2> DEFINE G == F \ {ch}
  <2>3. Links(G)'
    BY <2>1, <2>2, <1>1 DEF Links
  <2>4. live' \subseteq Blocks(heapEnd') /\ G \in SUBSET Blocks(heapEnd')
    BY <2>1, <2>2 DEF FreeChannelsLinked
  <2>5. ch + 4 <= ChannelLimit
    BY <1>2, <2>2
  <2>6. \A b \in live : Apart(ch, b)
    BY <1>2, <2>2, BlocksApart
  <2>7. FreeChannelsLinked'
    BY <2>1, <2>3, <2>4 DEF FreeChannelsLinked
  <2>8. QED
    BY <2>2, <2>5, <2>6, <2>7
<1>5. QED
  BY <1>3, <1>4

LEMMA Frees ==
  ASSUME FreeChannelsLinked, word \in [Channels -> Nat], NEW ch \in live,
         live \subseteq Channels,
         ChannelHeap!FreeBlock(ch), live' = live \ {ch}
  PROVE  FreeChannelsLinked' /\ \A c \in live' : word'[c] = word[c]
<1>1. PICK F \in SUBSET Blocks(heapEnd) : Links(F)
  BY DEF FreeChannelsLinked
<1>2. /\ heapFree' = ch /\ heapEnd' = heapEnd
      /\ word' = [word EXCEPT ![ch] = heapFree]
  BY DEF ChannelHeap!FreeBlock
<1>3. ch \notin F /\ ch # 0 /\ ch \in Channels /\ F \subseteq Channels
  BY <1>1, NumbersApart DEF Links, Blocks
<1> DEFINE G == F \cup {ch}
<1>4. Links(G)'
  BY <1>1, <1>2, <1>3 DEF Links
<1>5. live' \subseteq Blocks(heapEnd') /\ G \in SUBSET Blocks(heapEnd')
  BY <1>1, <1>2 DEF FreeChannelsLinked
<1>6. QED
  BY <1>2, <1>3, <1>4, <1>5 DEF FreeChannelsLinked

-----------------------------------------------------------------------------
(* The beginning of a tick.                                                *)

LEMMA InitMeetings == Init => Meetings
<1> SUFFICES ASSUME Init PROVE Meetings
  OBVIOUS
<1>1. Kept
  <2>1. pc \in [Cells -> Nat] /\ DOMAIN env = Cells /\ DOMAIN value = Channels
    BY DEF Init
  <2>2. sent \in [Channels -> Nat] /\ got \in [Channels -> Seq(Nat)]
    BY DEF Init
  <2>3. /\ DOMAIN msg = Cores /\ DOMAIN ret = Cores /\ live = {}
        /\ \A c \in Cores : msg[c] = NoMessage
    BY DEF Init
  <2>4. NoMessage.to = 0
    BY DEF NoMessage
  <2>5. QED
    BY <2>1, <2>2, <2>3, <2>4 DEF Kept
<1>2. OnPids
  BY CoresAssumption DEF Init, OnPids, Pids
<1>3. FreeChannelsLinked
  <2>1. Links({}) /\ live = {} /\ heapEnd = CellCount
    BY DEF Init, Links, ChannelHeap!HeapInit
  <2>2. CellCount \in Channels /\ (CellCount - CellCount) % 4 = 0
    BY NumbersApart, ChannelLimitAssumption DEF Channels, ChannelHeap!Addresses
  <2>3. QED
    BY <2>1, <2>2 DEF FreeChannelsLinked
<1>4. GotInOrder /\ ValuesKnown /\ WordsKnown
  BY DEF Init, GotInOrder, ValuesKnown, WordsKnown
<1>5. StopsLeft = {} /\ WakesLeft = {}
  BY DEF Init, StopsLeft, WakesLeft
<1>6. StopsKnown /\ WakesKnown /\ StoppedKnown
  <2>1. \A p \in Pids : proc[p] \in {Running(0), Dead}
    BY NumbersApart DEF Init
  <2>2. \A p \in Pids : proc[p] # Inactive
    BY <2>1 DEF Inactive, Running, Dead
  <2>3. QED
    BY <1>5, <2>2 DEF StopsKnown, WakesKnown, StoppedKnown, Stopped, Stopping
<1>7. NothingLeft /\ MessagesAreNews /\ Promised /\ AnswersAreNews
  BY DEF Init, NothingLeft, MessagesAreNews, Promised, AnswersAreNews, NoAnswer
<1>8. QED
  BY <1>1, <1>2, <1>3, <1>4, <1>6, <1>7 DEF Meetings, Lasting, InTick

\* What the cores do: a process that runs executes one instruction, and its
\* message, if it sends one, says which.
LEMMA CoresSpeak ==
  ASSUME IInv, Kept, Disciplined, CoresTick
  PROVE  /\ \A p \in Cells : ~IsRunning(p) => pc'[p] = pc[p]
         /\ pc' \in [Cells -> Nat] /\ sent' \in [Channels -> Nat]
         /\ DOMAIN msg' = Cores /\ \A c \in Cores : msg'[c].to \in Nat
         /\ \A c \in Cores : msg'[c].op # "none" =>
              /\ corePid[c] # NoProcess
              /\ LastInstruction(corePid[c])'.op = msg'[c].op
              /\ msg'[c].chan \in Channels =>
                   env[corePid[c]][LastInstruction(corePid[c])'.name]
                     = msg'[c].chan
         /\ \A c \in Cores : msg'[c].op = "send" /\ msg'[c].chan \in Channels =>
              msg'[c].value = sent[msg'[c].chan] + 1
         /\ \A ch \in Channels :
              sent'[ch] = IF Issuing("send", ch)' # {} THEN sent[ch] + 1
                          ELSE sent[ch]
<1>0. /\ corePid \in [Cores -> Cells] /\ pc \in [Cells -> Nat]
      /\ sent \in [Channels -> Nat]
  BY DEF IInv, TypeOK, Kept
<1>1. PICK late \in SUBSET {c \in Busy : spare[corePid[c]] > 0} :
        LET acting == Busy \ late
            on(p, cs) == \E c \in cs : corePid[c] = p
            coreOf(p) == CHOOSE c \in Busy : corePid[c] = p
        IN
        \E taken \in SUBSET {c \in acting : NextInstruction(c).op = "branch"} :
          /\ msg' = [c \in Cores |-> IF c \in acting THEN Message(c)
                                     ELSE NoMessage]
          /\ pc' = [p \in Cells |-> IF on(p, acting) THEN NextPC(coreOf(p), taken)
                                    ELSE pc[p]]
          /\ sent' = [ch \in Channels |->
                        IF \E c \in acting : /\ NextInstruction(c).op = "send"
                                             /\ ChannelOf(c) = ch
                        THEN sent[ch] + 1 ELSE sent[ch]]
  BY DEF CoresTick
<1> DEFINE acting == Busy \ late
           coreOf(p) == CHOOSE c \in Busy : corePid[c] = p
<1>2. PICK taken \in SUBSET {c \in acting : NextInstruction(c).op = "branch"} :
        /\ msg' = [c \in Cores |-> IF c \in acting THEN Message(c)
                                   ELSE NoMessage]
        /\ pc' = [p \in Cells |-> IF \E c \in acting : corePid[c] = p
                                  THEN NextPC(coreOf(p), taken) ELSE pc[p]]
        /\ sent' = [ch \in Channels |->
                      IF \E c \in acting : /\ NextInstruction(c).op = "send"
                                           /\ ChannelOf(c) = ch
                      THEN sent[ch] + 1 ELSE sent[ch]]
  BY <1>1
<1>3. phase = "cores" /\ corePid' = corePid
  BY DEF CoresTick, tableVars
<1>4. \A c \in Busy : c \in Cores /\ corePid[c] # NoProcess
                      /\ proc[corePid[c]] = Running(c) /\ corePid[c] \in Cells
  BY <1>0 DEF Busy, IInv, CoresAndTableAgree
<1>5. \A c \in Busy : coreOf(corePid[c]) = c
  <2> SUFFICES ASSUME NEW c \in Busy PROVE coreOf(corePid[c]) = c
    OBVIOUS
  <2>1. coreOf(corePid[c]) \in Busy /\ corePid[coreOf(corePid[c])] = corePid[c]
    OBVIOUS
  <2>2. QED
    BY <2>1, <1>4 DEF Running
<1>6. \A c \in Busy : /\ NextInstruction(c) = Code[pc[corePid[c]]]
                      /\ pc[corePid[c]] \in Nat
                      /\ NextInstruction(c).to \in Nat
  <2> SUFFICES ASSUME NEW c \in Busy
               PROVE  /\ NextInstruction(c) = Code[pc[corePid[c]]]
                      /\ pc[corePid[c]] \in Nat
                      /\ NextInstruction(c).to \in Nat
    OBVIOUS
  <2>1. pc[corePid[c]] \in DOMAIN Code /\ pc[corePid[c]] \in Nat
    BY <1>0, <1>3, <1>4 DEF Disciplined
  <2>2. Code[pc[corePid[c]]] \in [op : STRING, name : STRING, to : Nat]
    <3>1. \A S : \A s \in Seq(S) : \A i \in DOMAIN s : s[i] \in S
      OBVIOUS
    <3>2. QED
      BY <2>1, <3>1, CodeAssumption
  <2>3. QED
    BY <2>1, <2>2 DEF NextInstruction
<1>7. \A c \in acting : c \in Busy /\ c \in Cores
  BY <1>4
<1>8. \A c \in acting : pc'[corePid[c]] = NextPC(c, taken)
  BY <1>2, <1>4, <1>5, <1>7
<1>9. \A c \in acting : NextPC(c, taken) \in Nat
  BY <1>6, <1>7 DEF NextPC
<1>10. pc' \in [Cells -> Nat]
  <2>1. \A p \in Cells : pc'[p] \in Nat
    BY <1>0, <1>2, <1>8, <1>9
  <2>2. QED
    BY <1>2, <2>1
<1>11. \A p \in Cells : ~IsRunning(p) => pc'[p] = pc[p]
  <2> SUFFICES ASSUME NEW p \in Cells, ~IsRunning(p) PROVE pc'[p] = pc[p]
    OBVIOUS
  <2>1. \A c \in Cores : Running(c).tag = "running"
    BY DEF Running
  <2>2. ~ \E c \in acting : corePid[c] = p
    BY <2>1, <1>4, <1>7 DEF IsRunning
  <2>3. QED
    BY <2>2, <1>2
<1>12. sent' \in [Channels -> Nat] /\ DOMAIN msg' = Cores
  BY <1>0, <1>2
<1>13. ASSUME NEW c \in Cores
       PROVE  /\ msg'[c].to \in Nat
              /\ msg'[c].op # "none" =>
                   /\ c \in acting
                   /\ msg'[c].op = NextInstruction(c).op
                   /\ msg'[c].chan = ChannelOf(c)
                   /\ pc'[corePid[c]] = pc[corePid[c]] + 1
              /\ c \in acting /\ NextInstruction(c).op = "send" =>
                   msg'[c].op = "send" /\ msg'[c].chan = ChannelOf(c)
              /\ msg'[c].op = "send" /\ msg'[c].chan \in Channels =>
                   msg'[c].value = sent[msg'[c].chan] + 1
  <2>1. msg'[c] = IF c \in acting THEN Message(c) ELSE NoMessage
    BY <1>2
  <2>2. CASE c \in acting /\ NextInstruction(c).op \notin {"jump", "branch"}
    <3>1. msg'[c] = [op |-> NextInstruction(c).op, name |-> NextInstruction(c).name,
                     chan |-> ChannelOf(c), to |-> NextInstruction(c).to,
                     value |-> IF NextInstruction(c).op = "send"
                                  /\ ChannelOf(c) \in Channels
                               THEN sent[ChannelOf(c)] + 1 ELSE 0]
      BY <2>1, <2>2 DEF Message
    <3>2. NextPC(c, taken) = pc[corePid[c]] + 1
      BY <2>2 DEF NextPC
    <3>3. QED
      BY <2>2, <3>1, <3>2, <1>6, <1>7, <1>8
  <2>3. CASE ~(c \in acting /\ NextInstruction(c).op \notin {"jump", "branch"})
    <3>1. msg'[c] = NoMessage
      BY <2>1, <2>3 DEF Message
    <3>2. NoMessage.op = "none" /\ NoMessage.to = 0
      BY DEF NoMessage
    <3>3. ~(c \in acting /\ NextInstruction(c).op = "send")
      BY <2>3
    <3>4. QED
      BY <3>1, <3>2, <3>3
  <2>4. QED
    BY <2>2, <2>3
<1>14. ASSUME NEW c \in Cores, msg'[c].op # "none"
       PROVE  /\ corePid[c] # NoProcess
              /\ LastInstruction(corePid[c])'.op = msg'[c].op
              /\ msg'[c].chan \in Channels =>
                   env[corePid[c]][LastInstruction(corePid[c])'.name]
                     = msg'[c].chan
  <2>1. c \in Busy /\ corePid[c] # NoProcess
    BY <1>4, <1>7, <1>13, <1>14
  <2>2. LastInstruction(corePid[c])' = NextInstruction(c)
    <3>1. LastInstruction(corePid[c])' = Code[pc'[corePid[c]] - 1]
      BY <1>3 DEF LastInstruction
    <3>2. pc'[corePid[c]] = pc[corePid[c]] + 1 /\ pc[corePid[c]] \in Nat
      BY <1>6, <1>13, <1>14, <2>1
    <3>3. pc'[corePid[c]] - 1 = pc[corePid[c]]
      BY <3>2
    <3>4. QED
      BY <3>1, <3>3, <1>6, <2>1
  <2>3. ChannelOf(c) \in Channels =>
          ChannelOf(c) = env[corePid[c]][NextInstruction(c).name]
    BY NumbersApart DEF ChannelOf
  <2>4. QED
    BY <2>1, <2>2, <2>3, <1>13, <1>14
<1>15. ASSUME NEW ch \in Channels
       PROVE  sent'[ch] = IF Issuing("send", ch)' # {} THEN sent[ch] + 1
                          ELSE sent[ch]
  <2>1. Issuing("send", ch)' # {} <=>
          \E c \in acting : NextInstruction(c).op = "send" /\ ChannelOf(c) = ch
    BY <1>7, <1>13 DEF Issuing
  <2>2. QED
    BY <2>1, <1>2
<1>16. QED
  BY <1>10, <1>11, <1>12, <1>13, <1>14, <1>15

LEMMA CoresTickMeetings ==
  ASSUME IInv, Meetings, Disciplined, Disciplined', CoresTick
  PROVE  Meetings'
<1>1. /\ phase = "cores" /\ phase' = "handle" /\ at' = 0
      /\ UNCHANGED <<ret, tasks, env, corePid, proc, word, value, heapEnd,
                     heapFree, live, got>>
  BY DEF CoresTick, tableVars, channelVars
<1>2. /\ Kept /\ OnPids /\ FreeChannelsLinked /\ GotInOrder /\ NothingLeft
      /\ WordsKnown /\ StoppedKnown /\ ValuesKnown
  BY <1>1 DEF Meetings, Lasting, InTick
<1>3. /\ StopsLeft = {} /\ WakesLeft = {} /\ StopsLeft' = {} /\ WakesLeft' = {}
  BY <1>1, <1>2 DEF NothingLeft, StopsLeft, WakesLeft
<1>4. \A p : /\ ~Waking(p) /\ ~Waking(p)'
             /\ Stopped(p) <=> proc[p] = Inactive
             /\ Stopped(p)' <=> proc[p] = Inactive
  BY <1>1, <1>3 DEF Waking, Stopped, Stopping
<1>5. \A p \in Cells : proc[p] = Inactive => LastInstruction(p)' = LastInstruction(p)
  BY CoresSpeak, <1>2 DEF IsRunning, Inactive, LastInstruction
<1>6. \A c \in Cores : corePid[c] # NoProcess =>
        /\ proc[corePid[c]] = Running(c) /\ proc[corePid[c]] # Inactive
        /\ corePid[c] \in Pids
  BY <1>2 DEF IInv, CoresAndTableAgree, OnPids, Running, Inactive
<1>7. \A c, d \in Cores : corePid[c] # NoProcess /\ corePid[c] = corePid[d] => c = d
  <2>1. \A c, d \in Cores : Running(c) = Running(d) => c = d
    BY DEF Running
  <2>2. QED
    BY <2>1, <1>6
<1>8. ASSUME NEW ch \in live, word[ch] # NoProcess
      PROVE  /\ word[ch] \in Pids /\ word[ch] \in Cells
             /\ proc[word[ch]] = Inactive
             /\ LastInstruction(word[ch])' = LastInstruction(word[ch])
             /\ \E op \in {"send", "recv"} : LastOn(word[ch], op, ch)
                                            /\ LastOn(word[ch], op, ch)'
  <2>1. /\ word[ch] \in Pids /\ proc[word[ch]] = Inactive
        /\ \E op \in {"send", "recv"} : LastOn(word[ch], op, ch)
    BY <1>2, <1>4, <1>8 DEF WordsKnown
  <2>2. LastInstruction(word[ch])' = LastInstruction(word[ch])
        /\ word[ch] \in Cells /\ word'[ch] = word[ch]
    BY <2>1, <1>1, <1>5, NumbersApart DEF LastInstruction
  <2>3. QED
    BY <2>1, <2>2, <1>1 DEF LastOn, LastInstruction
<1>9. /\ \A c \in Cores : msg'[c].op \in Plain
      /\ \A c \in Cores : msg'[c].op \in OnChannels => msg'[c].chan \in live
      /\ \A op \in {"send", "recv"}, ch \in live :
           \A p, q \in AtEnd(op, ch)' : p = q
      /\ \A c \in Cores : msg'[c].op = "del" =>
           /\ Issuing("del", msg[c].chan)' = {c}
           /\ AtEnd("send", msg[c].chan)' = {}
           /\ AtEnd("recv", msg[c].chan)' = {}
  BY <1>1 DEF Disciplined
<1>10. /\ \A op, ch : \A c \in Issuing(op, ch)' : corePid[c] \in AtEnd(op, ch)'
       /\ \A op, ch : \A p \in Pids : proc[p] = Inactive /\ LastOn(p, op, ch)' =>
                                        p \in AtEnd(op, ch)'
  BY <1>1 DEF AtEnd
<1>11. \A c \in Cores : \A op \in OnChannels : msg'[c].op = op =>
         /\ c \in Issuing(op, msg[c].chan)' /\ corePid[c] # NoProcess
         /\ msg'[c].chan \in live /\ msg'[c].chan \in Channels
  BY <1>2, <1>9, CoresSpeak DEF Issuing, OnChannels, Kept
<1>12. Kept' /\ OnPids' /\ GotInOrder'
  <2>1. Kept'
    BY <1>1, <1>2, CoresSpeak DEF Kept
  <2>2. QED
    BY <2>1, <1>1, <1>2 DEF OnPids, GotInOrder
<1>13. FreeChannelsLinked' /\ NothingLeft'
  BY <1>1, <1>2, FreeListUntouched DEF NothingLeft
<1>14. MessagesAreNews'
  <2> SUFFICES ASSUME NEW c \in Cores, msg'[c].op # "none"
               PROVE  /\ corePid[c] # NoProcess
                      /\ LastInstruction(corePid[c])'.op = msg'[c].op
                      /\ msg'[c].op \in OnChannels =>
                           env[corePid[c]][LastInstruction(corePid[c])'.name]
                             = msg'[c].chan
    BY <1>1 DEF MessagesAreNews, LastInstruction
  <2>1. QED
    BY <1>2, <1>11, CoresSpeak
<1>15. \A c \in Cores : msg'[c].op \in OnChannels /\ word[msg'[c].chan] # NoProcess =>
         \/ msg'[c].op = "send" /\ LastInstruction(word[msg[c].chan])'.op = "recv"
         \/ msg'[c].op = "recv" /\ LastInstruction(word[msg[c].chan])'.op = "send"
  <2> SUFFICES ASSUME NEW c \in Cores, msg'[c].op \in OnChannels,
                      word[msg'[c].chan] # NoProcess
      PROVE  \/ msg'[c].op = "send" /\ LastInstruction(word[msg[c].chan])'.op = "recv"
             \/ msg'[c].op = "recv" /\ LastInstruction(word[msg[c].chan])'.op = "send"
    OBVIOUS
  <2>0. PICK ch \in live : ch = msg'[c].chan
    BY <1>9
  <2>1. PICK p \in Pids : p = word[ch] /\ p # NoProcess
    BY <2>0, <1>8
  <2>2. /\ corePid[c] # NoProcess
        /\ \A op \in {"send", "recv"} : msg'[c].op = op => c \in Issuing(op, ch)'
    BY <2>0, <1>1, <1>11 DEF Issuing
  <2>3. PICK op \in {"send", "recv"} : LastOn(p, op, ch)'
    BY <2>1, <1>8, <1>1 DEF LastOn, LastInstruction
  <2>4. p \in Pids /\ proc[p] = Inactive
    BY <2>1, <1>8
  <2>5. p \in AtEnd(op, ch)'
    BY <2>3, <2>4, <1>10
  <2>6. msg'[c].op # "del"
    BY <2>0, <2>5, <1>9 DEF AtEnd, Issuing
  <2>7. msg'[c].op # op
    <3>1. SUFFICES ASSUME msg'[c].op = op PROVE FALSE
      OBVIOUS
    <3>2. corePid[c] \in AtEnd(op, ch)'
      BY <3>1, <2>2, <1>10
    <3>3. corePid[c] = p
      BY <3>2, <2>5, <2>2, <1>9
    <3>4. QED
      BY <3>3, <2>2, <2>4, <1>6
  <2>8. LastInstruction(word[msg[c].chan])'.op = op
    BY <2>0, <2>1, <2>3, <1>1 DEF LastOn, LastInstruction
  <2>9. QED
    BY <2>6, <2>7, <2>8 DEF OnChannels
<1>16. ASSUME NEW c \in Cores, NEW d \in Cores, c # d, msg'[c].op \in OnChannels,
              msg'[d].op \in OnChannels, msg'[c].chan = msg'[d].chan
       PROVE  {msg'[c].op, msg'[d].op} = {"send", "recv"}
  <2>1. msg'[c].op # msg'[d].op
    <3>1. SUFFICES ASSUME msg'[c].op = msg'[d].op PROVE FALSE
      OBVIOUS
    <3>2. CASE msg'[c].op = "del"
      <4>1. Issuing("del", msg[c].chan)' = {c} /\ d \in Issuing("del", msg[c].chan)'
        BY <3>1, <3>2, <1>9, <1>16 DEF Issuing
      <4>2. QED
        BY <4>1, <1>16
    <3>3. CASE msg'[c].op \in {"send", "recv"}
      <4>1. corePid[c] = corePid[d]
        BY <3>1, <3>3, <1>9, <1>10, <1>11, <1>16
      <4>2. QED
        BY <4>1, <1>7, <1>11, <1>16
    <3>4. QED
      BY <3>2, <3>3, <1>16 DEF OnChannels
  <2>2. msg'[c].op # "del"
    BY <2>1, <1>9, <1>10, <1>11, <1>16 DEF OnChannels
  <2>3. msg'[d].op # "del"
    BY <2>1, <1>9, <1>10, <1>11, <1>16 DEF OnChannels
  <2>4. QED
    BY <2>1, <2>2, <2>3, <1>16 DEF OnChannels
<1>17. ASSUME NEW ch \in live, Issuing("send", ch)' # {}
       PROVE  /\ word[ch] # NoProcess => LastInstruction(word[ch])'.op = "recv"
              /\ Issuing("recv", ch)' # {} => word[ch] = NoProcess
  <2>1. PICK c \in Cores : msg'[c].op = "send" /\ msg'[c].chan = ch
    BY <1>17 DEF Issuing
  <2>2. word[ch] # NoProcess => LastInstruction(word[ch])'.op = "recv"
    BY <2>1, <1>1, <1>15 DEF OnChannels, LastInstruction
  <2>3. ASSUME Issuing("recv", ch)' # {}, word[ch] # NoProcess PROVE FALSE
    <3>1. PICK d \in Cores : msg'[d].op = "recv" /\ msg'[d].chan = ch
      BY <2>3 DEF Issuing
    <3>2. LastInstruction(word[ch])'.op = "send"
      BY <3>1, <2>3, <1>1, <1>15 DEF OnChannels, LastInstruction
    <3>3. QED
      BY <3>2, <2>2, <2>3
  <2>4. QED
    BY <2>2, <2>3
<1>18. Promised'
  <2>1. \A ch \in live : Meets(ch)' => word[ch] = NoProcess
    BY <1>17 DEF Meets, Offered, Listening
  <2>2. /\ \A c \in Cores : msg'[c].op \in {"send", "recv"} => msg'[c].chan \in live
        /\ \A c \in Cores : msg'[c].op = "del" => msg'[c].chan \in live
    BY <1>9 DEF OnChannels
  <2>3. \A c \in Cores : msg'[c].op \in OnChannels
                          /\ word'[msg'[c].chan] # NoProcess =>
           LET last == LastInstruction(word[msg[c].chan])'.op
           IN  \/ msg'[c].op = "send" /\ last = "recv"
               \/ msg'[c].op = "recv" /\ last = "send"
    BY <1>1, <1>15
  <2>4. QED
    BY <2>1, <2>2, <2>3, <1>1, <1>9, <1>16 DEF Promised, LastInstruction
<1>19. AnswersAreNews'
  <2>1. \A c \in Cores : ret'[c].kind = "none" /\ ~(c < at')
    BY <1>1, <1>2, ConstantsTyped DEF NothingLeft, Cores
  <2>2. QED
    BY <2>1, <1>1 DEF AnswersAreNews, Answers
<1>20. StopsKnown' /\ WakesKnown'
  BY <1>3 DEF StopsKnown, WakesKnown
<1>21. WordsKnown'
  BY <1>1, <1>4, <1>8 DEF WordsKnown, LastOn, LastInstruction
<1>22. StoppedKnown'
  <2> SUFFICES ASSUME NEW p \in Pids, proc[p] = Inactive
               PROVE  \/ LastInstruction(p)'.op \in {"yield", "halt"}
                      \/ \E ch \in live : word[ch] = p
    BY <1>1, <1>4 DEF StoppedKnown, LastInstruction
  <2>1. QED
    BY <1>2, <1>4, <1>5, NumbersApart DEF StoppedKnown
<1>23. ValuesKnown'
  <2> SUFFICES ASSUME NEW ch \in live
               PROVE  /\ sent'[ch] = Len(got'[ch]) + (IF InFlight(ch)' THEN 1 ELSE 0)
                      /\ SenderIn(ch)' => value'[ch] = sent'[ch]
                      /\ \A c \in Issuing("send", ch)' : msg'[c].value = sent'[ch]
    BY <1>1 DEF ValuesKnown
  <2>1. ch \in Channels
    BY <1>2 DEF Kept
  <2>2. SenderIn(ch)' <=> SenderIn(ch)
    BY <1>1, <1>8 DEF SenderIn, LastInstruction
  <2>3. ToHandle(ch)' \/ ToDeliver(ch)' <=> Issuing("send", ch)' # {}
    BY <1>1 DEF ToHandle, ToDeliver, Offered, Listening, Issuing, Cores
  <2>4. Issuing("send", ch)' # {} => ~SenderIn(ch)'
    BY <1>1, <1>17 DEF SenderIn, LastInstruction
  <2>5. InFlight(ch) <=> SenderIn(ch)
    BY <1>1 DEF InFlight, ToHandle, ToDeliver
  <2>6. InFlight(ch)' <=> SenderIn(ch)' \/ Issuing("send", ch)' # {}
    BY <2>3 DEF InFlight
  <2>7. /\ sent[ch] = Len(got[ch]) + (IF SenderIn(ch) THEN 1 ELSE 0)
        /\ SenderIn(ch) => value[ch] = sent[ch]
    BY <1>2, <2>5 DEF ValuesKnown
  <2>8. sent'[ch] = IF Issuing("send", ch)' # {} THEN sent[ch] + 1 ELSE sent[ch]
    BY <1>2, <2>1, CoresSpeak
  <2>9. \A c \in Issuing("send", ch)' : msg'[c].value = sent[ch] + 1
    BY <1>2, <2>1, CoresSpeak DEF Issuing
  <2>10. sent[ch] \in Nat /\ Len(got[ch]) \in Nat
    BY <1>2, <2>1 DEF Kept
  <2>11. CASE Issuing("send", ch)' # {}
    <3>1. ~SenderIn(ch) /\ ~SenderIn(ch)' /\ InFlight(ch)'
      BY <2>2, <2>4, <2>6, <2>11
    <3>2. sent'[ch] = sent[ch] + 1 /\ sent[ch] = Len(got[ch]) /\ got'[ch] = got[ch]
      BY <3>1, <2>7, <2>8, <2>10, <2>11, <1>1
    <3>3. QED
      BY <3>1, <3>2, <2>9
  <2>12. CASE Issuing("send", ch)' = {}
    BY <2>2, <2>6, <2>7, <2>8, <2>10, <2>12, <1>1
  <2>13. QED
    BY <2>11, <2>12
<1>24. QED
  BY <1>12, <1>13, <1>14, <1>18, <1>19, <1>20, <1>21, <1>22, <1>23
     DEF Meetings, Lasting, InTick

-----------------------------------------------------------------------------
(* The handlers.                                                           *)

HandlerStep ==
  /\ phase = "handle" /\ phase' = "handle" /\ at < NCores /\ at' = at + 1
  /\ UNCHANGED <<msg, idle, corePid, proc>>

\* No process that exists is moved.
Undisturbed ==
  \A p \in Cells : proc[p] # Dead => pc'[p] = pc[p] /\ env'[p] = env[p]

LEMMA StaysThere ==
  ASSUME Undisturbed, NEW p \in Cells, proc[p] # Dead
  PROVE  /\ LastInstruction(p)' = LastInstruction(p)
         /\ \A op, ch : LastOn(p, op, ch)' <=> LastOn(p, op, ch)
BY DEF Undisturbed, LastInstruction, LastOn

LEMMA Handles ==
  ASSUME IInv, HandlerStep
  PROVE  /\ at \in Cores /\ at \in Nat
         /\ \A c \in Cores : /\ c < at + 1 <=> c < at \/ c = at
                             /\ c >= at <=> c >= at + 1 \/ c = at
                             /\ c >= at + 1 => c # at
         /\ tasks \in Seq(Task) /\ word \in [Channels -> Nat]
<1>1. at \in Nat /\ at < NCores
  BY DEF IInv, TypeOK, HandlerStep
<1>2. at \in Cores
  BY <1>1, ConstantsTyped
<1>3. QED
  BY <1>1, <1>2, ConstantsTyped DEF IInv, TypeOK

\* The process of a core.
LEMMA OnACore ==
  ASSUME IInv, OnPids
  PROVE  /\ \A c \in Cores : corePid[c] # NoProcess =>
              /\ corePid[c] \in Pids /\ IsRunning(corePid[c])
              /\ proc[corePid[c]] # Dead /\ proc[corePid[c]] # Inactive
         /\ \A c, d \in Cores :
              corePid[c] # NoProcess /\ corePid[c] = corePid[d] => c = d
<1>1. \A c, d \in Cores : Running(c) = Running(d) => c = d
  BY DEF Running
<1>2. \A c \in Cores : corePid[c] # NoProcess =>
        /\ corePid[c] \in Pids /\ proc[corePid[c]] = Running(c)
  BY DEF IInv, CoresAndTableAgree, OnPids
<1>3. \A c \in Cores : /\ Running(c).tag = "running"
                       /\ Running(c) # Dead /\ Running(c) # Inactive
  BY DEF Running, Dead, Inactive
<1>4. QED
  BY <1>1, <1>2, <1>3 DEF IsRunning

\* The process whose message is handled is neither stopped nor woken yet.
LEMMA Speaks ==
  ASSUME IInv, OnPids, InTick, HandlerStep, msg[at].op # "none"
  PROVE  /\ me \in Pids /\ IsRunning(me) /\ proc[me] # Dead
         /\ ~Stopped(me) /\ ~Waking(me)
         /\ \A i \in StopsLeft : tasks[i].pid # me
         /\ \A ch \in live : word[ch] # me
         /\ LastInstruction(me).op = msg[at].op
         /\ msg[at].op \in OnChannels => LastOn(me, msg[at].op, chan)
<1>1. me # NoProcess /\ LastInstruction(me).op = msg[at].op
      /\ (msg[at].op \in OnChannels => LastOn(me, msg[at].op, chan))
  BY Handles DEF InTick, MessagesAreNews, HandlerStep, me, chan, LastOn
<1>2. me \in Pids /\ IsRunning(me) /\ proc[me] # Dead /\ proc[me] # Inactive
  BY <1>1, OnACore, Handles DEF me
<1>3. \A i \in StopsLeft : tasks[i].pid # me
  <2> SUFFICES ASSUME NEW i \in StopsLeft, tasks[i].pid = me PROVE FALSE
    OBVIOUS
  <2>1. PICK c \in Cores : c < at /\ corePid[c] = me
    BY DEF InTick, StopsKnown, HandlerStep
  <2>2. c = at
    BY <2>1, <1>1, OnACore, Handles DEF me
  <2>3. QED
    BY <2>1, <2>2, Handles
<1>4. ~Stopped(me)
  BY <1>2, <1>3 DEF Stopped, Stopping
<1>5. ~Waking(me)
  BY <1>2, <1>4 DEF InTick, WakesKnown, Waking, HandlerStep
<1>6. \A ch \in live : word[ch] # me
  BY <1>1, <1>4 DEF InTick, WordsKnown
<1>7. QED
  BY <1>1, <1>2, <1>3, <1>4, <1>5, <1>6

\* What is in the word of a channel.
LEMMA InTheWord ==
  ASSUME IInv, InTick, phase # "schedule", NEW ch \in live, word[ch] # NoProcess
  PROVE  /\ word[ch] \in Pids /\ word[ch] \in Cells /\ proc[word[ch]] # Dead
         /\ Stopped(word[ch]) /\ ~Waking(word[ch])
         /\ PidOf(word[ch]) = word[ch] /\ ~InAlternation(word[ch]) /\ ~Empty(ch)
         /\ \E op \in {"send", "recv"} : LastOn(word[ch], op, ch)
         /\ \A c \in live : word[c] = word[ch] => c = ch
<1>1. /\ word[ch] \in Pids /\ Stopped(word[ch]) /\ ~Waking(word[ch])
      /\ \E op \in {"send", "recv"} : LastOn(word[ch], op, ch)
  BY DEF InTick, WordsKnown
<1>2. proc[word[ch]] # Dead
  <2>1. IsRunning(word[ch]) \/ proc[word[ch]] = Inactive
    BY <1>1 DEF Stopped, Stopping, InTick, StopsKnown
  <2>2. QED
    BY <2>1 DEF IsRunning, Inactive, Dead
<1>3. \A c \in live : word[c] = word[ch] => c = ch
  BY <1>1 DEF InTick, WordsKnown, LastOn
<1>4. PidOf(word[ch]) = word[ch] /\ ~InAlternation(word[ch])
  BY <1>1, PlainWords
<1>5. QED
  BY <1>1, <1>2, <1>3, <1>4, NumbersApart DEF Empty

LEMMA NewsKept ==
  ASSUME IInv, OnPids, MessagesAreNews, HandlerStep, Undisturbed
  PROVE  MessagesAreNews'
<1> SUFFICES ASSUME NEW c \in Cores, msg[c].op # "none"
             PROVE  /\ corePid[c] # NoProcess
                    /\ LastInstruction(corePid[c])'.op = msg[c].op
                    /\ msg[c].op \in OnChannels =>
                         env'[corePid[c]][LastInstruction(corePid[c])'.name]
                           = msg[c].chan
  BY DEF MessagesAreNews, HandlerStep, LastInstruction
<1>1. /\ corePid[c] # NoProcess
      /\ LastInstruction(corePid[c]).op = msg[c].op
      /\ msg[c].op \in OnChannels =>
           env[corePid[c]][LastInstruction(corePid[c]).name] = msg[c].chan
  BY DEF MessagesAreNews, HandlerStep
<1>2. corePid[c] \in Cells /\ proc[corePid[c]] # Dead
  BY <1>1, OnACore, NumbersApart
<1>3. /\ pc'[corePid[c]] = pc[corePid[c]] /\ env'[corePid[c]] = env[corePid[c]]
      /\ corePid' = corePid
  BY <1>2 DEF Undisturbed, HandlerStep
<1>4. QED
  BY <1>1, <1>3 DEF LastInstruction

\* Handling a message does not break what is promised of the others.
LEMMA PromiseKept ==
  ASSUME IInv, InTick, HandlerStep, Undisturbed,
         \A c \in Cores : c # at /\ msg[c].op \in OnChannels
                            /\ msg[c].chan \in live =>
           msg[c].chan \in live' /\ word'[msg[c].chan] = word[msg[c].chan],
         msg[at].op \in {"send", "recv"} => msg[at].chan \in live'
  PROVE  Promised'
<1>1. Promised /\ UNCHANGED <<msg, phase>> /\ phase = "handle" /\ at' = at + 1
  BY DEF InTick, HandlerStep
<1>2. \A c \in Cores : msg[c].op \in {"send", "recv"} => msg[c].chan \in live'
  BY <1>1 DEF Promised, OnChannels
<1>3. \A c \in Cores : msg[c].op = "del" /\ c >= at + 1 => msg[c].chan \in live'
  BY <1>1, Handles DEF Promised, OnChannels
<1>4. \A ch \in live' : Meets(ch)' => word'[ch] = NoProcess
  <2> SUFFICES ASSUME NEW ch \in live', Meets(ch) PROVE word'[ch] = NoProcess
    BY <1>1 DEF Meets, Offered, Listening, Issuing
  <2>1. PICK c, d \in Cores : /\ msg[c].op = "send" /\ msg[c].chan = ch
                              /\ msg[d].op = "recv" /\ msg[d].chan = ch
    BY DEF Meets, Offered, Listening, Issuing
  <2>2. ch \in live
    BY <2>1, <1>1 DEF Promised
  <2>3. word[ch] = NoProcess
    BY <2>2, <1>1 DEF Promised
  <2>4. c # at \/ d # at
    BY <2>1
  <2>5. QED
    BY <2>1, <2>2, <2>3, <2>4 DEF OnChannels
<1>5. ASSUME NEW c \in Cores, c >= at + 1, msg[c].op \in OnChannels,
             word'[msg[c].chan] # NoProcess
      PROVE  LET last == LastInstruction(word[msg[c].chan])'.op
             IN  \/ msg[c].op = "send" /\ last = "recv"
                 \/ msg[c].op = "recv" /\ last = "send"
  <2>1. c # at /\ c >= at
    BY <1>5, Handles
  <2>2. msg[c].chan \in live
    BY <2>1, <1>1, <1>5 DEF Promised, OnChannels
  <2>3. word'[msg[c].chan] = word[msg[c].chan]
    BY <2>1, <2>2, <1>5
  <2>4. LET last == LastInstruction(word[msg[c].chan]).op
        IN  \/ msg[c].op = "send" /\ last = "recv"
            \/ msg[c].op = "recv" /\ last = "send"
    BY <2>1, <2>3, <1>1, <1>5 DEF Promised
  <2>5. word[msg[c].chan] \in Cells /\ proc[word[msg[c].chan]] # Dead
    BY <2>2, <2>3, <1>1, <1>5, InTheWord
  <2>6. LastInstruction(word[msg[c].chan])' = LastInstruction(word[msg[c].chan])
    BY <2>3, <2>5, <1>1 DEF Undisturbed, LastInstruction
  <2>7. QED
    BY <2>4, <2>6
<1>6. /\ \A c \in Cores : msg[c].op \in Plain
      /\ \A c, d \in Cores :
           /\ c # d
           /\ msg[c].op \in OnChannels /\ msg[d].op \in OnChannels
           /\ msg[c].chan = msg[d].chan
           => {msg[c].op, msg[d].op} = {"send", "recv"}
  BY <1>1 DEF Promised
<1>7. QED
  BY <1>1, <1>2, <1>3, <1>4, <1>5, <1>6 DEF Promised, LastInstruction

\* The messages on the channel of the message that is handled.
LEMMA Alone ==
  ASSUME IInv, InTick, HandlerStep, NEW c \in Cores, c # at,
         msg[c].op \in OnChannels, msg[at].op \in OnChannels,
         msg[c].chan = chan
  PROVE  /\ Meets(chan) /\ msg[at].op # "del"
         /\ msg[at].op = "send" => msg[c].op = "recv"
         /\ msg[at].op = "recv" => msg[c].op = "send"
<1>1. {msg[c].op, msg[at].op} = {"send", "recv"}
  BY Handles DEF InTick, Promised, HandlerStep, chan
<1>2. QED
  BY <1>1, Handles DEF Meets, Offered, Listening, Issuing, chan

LEMMA AnswersKept ==
  ASSUME IInv, InTick, HandlerStep, \A ch \in live : sent'[ch] = sent[ch],
         msg[at].op # "recv" \/ ~Offered(chan),
         \/ ret' = ret
         \/ msg[at].op = "chan" /\ \E a : ret' = [ret EXCEPT ![at] = a]
                                          /\ a.kind = "created"
  PROVE  AnswersAreNews'
<1>1. AnswersAreNews /\ Promised /\ UNCHANGED <<msg, phase>> /\ phase = "handle"
      /\ at' = at + 1
  BY DEF InTick, HandlerStep
<1>2. \A ch : Offered(ch)' <=> Offered(ch)
  BY <1>1 DEF Offered, Issuing
<1>3. ASSUME NEW c \in Cores, ret'[c] = ret[c]
      PROVE  /\ ret'[c].kind \in Answers
             /\ ret'[c].kind = "created" => msg[c].op = "chan"
             /\ (ret'[c].kind = "receive") <=>
                  msg[c].op = "recv" /\ Offered(msg[c].chan) /\ c < at + 1
             /\ ret'[c].kind = "receive" =>
                  /\ ret'[c].chan = msg[c].chan
                  /\ ret'[c].value = sent'[msg[c].chan]
  <2>1. c < at + 1 <=> c < at \/ c = at
    BY Handles
  <2>2. ~(msg[c].op = "recv" /\ Offered(msg[c].chan) /\ c = at)
    BY DEF chan
  <2>3. msg[c].op = "recv" => msg[c].chan \in live
    BY <1>1 DEF Promised
  <2>4. QED
    BY <2>1, <2>2, <2>3, <1>1, <1>3 DEF AnswersAreNews
<1>4. ASSUME NEW c \in Cores, ret'[c] # ret[c]
      PROVE  c = at /\ ret'[c].kind = "created" /\ msg[c].op = "chan"
  <2>1. PICK a : ret' = [ret EXCEPT ![at] = a] /\ a.kind = "created"
                 /\ msg[at].op = "chan"
    BY <1>4
  <2>2. c = at
    BY <2>1, <1>4
  <2>3. QED
    BY <2>1, <2>2, <1>4
<1>5. QED
  BY <1>1, <1>2, <1>3, <1>4 DEF AnswersAreNews, Answers

LEMMA StopperStays ==
  ASSUME InTick, Undisturbed, NEW i \in StopsLeft
  PROVE  pc'[tasks[i].pid] = pc[tasks[i].pid]
<1>1. tasks[i].pid \in Pids /\ IsRunning(tasks[i].pid)
  BY DEF InTick, StopsKnown
<1>2. tasks[i].pid \in Cells
  BY <1>1, NumbersApart
<1>3. proc[tasks[i].pid] # Dead
  BY <1>1 DEF IsRunning, Dead
<1>4. QED
  BY <1>2, <1>3 DEF Undisturbed

LEMMA NoTask ==
  ASSUME IInv, OnPids, InTick, HandlerStep, Undisturbed, tasks' = tasks
  PROVE  /\ StopsKnown' /\ WakesKnown'
         /\ \A p : (Stopped(p)' <=> Stopped(p)) /\ (Waking(p)' <=> Waking(p))
<1>1. StopsLeft' = StopsLeft /\ WakesLeft' = WakesLeft
  BY AddsNothing DEF HandlerStep
<1>2. \A p : (Stopped(p)' <=> Stopped(p)) /\ (Waking(p)' <=> Waking(p))
  BY <1>1 DEF Stopped, Stopping, Waking, HandlerStep
<1>3. StopsKnown'
  <2>1. \A i \in StopsLeft : pc'[tasks[i].pid] = pc[tasks[i].pid]
    BY StopperStays
  <2>2. \A c \in Cores : c < at => c < at'
    BY Handles DEF HandlerStep
  <2>3. QED
    BY <1>1, <2>1, <2>2 DEF InTick, StopsKnown, HandlerStep, IsRunning, LastInstruction
<1>4. WakesKnown'
  <2> SUFFICES ASSUME NEW i \in WakesLeft
               PROVE  /\ tasks[i].pid \in Pids
                      /\ \/ proc[tasks[i].pid] = Dead
                         \/ /\ Stopped(tasks[i].pid)
                            /\ Code[pc'[tasks[i].pid] - 1].op \in {"send", "recv"}
    BY <1>1, <1>2 DEF WakesKnown, HandlerStep, LastInstruction
  <2>1. tasks[i].pid \in Cells
    BY NumbersApart DEF InTick, WakesKnown
  <2>2. QED
    BY <2>1 DEF Undisturbed, InTick, WakesKnown, HandlerStep, LastInstruction
<1>5. QED
  BY <1>2, <1>3, <1>4

LEMMA StopTask ==
  ASSUME IInv, OnPids, InTick, HandlerStep, Undisturbed, msg[at].op # "none",
         NEW t \in Task, t.kind # "schedule", t.pid = me, AddTasks(<<t>>),
         (t.kind = "destroy") <=> (msg[at].op = "halt")
  PROVE  /\ StopsKnown' /\ WakesKnown'
         /\ \A p : /\ Stopped(p)' <=> Stopped(p) \/ p = me
                   /\ Waking(p)' <=> Waking(p)
<1> DEFINE n == Len(tasks) + 1
<1>1. /\ StopsLeft' = StopsLeft \cup {n} /\ WakesLeft' = WakesLeft
      /\ StopsLeft \cup WakesLeft \subseteq 1 .. Len(tasks) /\ Len(tasks) \in Nat
      /\ tasks'[n] = t /\ \A i \in 1 .. Len(tasks) : tasks'[i] = tasks[i]
  BY Handles, AddsOne DEF HandlerStep
<1>2. \A p : (Stopping(p)' <=> Stopping(p) \/ p = me) /\ (Waking(p)' <=> Waking(p))
  BY Handles, AddsAStop DEF HandlerStep
<1>3. \A p : /\ Stopped(p)' <=> Stopped(p) \/ p = me
             /\ Waking(p)' <=> Waking(p)
  BY <1>2 DEF Stopped, HandlerStep
<1>4. /\ me \in Pids /\ IsRunning(me) /\ proc[me] # Dead
      /\ \A i \in StopsLeft : tasks[i].pid # me
      /\ LastInstruction(me).op = msg[at].op
  BY Speaks
<1>5. pc'[me] = pc[me]
  BY <1>4, NumbersApart DEF Undisturbed
<1>6. StopsKnown'
  <2>1. \A i \in StopsLeft : pc'[tasks[i].pid] = pc[tasks[i].pid]
    BY StopperStays
  <2>2. at \in Cores /\ at < at' /\ \A c \in Cores : c < at => c < at'
    BY Handles DEF HandlerStep
  <2>3. UNCHANGED <<phase, corePid, proc>> /\ phase = "handle"
    BY DEF HandlerStep
  <2>4. /\ tasks'[n].pid = me /\ tasks'[n].kind = t.kind
        /\ Code[pc'[me] - 1].op = msg[at].op /\ corePid[at] = me
    BY <1>1, <1>4, <1>5 DEF LastInstruction, me
  <2>5. \A i \in StopsLeft :
          /\ tasks'[i] = tasks[i] /\ tasks[i].pid # me
          /\ tasks[i].pid \in Pids /\ IsRunning(tasks[i].pid)
          /\ tasks[i].kind = "destroy" => Code[pc'[tasks[i].pid] - 1].op = "halt"
          /\ tasks[i].kind # "destroy" => Code[pc'[tasks[i].pid] - 1].op # "halt"
          /\ \E c \in Cores : c < at' /\ corePid[c] = tasks[i].pid
    BY <1>1, <1>4, <2>1, <2>2, <2>3 DEF InTick, StopsKnown, LastInstruction
  <2>6. \A i, j \in StopsLeft : tasks[i].pid = tasks[j].pid => i = j
    BY DEF InTick, StopsKnown
  <2>7. \A i \in StopsLeft \cup {n} :
          /\ tasks'[i].pid \in Pids /\ IsRunning(tasks'[i].pid)
          /\ tasks'[i].kind = "destroy" => Code[pc'[tasks'[i].pid] - 1].op = "halt"
          /\ tasks'[i].kind # "destroy" => Code[pc'[tasks'[i].pid] - 1].op # "halt"
          /\ \E c \in Cores : c < at' /\ corePid[c] = tasks'[i].pid
    BY <1>4, <2>2, <2>4, <2>5
  <2>8. \A i, j \in StopsLeft \cup {n} : tasks'[i].pid = tasks'[j].pid => i = j
    BY <2>4, <2>5, <2>6
  <2>9. QED
    BY <1>1, <2>3, <2>7, <2>8 DEF StopsKnown, IsRunning, LastInstruction
<1>7. WakesKnown'
  <2> SUFFICES ASSUME NEW i \in WakesLeft
               PROVE  /\ tasks[i].pid \in Pids
                      /\ \/ proc[tasks[i].pid] = Dead
                         \/ /\ Stopped(tasks[i].pid)
                            /\ Code[pc'[tasks[i].pid] - 1].op \in {"send", "recv"}
    BY <1>1, <1>3 DEF WakesKnown, HandlerStep, LastInstruction
  <2>1. tasks[i].pid \in Cells
    BY NumbersApart DEF InTick, WakesKnown
  <2>2. QED
    BY <2>1 DEF Undisturbed, InTick, WakesKnown, HandlerStep, LastInstruction
<1>8. QED
  BY <1>3, <1>6, <1>7

LEMMA WakeTask ==
  ASSUME IInv, OnPids, InTick, HandlerStep, Undisturbed, NEW q \in Pids,
         \/ proc[q] = Dead
         \/ Stopped(q) /\ LastInstruction(q).op \in {"send", "recv"},
         AddTasks(<<Schedule(q)>>)
  PROVE  /\ StopsKnown' /\ WakesKnown'
         /\ \A p : /\ Stopped(p)' <=> Stopped(p)
                   /\ Waking(p)' <=> Waking(p) \/ p = q
<1> DEFINE n == Len(tasks) + 1
<1>0. Schedule(q) \in Task /\ Schedule(q).kind = "schedule" /\ Schedule(q).pid = q
  BY NumbersApart DEF Schedule, Task
<1>1. /\ StopsLeft' = StopsLeft /\ WakesLeft' = WakesLeft \cup {n}
      /\ StopsLeft \cup WakesLeft \subseteq 1 .. Len(tasks) /\ Len(tasks) \in Nat
      /\ tasks'[n] = Schedule(q) /\ \A i \in 1 .. Len(tasks) : tasks'[i] = tasks[i]
  BY <1>0, Handles, AddsOne DEF HandlerStep
<1>2. \A p : (Stopping(p)' <=> Stopping(p)) /\ (Waking(p)' <=> Waking(p) \/ p = q)
  BY <1>0, Handles, AddsAWake DEF HandlerStep
<1>3. \A p : /\ Stopped(p)' <=> Stopped(p)
             /\ Waking(p)' <=> Waking(p) \/ p = q
  BY <1>2 DEF Stopped, HandlerStep
<1>6. StopsKnown'
  <2>1. \A i \in StopsLeft : pc'[tasks[i].pid] = pc[tasks[i].pid]
    BY StopperStays
  <2>2. \A c \in Cores : c < at => c < at'
    BY Handles DEF HandlerStep
  <2>3. QED
    BY <1>1, <2>1, <2>2
       DEF InTick, StopsKnown, HandlerStep, IsRunning, LastInstruction
<1>7. WakesKnown'
  <2> SUFFICES ASSUME NEW i \in WakesLeft \cup {n}
               PROVE  /\ tasks'[i].pid \in Pids
                      /\ \/ proc[tasks'[i].pid] = Dead
                         \/ /\ Stopped(tasks'[i].pid)
                            /\ Code[pc'[tasks'[i].pid] - 1].op \in {"send", "recv"}
    BY <1>1, <1>3 DEF WakesKnown, HandlerStep, LastInstruction
  <2>1. CASE i = n
    <3>1. tasks'[i].pid = q
      BY <2>1, <1>0, <1>1
    <3>2. proc[q] = Dead \/ pc'[q] = pc[q]
      BY NumbersApart DEF Undisturbed
    <3>3. QED
      BY <3>1, <3>2 DEF LastInstruction
  <2>2. CASE i \in WakesLeft
    <3>1. tasks'[i] = tasks[i] /\ tasks[i].pid \in Cells
      BY <2>2, <1>1, NumbersApart DEF InTick, WakesKnown
    <3>2. QED
      BY <2>2, <3>1 DEF Undisturbed, InTick, WakesKnown, HandlerStep, LastInstruction
  <2>3. QED
    BY <2>1, <2>2
<1>8. QED
  BY <1>3, <1>6, <1>7

\* A value in flight is where it was, but for the one that is handled.
LEMMA StillInFlight ==
  ASSUME IInv, InTick, HandlerStep, NEW ch,
         ~(msg[at].op = "send" /\ chan = ch) \/ Listening(ch)
  PROVE  (ToHandle(ch)' <=> ToHandle(ch)) /\ (ToDeliver(ch)' <=> ToDeliver(ch))
<1>1. /\ Issuing("send", ch)' = Issuing("send", ch)
      /\ Issuing("recv", ch)' = Issuing("recv", ch)
  BY DEF Issuing, HandlerStep
<1>2. ToDeliver(ch)' <=> ToDeliver(ch)
  BY <1>1 DEF ToDeliver, Offered, HandlerStep
<1>3. Listening(ch)' <=> Listening(ch)
  BY <1>1 DEF Listening
<1>4. CASE Listening(ch)
  BY <1>2, <1>3, <1>4 DEF ToHandle
<1>5. CASE ~(msg[at].op = "send" /\ chan = ch)
  <2>1. \A c \in Issuing("send", ch) : c \in Cores /\ c # at
    BY <1>5 DEF Issuing, chan
  <2>2. \A c \in Issuing("send", ch) : c >= at <=> c >= at + 1
    BY <2>1, Handles
  <2>3. QED
    BY <1>1, <1>2, <1>3, <2>2 DEF ToHandle, HandlerStep
<1>6. QED
  BY <1>4, <1>5

LEMMA NowHandled ==
  ASSUME IInv, InTick, HandlerStep, msg[at].op = "send", ~Listening(chan)
  PROVE  /\ ToHandle(chan) /\ \A ch : ch = chan => ~ToHandle(ch)'
         /\ ~ToDeliver(chan) /\ \A ch : ch = chan => ~ToDeliver(ch)'
         /\ InFlight(chan)
<1>1. at \in Issuing("send", chan)
  BY Handles DEF Issuing, chan
<1>2. ToHandle(chan)
  BY <1>1, Handles DEF ToHandle, HandlerStep
<1>3. \A ch : /\ Issuing("send", ch)' = Issuing("send", ch)
              /\ Issuing("recv", ch)' = Issuing("recv", ch)
  BY DEF Issuing, HandlerStep
<1>4. ASSUME NEW c \in Issuing("send", chan) PROVE ~(c >= at + 1)
  <2>1. c \in Cores /\ msg[c].op = "send" /\ msg[c].chan = chan
    BY DEF Issuing
  <2>2. c = at
    BY <2>1, Alone DEF OnChannels
  <2>3. QED
    BY <2>2, Handles
<1>5. \A ch : ch = chan => ~ToHandle(ch)'
  BY <1>3, <1>4 DEF ToHandle, HandlerStep
<1>6. /\ ~ToDeliver(chan) /\ \A ch : ch = chan => ~ToDeliver(ch)'
  BY <1>3 DEF ToDeliver, Listening
<1>7. QED
  BY <1>2, <1>5, <1>6 DEF InFlight

\* Whoever is in the word of a channel and is not woken is still there.
LEMMA StillParked ==
  ASSUME IInv, InTick, HandlerStep, Undisturbed, NEW ch \in live,
         word'[ch] = word[ch], word[ch] # NoProcess,
         Stopped(word[ch]) => Stopped(word[ch])',
         Waking(word[ch])' => Waking(word[ch])
  PROVE  /\ word'[ch] \in Pids /\ Stopped(word[ch])' /\ ~Waking(word[ch])'
         /\ \E op \in {"send", "recv"} : LastOn(word[ch], op, ch)'
<1>1. /\ word[ch] \in Pids /\ word[ch] \in Cells /\ proc[word[ch]] # Dead
      /\ Stopped(word[ch]) /\ ~Waking(word[ch])
      /\ \E op \in {"send", "recv"} : LastOn(word[ch], op, ch)
  BY InTheWord DEF HandlerStep
<1>2. \A op : LastOn(word[ch], op, ch)' <=> LastOn(word[ch], op, ch)
  BY <1>1 DEF Undisturbed, LastOn, LastInstruction
<1>3. QED
  BY <1>1, <1>2

\* The value in flight on a channel that is not concerned.
ValueKnown(ch) ==
  /\ sent[ch] = Len(got[ch]) + (IF InFlight(ch) THEN 1 ELSE 0)
  /\ SenderIn(ch) => value[ch] = sent[ch]
  /\ phase = "handle" => \A c \in Issuing("send", ch) : msg[c].value = sent[ch]

LEMMA ValueStays ==
  ASSUME IInv, InTick, HandlerStep, Undisturbed, NEW ch \in live,
         word'[ch] = word[ch], sent'[ch] = sent[ch], got'[ch] = got[ch],
         value'[ch] = value[ch],
         ~(msg[at].op = "send" /\ chan = ch) \/ Listening(ch)
  PROVE  ValueKnown(ch)'
<1>1. SenderIn(ch)' <=> SenderIn(ch)
  <2>1. CASE word[ch] = NoProcess
    BY <2>1 DEF SenderIn
  <2>2. CASE word[ch] # NoProcess
    <3>1. word[ch] \in Cells /\ proc[word[ch]] # Dead
      BY <2>2, InTheWord DEF HandlerStep
    <3>2. QED
      BY <3>1 DEF SenderIn, LastInstruction, Undisturbed
  <2>3. QED
    BY <2>1, <2>2
<1>2. InFlight(ch)' <=> InFlight(ch)
  BY <1>1, StillInFlight DEF InFlight
<1>3. ValueKnown(ch)
  BY DEF InTick, ValuesKnown, ValueKnown
<1>4. Issuing("send", ch)' = Issuing("send", ch) /\ UNCHANGED <<msg, phase>>
  BY DEF Issuing, HandlerStep
<1>5. QED
  BY <1>1, <1>2, <1>3, <1>4 DEF ValueKnown

\* Who is stopped for a reason keeps it.
LEMMA StillStopped ==
  ASSUME IInv, InTick, HandlerStep, Undisturbed, NEW p \in Pids, Stopped(p),
         Waking(p) => Waking(p)'
  PROVE  \/ Waking(p)'
         \/ LastInstruction(p)'.op \in {"yield", "halt"}
         \/ \E ch \in live : word[ch] = p
<1>1. proc[p] # Dead
  BY DEF Stopped, Stopping, InTick, StopsKnown, IsRunning, Inactive, Dead
<1>2. LastInstruction(p)' = LastInstruction(p)
  BY <1>1, NumbersApart DEF Undisturbed, LastInstruction
<1>3. QED
  BY <1>2 DEF InTick, StoppedKnown

\* What a handler that touches no channel leaves.
LEMMA ChannelsAlone ==
  ASSUME IInv, Meetings, HandlerStep, Undisturbed, Kept',
         UNCHANGED <<channelVars, live, sent, got>>,
         msg[at].op = "send" => Listening(chan),
         AnswersAreNews', StopsKnown', WakesKnown',
         \A p : Stopped(p) => Stopped(p)',
         \A p : Stopped(p)' =>
           Stopped(p) \/ (p = me /\ msg[at].op \in {"yield", "halt"}),
         \A p : Waking(p) => Waking(p)',
         \A p : Waking(p)' => Waking(p) \/ proc[p] = Dead
  PROVE  Meetings'
<1>1. Lasting /\ InTick /\ OnPids /\ UNCHANGED <<phase, msg, corePid, proc>>
      /\ phase = "handle"
  BY DEF Meetings, Lasting, HandlerStep
<1>2. UNCHANGED <<word, value, heapEnd, heapFree>>
  BY DEF channelVars
<1>3. OnPids' /\ FreeChannelsLinked' /\ GotInOrder' /\ NothingLeft'
  BY <1>1, <1>2, FreeListUntouched DEF Lasting, OnPids, GotInOrder, NothingLeft
<1>4. MessagesAreNews' /\ Promised'
  <2>1. msg[at].op \in {"send", "recv"} => msg[at].chan \in live'
    BY <1>1, Handles DEF InTick, Promised
  <2>2. QED
    BY <1>1, <1>2, <2>1, NewsKept, PromiseKept DEF InTick
<1>5. WordsKnown'
  <2> SUFFICES ASSUME NEW ch \in live, word[ch] # NoProcess
               PROVE  /\ word'[ch] \in Pids /\ Stopped(word[ch])'
                      /\ ~Waking(word[ch])'
                      /\ \E op \in {"send", "recv"} : LastOn(word[ch], op, ch)'
    BY <1>2 DEF WordsKnown
  <2>1. proc[word[ch]] # Dead
    BY <1>1, InTheWord
  <2>2. Waking(word[ch])' => Waking(word[ch])
    BY <1>2, <2>1 DEF Waking
  <2>3. Stopped(word[ch]) => Stopped(word[ch])'
    BY <1>2 DEF Stopped, Stopping
  <2>4. QED
    BY <1>1, <1>2, <2>2, <2>3, StillParked
<1>6. StoppedKnown'
  <2> SUFFICES ASSUME NEW p \in Pids, Stopped(p)'
               PROVE  \/ Waking(p)'
                      \/ LastInstruction(p)'.op \in {"yield", "halt"}
                      \/ \E ch \in live : word[ch] = p
    BY <1>2 DEF StoppedKnown
  <2>1. CASE Stopped(p)
    BY <2>1, <1>1, StillStopped
  <2>2. CASE p = me /\ msg[at].op \in {"yield", "halt"}
    <3>1. LastInstruction(me).op = msg[at].op /\ proc[p] # Dead /\ p \in Cells
      BY <2>2, <1>1, Speaks, NumbersApart
    <3>2. LastInstruction(p)' = LastInstruction(p)
      BY <3>1 DEF LastInstruction, Undisturbed
    <3>3. QED
      BY <2>2, <3>1, <3>2
  <2>3. QED
    BY <2>1, <2>2
<1>7. ValuesKnown'
  <2>1. \A ch \in live : ValueKnown(ch)'
    BY <1>1, <1>2, ValueStays
  <2>2. QED
    BY <2>1 DEF ValuesKnown, ValueKnown
<1>8. QED
  BY <1>3, <1>4, <1>5, <1>6, <1>7 DEF Meetings, Lasting, InTick

LEMMA SaysNothing ==
  ASSUME IInv, Meetings, HandleNothing \/ SendMeetsReceive
  PROVE  Meetings'
<1>1. /\ HandlerStep /\ AddTasks(<<>>)
      /\ UNCHANGED <<ret, cellVars, channelVars, altVars, history>>
      /\ msg[at].op \in {"none", "send"} /\ (msg[at].op = "send" => Listening(chan))
  BY DEF HandleNothing, SendMeetsReceive, OnlyAdd, NextCore, Handling, OnChannel,
         HandlerStep, tableVars
<1>2. tasks' = tasks
  BY <1>1, Handles DEF AddTasks
<1>3. Undisturbed /\ Kept' /\ Kept /\ OnPids /\ InTick
      /\ UNCHANGED <<channelVars, live, sent, got>>
  BY <1>1 DEF Meetings, Lasting, Kept, cellVars, history, channelVars, HandlerStep,
              Undisturbed
<1>4. AnswersAreNews'
  BY <1>1, <1>3, AnswersKept
<1>5. /\ StopsKnown' /\ WakesKnown'
      /\ \A p : (Stopped(p)' <=> Stopped(p)) /\ (Waking(p)' <=> Waking(p))
  BY <1>1, <1>2, <1>3, NoTask
<1>6. /\ \A p : Stopped(p) => Stopped(p)'
      /\ \A p : Stopped(p)' =>
           Stopped(p) \/ (p = me /\ msg[at].op \in {"yield", "halt"})
      /\ \A p : Waking(p) => Waking(p)'
      /\ \A p : Waking(p)' => Waking(p) \/ proc[p] = Dead
  BY <1>5
<1>7. msg[at].op = "send" => Listening(chan)
  BY <1>1
<1>8. QED
  BY <1>1, <1>3, <1>4, <1>5, <1>6, <1>7, ChannelsAlone

LEMMA StopsItself ==
  ASSUME IInv, Meetings, HandleYield \/ HandleHalt
  PROVE  Meetings'
<1>1. /\ HandlerStep
      /\ UNCHANGED <<ret, cellVars, channelVars, altVars, history>>
      /\ \/ msg[at].op = "yield" /\ AddTasks(<<Deschedule(me)>>)
         \/ msg[at].op = "halt" /\ AddTasks(<<Destroy(me)>>)
  BY DEF HandleYield, HandleHalt, OnlyAdd, NextCore, Handling, HandlerStep, tableVars
<1>2. Undisturbed /\ Kept' /\ Kept /\ OnPids /\ InTick
      /\ UNCHANGED <<channelVars, live, sent, got>>
  BY <1>1 DEF Meetings, Lasting, Kept, cellVars, history, channelVars, HandlerStep,
              Undisturbed
<1>3. me \in Nat
  BY <1>1, <1>2, Speaks, NumbersApart
<1>4. PICK t \in Task : /\ t.kind # "schedule" /\ t.pid = me /\ AddTasks(<<t>>)
                        /\ (t.kind = "destroy") <=> (msg[at].op = "halt")
  BY <1>1, <1>3 DEF Deschedule, Destroy, Task
<1>5. AnswersAreNews'
  BY <1>1, <1>2, AnswersKept
<1>6. /\ StopsKnown' /\ WakesKnown'
      /\ \A p : (Stopped(p)' <=> Stopped(p) \/ p = me) /\ (Waking(p)' <=> Waking(p))
  BY <1>1, <1>2, <1>4, StopTask
<1>7. QED
  BY <1>1, <1>2, <1>5, <1>6, ChannelsAlone

LEMMA Starts ==
  ASSUME IInv, Meetings, HandleStartProcess
  PROVE  Meetings'
<1>1. PICK new \in DeadPids :
        /\ pc' = [pc EXCEPT ![new] = msg[at].to]
        /\ env' = [env EXCEPT ![new] = env[me]]
        /\ AddTasks(<<Schedule(new)>>)
  BY DEF HandleStartProcess
<1>2. /\ HandlerStep /\ msg[at].op = "start"
      /\ UNCHANGED <<ret, channelVars, altVars, live, sent, got>>
  BY DEF HandleStartProcess, NextCore, Handling, HandlerStep, tableVars
<1>3. new \in Pids /\ proc[new] = Dead
  BY <1>1 DEF DeadPids
<1>4. Kept /\ OnPids /\ InTick
  BY <1>2 DEF Meetings, Lasting, HandlerStep
<1>5. Undisturbed
  BY <1>1, <1>3, <1>4 DEF Undisturbed, Kept
<1>6. Kept'
  <2>1. msg[at].to \in Nat
    BY <1>2, <1>4, Handles DEF Kept
  <2>2. pc' \in [Cells -> Nat] /\ DOMAIN env' = Cells
    BY <1>1, <1>4, <2>1 DEF Kept
  <2>3. UNCHANGED <<msg, value, ret>>
    BY <1>2 DEF HandlerStep, channelVars
  <2>4. QED
    BY <1>2, <1>4, <2>2, <2>3 DEF Kept
<1>7. AnswersAreNews'
  BY <1>2, <1>4, AnswersKept
<1>8. /\ StopsKnown' /\ WakesKnown'
      /\ \A p : (Stopped(p)' <=> Stopped(p)) /\ (Waking(p)' <=> Waking(p) \/ p = new)
  BY <1>1, <1>2, <1>3, <1>4, <1>5, WakeTask
<1>9. /\ \A p : Stopped(p) => Stopped(p)'
      /\ \A p : Stopped(p)' =>
           Stopped(p) \/ (p = me /\ msg[at].op \in {"yield", "halt"})
      /\ \A p : Waking(p) => Waking(p)'
      /\ \A p : Waking(p)' => Waking(p) \/ proc[p] = Dead
  BY <1>3, <1>8
<1>10. msg[at].op # "send" /\ UNCHANGED <<channelVars, live, sent, got>>
  BY <1>2
<1>11. QED
  BY <1>2, <1>5, <1>6, <1>7, <1>8, <1>9, <1>10, ChannelsAlone

\* The channel of a message that sends or receives.
LEMMA OnItsChannel ==
  ASSUME IInv, Meetings, HandlerStep, msg[at].op \in {"send", "recv"}
  PROVE  /\ Lasting /\ Kept /\ OnPids /\ InTick /\ chan \in live /\ chan \in Channels
         /\ Empty(chan) <=> word[chan] = NoProcess
         /\ PidOf(word[chan]) = word[chan] /\ ~InAlternation(word[chan])
         /\ me # NoProcess /\ me \in Pids
         /\ word[chan] # NoProcess =>
              \/ msg[at].op = "send" /\ LastInstruction(word[chan]).op = "recv"
              \/ msg[at].op = "recv" /\ LastInstruction(word[chan]).op = "send"
<1>1. Lasting /\ Kept /\ OnPids /\ InTick /\ phase = "handle" /\ at \in Cores
      /\ at >= at
  BY Handles DEF Meetings, Lasting, HandlerStep
<1>2. chan \in live /\ chan \in Channels
  BY <1>1 DEF InTick, Promised, chan, Kept
<1>3. word[chan] \in Pids \cup {NoProcess}
  BY <1>1, <1>2 DEF InTick, WordsKnown
<1>4. PidOf(word[chan]) = word[chan] /\ ~InAlternation(word[chan])
  BY <1>3, PlainWords
<1>5. me # NoProcess /\ me \in Pids
  BY <1>1, Speaks, NumbersApart
<1>6. word[chan] # NoProcess =>
        \/ msg[at].op = "send" /\ LastInstruction(word[chan]).op = "recv"
        \/ msg[at].op = "recv" /\ LastInstruction(word[chan]).op = "send"
  BY <1>1 DEF InTick, Promised, chan, OnChannels
<1>7. QED
  BY <1>1, <1>2, <1>4, <1>5, <1>6 DEF Empty

\* The process stops at the channel, or finds its partner there.
Parks ==
  /\ word[chan] = NoProcess /\ word' = [word EXCEPT ![chan] = me]
  /\ \A p : /\ Stopped(p)' <=> Stopped(p) \/ p = me
            /\ Waking(p)' <=> Waking(p)
Takes ==
  /\ word[chan] # NoProcess /\ word' = [word EXCEPT ![chan] = NoProcess]
  /\ \A p : /\ Stopped(p)' <=> Stopped(p)
            /\ Waking(p)' <=> Waking(p) \/ p = word[chan]

LEMMA AtTheChannel ==
  ASSUME IInv, Meetings, HandlerStep, Kept', msg[at].op \in {"send", "recv"},
         UNCHANGED <<ret, cellVars, heapEnd, heapFree, live, sent>>,
         msg[at].op = "send" => ~Listening(chan),
         msg[at].op = "recv" => ~Offered(chan),
         StopsKnown', WakesKnown', Parks \/ Takes,
         \A ch \in live : ch # chan => got'[ch] = got[ch] /\ value'[ch] = value[ch],
         \A ch : ch = chan => ValueKnown(ch)',
         \A i \in 1 .. Len(got'[chan]) : got'[chan][i] = i
  PROVE  Meetings'
<1>1. /\ Lasting /\ Kept /\ OnPids /\ InTick /\ chan \in live /\ chan \in Channels
      /\ UNCHANGED <<phase, msg, corePid, proc>> /\ phase = "handle"
  BY OnItsChannel DEF HandlerStep
<1>2. PICK ch0 \in live : ch0 = chan
  BY <1>1
<1>3. /\ Undisturbed /\ word \in [Channels -> Nat] /\ live \subseteq Channels
      /\ \A ch \in live : ch # ch0 => word'[ch] = word[ch]
      /\ \A ch \in Channels \ live : word'[ch] = word[ch]
      /\ me \in Pids /\ me # NoProcess /\ ch0 \in Channels
  BY <1>1, <1>2, OnItsChannel, Handles DEF Undisturbed, cellVars, Parks, Takes, Kept
<1>4. OnPids' /\ FreeChannelsLinked' /\ NothingLeft'
  BY <1>1, <1>3, FreeListUntouched DEF Lasting, OnPids, NothingLeft
<1>5. GotInOrder'
  BY <1>1, <1>2 DEF Lasting, GotInOrder
<1>6. MessagesAreNews'
  BY <1>1, <1>3, NewsKept DEF InTick
<1>7. Promised'
  <2>1. ASSUME NEW c \in Cores, c # at, msg[c].op \in OnChannels
        PROVE  msg[c].chan # ch0
    <3>1. SUFFICES ASSUME msg[c].chan = chan PROVE FALSE
      BY <1>2
    <3>2. msg[at].op \in OnChannels
      BY DEF OnChannels
    <3>3. Meets(chan)
      BY <1>1, <2>1, <3>1, <3>2, Alone
    <3>4. QED
      BY <3>3 DEF Meets
  <2>2. msg[at].chan \in live'
    BY <1>1 DEF chan
  <2>3. QED
    BY <1>1, <1>3, <2>1, <2>2, PromiseKept
<1>8. AnswersAreNews'
  BY <1>1, AnswersKept
<1>9. WordsKnown'
  <2> SUFFICES ASSUME NEW ch \in live, word'[ch] # NoProcess
               PROVE  /\ word'[ch] \in Pids /\ Stopped(word[ch])'
                      /\ ~Waking(word[ch])'
                      /\ \E op \in {"send", "recv"} : LastOn(word[ch], op, ch)'
    BY <1>1 DEF WordsKnown
  <2>0. ch \in Channels
    BY <1>3
  <2>1. CASE ch = ch0
    <3>1. PICK q \in Pids, op \in {"send", "recv"} : q = me /\ op = msg[at].op
      BY <1>3
    <3>2. Parks /\ word'[ch] = q
      BY <2>0, <2>1, <3>1, <1>2, <1>3 DEF Parks, Takes
    <3>3. /\ ~Waking(q) /\ LastOn(q, op, ch) /\ proc[q] # Dead /\ q \in Cells
      BY <2>1, <3>1, <1>1, <1>2, Speaks, NumbersApart DEF OnChannels
    <3>4. Stopped(q)' /\ ~Waking(q)'
      BY <3>1, <3>2, <3>3 DEF Parks
    <3>5. LastOn(q, op, ch)'
      BY <3>3, <1>3 DEF LastOn, LastInstruction, Undisturbed
    <3>6. QED
      BY <3>2, <3>4, <3>5
  <2>2. CASE ch # ch0
    <3>1. word'[ch] = word[ch]
      BY <2>2, <1>3
    <3>2. Stopped(word[ch]) => Stopped(word[ch])'
      BY <3>1, <1>1 DEF Parks, Takes
    <3>3. Waking(word[ch])' => Waking(word[ch])
      <4>1. word[chan] # NoProcess => word[chan] # word[ch]
        BY <1>1, <1>2, <2>2, InTheWord
      <4>2. QED
        BY <3>1, <4>1 DEF Parks, Takes
    <3>4. QED
      BY <1>1, <1>3, <3>1, <3>2, <3>3, StillParked
  <2>3. QED
    BY <2>1, <2>2
<1>10. StoppedKnown'
  <2> SUFFICES ASSUME NEW p \in Pids, Stopped(p)'
               PROVE  \/ Waking(p)'
                      \/ LastInstruction(p)'.op \in {"yield", "halt"}
                      \/ \E ch \in live : word'[ch] = p
    BY <1>1 DEF StoppedKnown
  <2>1. CASE Stopped(p)
    <3>1. Waking(p) => Waking(p)'
      BY DEF Parks, Takes
    <3>2. CASE \E ch \in live : word[ch] = p
      <4>1. PICK ch \in live : word[ch] = p
        BY <3>2
      <4>2. CASE ch = ch0
        <5>1. Takes
          BY <4>1, <4>2, <1>2, NumbersApart DEF Parks
        <5>2. QED
          BY <5>1, <4>1, <4>2, <1>2 DEF Takes
      <4>3. CASE ch # ch0
        BY <4>1, <4>3, <1>3
      <4>4. QED
        BY <4>2, <4>3
    <3>3. CASE ~ \E ch \in live : word[ch] = p
      BY <2>1, <3>1, <3>3, <1>1, <1>3, StillStopped
    <3>4. QED
      BY <3>2, <3>3
  <2>2. CASE ~Stopped(p)
    <3>1. Parks /\ p = me
      BY <2>2 DEF Parks, Takes
    <3>2. word'[ch0] = p
      BY <3>1, <1>2, <1>3 DEF Parks
    <3>3. QED
      BY <3>2
  <2>3. QED
    BY <2>1, <2>2
<1>11. ValuesKnown'
  <2>1. ASSUME NEW ch \in live PROVE ValueKnown(ch)'
    <3>1. CASE ch = ch0
      <4>1. ValueKnown(ch0)'
        BY <1>2
      <4>2. QED
        BY <3>1, <4>1
    <3>2. CASE ch # ch0
      BY <3>2, <1>1, <1>2, <1>3, ValueStays
    <3>3. QED
      BY <3>1, <3>2
  <2>2. QED
    BY <1>1, <2>1 DEF ValuesKnown, ValueKnown
<1>12. QED
  BY <1>1, <1>4, <1>5, <1>6, <1>7, <1>8, <1>9, <1>10, <1>11
     DEF Meetings, Lasting, InTick

\* What the four handlers below have in common.
LEMMA ChannelStep ==
  ASSUME IInv, Meetings, SendParks \/ SendToReceiver \/ ReceiveParks \/ ReceiveTakes
  PROVE  /\ HandlerStep /\ chan \in Channels /\ at < NCores
         /\ UNCHANGED <<ret, cellVars, heapEnd, heapFree, live, sent>>
         /\ SendParks \/ SendToReceiver =>
              /\ msg[at].op = "send" /\ ~Listening(chan)
              /\ value' = [value EXCEPT ![chan] = msg[at].value]
         /\ ReceiveParks \/ ReceiveTakes =>
              msg[at].op = "recv" /\ ~Offered(chan) /\ value' = value
<1>1. CASE SendParks \/ SendToReceiver
  BY <1>1 DEF SendParks, SendToReceiver, Sending, OnChannel, Handling, NextCore,
              HandlerStep, tableVars, ReceiveParks, ReceiveTakes, Receiving
<1>2. CASE ReceiveParks \/ ReceiveTakes
  BY <1>2 DEF ReceiveParks, ReceiveTakes, Receiving, OnChannel, Handling, NextCore,
              HandlerStep, tableVars, SendParks, SendToReceiver, Sending
<1>3. QED
  BY <1>1, <1>2

LEMMA ParksMeetings ==
  ASSUME IInv, Meetings, SendParks \/ ReceiveParks
  PROVE  Meetings'
<1>1. /\ HandlerStep /\ chan \in Channels
      /\ UNCHANGED <<ret, cellVars, heapEnd, heapFree, live, sent, got>>
      /\ \/ /\ msg[at].op = "send" /\ ~Listening(chan)
            /\ value' = [value EXCEPT ![chan] = msg[at].value]
         \/ msg[at].op = "recv" /\ ~Offered(chan) /\ value' = value
  BY ChannelStep DEF SendParks, ReceiveParks
<1>2. Empty(chan) /\ Park(chan, me, FALSE) /\ AddTasks(<<Deschedule(me)>>)
  BY DEF SendParks, ReceiveParks
<1>3. /\ Lasting /\ Kept /\ OnPids /\ InTick /\ chan \in live
      /\ word[chan] = NoProcess /\ me \in Pids
  BY <1>1, <1>2, OnItsChannel
<1>4. word' = [word EXCEPT ![chan] = me]
  BY <1>2 DEF Park
<1>5. Undisturbed /\ Kept'
  <2>1. UNCHANGED <<pc, env, msg, ret, sent, got, live>> /\ DOMAIN value' = DOMAIN value
    BY <1>1 DEF cellVars, HandlerStep
  <2>2. QED
    BY <1>3, <2>1 DEF Kept, Undisturbed
<1>6. /\ Deschedule(me) \in Task /\ Deschedule(me).kind = "deschedule"
      /\ Deschedule(me).pid = me
  BY <1>3, NumbersApart DEF Deschedule, Task
<1>7. /\ StopsKnown' /\ WakesKnown'
      /\ \A p : (Stopped(p)' <=> Stopped(p) \/ p = me) /\ (Waking(p)' <=> Waking(p))
  BY <1>1, <1>2, <1>3, <1>5, <1>6, StopTask
<1>8. Parks
  BY <1>3, <1>4, <1>7 DEF Parks
<1>9. PICK ch \in live, q \in Pids : ch = chan /\ q = me
  BY <1>3
<1>10. /\ word[ch] = NoProcess /\ word'[ch] = q /\ q # NoProcess
       /\ LastInstruction(q)'.op = msg[at].op
  <2>1. LastInstruction(q).op = msg[at].op /\ proc[q] # Dead /\ q \in Cells
    BY <1>1, <1>3, <1>9, Speaks, NumbersApart
  <2>2. word \in [Channels -> Nat]
    BY <1>1, Handles
  <2>3. QED
    BY <2>1, <2>2, <1>1, <1>3, <1>4, <1>5, <1>9, NumbersApart
       DEF Undisturbed, LastInstruction
<1>11. ValueKnown(ch) /\ Issuing("send", ch)' = Issuing("send", ch)
       /\ UNCHANGED <<phase, msg>> /\ phase = "handle"
  BY <1>1, <1>3 DEF InTick, ValuesKnown, ValueKnown, Issuing, HandlerStep
<1>12. ValueKnown(ch)'
  <2>1. CASE msg[at].op = "send"
    <3>1. /\ ~Listening(chan) /\ value'[ch] = msg[at].value
      BY <1>1, <1>3, <1>9, <2>1 DEF Kept
    <3>2. at \in Issuing("send", ch)
      BY <1>1, <1>9, <2>1, Handles DEF Issuing, chan
    <3>3. value'[ch] = sent[ch]
      BY <1>11, <3>1, <3>2 DEF ValueKnown
    <3>4. InFlight(ch)
      BY <1>1, <1>3, <1>9, <2>1, <3>1, NowHandled
    <3>5. SenderIn(ch)' /\ InFlight(ch)'
      BY <1>10, <2>1 DEF SenderIn, InFlight, LastInstruction
    <3>6. QED
      BY <1>1, <1>11, <3>3, <3>4, <3>5 DEF ValueKnown
  <2>2. CASE msg[at].op = "recv"
    <3>1. InFlight(ch)' <=> InFlight(ch)
      <4>1. ~SenderIn(ch)' /\ ~SenderIn(ch)
        BY <1>10, <2>2 DEF SenderIn, LastInstruction
      <4>2. QED
        BY <4>1, <1>1, <1>3, <2>2, StillInFlight DEF InFlight
    <3>2. ~SenderIn(ch)'
      BY <1>10, <2>2 DEF SenderIn, LastInstruction
    <3>3. QED
      BY <1>1, <1>11, <3>1, <3>2 DEF ValueKnown
  <2>3. QED
    BY <1>1, <2>1, <2>2
<1>13. \A c \in live : c # chan => got'[c] = got[c] /\ value'[c] = value[c]
  BY <1>1, <1>3 DEF Kept
<1>14. \A i \in 1 .. Len(got'[chan]) : got'[chan][i] = i
  BY <1>1, <1>3 DEF Lasting, GotInOrder
<1>15. \A c : c = chan => ValueKnown(c)'
  BY <1>9, <1>12
<1>16. QED
  BY <1>1, <1>5, <1>7, <1>8, <1>13, <1>14, <1>15, AtTheChannel

LEMMA TakesMeetings ==
  ASSUME IInv, Meetings, SendToReceiver \/ ReceiveTakes
  PROVE  Meetings'
<1>1. /\ HandlerStep /\ chan \in Channels
      /\ UNCHANGED <<ret, cellVars, heapEnd, heapFree, live, sent>>
      /\ \/ /\ msg[at].op = "send" /\ ~Listening(chan)
            /\ value' = [value EXCEPT ![chan] = msg[at].value]
            /\ got' = [got EXCEPT ![chan] = Append(@, msg[at].value)]
         \/ /\ msg[at].op = "recv" /\ ~Offered(chan) /\ value' = value
            /\ got' = [got EXCEPT ![chan] = Append(@, value[chan])]
  BY ChannelStep DEF SendToReceiver, ReceiveTakes
<1>2. ~Empty(chan) /\ Park(chan, NoProcess, FALSE)
      /\ AddTasks(<<Schedule(PidOf(word[chan]))>>)
  BY DEF SendToReceiver, ReceiveTakes
<1>3. /\ Lasting /\ Kept /\ OnPids /\ InTick /\ chan \in live
      /\ word[chan] # NoProcess /\ PidOf(word[chan]) = word[chan]
      /\ \/ msg[at].op = "send" /\ LastInstruction(word[chan]).op = "recv"
         \/ msg[at].op = "recv" /\ LastInstruction(word[chan]).op = "send"
  BY <1>1, <1>2, OnItsChannel
<1>4. word' = [word EXCEPT ![chan] = NoProcess]
  BY <1>2 DEF Park
<1>5. PICK ch \in live, q \in Pids : ch = chan /\ q = word[chan]
  BY <1>1, <1>3, InTheWord DEF HandlerStep
<1>6. Stopped(q) /\ LastInstruction(q).op \in {"send", "recv"}
  BY <1>1, <1>3, <1>5, InTheWord DEF HandlerStep
<1>7. ValueKnown(ch) /\ Issuing("send", ch)' = Issuing("send", ch)
      /\ UNCHANGED <<phase, msg>> /\ phase = "handle"
  BY <1>1, <1>3 DEF InTick, ValuesKnown, ValueKnown, Issuing, HandlerStep
<1>8. ch \in Channels /\ sent[ch] \in Nat /\ got[ch] \in Seq(Nat)
      /\ Len(got[ch]) \in Nat /\ \A i \in 1 .. Len(got[ch]) : got[ch][i] = i
  BY <1>3 DEF Kept, Lasting, GotInOrder
<1>9. got' = [got EXCEPT ![ch] = Append(@, sent[ch])] /\ sent[ch] = Len(got[ch]) + 1
  <2>1. CASE msg[at].op = "send"
    <3>1. at \in Issuing("send", ch)
      BY <1>1, <1>5, <2>1, Handles DEF Issuing, chan
    <3>2. msg[at].value = sent[ch]
      BY <1>7, <3>1 DEF ValueKnown
    <3>3. InFlight(ch)
      BY <1>1, <1>3, <1>5, <2>1, NowHandled
    <3>4. QED
      BY <1>1, <1>5, <1>7, <2>1, <3>2, <3>3 DEF ValueKnown
  <2>2. CASE msg[at].op = "recv"
    <3>1. SenderIn(ch)
      BY <1>3, <1>5, <2>2 DEF SenderIn
    <3>2. QED
      BY <1>1, <1>5, <1>7, <2>2, <3>1 DEF ValueKnown, InFlight
  <2>3. QED
    BY <1>1, <2>1, <2>2
<1>10. got'[ch] = Append(got[ch], sent[ch]) /\ got' \in [Channels -> Seq(Nat)]
       /\ \A c \in live : c # ch => got'[c] = got[c] /\ value'[c] = value[c]
  BY <1>1, <1>3, <1>5, <1>8, <1>9 DEF Kept
<1>11. /\ Len(got'[ch]) = sent[ch]
       /\ \A i \in 1 .. Len(got'[ch]) : got'[ch][i] = i
  BY <1>8, <1>9, <1>10
<1>12. Undisturbed /\ Kept'
  <2>1. UNCHANGED <<pc, env, msg, ret, sent, live>> /\ DOMAIN value' = DOMAIN value
    BY <1>1 DEF cellVars, HandlerStep
  <2>2. QED
    BY <1>3, <1>10, <2>1 DEF Kept, Undisturbed
<1>13. /\ StopsKnown' /\ WakesKnown'
       /\ \A p : (Stopped(p)' <=> Stopped(p)) /\ (Waking(p)' <=> Waking(p) \/ p = q)
  BY <1>1, <1>2, <1>3, <1>5, <1>6, <1>12, WakeTask
<1>14. Takes
  BY <1>3, <1>4, <1>5, <1>13 DEF Takes
<1>15. ~InFlight(ch)'
  <2>1. word'[ch] = NoProcess
    BY <1>1, <1>4, <1>5, Handles
  <2>2. ~SenderIn(ch)'
    BY <2>1 DEF SenderIn
  <2>3. CASE msg[at].op = "send"
    <3>1. ~ToHandle(ch)' /\ ~ToDeliver(ch)'
      BY <1>1, <1>3, <1>5, <2>3, NowHandled
    <3>2. QED
      BY <2>2, <3>1 DEF InFlight
  <2>4. CASE msg[at].op = "recv"
    <3>1. Issuing("send", ch) = {}
      BY <1>1, <1>5, <2>4 DEF Offered
    <3>2. Issuing("send", ch)' = {}
      BY <3>1, <1>7
    <3>3. QED
      BY <2>2, <3>2 DEF InFlight, ToHandle, ToDeliver, Offered
  <2>5. QED
    BY <1>1, <2>3, <2>4
<1>16. ValueKnown(ch)'
  <2>1. ~SenderIn(ch)'
    BY <1>15 DEF InFlight
  <2>2. sent'[ch] = Len(got'[ch]) + 0
    BY <1>1, <1>8, <1>11
  <2>3. \A c \in Issuing("send", ch)' : msg'[c].value = sent'[ch]
    BY <1>1, <1>7 DEF ValueKnown
  <2>4. QED
    BY <1>15, <2>1, <2>2, <2>3 DEF ValueKnown
<1>17. /\ \A c : c = chan => ValueKnown(c)'
       /\ \A i \in 1 .. Len(got'[chan]) : got'[chan][i] = i
       /\ \A c \in live : c # chan => got'[c] = got[c] /\ value'[c] = value[c]
  BY <1>5, <1>10, <1>11, <1>16
<1>18. QED
  BY <1>1, <1>12, <1>13, <1>14, <1>17, AtTheChannel

\* The value that a receiver is answered with in its own tick.
LEMMA TheOffer ==
  ASSUME IInv, Meetings, HandlerStep, msg[at].op = "recv", Offered(chan)
  PROVE  OfferedValue(chan) = sent[chan]
<1>1. PICK c \in Issuing("send", chan) : TRUE
  BY DEF Offered
<1>2. InTick /\ chan \in live /\ phase = "handle"
  BY OnItsChannel DEF HandlerStep
<1>3. \A d \in Issuing("send", chan) : d = c
  BY <1>2 DEF Issuing, InTick, Promised, OnChannels
<1>4. Issuing("send", chan) = {c}
  BY <1>1, <1>3
<1>5. (CHOOSE e \in Issuing("send", chan) :
         \A d \in Issuing("send", chan) : d <= e) = c
  <2>1. c \in Nat
    BY <1>1, ConstantsTyped DEF Issuing, Cores
  <2>2. c <= c
    BY <2>1
  <2>3. QED
    BY <1>4, <2>2
<1>6. OfferedValue(chan) = msg[c].value
  BY <1>5 DEF OfferedValue
<1>7. QED
  BY <1>1, <1>2, <1>6 DEF InTick, ValuesKnown

LEMMA MeetsInTick ==
  ASSUME IInv, Meetings, ReceiveMeetsSend
  PROVE  Meetings'
<1>1. /\ HandlerStep /\ msg[at].op = "recv" /\ chan \in Channels /\ Offered(chan)
      /\ UNCHANGED <<tasks, cellVars, channelVars, live, sent, got>>
      /\ Answer([NoAnswer EXCEPT !.kind = "receive", !.chan = chan,
                                 !.value = OfferedValue(chan)])
  BY DEF ReceiveMeetsSend, Receiving, OnChannel, Handling, NextCore, HandlerStep,
         tableVars, channelVars
<1>2. /\ Lasting /\ Kept /\ OnPids /\ InTick /\ chan \in live
      /\ OfferedValue(chan) = sent[chan] /\ at \in Cores
  BY <1>1, OnItsChannel, TheOffer, Handles
<1>3. Undisturbed /\ Kept'
  <2>1. UNCHANGED <<pc, env, msg, value, sent, got, live>> /\ DOMAIN ret' = DOMAIN ret
    BY <1>1 DEF cellVars, channelVars, HandlerStep, Answer
  <2>2. QED
    BY <1>2, <2>1 DEF Kept, Undisturbed
<1>4. /\ \A c \in Cores : c # at => ret'[c] = ret[c]
      /\ ret'[at].kind = "receive" /\ ret'[at].chan = chan
      /\ ret'[at].value = sent[chan]
  BY <1>1, <1>2 DEF Answer, Kept, NoAnswer
<1>5. AnswersAreNews'
  <2>1. AnswersAreNews /\ UNCHANGED <<msg, phase, sent>> /\ phase = "handle"
        /\ at' = at + 1
    BY <1>1, <1>2 DEF InTick, HandlerStep
  <2>2. \A ch : Offered(ch)' <=> Offered(ch)
    BY <2>1 DEF Offered, Issuing
  <2>3. ASSUME NEW c \in Cores
        PROVE  /\ ret'[c].kind \in Answers
               /\ ret'[c].kind = "created" => msg[c].op = "chan"
               /\ (ret'[c].kind = "receive") <=>
                    msg[c].op = "recv" /\ Offered(msg[c].chan) /\ c < at + 1
               /\ ret'[c].kind = "receive" =>
                    ret'[c].chan = msg[c].chan /\ ret'[c].value = sent[msg[c].chan]
    <3>1. CASE c = at
      <4>1. c < at + 1
        BY <3>1, <1>1, Handles
      <4>2. QED
        BY <3>1, <4>1, <1>1, <1>4 DEF Answers, chan
    <3>2. CASE c # at
      <4>1. c < at + 1 <=> c < at
        BY <3>2, <1>1, Handles
      <4>2. QED
        BY <3>2, <4>1, <1>4, <2>1 DEF AnswersAreNews
    <3>3. QED
      BY <3>1, <3>2
  <2>4. QED
    BY <2>1, <2>2, <2>3 DEF AnswersAreNews
<1>6. /\ StopsKnown' /\ WakesKnown'
      /\ \A p : (Stopped(p)' <=> Stopped(p)) /\ (Waking(p)' <=> Waking(p))
  BY <1>1, <1>2, <1>3, NoTask
<1>7. /\ \A p : Stopped(p) => Stopped(p)'
      /\ \A p : Stopped(p)' =>
           Stopped(p) \/ (p = me /\ msg[at].op \in {"yield", "halt"})
      /\ \A p : Waking(p) => Waking(p)'
      /\ \A p : Waking(p)' => Waking(p) \/ proc[p] = Dead
  BY <1>6
<1>8. msg[at].op # "send" /\ UNCHANGED <<channelVars, live, sent, got>>
  BY <1>1
<1>9. QED
  BY <1>1, <1>3, <1>5, <1>6, <1>7, <1>8, ChannelsAlone

\* A channel comes or goes: those that live before and after are not touched.
LEMMA ChannelsChange ==
  ASSUME IInv, Meetings, HandlerStep, UNCHANGED <<tasks, cellVars>>, Kept',
         FreeChannelsLinked', AnswersAreNews', NEW chs \in SUBSET Channels,
         live' \ chs \subseteq live, msg[at].op \notin {"send", "recv"},
         \A ch \in live : word[ch] # NoProcess => ch \in live',
         \A c \in Cores : c # at /\ msg[c].op \in OnChannels
                            /\ msg[c].chan \in live => msg[c].chan \in live',
         \A ch \in live : ch \in live' => ch \notin chs,
         \A ch \in live' \ chs : /\ word'[ch] = word[ch] /\ sent'[ch] = sent[ch]
                                 /\ got'[ch] = got[ch] /\ value'[ch] = value[ch],
         \A ch \in live' \cap chs : /\ ch \notin live
                                    /\ word'[ch] = NoProcess /\ sent'[ch] = 0
                                    /\ got'[ch] = <<>>
  PROVE  Meetings'
<1>1. Lasting /\ InTick /\ Kept /\ OnPids /\ UNCHANGED <<phase, msg, corePid, proc>>
      /\ phase = "handle" /\ Undisturbed
  BY DEF Meetings, Lasting, HandlerStep, Undisturbed, cellVars
<1>2. OnPids' /\ NothingLeft'
  BY <1>1 DEF OnPids, NothingLeft
<1>3. GotInOrder'
  <2> SUFFICES ASSUME NEW ch \in live'
               PROVE  \A i \in 1 .. Len(got'[ch]) : got'[ch][i] = i
    BY DEF GotInOrder
  <2>1. CASE ch \in chs
    BY <2>1
  <2>2. CASE ch \notin chs
    BY <2>2, <1>1 DEF Lasting, GotInOrder
  <2>3. QED
    BY <2>1, <2>2
<1>4. MessagesAreNews' /\ Promised'
  <2>1. MessagesAreNews'
    BY <1>1, NewsKept DEF InTick
  <2>2. \A c \in Cores : c # at /\ msg[c].op \in OnChannels
                            /\ msg[c].chan \in live =>
           msg[c].chan \in live' /\ word'[msg[c].chan] = word[msg[c].chan]
    OBVIOUS
  <2>3. QED
    BY <1>1, <2>1, <2>2, PromiseKept
<1>5. /\ StopsKnown' /\ WakesKnown'
      /\ \A p : (Stopped(p)' <=> Stopped(p)) /\ (Waking(p)' <=> Waking(p))
  BY <1>1, NoTask
<1>6. WordsKnown'
  <2> SUFFICES ASSUME NEW ch \in live', word'[ch] # NoProcess
               PROVE  /\ word'[ch] \in Pids /\ Stopped(word[ch])'
                      /\ ~Waking(word[ch])'
                      /\ \E op \in {"send", "recv"} : LastOn(word[ch], op, ch)'
    BY DEF WordsKnown
  <2>1. ch \in live /\ word'[ch] = word[ch]
    OBVIOUS
  <2>2. /\ Stopped(word[ch]) => Stopped(word[ch])'
        /\ Waking(word[ch])' => Waking(word[ch])
    BY <1>5, <2>1
  <2>3. QED
    BY <1>1, <2>1, <2>2, StillParked
<1>7. StoppedKnown'
  <2> SUFFICES ASSUME NEW p \in Pids, Stopped(p)
               PROVE  \/ Waking(p)'
                      \/ LastInstruction(p)'.op \in {"yield", "halt"}
                      \/ \E ch \in live' : word'[ch] = p
    BY <1>5 DEF StoppedKnown
  <2>1. p # NoProcess
    BY NumbersApart
  <2>2. \A ch \in live : word[ch] = p => ch \in live' /\ word'[ch] = p
    BY <2>1
  <2>3. QED
    BY <1>1, <1>5, <2>2, StillStopped
<1>8. ValuesKnown'
  <2>1. ASSUME NEW ch \in live' PROVE ValueKnown(ch)'
    <3>1. CASE ch \in chs
      <4>1. ch \notin live /\ word'[ch] = NoProcess /\ sent'[ch] = 0 /\ got'[ch] = <<>>
        BY <3>1
      <4>2. Issuing("send", ch)' = {}
        BY <1>1, <4>1 DEF Issuing, InTick, Promised
      <4>3. ~InFlight(ch)' /\ ~SenderIn(ch)'
        BY <4>1, <4>2 DEF InFlight, SenderIn, ToHandle, ToDeliver, Offered
      <4>4. QED
        BY <4>1, <4>2, <4>3 DEF ValueKnown
    <3>2. CASE ch \notin chs
      BY <3>2, <1>1, ValueStays
    <3>3. QED
      BY <3>1, <3>2
  <2>2. QED
    BY <2>1 DEF ValuesKnown, ValueKnown
<1>9. QED
  BY <1>1, <1>2, <1>3, <1>4, <1>5, <1>6, <1>7, <1>8 DEF Meetings, Lasting, InTick

LEMMA Creates ==
  ASSUME IInv, Meetings, HandleCreateChannel
  PROVE  Meetings'
<1>1. PICK ch \in Channels :
        /\ ChannelHeap!AllocNew(ch) \/ ChannelHeap!AllocFreed(ch)
        /\ word' = [word EXCEPT ![ch] = NoProcess]
        /\ value' = [value EXCEPT ![ch] = 0]
        /\ Answer([NoAnswer EXCEPT !.kind = "created", !.value = ch,
                                   !.name = msg[at].name])
        /\ live' = live \cup {ch}
        /\ sent' = [sent EXCEPT ![ch] = 0]
        /\ got' = [got EXCEPT ![ch] = <<>>]
  BY DEF HandleCreateChannel
<1>2. HandlerStep /\ msg[at].op = "chan" /\ UNCHANGED <<tasks, cellVars>>
  BY DEF HandleCreateChannel, Handling, NextCore, HandlerStep, tableVars
<1>3. Lasting /\ InTick /\ Kept /\ word \in [Channels -> Nat] /\ live \subseteq Channels
  BY <1>2, Handles DEF Meetings, Lasting, HandlerStep, Kept
<1>4. ch \notin live /\ FreeChannelsLinked'
  BY <1>1, <1>3, Allocates DEF Lasting
<1>5. Kept'
  <2>1. UNCHANGED <<pc, env, msg>> /\ DOMAIN ret' = DOMAIN ret
    BY <1>1, <1>2 DEF HandlerStep, cellVars, Answer
  <2>2. sent' \in [Channels -> Nat] /\ got' \in [Channels -> Seq(Nat)]
        /\ DOMAIN value' = Channels /\ live' \in SUBSET Channels
    BY <1>1, <1>3 DEF Kept
  <2>3. QED
    BY <1>3, <2>1, <2>2 DEF Kept
<1>6. AnswersAreNews'
  <2>1. PICK a : ret' = [ret EXCEPT ![at] = a] /\ a.kind = "created"
    <3> DEFINE a == [NoAnswer EXCEPT !.kind = "created", !.value = ch,
                                     !.name = msg[at].name]
    <3>1. a.kind = "created"
      BY DEF NoAnswer
    <3>2. ret' = [ret EXCEPT ![at] = a]
      BY <1>1 DEF Answer
    <3> HIDE DEF a
    <3>3. QED
      BY <3>1, <3>2
  <2>2. \A c \in live : sent'[c] = sent[c]
    BY <1>1, <1>3, <1>4 DEF Kept
  <2>3. QED
    BY <1>2, <1>3, <2>1, <2>2, AnswersKept
<1>7. /\ word'[ch] = NoProcess /\ sent'[ch] = 0 /\ got'[ch] = <<>>
      /\ \A c \in live : /\ word'[c] = word[c] /\ sent'[c] = sent[c]
                         /\ got'[c] = got[c] /\ value'[c] = value[c]
  BY <1>1, <1>3, <1>4 DEF Kept
<1>8. {ch} \in SUBSET Channels /\ live' \ {ch} \subseteq live /\ live \subseteq live'
  BY <1>1
<1>9. QED
  BY <1>2, <1>4, <1>5, <1>6, <1>7, <1>8, ChannelsChange

LEMMA Deletes ==
  ASSUME IInv, Meetings, HandleDeleteChannel
  PROVE  Meetings'
<1>1. /\ HandlerStep /\ msg[at].op = "del" /\ UNCHANGED <<tasks, cellVars>>
      /\ ChannelHeap!FreeBlock(chan) /\ live' = live \ {chan}
      /\ UNCHANGED <<ret, value, sent, got>>
  BY DEF HandleDeleteChannel, OnChannel, Handling, NextCore, HandlerStep, tableVars
<1>2. Lasting /\ InTick /\ Kept /\ word \in [Channels -> Nat] /\ live \subseteq Channels
      /\ at \in Cores /\ at >= at
  BY <1>1, Handles DEF Meetings, Lasting, HandlerStep, Kept
<1>3. chan \in live /\ word[chan] = NoProcess
  BY <1>1, <1>2 DEF InTick, Promised, HandlerStep, OnChannels, chan
<1>4. FreeChannelsLinked' /\ \A c \in live' : word'[c] = word[c]
  BY <1>1, <1>2, <1>3, Frees DEF Lasting
<1>5. Kept'
  <2>1. UNCHANGED <<pc, env, msg, ret, value, sent, got>> /\ live' \in SUBSET Channels
    BY <1>1, <1>2 DEF HandlerStep, cellVars
  <2>2. QED
    BY <1>2, <2>1 DEF Kept
<1>6. AnswersAreNews'
  BY <1>1, <1>2, AnswersKept
<1>7. \A c \in Cores : c # at /\ msg[c].op \in OnChannels => msg[c].chan # chan
  <2>1. msg[at].op \in OnChannels
    BY <1>1 DEF OnChannels
  <2>2. QED
    BY <1>1, <1>2, <2>1, Alone
<1>8. PICK ch \in live : ch = chan
  BY <1>3
<1>9. /\ live' \subseteq live /\ live' \cap {} = {} /\ live' \ {} \subseteq live
      /\ \A c \in live : word[c] # NoProcess => c \in live'
      /\ \A c \in Cores : c # at /\ msg[c].op \in OnChannels
                            /\ msg[c].chan \in live => msg[c].chan \in live'
      /\ \A c \in live' \ {} : /\ word'[c] = word[c] /\ sent'[c] = sent[c]
                               /\ got'[c] = got[c] /\ value'[c] = value[c]
  BY <1>1, <1>3, <1>4, <1>7
<1>10. QED
  BY <1>1, <1>4, <1>5, <1>6, <1>9, ChannelsChange

-----------------------------------------------------------------------------
\* A program without alternations sends none of the other messages.
LEMMA NoOthers ==
  ASSUME IInv, Meetings
  PROVE  /\ ~SendToAlternation
         /\ ~HandleAlternationStart /\ ~HandleAlternationWait /\ ~HandleAlternationEnd
         /\ ~HandleEnableChannel
         /\ ~DisableWithdraws /\ ~DisableTakes /\ ~DisableLeaves
<1>1. ASSUME SendToAlternation PROVE FALSE
  <2>1. HandlerStep /\ msg[at].op = "send" /\ InAlternation(word[chan])
    BY <1>1 DEF SendToAlternation, Sending, OnChannel, Handling, NextCore,
                HandlerStep, tableVars
  <2>2. QED
    BY <2>1, OnItsChannel
<1>2. ASSUME NEW op, Handling(op) PROVE op \in Plain
  <2>1. at \in Cores /\ InTick /\ phase = "handle"
    BY <1>2, ConstantsTyped DEF Handling, IInv, TypeOK, Meetings
  <2>2. QED
    BY <1>2, <2>1 DEF Handling, InTick, Promised
<1>3. Plain = {"send", "recv", "del", "none", "yield", "halt", "start", "chan"}
  BY DEF Plain, OnChannels
<1>4. ~Handling("altstart") /\ ~Handling("altwait") /\ ~Handling("altend")
      /\ ~Handling("enable") /\ ~Handling("disable")
  BY <1>2, <1>3
<1>5. QED
  BY <1>1, <1>4 DEF HandleAlternationStart, HandleAlternationWait,
     HandleAlternationEnd, HandleEnableChannel, DisableWithdraws, DisableTakes,
     DisableLeaves, Disabling, OnChannel

\* A tick that fails leaves what lasts.
LEMMA FailMeetings == ASSUME Meetings, Fail PROVE Meetings'
<1>1. UNCHANGED <<tickVars, machine>> /\ phase' = "failed"
  BY DEF Fail
<1>2. UNCHANGED <<pc, env, value, sent, got, live, msg, ret, corePid, word, heapEnd,
                  heapFree>>
  BY <1>1 DEF tickVars, machine, tableVars, cellVars, channelVars, history
<1>3. Lasting'
  BY <1>2 DEF Meetings, Lasting, Kept, OnPids, FreeChannelsLinked, Links, GotInOrder
<1>4. QED
  BY <1>1, <1>3 DEF Meetings

-----------------------------------------------------------------------------
(* The answers.                                                            *)

\* After the last message every answer is there.
LEMMA HandlingDoneMeetings ==
  ASSUME IInv, Meetings, HandlingDone
  PROVE  Meetings'
<1>1. /\ phase = "handle" /\ at = NCores /\ phase' = "deliver" /\ at' = 0
      /\ UNCHANGED <<msg, ret, tasks, idle, corePid, proc, pc, env, word, value,
                     heapEnd, heapFree, live, sent, got>>
  BY DEF HandlingDone, Begin, tickVars, machine, tableVars, cellVars, channelVars,
         history
<1>2. Lasting /\ InTick
  BY <1>1 DEF Meetings
<1>3. Lasting' /\ NothingLeft'
  BY <1>1, <1>2 DEF Lasting, Kept, OnPids, FreeChannelsLinked, Links, GotInOrder,
                    NothingLeft
<1>4. /\ StopsLeft' = StopsLeft /\ WakesLeft' = WakesLeft
      /\ \A p : /\ Stopped(p)' <=> Stopped(p)
                /\ Waking(p)' <=> Waking(p)
                /\ LastInstruction(p)' = LastInstruction(p)
      /\ \A op, ch : Issuing(op, ch)' = Issuing(op, ch)
  BY <1>1 DEF StopsLeft, WakesLeft, Stopped, Stopping, Waking, LastInstruction, Issuing
<1>5. \A c \in Cores : c < at /\ ~(c >= at) /\ c >= at'
  BY <1>1, ConstantsTyped DEF Cores
<1>6. MessagesAreNews' /\ AnswersAreNews'
  <2>1. MessagesAreNews'
    BY <1>1, <1>2 DEF InTick, MessagesAreNews, LastInstruction
  <2>2. \A ch : Offered(ch)' <=> Offered(ch)
    BY <1>4 DEF Offered
  <2>3. AnswersAreNews'
    BY <1>1, <1>2, <1>5, <2>2 DEF InTick, AnswersAreNews
  <2>4. QED
    BY <2>1, <2>3
<1>7. Promised'
  <2>1. \A ch : Meets(ch)' <=> Meets(ch)
    BY <1>4 DEF Meets, Offered, Listening
  <2>2. QED
    BY <1>1, <1>2, <2>1 DEF InTick, Promised
<1>8. StopsKnown' /\ WakesKnown'
  BY <1>1, <1>2, <1>4 DEF InTick, StopsKnown, WakesKnown, IsRunning, LastInstruction,
                          Stopped, Stopping
<1>9. WordsKnown' /\ StoppedKnown'
  <2>1. WordsKnown'
    <3> SUFFICES ASSUME NEW ch \in live, word[ch] # NoProcess
                 PROVE  /\ word'[ch] \in Pids /\ Stopped(word[ch])'
                        /\ ~Waking(word[ch])'
                        /\ \E op \in {"send", "recv"} : LastOn(word[ch], op, ch)'
      BY <1>1 DEF WordsKnown
    <3>1. PICK p \in Pids : p = word[ch]
      BY <1>2 DEF InTick, WordsKnown
    <3>2. Stopped(p)' /\ ~Waking(p)' /\ \E op \in {"send", "recv"} : LastOn(p, op, ch)'
      BY <1>1, <1>2, <1>4, <3>1 DEF InTick, WordsKnown, LastOn
    <3>3. word'[ch] = p
      BY <1>1, <3>1
    <3>4. QED
      BY <3>2, <3>3
  <2>2. StoppedKnown'
    BY <1>1, <1>2, <1>4 DEF InTick, StoppedKnown
  <2>3. QED
    BY <2>1, <2>2
<1>10. ValuesKnown'
  <2>1. \A ch \in live : InFlight(ch)' <=> InFlight(ch)
    <3> SUFFICES ASSUME NEW ch \in live PROVE InFlight(ch)' <=> InFlight(ch)
      OBVIOUS
    <3>1. ~ToHandle(ch) /\ ~ToHandle(ch)'
      BY <1>1, <1>5 DEF ToHandle, Issuing
    <3>2. ToDeliver(ch)' <=> ToDeliver(ch)
      BY <1>1, <1>4, <1>5 DEF ToDeliver, Offered, Issuing
    <3>3. SenderIn(ch)' <=> SenderIn(ch)
      BY <1>1 DEF SenderIn, LastInstruction
    <3>4. QED
      BY <3>1, <3>2, <3>3 DEF InFlight
  <2>2. \A ch : SenderIn(ch)' <=> SenderIn(ch)
    BY <1>1 DEF SenderIn, LastInstruction
  <2>3. QED
    BY <1>1, <1>2, <2>1, <2>2 DEF InTick, ValuesKnown
<1>11. QED
  BY <1>3, <1>6, <1>7, <1>8, <1>9, <1>10 DEF Meetings, InTick

\* What an answer changes.
LEMMA Delivers ==
  ASSUME IInv, Meetings, Deliver
  PROVE  /\ phase = "deliver" /\ phase' = "deliver" /\ at \in Cores /\ at' = at + 1
         /\ Lasting /\ InTick
         /\ UNCHANGED <<msg, ret, tasks, corePid, proc, pc, word, value, heapEnd,
                        heapFree, live, sent>>
         /\ DOMAIN env' = Cells
         /\ \A p \in Cells : env'[p] = env[p] \/ (p = me /\ msg[at].op = "chan")
         /\ msg[at].op = "chan" => me # NoProcess
         /\ IF msg[at].op = "recv" /\ Offered(chan)
            THEN got' = [got EXCEPT ![chan] = Append(@, sent[chan])]
            ELSE got' = got
<1>1. /\ phase = "deliver" /\ phase' = "deliver" /\ at < NCores /\ at' = at + 1
      /\ UNCHANGED <<msg, ret, tasks, corePid, proc, word, value, heapEnd,
                     heapFree, live, sent>>
  BY DEF Deliver, tableVars, channelVars
<1>2. at \in Cores /\ Lasting /\ InTick
  BY <1>1, ConstantsTyped DEF IInv, TypeOK, Meetings
<1>3. /\ ret[at].kind \in Answers
      /\ ret[at].kind = "created" => msg[at].op = "chan"
      /\ (ret[at].kind = "receive") <=> msg[at].op = "recv" /\ Offered(chan)
      /\ ret[at].kind = "receive" => ret[at].chan = chan /\ ret[at].value = sent[chan]
  BY <1>1, <1>2 DEF InTick, AnswersAreNews, chan
<1>4. /\ env' = IF ret[at].kind = "created"
                THEN [env EXCEPT ![me][ret[at].name] = ret[at].value] ELSE env
      /\ pc' = IF ret[at].kind = "jump" THEN [pc EXCEPT ![me] = ret[at].value] ELSE pc
      /\ got' = IF ret[at].kind = "receive"
                THEN [got EXCEPT ![ret[at].chan] = Append(@, ret[at].value)] ELSE got
  BY DEF Deliver
<1>5. pc' = pc
  BY <1>3, <1>4 DEF Answers
<1>6. /\ DOMAIN env' = Cells
      /\ \A p \in Cells : env'[p] = env[p] \/ (p = me /\ msg[at].op = "chan")
  BY <1>2, <1>3, <1>4 DEF Lasting, Kept
<1>7. msg[at].op = "chan" => me # NoProcess
  BY <1>1, <1>2 DEF InTick, MessagesAreNews, me
<1>8. IF msg[at].op = "recv" /\ Offered(chan)
      THEN got' = [got EXCEPT ![chan] = Append(@, sent[chan])]
      ELSE got' = got
  BY <1>3, <1>4
<1>9. QED
  BY <1>1, <1>2, <1>5, <1>6, <1>7, <1>8

LEMMA DeliverMeetings ==
  ASSUME IInv, Meetings, Deliver
  PROVE  Meetings'
<1>1. /\ phase = "deliver" /\ phase' = "deliver" /\ at \in Cores /\ at' = at + 1
      /\ Lasting /\ InTick /\ Kept /\ OnPids
      /\ UNCHANGED <<msg, ret, tasks, corePid, proc, pc, word, value, heapEnd,
                     heapFree, live, sent>>
      /\ DOMAIN env' = Cells
      /\ \A p \in Cells : env'[p] = env[p] \/ (p = me /\ msg[at].op = "chan")
      /\ msg[at].op = "chan" => me # NoProcess
      /\ IF msg[at].op = "recv" /\ Offered(chan)
         THEN got' = [got EXCEPT ![chan] = Append(@, sent[chan])]
         ELSE got' = got
  BY Delivers DEF Lasting
<1>2. /\ StopsLeft' = StopsLeft /\ WakesLeft' = WakesLeft
      /\ \A p : /\ Stopped(p)' <=> Stopped(p)
                /\ Waking(p)' <=> Waking(p)
                /\ LastInstruction(p)' = LastInstruction(p)
      /\ \A op, ch : Issuing(op, ch)' = Issuing(op, ch)
  BY <1>1 DEF StopsLeft, WakesLeft, Stopped, Stopping, Waking, LastInstruction, Issuing
<1>3. \A p \in Cells : LastInstruction(p).op \in OnChannels => env'[p] = env[p]
  <2>1. msg[at].op = "chan" => LastInstruction(me).op = "chan"
    BY <1>1 DEF InTick, MessagesAreNews, me
  <2>2. "chan" \notin OnChannels
    BY DEF OnChannels
  <2>3. QED
    BY <1>1, <2>1, <2>2
<1>4. ASSUME msg[at].op = "recv", Offered(chan)
      PROVE  /\ GotInOrder' /\ got' \in [Channels -> Seq(Nat)]
             /\ \A ch \in live :
                  \/ ValueKnown(ch)'
                  \/ got'[ch] = got[ch] /\ msg[at].chan # ch
  <2>1. PICK ch \in live : ch = chan
    BY <1>1, <1>4 DEF InTick, Promised, chan
  <2>2. at \in Issuing("recv", ch) /\ \A c \in Issuing("recv", ch) : c = at
    BY <1>1, <1>4, <2>1 DEF Issuing, chan, InTick, Promised, OnChannels
  <2>3. Meets(ch) /\ word[ch] = NoProcess
    BY <1>1, <1>4, <2>1, <2>2 DEF Meets, Listening, InTick, Promised
  <2>4. at \in Nat /\ at >= at /\ ~(at >= at + 1)
    BY <1>1, ConstantsTyped
  <2>5. ToDeliver(ch) /\ ~ToDeliver(ch)' /\ ~SenderIn(ch)' /\ ~ToHandle(ch)'
    BY <1>1, <1>2, <1>4, <2>1, <2>2, <2>3, <2>4
       DEF ToDeliver, SenderIn, ToHandle
  <2>6. /\ ch \in Channels /\ got[ch] \in Seq(Nat)
        /\ sent[ch] \in Nat /\ Len(got[ch]) \in Nat
        /\ \A i \in 1 .. Len(got[ch]) : got[ch][i] = i
    BY <1>1 DEF Lasting, Kept, GotInOrder
  <2>7. InFlight(ch)
    BY <2>5 DEF InFlight
  <2>8. sent[ch] = Len(got[ch]) + 1
    BY <1>1, <2>7 DEF InTick, ValuesKnown
  <2>9. /\ got'[ch] = Append(got[ch], sent[ch]) /\ got' \in [Channels -> Seq(Nat)]
        /\ \A c \in live : c # ch => got'[c] = got[c]
    <3>1. got' = [got EXCEPT ![ch] = Append(got[ch], sent[ch])]
      BY <1>1, <1>4, <2>1
    <3>2. got \in [Channels -> Seq(Nat)] /\ live \subseteq Channels
      BY <1>1 DEF Kept
    <3>3. Append(got[ch], sent[ch]) \in Seq(Nat)
      BY <2>6
    <3>4. QED
      BY <2>6, <3>1, <3>2, <3>3
  <2>10. Len(got'[ch]) = sent[ch] /\ \A i \in 1 .. Len(got'[ch]) : got'[ch][i] = i
    BY <2>6, <2>8, <2>9
  <2>11. GotInOrder'
    BY <1>1, <2>9, <2>10 DEF Lasting, GotInOrder
  <2>12. ValueKnown(ch)'
    <3>1. ~InFlight(ch)'
      BY <2>5 DEF InFlight
    <3>2. sent'[ch] = Len(got'[ch]) + 0
      BY <1>1, <2>6, <2>10
    <3>3. QED
      BY <1>1, <2>5, <3>1, <3>2 DEF ValueKnown
  <2>13. \A c \in live : c # ch => msg[at].chan # c
    BY <2>1 DEF chan
  <2>14. QED
    BY <2>9, <2>11, <2>12, <2>13
<1>5. /\ GotInOrder' /\ got' \in [Channels -> Seq(Nat)]
      /\ \A ch \in live : \/ ValueKnown(ch)'
                          \/ /\ got'[ch] = got[ch]
                             /\ ~(msg[at].op = "recv" /\ msg[at].chan = ch /\ Offered(ch))
  <2>1. CASE msg[at].op = "recv" /\ Offered(chan)
    BY <1>4, <2>1
  <2>2. CASE ~(msg[at].op = "recv" /\ Offered(chan))
    BY <2>2, <1>1 DEF Lasting, Kept, GotInOrder, chan
  <2>3. QED
    BY <2>1, <2>2
<1>6. Kept' /\ OnPids' /\ FreeChannelsLinked' /\ NothingLeft'
  BY <1>1, <1>5 DEF Lasting, Kept, OnPids, FreeChannelsLinked, Links, NothingLeft
<1>7. MessagesAreNews'
  <2> SUFFICES ASSUME NEW c \in Cores, msg[c].op # "none"
               PROVE  /\ corePid[c] # NoProcess
                      /\ LastInstruction(corePid[c])'.op = msg[c].op
                      /\ msg[c].op \in OnChannels =>
                           env'[corePid[c]][LastInstruction(corePid[c])'.name]
                             = msg[c].chan
    BY <1>1 DEF MessagesAreNews, LastInstruction
  <2>1. /\ corePid[c] # NoProcess
        /\ LastInstruction(corePid[c]).op = msg[c].op
        /\ msg[c].op \in OnChannels =>
             env[corePid[c]][LastInstruction(corePid[c]).name] = msg[c].chan
    BY <1>1 DEF InTick, MessagesAreNews
  <2>2. corePid[c] \in Cells /\ corePid'[c] = corePid[c]
    BY <1>1 DEF IInv, TypeOK
  <2>3. LastInstruction(corePid[c])' = LastInstruction(corePid[c])
    BY <1>1 DEF LastInstruction
  <2>4. QED
    BY <1>3, <2>1, <2>2, <2>3
<1>8. Promised' /\ AnswersAreNews'
  <2>1. \A ch : (Meets(ch)' <=> Meets(ch)) /\ (Offered(ch)' <=> Offered(ch))
    BY <1>2 DEF Meets, Offered, Listening
  <2>2. QED
    BY <1>1, <2>1 DEF InTick, Promised, AnswersAreNews
<1>9. StopsKnown' /\ WakesKnown'
  BY <1>1, <1>2 DEF InTick, StopsKnown, WakesKnown, IsRunning, LastInstruction,
                    Stopped, Stopping
<1>10. WordsKnown'
  <2> SUFFICES ASSUME NEW ch \in live, word[ch] # NoProcess
               PROVE  /\ word'[ch] \in Pids /\ Stopped(word[ch])'
                      /\ ~Waking(word[ch])'
                      /\ \E op \in {"send", "recv"} : LastOn(word[ch], op, ch)'
    BY <1>1 DEF WordsKnown
  <2>1. PICK p \in Pids : p = word[ch]
    BY <1>1 DEF InTick, WordsKnown
  <2>2. /\ Stopped(p)' /\ ~Waking(p)'
        /\ \E op \in {"send", "recv"} : LastOn(p, op, ch)
    BY <1>1, <1>2, <2>1 DEF InTick, WordsKnown
  <2>3. \A op \in {"send", "recv"} : LastOn(p, op, ch) => LastOn(p, op, ch)'
    BY <1>2, <1>3, NumbersApart DEF LastOn, OnChannels
  <2>4. word'[ch] = p
    BY <1>1, <2>1
  <2>5. QED
    BY <2>2, <2>3, <2>4
<1>11. StoppedKnown'
  BY <1>1, <1>2 DEF InTick, StoppedKnown
<1>12. ValuesKnown'
  <2>1. ASSUME NEW ch \in live, got'[ch] = got[ch],
               ~(msg[at].op = "recv" /\ msg[at].chan = ch /\ Offered(ch))
        PROVE  ValueKnown(ch)'
    <3>1. SenderIn(ch)' <=> SenderIn(ch)
      BY <1>1 DEF SenderIn, LastInstruction
    <3>2. \A c \in Issuing("recv", ch) : Offered(ch) => (c >= at <=> c >= at + 1)
      BY <2>1, <1>1, ConstantsTyped DEF Issuing, Cores
    <3>3. ToDeliver(ch)' <=> ToDeliver(ch)
      BY <1>1, <1>2, <3>2 DEF ToDeliver, Offered
    <3>4. InFlight(ch)' <=> InFlight(ch)
      BY <1>1, <3>1, <3>3 DEF InFlight, ToHandle
    <3>5. QED
      BY <1>1, <2>1, <3>1, <3>4 DEF ValueKnown, InTick, ValuesKnown
  <2>2. \A ch \in live : ValueKnown(ch)'
    BY <1>5, <2>1
  <2>3. QED
    BY <1>1, <2>2 DEF ValuesKnown, ValueKnown
<1>13. QED
  BY <1>5, <1>6, <1>7, <1>8, <1>9, <1>10, <1>11, <1>12
     DEF Meetings, Lasting, InTick

-----------------------------------------------------------------------------
(* The tasks.                                                              *)

Quieter == {"deschedule", "schedule", "fill", "cores", "halted"}

\* What is left to show of a step that handles no message.
LEMMA Settles ==
  ASSUME IInv, Meetings, phase # "failed", phase' \in Quieter,
         UNCHANGED <<pc, env, word, value, heapEnd, heapFree, live, sent, got>>,
         \A ch \in live : ~ToHandle(ch) /\ ~ToDeliver(ch),
         DOMAIN msg' = Cores, \A c \in Cores : msg'[c].to \in Nat,
         DOMAIN ret' = Cores, OnPids', NothingLeft', StopsKnown', WakesKnown',
         \A ch \in live : word[ch] # NoProcess =>
           \A p \in Pids : p = word[ch] => Stopped(p)' /\ ~Waking(p)',
         \A p \in Pids : Stopped(p)' => Stopped(p) /\ (Waking(p) => Waking(p)')
  PROVE  Meetings'
<1>1. Lasting /\ InTick /\ phase' # "failed" /\ phase' \notin {"handle", "deliver"}
  BY DEF Meetings, Quieter
<1>2. Lasting'
  BY <1>1 DEF Lasting, Kept, FreeChannelsLinked, Links, GotInOrder
<1>3. MessagesAreNews' /\ Promised' /\ AnswersAreNews'
  BY <1>1 DEF MessagesAreNews, Promised, AnswersAreNews
<1>4. \A p : LastInstruction(p)' = LastInstruction(p)
             /\ \A op, ch : LastOn(p, op, ch)' <=> LastOn(p, op, ch)
  BY DEF LastInstruction, LastOn
<1>5. WordsKnown'
  <2> SUFFICES ASSUME NEW ch \in live, word[ch] # NoProcess
               PROVE  /\ word'[ch] \in Pids /\ Stopped(word[ch])'
                      /\ ~Waking(word[ch])'
                      /\ \E op \in {"send", "recv"} : LastOn(word[ch], op, ch)'
    BY DEF WordsKnown
  <2>1. PICK p \in Pids : p = word[ch]
    BY <1>1 DEF InTick, WordsKnown
  <2>2. Stopped(p)' /\ ~Waking(p)' /\ \E op \in {"send", "recv"} : LastOn(p, op, ch)'
    BY <1>1, <1>4, <2>1 DEF InTick, WordsKnown
  <2>3. word'[ch] = p
    BY <2>1
  <2>4. QED
    BY <2>2, <2>3
<1>6. StoppedKnown'
  BY <1>1, <1>4 DEF InTick, StoppedKnown
<1>7. ValuesKnown'
  <2>1. \A ch : SenderIn(ch)' <=> SenderIn(ch)
    BY DEF SenderIn, LastInstruction
  <2>2. \A ch : ~ToHandle(ch)' /\ ~ToDeliver(ch)'
    BY <1>1 DEF ToHandle, ToDeliver
  <2>3. \A ch \in live : InFlight(ch)' <=> InFlight(ch)
    BY <2>1, <2>2 DEF InFlight
  <2>4. QED
    BY <1>1, <2>1, <2>3 DEF InTick, ValuesKnown
<1>8. QED
  BY <1>1, <1>2, <1>3, <1>5, <1>6, <1>7 DEF Meetings, InTick

LEMMA DeliverDoneMeetings ==
  ASSUME IInv, Meetings, DeliverDone
  PROVE  Meetings'
<1>1. /\ phase = "deliver" /\ at = NCores /\ phase' = "deschedule" /\ at' = 1
      /\ UNCHANGED <<msg, ret, tasks, idle, corePid, proc, pc, env, word, value,
                     heapEnd, heapFree, live, sent, got>>
  BY DEF DeliverDone, Begin, tickVars, machine, tableVars, cellVars, channelVars,
         history
<1>2. Lasting /\ InTick /\ Kept
  BY <1>1 DEF Meetings, Lasting
<1>3. /\ StopsLeft' = StopsLeft /\ WakesLeft' = WakesLeft
  BY <1>1 DEF StopsLeft, WakesLeft
<1>4. \A p : (Stopped(p)' <=> Stopped(p)) /\ (Waking(p)' <=> Waking(p))
  BY <1>1, <1>3 DEF Stopped, Stopping, Waking
<1>5. \A ch : ~ToHandle(ch) /\ ~ToDeliver(ch)
  <2>1. \A c \in Cores : ~(c >= at)
    BY <1>1, ConstantsTyped DEF Cores
  <2>2. QED
    BY <2>1, <1>1 DEF ToHandle, ToDeliver, Issuing
<1>6. /\ DOMAIN msg' = Cores /\ DOMAIN ret' = Cores
      /\ \A c \in Cores : msg'[c].to \in Nat
  BY <1>1, <1>2 DEF Kept
<1>7. OnPids' /\ NothingLeft'
  BY <1>1, <1>2 DEF Lasting, OnPids, NothingLeft
<1>8. StopsKnown' /\ WakesKnown'
  BY <1>1, <1>2, <1>3, <1>4 DEF InTick, StopsKnown, WakesKnown, IsRunning,
                                LastInstruction
<1>9. \A ch \in live : word[ch] # NoProcess =>
        \A p \in Pids : p = word[ch] => Stopped(p)' /\ ~Waking(p)'
  BY <1>2, <1>4 DEF InTick, WordsKnown
<1>10. \A p \in Pids : Stopped(p)' => Stopped(p) /\ (Waking(p) => Waking(p)')
  BY <1>4
<1>11. phase # "failed" /\ phase' \in Quieter
  BY <1>1 DEF Quieter
<1>12. QED
  BY <1>1, <1>5, <1>6, <1>7, <1>8, <1>9, <1>10, <1>11, Settles

\* The tasks behind the one that is carried out.
LEMMA NextLeft ==
  ASSUME IInv, phase \in {"deschedule", "schedule"}, phase' = phase, tasks' = tasks,
         at' = at + 1, at <= Len(tasks)
  PROVE  /\ at \in 1 .. Len(tasks)
         /\ StopsLeft' = StopsLeft \ {at} /\ WakesLeft' = IF phase = "schedule"
                                                          THEN WakesLeft \ {at}
                                                          ELSE WakesLeft
         /\ task.kind # "schedule" /\ phase = "deschedule" => at \in StopsLeft
         /\ task.kind = "schedule" /\ phase = "schedule" => at \in WakesLeft
         /\ task.kind = "schedule" => at \notin StopsLeft
         /\ task.kind # "schedule" => at \notin WakesLeft
<1>1. at \in Nat /\ at >= 1 /\ Len(tasks) \in Nat
  BY DEF IInv, TypeOK, IndexInRange
<1>2. \A i \in 1 .. Len(tasks) : i >= at + 1 <=> i >= at /\ i # at
  BY <1>1
<1>3. at \in 1 .. Len(tasks) /\ at >= at
  BY <1>1
<1>4. QED
  BY <1>2, <1>3 DEF StopsLeft, WakesLeft, task

LEMMA DescheduleTaskMeetings ==
  ASSUME IInv, Meetings, DescheduleTask
  PROVE  Meetings'
<1>1. /\ phase = "deschedule" /\ phase' = "deschedule" /\ at' = at + 1
      /\ at <= Len(tasks)
      /\ UNCHANGED <<msg, ret, tasks, pc, env, word, value, heapEnd, heapFree, live,
                     sent, got>>
  BY DEF DescheduleTask, TaskIn, NextTask, cellVars, channelVars
<1>2. Lasting /\ InTick /\ Kept /\ OnPids
  BY <1>1 DEF Meetings, Lasting
<1>3. /\ StopsLeft' = StopsLeft \ {at} /\ WakesLeft' = WakesLeft
      /\ task.kind # "schedule" => at \in StopsLeft
      /\ task.kind = "schedule" => at \notin StopsLeft
  BY <1>1, NextLeft
<1>4. /\ \A ch : ~ToHandle(ch) /\ ~ToDeliver(ch)
      /\ DOMAIN msg' = Cores /\ DOMAIN ret' = Cores
      /\ \A c \in Cores : msg'[c].to \in Nat
      /\ NothingLeft' /\ phase # "failed" /\ phase' \in Quieter
  BY <1>1, <1>2 DEF ToHandle, ToDeliver, Kept, NothingLeft, Quieter
<1>5. \A p : Waking(p)' <=> Waking(p)
  BY <1>1, <1>3 DEF Waking
<1>6. CASE task.kind = "schedule"
  <2>1. UNCHANGED <<corePid, proc>> /\ StopsLeft' = StopsLeft
    BY <1>3, <1>6 DEF DescheduleTask
  <2>2. \A p : Stopped(p)' <=> Stopped(p)
    BY <1>1, <2>1 DEF Stopped, Stopping
  <2>3. OnPids' /\ StopsKnown' /\ WakesKnown'
    BY <1>1, <1>2, <1>3, <2>1, <2>2
       DEF InTick, OnPids, StopsKnown, WakesKnown, IsRunning, LastInstruction
  <2>4. /\ \A ch \in live : word[ch] # NoProcess =>
             \A p \in Pids : p = word[ch] => Stopped(p)' /\ ~Waking(p)'
        /\ \A p \in Pids : Stopped(p)' => Stopped(p) /\ (Waking(p) => Waking(p)')
    BY <1>2, <1>5, <2>2 DEF InTick, WordsKnown
  <2>5. QED
    BY <1>1, <1>4, <2>3, <2>4, Settles
<1>7. CASE task.kind # "schedule"
  <2>1. PICK q \in Pids : q = task.pid
    BY <1>2, <1>3, <1>7 DEF InTick, StopsKnown, task
  <2>2. /\ q \in Cells /\ IsRunning(q) /\ proc \in [Cells -> States]
        /\ task.kind = "destroy" => LastInstruction(q).op = "halt"
        /\ task.kind # "destroy" => LastInstruction(q).op # "halt"
        /\ \A i \in StopsLeft : tasks[i].pid = q => i = at
    BY <1>2, <1>3, <1>7, <2>1, NumbersApart DEF InTick, StopsKnown, task, IInv, TypeOK
  <2>3. /\ corePid' = [corePid EXCEPT ![proc[q].core] = NoProcess]
        /\ proc' = [proc EXCEPT ![q] = IF task.kind = "destroy" THEN Dead ELSE Inactive]
    BY <1>7, <2>1, <2>2 DEF DescheduleTask, SetState
  <2>4. \A p \in Cells : proc'[p] = IF p # q THEN proc[p]
                                    ELSE IF task.kind = "destroy" THEN Dead ELSE Inactive
    BY <2>2, <2>3
  <2>5. \A p \in Pids : Stopping(p)' <=> Stopping(p) /\ p # q
    BY <1>1, <1>3, <1>7, <2>1, <2>2 DEF Stopping, task
  <2>6. Stopping(q)
    BY <1>3, <1>7, <2>1 DEF Stopping, task
  <2>7. \A p \in Pids : Stopped(p)' <=>
                          Stopped(p) /\ (p = q => task.kind # "destroy")
    BY <2>4, <2>5, <2>6, NumbersApart DEF Stopped, Dead, Inactive
  <2>8. OnPids'
    <3>1. \A c \in Cores : corePid'[c] = corePid[c] \/ corePid'[c] = NoProcess
      BY <2>3 DEF IInv, TypeOK
    <3>2. QED
      BY <1>2, <3>1 DEF OnPids
  <2>9. StopsKnown'
    <3>1. \A i \in StopsLeft' : /\ i \in StopsLeft /\ tasks[i].pid # q
                                /\ tasks[i].pid \in Cells
      BY <1>2, <1>3, <2>2, NumbersApart DEF InTick, StopsKnown
    <3>2. \A i \in StopsLeft' : proc'[tasks[i].pid] = proc[tasks[i].pid]
      BY <2>4, <3>1
    <3>3. QED
      BY <1>1, <1>2, <3>1, <3>2 DEF InTick, StopsKnown, IsRunning, LastInstruction
  <2>10. WakesKnown'
    <3> SUFFICES ASSUME NEW i \in WakesLeft
                 PROVE  /\ tasks[i].pid \in Pids
                        /\ \/ proc'[tasks[i].pid] = Dead
                           \/ /\ Stopped(tasks[i].pid)'
                              /\ LastInstruction(tasks[i].pid).op \in {"send", "recv"}
      BY <1>1, <1>3 DEF WakesKnown, LastInstruction
    <3>1. PICK p \in Pids : p = tasks[i].pid
      BY <1>2 DEF InTick, WakesKnown
    <3>2. \/ proc[p] = Dead
          \/ Stopped(p) /\ LastInstruction(p).op \in {"send", "recv"}
      BY <1>1, <1>2, <3>1 DEF InTick, WakesKnown
    <3>3. \/ proc'[p] = Dead
          \/ Stopped(p)' /\ LastInstruction(p).op \in {"send", "recv"}
      <4>1. CASE proc[p] = Dead
        <5>1. p # q /\ p \in Cells
          BY <2>2, <4>1, NumbersApart DEF IsRunning, Dead
        <5>2. QED
          BY <2>4, <4>1, <5>1
      <4>2. CASE Stopped(p) /\ LastInstruction(p).op \in {"send", "recv"}
        <5>1. p = q => task.kind # "destroy"
          BY <2>2, <4>2
        <5>2. QED
          BY <2>7, <4>2, <5>1
      <4>3. QED
        BY <3>2, <4>1, <4>2
    <3>4. tasks'[i].pid = p
      BY <1>1, <3>1
    <3>5. QED
      BY <1>1, <3>1, <3>3
  <2>11. \A ch \in live : word[ch] # NoProcess =>
           \A p \in Pids : p = word[ch] => Stopped(p)' /\ ~Waking(p)'
    <3> SUFFICES ASSUME NEW ch \in live, NEW p \in Pids, p = word[ch]
                 PROVE  Stopped(p)' /\ ~Waking(p)'
      OBVIOUS
    <3>1. /\ Stopped(p) /\ ~Waking(p)
          /\ \E op \in {"send", "recv"} : LastOn(p, op, ch)
      BY <1>2, NumbersApart DEF InTick, WordsKnown
    <3>2. LastInstruction(p).op # "halt"
      BY <3>1 DEF LastOn
    <3>3. QED
      BY <1>5, <2>2, <2>7, <3>1, <3>2
  <2>12. \A p \in Pids : Stopped(p)' => Stopped(p) /\ (Waking(p) => Waking(p)')
    BY <1>5, <2>7
  <2>13. QED
    BY <1>1, <1>4, <2>8, <2>9, <2>10, <2>11, <2>12, Settles
<1>8. QED
  BY <1>6, <1>7

LEMMA DescheduleDoneMeetings ==
  ASSUME IInv, Meetings, DescheduleDone
  PROVE  Meetings'
<1>1. /\ phase = "deschedule" /\ at > Len(tasks) /\ phase' = "schedule" /\ at' = 1
      /\ UNCHANGED <<msg, ret, tasks, idle, corePid, proc, pc, env, word, value,
                     heapEnd, heapFree, live, sent, got>>
  BY DEF DescheduleDone, Begin, tickVars, machine, tableVars, cellVars, channelVars,
         history
<1>2. Lasting /\ InTick /\ Kept
  BY <1>1 DEF Meetings, Lasting
<1>3. /\ StopsLeft = {} /\ StopsLeft' = {} /\ WakesLeft' = WakesLeft
  <2>1. at \in Nat /\ Len(tasks) \in Nat
    BY DEF IInv, TypeOK
  <2>2. QED
    BY <1>1, <2>1 DEF StopsLeft, WakesLeft
<1>4. \A p : (Stopped(p)' <=> Stopped(p)) /\ (Waking(p)' <=> Waking(p))
  BY <1>1, <1>3 DEF Stopped, Stopping, Waking
<1>5. /\ \A ch : ~ToHandle(ch) /\ ~ToDeliver(ch)
      /\ DOMAIN msg' = Cores /\ DOMAIN ret' = Cores
      /\ \A c \in Cores : msg'[c].to \in Nat
      /\ NothingLeft' /\ phase # "failed" /\ phase' \in Quieter
  BY <1>1, <1>2 DEF ToHandle, ToDeliver, Kept, NothingLeft, Quieter
<1>6. OnPids' /\ StopsKnown' /\ WakesKnown'
  BY <1>1, <1>2, <1>3 DEF Lasting, OnPids, InTick, StopsKnown, WakesKnown
<1>7. /\ \A ch \in live : word[ch] # NoProcess =>
           \A p \in Pids : p = word[ch] => Stopped(p)' /\ ~Waking(p)'
      /\ \A p \in Pids : Stopped(p)' => Stopped(p) /\ (Waking(p) => Waking(p)')
  BY <1>2, <1>4 DEF InTick, WordsKnown
<1>8. QED
  BY <1>1, <1>5, <1>6, <1>7, Settles

LEMMA ScheduleTaskMeetings ==
  ASSUME IInv, Meetings, ScheduleTask
  PROVE  Meetings'
<1>1. /\ phase = "schedule" /\ phase' = "schedule" /\ at' = at + 1
      /\ at <= Len(tasks)
      /\ UNCHANGED <<msg, ret, tasks, pc, env, word, value, heapEnd, heapFree, live,
                     sent, got>>
  BY DEF ScheduleTask, TaskIn, NextTask, cellVars, channelVars
<1>2. Lasting /\ InTick /\ Kept /\ OnPids
  BY <1>1 DEF Meetings, Lasting
<1>3. /\ WakesLeft' = WakesLeft \ {at} /\ StopsLeft = {} /\ StopsLeft' = {}
      /\ task.kind = "schedule" => at \in WakesLeft
      /\ task.kind # "schedule" => at \notin WakesLeft
  BY <1>1, NextLeft DEF StopsLeft
<1>4. /\ \A ch : ~ToHandle(ch) /\ ~ToDeliver(ch)
      /\ DOMAIN msg' = Cores /\ DOMAIN ret' = Cores
      /\ \A c \in Cores : msg'[c].to \in Nat
      /\ NothingLeft' /\ phase # "failed" /\ phase' \in Quieter
  BY <1>1, <1>2 DEF ToHandle, ToDeliver, Kept, NothingLeft, Quieter
<1>5. StopsKnown' /\ WakesKnown'
  BY <1>1, <1>2, <1>3 DEF InTick, StopsKnown, WakesKnown
<1>6. \A p : (Stopped(p) <=> proc[p] = Inactive) /\ (Stopped(p)' <=> proc'[p] = Inactive)
  BY <1>3 DEF Stopped, Stopping
<1>7. ASSUME task.kind = "schedule"
      PROVE  /\ task.pid \in Pids /\ Waking(task.pid)
             /\ \A p : p # task.pid => (Waking(p)' <=> Waking(p))
  BY <1>1, <1>2, <1>3, <1>7 DEF InTick, WakesKnown, task, Waking
<1>8. task.kind # "schedule" => \A p : Waking(p)' <=> Waking(p)
  BY <1>1, <1>3 DEF Waking
<1>9. /\ OnPids'
      /\ \A p \in Pids :
           \/ proc'[p] = proc[p] /\ (proc[p] = Inactive => (Waking(p)' <=> Waking(p)))
           \/ task.kind = "schedule" /\ p = task.pid /\ proc'[p] # Inactive
  <2>1. CASE task.kind # "schedule"
    <3>1. UNCHANGED <<corePid, proc>>
      BY <2>1 DEF ScheduleTask
    <3>2. QED
      BY <1>2, <1>8, <2>1, <3>1 DEF OnPids
  <2>2. CASE task.kind = "schedule"
    <3>1. PICK q \in Pids : q = task.pid
      BY <1>7, <2>2
    <3>2. proc \in [Cells -> States] /\ corePid \in [Cores -> Cells]
          /\ idle \in Seq(Cores) /\ q \in Cells
      BY NumbersApart DEF IInv, TypeOK
    <3>3. CASE IsRunning(q)
      <4>1. UNCHANGED <<corePid, proc>> /\ proc[q] # Inactive
        BY <2>2, <3>1, <3>3 DEF ScheduleTask, IsRunning, Inactive
      <4>2. QED
        BY <1>2, <1>7, <2>2, <3>1, <4>1 DEF OnPids
    <3>4. CASE ~IsRunning(q)
      <4>1. PICK state \in {Waiting} \cup {Running(c) : c \in Cores} :
              /\ proc' = [proc EXCEPT ![q] = state]
              /\ corePid' = corePid \/ \E c \in Cores :
                                         corePid' = [corePid EXCEPT ![c] = q]
        <5>1. CASE idle # <<>>
          <6>1. RunOnIdleCore(q) /\ idle[Len(idle)] \in Cores
            BY <2>2, <3>1, <3>2, <3>4, <5>1 DEF ScheduleTask
          <6>2. QED
            BY <6>1 DEF RunOnIdleCore, SetState
        <5>2. CASE idle = <<>>
          BY <2>2, <3>1, <3>4, <5>2 DEF ScheduleTask, SetState
        <5>3. QED
          BY <5>1, <5>2
      <4>2. state # Inactive
        BY <4>1 DEF Waiting, Running, Inactive
      <4>3. OnPids'
        <5>1. \A c \in Cores : corePid'[c] = corePid[c] \/ corePid'[c] = q
          BY <3>2, <4>1
        <5>2. QED
          BY <1>2, <5>1 DEF OnPids
      <4>4. \A p \in Pids : proc'[p] = IF p = q THEN state ELSE proc[p]
        BY <3>2, <4>1, NumbersApart
      <4>5. QED
        BY <1>7, <2>2, <3>1, <4>2, <4>3, <4>4
    <3>5. QED
      BY <3>3, <3>4
  <2>3. QED
    BY <2>1, <2>2
<1>10. \A ch \in live : word[ch] # NoProcess =>
         \A p \in Pids : p = word[ch] => Stopped(p)' /\ ~Waking(p)'
  <2> SUFFICES ASSUME NEW ch \in live, NEW p \in Pids, p = word[ch]
               PROVE  Stopped(p)' /\ ~Waking(p)'
    OBVIOUS
  <2>1. Stopped(p) /\ ~Waking(p)
    BY <1>2, NumbersApart DEF InTick, WordsKnown
  <2>2. ~(task.kind = "schedule" /\ p = task.pid)
    BY <1>7, <2>1
  <2>3. QED
    BY <1>6, <1>9, <2>1, <2>2
<1>11. \A p \in Pids : Stopped(p)' => Stopped(p) /\ (Waking(p) => Waking(p)')
  BY <1>6, <1>9
<1>12. QED
  BY <1>1, <1>4, <1>5, <1>9, <1>10, <1>11, Settles

LEMMA ScheduleDoneMeetings ==
  ASSUME IInv, Meetings, ScheduleDone
  PROVE  Meetings'
<1>1. /\ phase = "schedule" /\ at > Len(tasks) /\ phase' = "fill"
      /\ UNCHANGED <<msg, ret, tasks, idle, corePid, proc, pc, env, word, value,
                     heapEnd, heapFree, live, sent, got>>
  BY DEF ScheduleDone, Begin, tickVars, machine, tableVars, cellVars, channelVars,
         history
<1>2. Lasting /\ InTick /\ Kept
  BY <1>1 DEF Meetings, Lasting
<1>3. /\ StopsLeft = {} /\ StopsLeft' = {} /\ WakesLeft = {} /\ WakesLeft' = {}
  <2>1. at \in Nat /\ Len(tasks) \in Nat
    BY DEF IInv, TypeOK
  <2>2. QED
    BY <1>1, <2>1 DEF StopsLeft, WakesLeft
<1>4. \A p : (Stopped(p)' <=> Stopped(p)) /\ ~Waking(p) /\ ~Waking(p)'
  BY <1>1, <1>3 DEF Stopped, Stopping, Waking
<1>5. /\ \A ch : ~ToHandle(ch) /\ ~ToDeliver(ch)
      /\ DOMAIN msg' = Cores /\ DOMAIN ret' = Cores
      /\ \A c \in Cores : msg'[c].to \in Nat
      /\ NothingLeft' /\ phase # "failed" /\ phase' \in Quieter
  BY <1>1, <1>2 DEF ToHandle, ToDeliver, Kept, NothingLeft, Quieter
<1>6. OnPids' /\ StopsKnown' /\ WakesKnown'
  BY <1>1, <1>2, <1>3 DEF Lasting, OnPids, StopsKnown, WakesKnown
<1>7. /\ \A ch \in live : word[ch] # NoProcess =>
           \A p \in Pids : p = word[ch] => Stopped(p)' /\ ~Waking(p)'
      /\ \A p \in Pids : Stopped(p)' => Stopped(p) /\ (Waking(p) => Waking(p)')
  BY <1>2, <1>4 DEF InTick, WordsKnown
<1>8. QED
  BY <1>1, <1>5, <1>6, <1>7, Settles

LEMMA FillMeetings ==
  ASSUME IInv, Meetings, Fill
  PROVE  Meetings'
<1>1. /\ phase = "fill" /\ phase' = "fill" /\ idle # <<>>
      /\ UNCHANGED <<msg, ret, tasks, pc, env, word, value, heapEnd, heapFree, live,
                     sent, got>>
  BY DEF Fill, cellVars, channelVars, history
<1>2. Lasting /\ InTick /\ Kept /\ OnPids
  BY <1>1 DEF Meetings, Lasting
<1>3. StopsLeft = {} /\ StopsLeft' = {} /\ WakesLeft = {} /\ WakesLeft' = {}
  BY <1>1 DEF StopsLeft, WakesLeft
<1>4. PICK q \in WaitingPids : RunOnIdleCore(q)
  BY <1>1 DEF Fill
<1>5. q \in Pids /\ q \in Cells /\ proc[q] # Inactive /\ idle[Len(idle)] \in Cores
      /\ proc \in [Cells -> States] /\ corePid \in [Cores -> Cells]
  BY <1>1, NumbersApart DEF WaitingPids, Inactive, IInv, TypeOK
<1>6. /\ \A p \in Cells : p # q => proc'[p] = proc[p]
      /\ proc'[q] # Inactive
      /\ \A c \in Cores : corePid'[c] = corePid[c] \/ corePid'[c] = q
  BY <1>4, <1>5 DEF RunOnIdleCore, SetState, Running, Inactive
<1>7. \A p \in Pids : (Stopped(p)' <=> Stopped(p)) /\ ~Waking(p) /\ ~Waking(p)'
  BY <1>3, <1>5, <1>6, NumbersApart DEF Stopped, Stopping, Waking
<1>8. /\ \A ch : ~ToHandle(ch) /\ ~ToDeliver(ch)
      /\ DOMAIN msg' = Cores /\ DOMAIN ret' = Cores
      /\ \A c \in Cores : msg'[c].to \in Nat
      /\ NothingLeft' /\ phase # "failed" /\ phase' \in Quieter
  BY <1>1, <1>2 DEF ToHandle, ToDeliver, Kept, NothingLeft, Quieter
<1>9. OnPids' /\ StopsKnown' /\ WakesKnown'
  BY <1>2, <1>3, <1>5, <1>6 DEF OnPids, StopsKnown, WakesKnown
<1>10. /\ \A ch \in live : word[ch] # NoProcess =>
            \A p \in Pids : p = word[ch] => Stopped(p)' /\ ~Waking(p)'
       /\ \A p \in Pids : Stopped(p)' => Stopped(p) /\ (Waking(p) => Waking(p)')
  BY <1>2, <1>7 DEF InTick, WordsKnown
<1>11. QED
  BY <1>1, <1>8, <1>9, <1>10, Settles

LEMMA EndTickMeetings ==
  ASSUME IInv, Meetings, EndTick
  PROVE  Meetings'
<1>1. /\ phase = "fill" /\ phase' \in {"cores", "halted"} /\ tasks' = <<>>
      /\ msg' = [c \in Cores |-> NoMessage] /\ ret' = [c \in Cores |-> NoAnswer]
      /\ UNCHANGED <<corePid, proc, pc, env, word, value, heapEnd, heapFree, live,
                     sent, got>>
  BY DEF EndTick, machine, tableVars, cellVars, channelVars, history
<1>2. Lasting /\ InTick /\ OnPids
  BY <1>1 DEF Meetings, Lasting
<1>3. StopsLeft = {} /\ StopsLeft' = {} /\ WakesLeft = {} /\ WakesLeft' = {}
  BY <1>1 DEF StopsLeft, WakesLeft
<1>4. \A p : (Stopped(p)' <=> Stopped(p)) /\ ~Waking(p) /\ ~Waking(p)'
  BY <1>1, <1>3 DEF Stopped, Stopping, Waking
<1>5. /\ DOMAIN msg' = Cores /\ DOMAIN ret' = Cores
      /\ \A c \in Cores : msg'[c].to \in Nat
      /\ NothingLeft'
  BY <1>1 DEF NoMessage, NoAnswer, NothingLeft
<1>6. /\ \A ch : ~ToHandle(ch) /\ ~ToDeliver(ch)
      /\ phase # "failed" /\ phase' \in Quieter
  BY <1>1 DEF ToHandle, ToDeliver, Quieter
<1>7. OnPids' /\ StopsKnown' /\ WakesKnown'
  BY <1>1, <1>2, <1>3 DEF OnPids, StopsKnown, WakesKnown
<1>8. /\ \A ch \in live : word[ch] # NoProcess =>
           \A p \in Pids : p = word[ch] => Stopped(p)' /\ ~Waking(p)'
      /\ \A p \in Pids : Stopped(p)' => Stopped(p) /\ (Waking(p) => Waking(p)')
  BY <1>2, <1>4 DEF InTick, WordsKnown
<1>9. QED
  BY <1>1, <1>5, <1>6, <1>7, <1>8, Settles

LEMMA StutterMeetings == ASSUME Meetings, UNCHANGED vars PROVE Meetings'
<1>1. UNCHANGED <<phase, at, msg, ret, tasks, corePid, proc, pc, env, word, value,
                  heapEnd, heapFree, live, sent, got>>
  BY DEF vars, tickVars, machine, tableVars, cellVars, channelVars, history
<1>2. Lasting'
  BY <1>1 DEF Meetings, Lasting, Kept, OnPids, FreeChannelsLinked, Links, GotInOrder
<1>3. SUFFICES ASSUME phase # "failed" PROVE InTick'
  BY <1>1, <1>2 DEF Meetings
<1>4. InTick
  BY <1>3 DEF Meetings
<1>5. /\ StopsLeft' = StopsLeft /\ WakesLeft' = WakesLeft
      /\ \A p : /\ Stopped(p)' <=> Stopped(p)
                /\ Waking(p)' <=> Waking(p)
                /\ LastInstruction(p)' = LastInstruction(p)
      /\ \A op, ch : Issuing(op, ch)' = Issuing(op, ch)
  BY <1>1 DEF StopsLeft, WakesLeft, Stopped, Stopping, Waking, LastInstruction, Issuing
<1>6. \A ch : /\ Offered(ch)' <=> Offered(ch)
              /\ Meets(ch)' <=> Meets(ch)
              /\ SenderIn(ch)' <=> SenderIn(ch)
              /\ InFlight(ch)' <=> InFlight(ch)
  BY <1>1, <1>5 DEF Offered, Meets, Listening, SenderIn, InFlight, ToHandle, ToDeliver,
                    LastInstruction
<1>7. NothingLeft' /\ MessagesAreNews' /\ Promised' /\ AnswersAreNews'
  BY <1>1, <1>4, <1>6 DEF InTick, NothingLeft, MessagesAreNews, Promised,
                          AnswersAreNews, LastInstruction
<1>8. StopsKnown' /\ WakesKnown'
  BY <1>1, <1>4, <1>5 DEF InTick, StopsKnown, WakesKnown, IsRunning, LastInstruction,
                          Stopped, Stopping
<1>9. WordsKnown'
  BY <1>1, <1>4, <1>5 DEF InTick, WordsKnown, LastOn, LastInstruction, Stopped, Stopping,
                          Waking
<1>10. StoppedKnown' /\ ValuesKnown'
  BY <1>1, <1>4, <1>5, <1>6 DEF InTick, StoppedKnown, ValuesKnown
<1>11. QED
  BY <1>7, <1>8, <1>9, <1>10 DEF InTick

LEMMA HandleMeetings == ASSUME IInv, Meetings, Handle PROVE Meetings'
<1>1. \/ HandleNothing \/ SendMeetsReceive
      \/ HandleYield \/ HandleHalt
      \/ HandleStartProcess
      \/ HandleCreateChannel \/ HandleDeleteChannel
      \/ SendParks \/ ReceiveParks \/ SendToReceiver \/ ReceiveTakes
      \/ ReceiveMeetsSend
      \/ HandlingDone \/ Fail
  BY NoOthers DEF Handle, HandleStartProcessFails, HandleCreateChannelFails,
     SendToReceiverFails
<1>2. QED
  BY <1>1, SaysNothing, StopsItself, Starts, Creates, Deletes, ParksMeetings,
     TakesMeetings, MeetsInTick, HandlingDoneMeetings, FailMeetings

LEMMA AssignMeetings == ASSUME IInv, Meetings, Assign PROVE Meetings'
<1>1. \/ Deliver \/ DeliverDone
      \/ DescheduleTask \/ DescheduleDone
      \/ ScheduleTask \/ ScheduleDone \/ Fail
      \/ Fill \/ EndTick
  BY DEF Assign, ScheduleFails
<1>2. QED
  BY <1>1, DeliverMeetings, DeliverDoneMeetings, DescheduleTaskMeetings,
     DescheduleDoneMeetings, ScheduleTaskMeetings, ScheduleDoneMeetings,
     FillMeetings, EndTickMeetings, FailMeetings

(***************************************************************************)
(* While a program keeps the discipline of its channels, the word of every *)
(* channel, the process table and the tasks of the tick agree about who is *)
(* stopped where, and where every value is (Processor::tick, send,         *)
(* receive).                                                               *)
(***************************************************************************)
THEOREM DisciplinedMeetings == Spec /\ []Disciplined => []Meetings
<1>1. ASSUME IInv, Meetings, Disciplined, Disciplined', [Next]_vars
      PROVE  Meetings'
  BY <1>1, CoresTickMeetings, HandleMeetings, AssignMeetings, StutterMeetings DEF Next
<1>2. QED
  BY <1>1, InitMeetings, Inductive, PTL DEF Spec

-----------------------------------------------------------------------------
(* Between ticks.                                                          *)

LEMMA BetweenTicks ==
  ASSUME IInv, Meetings, phase = "cores"
  PROVE  /\ Kept
         /\ \A p : (Stopped(p) <=> proc[p] = Inactive) /\ ~Waking(p)
         /\ \A ch \in live : /\ PidOf(word[ch]) = word[ch] /\ ~InAlternation(word[ch])
                             /\ Empty(ch) <=> word[ch] = NoProcess
                             /\ InFlight(ch) <=> SenderIn(ch)
<1>1. Kept /\ InTick
  BY DEF Meetings, Lasting
<1>2. StopsLeft = {} /\ WakesLeft = {}
  BY <1>1 DEF InTick, NothingLeft, StopsLeft, WakesLeft
<1>3. \A p : (Stopped(p) <=> proc[p] = Inactive) /\ ~Waking(p)
  BY <1>2 DEF Stopped, Stopping, Waking
<1>4. \A ch \in live : word[ch] \in Pids \cup {NoProcess}
  BY <1>1 DEF InTick, WordsKnown
<1>5. \A ch \in live : PidOf(word[ch]) = word[ch] /\ ~InAlternation(word[ch])
  BY <1>4, PlainWords
<1>6. QED
  BY <1>1, <1>3, <1>5 DEF Empty, InFlight, ToHandle, ToDeliver

(***************************************************************************)
(* The process in the word of a channel is stopped there, at that very     *)
(* channel, and in no other word (the two words of a channel,              *)
(* Processor::send and receive).                                           *)
(***************************************************************************)
THEOREM ParkedAreStopped == Spec /\ []Disciplined => []ParkedProcessesStopped
<1>1. ASSUME IInv, Meetings PROVE ParkedProcessesStopped
  <2> SUFFICES ASSUME phase = "cores", NEW ch \in live, word[ch] # NoProcess
               PROVE  /\ proc[word[ch]] = Inactive
                      /\ LastInstruction(word[ch]).op \in {"send", "recv"}
                      /\ env[word[ch]][LastInstruction(word[ch]).name] = ch
                      /\ Parked(word[ch]) = {ch}
    BY <1>1, BetweenTicks DEF ParkedProcessesStopped
  <2>1. /\ Stopped(word[ch])
        /\ \E op \in {"send", "recv"} : LastOn(word[ch], op, ch)
        /\ \A c \in live : word[c] = word[ch] => c = ch
    BY <1>1, InTheWord DEF Meetings
  <2>2. \A c \in live : PidOf(word[c]) = word[c]
    BY <1>1, BetweenTicks
  <2>3. Parked(word[ch]) = {ch}
    BY <2>1, <2>2 DEF Parked
  <2>4. proc[word[ch]] = Inactive
    BY <1>1, <2>1, BetweenTicks
  <2>5. QED
    BY <2>1, <2>3, <2>4 DEF LastOn
<1>2. QED
  BY <1>1, Inductive, DisciplinedMeetings, PTL

(***************************************************************************)
(* What is received from a channel is what was sent on it, each value once *)
(* and in order, whether the two meet in one tick or through memory; and   *)
(* between ticks a value in flight has its sender parked in the channel.   *)
(***************************************************************************)
THEOREM ValuesMeet == Spec /\ []Disciplined => []Rendezvous
<1>1. ASSUME IInv, Meetings PROVE Rendezvous
  <2>1. \A ch \in live : \A i \in 1 .. Len(got[ch]) : got[ch][i] = i
    BY <1>1 DEF Meetings, Lasting, GotInOrder
  <2>2. ASSUME phase = "cores", NEW ch \in live
        PROVE  /\ sent[ch] - Len(got[ch]) \in {0, 1}
               /\ (sent[ch] - Len(got[ch]) = 1) <=>
                    ~Empty(ch) /\ LastInstruction(PidOf(word[ch])).op = "send"
    <3>1. sent[ch] = Len(got[ch]) + (IF InFlight(ch) THEN 1 ELSE 0)
      BY <1>1, <2>2 DEF Meetings, InTick, ValuesKnown
    <3>2. InFlight(ch) <=> ~Empty(ch) /\ LastInstruction(PidOf(word[ch])).op = "send"
      BY <1>1, <2>2, BetweenTicks DEF SenderIn
    <3>3. sent[ch] \in Nat /\ Len(got[ch]) \in Nat
      BY <1>1, <2>2, BetweenTicks DEF Kept
    <3>4. QED
      BY <3>1, <3>2, <3>3
  <2>3. QED
    BY <2>1, <2>2 DEF Rendezvous
<1>2. QED
  BY <1>1, Inductive, DisciplinedMeetings, PTL

-----------------------------------------------------------------------------
(* What a handler does to the processes there are.                         *)

\* Only StartProcess makes a process; whoever else is woken is one already.
WakesTheLiving ==
  /\ UNCHANGED <<started, allocNumber>> /\ msg[at].op # "start"
  /\ \A p : /\ Waking(p) => Waking(p)'
            /\ Waking(p)' => Waking(p) \/ proc[p] # Dead

HandlesAMessage ==
  /\ HandlerStep /\ Undisturbed /\ UNCHANGED <<finalStacks, ended>>
  /\ HandleStartProcess \/ WakesTheLiving

LEMMA AddsNoTask ==
  ASSUME IInv, Meetings,
         \/ HandleNothing \/ SendMeetsReceive \/ ReceiveMeetsSend
         \/ HandleCreateChannel \/ HandleDeleteChannel
  PROVE  HandlesAMessage
<1>1. /\ HandlerStep /\ UNCHANGED <<cellVars, finalStacks, started, ended>>
      /\ tasks' = tasks \/ AddTasks(<<>>)
      /\ msg[at].op \in {"none", "send", "recv", "chan", "del"}
  <2>1. CASE HandleNothing \/ SendMeetsReceive
    BY <2>1 DEF HandleNothing, SendMeetsReceive, OnlyAdd, OnChannel, Handling, NextCore,
       HandlerStep, tableVars, history
  <2>2. CASE ReceiveMeetsSend
    BY <2>2 DEF ReceiveMeetsSend, Receiving, OnChannel, Handling, NextCore,
       HandlerStep, tableVars
  <2>3. CASE HandleCreateChannel \/ HandleDeleteChannel
    BY <2>3 DEF HandleCreateChannel, HandleDeleteChannel, OnChannel, Handling, NextCore,
       HandlerStep, tableVars
  <2>4. QED
    BY <2>1, <2>2, <2>3
<1>2. tasks' = tasks
  BY <1>1, Handles DEF AddTasks
<1>3. \A p : Waking(p)' <=> Waking(p)
  BY <1>1, <1>2, AddsNothing DEF Waking, HandlerStep
<1>4. Undisturbed /\ allocNumber' = allocNumber
  BY <1>1 DEF Undisturbed, cellVars
<1>5. QED
  BY <1>1, <1>3, <1>4 DEF HandlesAMessage, WakesTheLiving

LEMMA AddsAStopTask ==
  ASSUME IInv, Meetings, HandleYield \/ HandleHalt \/ SendParks \/ ReceiveParks
  PROVE  HandlesAMessage
<1>1. /\ HandlerStep /\ UNCHANGED <<cellVars, finalStacks, started, ended>>
      /\ AddTasks(<<Deschedule(me)>>) \/ AddTasks(<<Destroy(me)>>)
      /\ msg[at].op \in {"yield", "halt", "send", "recv"}
  <2>1. CASE HandleYield \/ HandleHalt
    BY <2>1 DEF HandleYield, HandleHalt, OnlyAdd, Handling, NextCore,
       HandlerStep, tableVars, history
  <2>2. CASE SendParks \/ ReceiveParks
    BY <2>2 DEF SendParks, Sending, ReceiveParks, Receiving, OnChannel, Handling, NextCore,
       HandlerStep, tableVars
  <2>3. QED
    BY <2>1, <2>2
<1>2. me \in Nat /\ tasks \in Seq(Task)
  BY <1>1, SelfIsACell, Handles DEF HandlerStep
<1>3. PICK t \in Task : t.kind # "schedule" /\ AddTasks(<<t>>)
  BY <1>1, <1>2 DEF Deschedule, Destroy, Task
<1>4. \A p : Waking(p)' <=> Waking(p)
  BY <1>1, <1>2, <1>3, AddsAStop DEF HandlerStep
<1>5. Undisturbed /\ allocNumber' = allocNumber
  BY <1>1 DEF Undisturbed, cellVars
<1>6. QED
  BY <1>1, <1>4, <1>5 DEF HandlesAMessage, WakesTheLiving

LEMMA AddsAWakeTask ==
  ASSUME IInv, Meetings, SendToReceiver \/ ReceiveTakes
  PROVE  HandlesAMessage
<1>1. /\ HandlerStep /\ UNCHANGED <<cellVars, finalStacks, started, ended>>
      /\ AddTasks(<<Schedule(PidOf(word[chan]))>>) /\ ~Empty(chan)
      /\ msg[at].op \in {"send", "recv"}
  BY DEF SendToReceiver, Sending, ReceiveTakes, Receiving, OnChannel, Handling, NextCore,
     HandlerStep, tableVars
<1>2. /\ InTick /\ chan \in live /\ word[chan] # NoProcess
      /\ PidOf(word[chan]) = word[chan] /\ tasks \in Seq(Task)
  BY <1>1, OnItsChannel, Handles
<1>3. PICK q \in Pids : q = word[chan] /\ proc[q] # Dead
  BY <1>1, <1>2, InTheWord DEF HandlerStep
<1>4. Schedule(q) \in Task /\ Schedule(q).kind = "schedule" /\ Schedule(q).pid = q
      /\ AddTasks(<<Schedule(q)>>)
  BY <1>1, <1>2, <1>3, NumbersApart DEF Schedule, Task
<1>5. \A p : Waking(p)' <=> Waking(p) \/ p = q
  BY <1>1, <1>2, <1>4, AddsAWake DEF HandlerStep
<1>6. Undisturbed /\ allocNumber' = allocNumber
  BY <1>1 DEF Undisturbed, cellVars
<1>7. QED
  BY <1>1, <1>3, <1>5, <1>6 DEF HandlesAMessage, WakesTheLiving

LEMMA StartIsOne ==
  ASSUME IInv, Meetings, HandleStartProcess
  PROVE  HandlesAMessage
<1>1. HandlerStep /\ UNCHANGED <<finalStacks, ended>>
  BY DEF HandleStartProcess, Handling, NextCore, HandlerStep, tableVars
<1>2. PICK new \in DeadPids : /\ pc' = [pc EXCEPT ![new] = msg[at].to]
                              /\ env' = [env EXCEPT ![new] = env[me]]
  BY DEF HandleStartProcess
<1>3. proc[new] = Dead /\ pc \in [Cells -> Nat] /\ DOMAIN env = Cells
  BY <1>2 DEF DeadPids, Meetings, Lasting, Kept
<1>4. Undisturbed
  BY <1>2, <1>3 DEF Undisturbed
<1>5. QED
  BY <1>1, <1>4 DEF HandlesAMessage

LEMMA HandleIs ==
  ASSUME IInv, Meetings, Handle
  PROVE  HandlesAMessage \/ HandlingDone \/ Fail
<1>1. \/ HandleNothing \/ SendMeetsReceive \/ ReceiveMeetsSend
      \/ HandleCreateChannel \/ HandleDeleteChannel
      \/ HandleYield \/ HandleHalt \/ SendParks \/ ReceiveParks
      \/ SendToReceiver \/ ReceiveTakes
      \/ HandleStartProcess
      \/ HandlingDone \/ Fail
  BY NoOthers DEF Handle, HandleStartProcessFails, HandleCreateChannelFails,
     SendToReceiverFails
<1>2. QED
  BY <1>1, AddsNoTask, AddsAStopTask, AddsAWakeTask, StartIsOne

\* What the tasks of a tick do to the processes there are.
LEMMA DescheduleIs ==
  ASSUME IInv, Meetings, DescheduleTask
  PROVE  /\ phase = "deschedule" /\ phase' = "deschedule" /\ InTick
         /\ UNCHANGED <<pc, allocNumber, started, msg>>
         /\ \A p : Waking(p)' <=> Waking(p)
         /\ \/ UNCHANGED <<proc, finalStacks, ended>>
            \/ \E q \in Pids :
                 /\ IsRunning(q) /\ proc[q] # Dead /\ ~Waking(q)
                 /\ LastInstruction(q).op = "halt"
                 /\ proc' = [proc EXCEPT ![q] = Dead]
                 /\ finalStacks' = finalStacks \cup {allocNumber[q]}
                 /\ ended' = ended + 1
            \/ \E q \in Pids :
                 /\ IsRunning(q) /\ proc[q] # Dead
                 /\ LastInstruction(q).op # "halt"
                 /\ proc' = [proc EXCEPT ![q] = Inactive]
                 /\ UNCHANGED <<finalStacks, ended>>
<1>1. /\ phase = "deschedule" /\ phase' = "deschedule" /\ at' = at + 1
      /\ at <= Len(tasks) /\ UNCHANGED <<pc, allocNumber, started, msg, tasks>>
  BY DEF DescheduleTask, TaskIn, NextTask, cellVars
<1>2. InTick
  BY <1>1 DEF Meetings
<1>3. /\ WakesLeft' = WakesLeft
      /\ task.kind # "schedule" => at \in StopsLeft
  BY <1>1, NextLeft
<1>4. \A p : Waking(p)' <=> Waking(p)
  BY <1>1, <1>3 DEF Waking
<1>5. CASE task.kind = "schedule"
  BY <1>1, <1>2, <1>4, <1>5 DEF DescheduleTask
<1>6. CASE task.kind # "schedule"
  <2>1. PICK q \in Pids : q = task.pid
    BY <1>2, <1>3, <1>6 DEF InTick, StopsKnown, task
  <2>2. /\ IsRunning(q)
        /\ task.kind = "destroy" => LastInstruction(q).op = "halt"
        /\ task.kind # "destroy" => LastInstruction(q).op # "halt"
    BY <1>2, <1>3, <1>6, <2>1 DEF InTick, StopsKnown, task
  <2>3. proc[q] # Dead
    BY <2>2 DEF IsRunning, Dead
  <2>4. LastInstruction(q).op = "halt" => ~Waking(q)
    BY <1>1, <1>2, <2>3 DEF InTick, WakesKnown, Waking
  <2>5. /\ proc' = [proc EXCEPT ![q] = IF task.kind = "destroy" THEN Dead ELSE Inactive]
        /\ finalStacks' = IF task.kind = "destroy"
                          THEN finalStacks \cup {allocNumber[q]} ELSE finalStacks
        /\ ended' = IF task.kind = "destroy" THEN ended + 1 ELSE ended
    BY <1>6, <2>1 DEF DescheduleTask, SetState
  <2>6. CASE task.kind = "destroy"
    BY <1>1, <1>2, <1>4, <2>2, <2>3, <2>4, <2>5, <2>6
  <2>7. CASE task.kind # "destroy"
    BY <1>1, <1>2, <1>4, <2>2, <2>3, <2>5, <2>7
  <2>8. QED
    BY <2>6, <2>7
<1>7. QED
  BY <1>5, <1>6

LEMMA ScheduleIs ==
  ASSUME IInv, Meetings, ScheduleTask
  PROVE  /\ phase = "schedule" /\ phase' = "schedule"
         /\ UNCHANGED <<pc, allocNumber, finalStacks, started, ended, msg>>
         /\ \A p \in Pids : Waking(p)' => Waking(p)
         /\ \A p \in Pids : \/ proc'[p] = proc[p]
                            \/ proc'[p] \notin {Dead, Inactive} /\ Waking(p)
         /\ \A p \in Pids : Waking(p) => Waking(p)' \/ proc'[p] # Dead
<1>1. /\ phase = "schedule" /\ phase' = "schedule" /\ at' = at + 1
      /\ at <= Len(tasks)
      /\ UNCHANGED <<tasks, pc, allocNumber, finalStacks, started, ended, msg>>
  BY DEF ScheduleTask, TaskIn, NextTask, cellVars
<1>2. InTick
  BY <1>1 DEF Meetings
<1>3. /\ WakesLeft' = WakesLeft \ {at}
      /\ task.kind = "schedule" => at \in WakesLeft
      /\ task.kind # "schedule" => at \notin WakesLeft
  BY <1>1, NextLeft
<1>4. CASE task.kind # "schedule"
  <2>1. proc' = proc
    BY <1>4 DEF ScheduleTask
  <2>2. \A p : Waking(p)' <=> Waking(p)
    BY <1>1, <1>3, <1>4 DEF Waking
  <2>3. QED
    BY <1>1, <2>1, <2>2
<1>5. CASE task.kind = "schedule"
  <2>1. PICK q \in Pids : q = task.pid /\ Waking(q)
    BY <1>2, <1>3, <1>5 DEF InTick, WakesKnown, task, Waking
  <2>2. \A p : /\ Waking(p)' => Waking(p)
               /\ p # q => (Waking(p)' <=> Waking(p))
    BY <1>1, <1>3, <2>1 DEF Waking, task
  <2>3. proc \in [Cells -> States] /\ idle \in Seq(Cores) /\ q \in Cells
    BY NumbersApart DEF IInv, TypeOK
  <2>4. \/ proc' = proc /\ IsRunning(q)
        \/ proc' = [proc EXCEPT ![q] = Waiting]
        \/ \E c \in Cores : proc' = [proc EXCEPT ![q] = Running(c)]
    <3>1. CASE IsRunning(q)
      BY <1>5, <2>1, <3>1 DEF ScheduleTask
    <3>2. CASE ~IsRunning(q) /\ idle # <<>>
      <4>1. RunOnIdleCore(q) /\ idle[Len(idle)] \in Cores
        BY <1>5, <2>1, <2>3, <3>2 DEF ScheduleTask
      <4>2. QED
        BY <4>1 DEF RunOnIdleCore, SetState
    <3>3. CASE ~IsRunning(q) /\ idle = <<>>
      BY <1>5, <2>1, <3>3 DEF ScheduleTask, SetState
    <3>4. QED
      BY <3>1, <3>2, <3>3
  <2>5. /\ Waiting \notin {Dead, Inactive}
        /\ \A c \in Cores : Running(c) \notin {Dead, Inactive}
        /\ IsRunning(q) => proc[q] # Dead
    BY DEF Waiting, Running, Dead, Inactive, IsRunning
  <2>6. /\ \A p \in Pids : p # q => proc'[p] = proc[p]
        /\ proc'[q] = proc[q] \/ proc'[q] \notin {Dead, Inactive}
        /\ proc'[q] # Dead
    BY <2>3, <2>4, <2>5, NumbersApart
  <2>7. QED
    BY <1>1, <2>1, <2>2, <2>6
<1>6. QED
  BY <1>4, <1>5

LEMMA FillIs ==
  ASSUME IInv, Fill
  PROVE  /\ phase = "fill" /\ phase' = "fill"
         /\ UNCHANGED <<pc, allocNumber, finalStacks, started, ended, msg>>
         /\ \A p : ~Waking(p) /\ ~Waking(p)'
         /\ \A p \in Pids : \/ proc'[p] = proc[p]
                            \/ proc[p] # Dead /\ proc'[p] \notin {Dead, Inactive}
<1>1. /\ phase = "fill" /\ phase' = "fill" /\ idle # <<>>
      /\ UNCHANGED <<pc, allocNumber, finalStacks, started, ended, msg>>
  BY DEF Fill, cellVars, history
<1>2. \A p : ~Waking(p) /\ ~Waking(p)'
  BY <1>1 DEF Waking, WakesLeft
<1>3. PICK q \in WaitingPids : RunOnIdleCore(q)
  BY <1>1 DEF Fill
<1>4. q \in Pids /\ q \in Cells /\ proc[q] # Dead /\ idle[Len(idle)] \in Cores
      /\ proc \in [Cells -> States]
  BY <1>1, NumbersApart DEF WaitingPids, Dead, IInv, TypeOK
<1>5. PICK c \in Cores : proc' = [proc EXCEPT ![q] = Running(c)]
  BY <1>3, <1>4 DEF RunOnIdleCore, SetState
<1>6. Running(c) \notin {Dead, Inactive}
  BY DEF Running, Dead, Inactive
<1>7. QED
  BY <1>1, <1>2, <1>4, <1>5, <1>6, NumbersApart

\* The steps that neither start nor stop a process.
Passing ==
  \/ CoresTick \/ HandlingDone \/ Deliver \/ DeliverDone
  \/ DescheduleDone \/ ScheduleDone \/ EndTick \/ UNCHANGED vars

LEMMA PassingIs ==
  ASSUME IInv, Meetings, Passing
  PROVE  /\ UNCHANGED <<proc, allocNumber, finalStacks, started, ended>>
         /\ CoresTick \/ pc' = pc
         /\ \A p : Waking(p)' <=> Waking(p)
         /\ phase' = "handle" => CoresTick \/ UNCHANGED <<phase, at, msg>>
<1>1. CASE CoresTick
  <2>1. /\ phase = "cores" /\ phase' = "handle" /\ tasks' = tasks
        /\ UNCHANGED <<proc, allocNumber, finalStacks, started, ended>>
    BY <1>1 DEF CoresTick, tableVars
  <2>2. tasks = <<>>
    BY <2>1 DEF Meetings, InTick, NothingLeft
  <2>3. QED
    BY <1>1, <2>1, <2>2 DEF Waking, WakesLeft
<1>2. CASE HandlingDone \/ DeliverDone \/ DescheduleDone \/ ScheduleDone
  <2>1. UNCHANGED <<tasks, pc, proc, allocNumber, finalStacks, started, ended>>
    BY <1>2 DEF HandlingDone, DeliverDone, DescheduleDone, ScheduleDone, Begin, tickVars,
       machine, tableVars, cellVars, history
  <2>2. /\ phase' # "handle"
        /\ \/ phase \in {"handle", "deliver"} /\ phase' \in {"deliver", "deschedule"}
           \/ phase = "deschedule" /\ phase' = "schedule" /\ at' = 1
           \/ phase = "schedule" /\ at > Len(tasks) /\ phase' = "fill"
    BY <1>2 DEF HandlingDone, DeliverDone, DescheduleDone, ScheduleDone, Begin
  <2>3. at \in Nat /\ Len(tasks) \in Nat
    BY DEF IInv, TypeOK
  <2>4. WakesLeft' = WakesLeft
    BY <2>1, <2>2, <2>3 DEF WakesLeft
  <2>5. QED
    BY <2>1, <2>2, <2>4 DEF Waking
<1>3. CASE Deliver
  <2>1. UNCHANGED <<tasks, pc, proc, allocNumber, finalStacks, started, ended>>
        /\ phase = "deliver" /\ phase' = "deliver"
    BY <1>3, Delivers DEF Deliver, tableVars
  <2>2. QED
    BY <2>1 DEF Waking, WakesLeft
<1>4. CASE EndTick
  <2>1. UNCHANGED <<pc, proc, allocNumber, finalStacks, started, ended>>
        /\ phase = "fill" /\ phase' \in {"cores", "halted"}
    BY <1>4 DEF EndTick, machine, tableVars, cellVars, history
  <2>2. QED
    BY <2>1 DEF Waking, WakesLeft
<1>5. CASE UNCHANGED vars
  <2>1. UNCHANGED <<phase, at, msg, tasks, pc, proc, allocNumber, finalStacks, started,
                    ended>>
    BY <1>5 DEF vars, tickVars, machine, tableVars, cellVars, history
  <2>2. QED
    BY <2>1 DEF Waking, WakesLeft
<1>6. QED
  BY <1>1, <1>2, <1>3, <1>4, <1>5 DEF Passing

LEMMA NextIs ==
  ASSUME IInv, Meetings, [Next]_vars
  PROVE  \/ Passing \/ HandlesAMessage \/ DescheduleTask \/ ScheduleTask \/ Fill \/ Fail
BY HandleIs DEF Next, Assign, Passing, ScheduleFails

-----------------------------------------------------------------------------
\* A process that halts is not left in the table as stopped.
HaltedGone == \A p \in Pids : proc[p] = Inactive => LastInstruction(p).op # "halt"

LEMMA HaltedGoes ==
  ASSUME IInv, Meetings, Disciplined, HaltedGone, [Next]_vars
  PROVE  HaltedGone'
<1> SUFFICES ASSUME NEW p \in Pids, proc'[p] = Inactive
             PROVE  LastInstruction(p)'.op # "halt"
  BY DEF HaltedGone
<1>0. p \in Cells /\ proc \in [Cells -> States]
  BY NumbersApart DEF IInv, TypeOK
<1>1. CASE Passing
  <2>1. proc' = proc /\ (CoresTick \/ pc' = pc)
    BY <1>1, PassingIs
  <2>2. CoresTick => pc'[p] = pc[p]
    BY <1>0, <2>1, CoresSpeak DEF Meetings, Lasting, IsRunning, Inactive
  <2>3. QED
    BY <2>1, <2>2 DEF HaltedGone, LastInstruction
<1>2. CASE HandlesAMessage
  <2>1. proc' = proc /\ proc[p] # Dead
    BY <1>2 DEF HandlesAMessage, HandlerStep, Inactive, Dead
  <2>2. pc'[p] = pc[p]
    BY <1>0, <1>2, <2>1 DEF HandlesAMessage, Undisturbed
  <2>3. QED
    BY <2>1, <2>2 DEF HaltedGone, LastInstruction
<1>3. CASE DescheduleTask
  <2>1. pc' = pc
    BY <1>3, DescheduleIs
  <2>2. \/ proc' = proc
        \/ \E q \in Pids : proc' = [proc EXCEPT ![q] = Dead]
        \/ \E q \in Pids : /\ proc' = [proc EXCEPT ![q] = Inactive]
                           /\ LastInstruction(q).op # "halt"
    BY <1>3, DescheduleIs
  <2>3. proc[p] = Inactive \/ LastInstruction(p).op # "halt"
    BY <1>0, <2>2 DEF Dead, Inactive
  <2>4. QED
    BY <2>1, <2>3 DEF HaltedGone, LastInstruction
<1>4. CASE ScheduleTask \/ Fill
  <2>1. pc' = pc /\ proc'[p] = proc[p]
    BY <1>4, ScheduleIs, FillIs
  <2>2. QED
    BY <2>1 DEF HaltedGone, LastInstruction
<1>5. CASE Fail
  BY <1>5 DEF Fail, machine, tableVars, cellVars, HaltedGone, LastInstruction
<1>6. QED
  BY <1>1, <1>2, <1>3, <1>4, <1>5, NextIs

(***************************************************************************)
(* No wake-up is lost: between ticks, an inactive process that did not     *)
(* yield is in the word of a channel, where its partner will find it       *)
(* (Processor::send and receive, the tasks of tick).                       *)
(***************************************************************************)
THEOREM WakeUpsKept == Spec /\ []Disciplined => []NoLostWakeUp
<1>1. Init => HaltedGone
  <2> SUFFICES ASSUME Init PROVE HaltedGone
    OBVIOUS
  <2>1. \A p \in Pids : proc[p] \in {Running(0), Dead}
    BY NumbersApart DEF Init
  <2>2. QED
    BY <2>1 DEF HaltedGone, Running, Dead, Inactive
<1>2. ASSUME IInv, Meetings, HaltedGone PROVE NoLostWakeUp
  <2> SUFFICES ASSUME phase = "cores", NEW p \in Pids, proc[p] = Inactive,
                      ~Yielded(p)
               PROVE  Parked(p) # {}
    BY DEF NoLostWakeUp
  <2>1. Stopped(p) /\ ~Waking(p)
    BY <1>2, BetweenTicks
  <2>2. PICK ch \in live : word[ch] = p
    BY <1>2, <2>1 DEF Meetings, InTick, StoppedKnown, HaltedGone, Yielded
  <2>3. ch \in Parked(p)
    BY <1>2, <2>2, BetweenTicks DEF Parked
  <2>4. QED
    BY <2>3
<1>3. QED
  BY <1>1, <1>2, HaltedGoes, Inductive, DisciplinedMeetings, PTL DEF Spec

-----------------------------------------------------------------------------
(* How many processes there are.                                           *)

LEMMA AliveFinite ==
  /\ IsFiniteSet(Pids) /\ IsFiniteSet(Alive) /\ Cardinality(Alive) \in Nat
<1>1. NCores \in Int /\ NCores + NProcs - 1 \in Int
  BY ConstantsTyped
<1>2. IsFiniteSet(Pids)
  BY <1>1, FS_Interval DEF Pids
<1>3. Alive \in SUBSET Pids
  BY DEF Alive
<1>4. IsFiniteSet(Alive)
  BY <1>2, <1>3, FS_Subset
<1>5. QED
  BY <1>2, <1>4, FS_CardinalityType

\* A step that starts or ends nothing, one that starts a process and one that
\* ends a process.
Same == Alive' = Alive /\ UNCHANGED <<started, ended, allocNumber, finalStacks>>
Begins(new) ==
  /\ phase = "handle" /\ at \in Cores /\ msg[at].op = "start"
  /\ FirstDead(new) /\ new \notin Alive /\ Alive' = Alive \cup {new}
  /\ started' = started + 1 /\ UNCHANGED <<ended, finalStacks>>
  /\ allocNumber' = [p \in DOMAIN allocNumber \cup {new} |->
                       IF p = new THEN NextAllocNumber ELSE allocNumber[p]]
Ends(q) ==
  /\ q \in Alive /\ Alive' = Alive \ {q}
  /\ ended' = ended + 1 /\ UNCHANGED <<started, allocNumber>>
  /\ finalStacks' = finalStacks \cup {allocNumber[q]}

LEMMA StartCounts ==
  ASSUME IInv, Meetings, StartsKnown, HandleStartProcess
  PROVE  \E new \in Pids : Begins(new)
<1>1. PICK new \in DeadPids :
        /\ \A p \in DeadPids : new <= p
        /\ allocNumber' = [p \in DOMAIN allocNumber \cup {new} |->
                             IF p = new THEN NextAllocNumber ELSE allocNumber[p]]
        /\ AddTasks(<<Schedule(new)>>)
  BY DEF HandleStartProcess
<1>2. /\ HandlerStep /\ msg[at].op = "start" /\ started' = started + 1
      /\ UNCHANGED <<finalStacks, ended>>
  BY DEF HandleStartProcess, Handling, NextCore, HandlerStep, tableVars
<1>3. new \in Pids /\ proc[new] = Dead /\ new \in Nat
  BY <1>1, NumbersApart DEF DeadPids
<1>4. at \in Cores /\ phase = "handle" /\ proc' = proc /\ tasks \in Seq(Task)
  BY <1>2, Handles DEF HandlerStep
<1>5. ~Waking(new)
  <2> SUFFICES ASSUME Waking(new) PROVE FALSE
    OBVIOUS
  <2>1. PICK c \in Cores : c < at /\ msg[c].op = "start"
    BY <1>3, <1>4 DEF StartsKnown
  <2>2. c = at
    BY <1>2, <1>4, <2>1 DEF StartsKnown
  <2>3. QED
    BY <1>2, <2>1, <2>2, Handles
<1>6. \A p : Waking(p)' <=> Waking(p) \/ p = new
  <2>1. Schedule(new) \in Task /\ Schedule(new).kind = "schedule"
        /\ Schedule(new).pid = new
    BY <1>3 DEF Schedule, Task
  <2>2. QED
    BY <1>1, <1>2, <1>4, <2>1, AddsAWake DEF HandlerStep
<1>7. new \notin Alive /\ Alive' = Alive \cup {new}
  BY <1>3, <1>4, <1>5, <1>6 DEF Alive
<1>8. FirstDead(new)
  BY <1>1 DEF FirstDead
<1>9. QED
  BY <1>1, <1>2, <1>3, <1>4, <1>7, <1>8 DEF Begins

LEMMA StepCounts ==
  ASSUME IInv, Meetings, StartsKnown, [Next]_vars, ~Fail
  PROVE  \/ Same
         \/ \E p \in Pids : Begins(p) \/ Ends(p)
<1>0. Pids \subseteq Cells /\ proc \in [Cells -> States]
  BY NumbersApart DEF IInv, TypeOK
<1>1. CASE Passing
  BY <1>1, PassingIs DEF Same, Alive
<1>2. CASE HandleStartProcess
  BY <1>2, StartCounts
<1>3. CASE HandlesAMessage /\ WakesTheLiving
  <2>1. Alive' = Alive
    BY <1>3 DEF HandlesAMessage, HandlerStep, WakesTheLiving, Alive
  <2>2. QED
    BY <1>3, <2>1 DEF HandlesAMessage, WakesTheLiving, Same
<1>4. CASE DescheduleTask
  <2>1. (\A p : Waking(p)' <=> Waking(p)) /\ UNCHANGED <<allocNumber, started>>
    BY <1>4, DescheduleIs
  <2>2. CASE UNCHANGED <<proc, finalStacks, ended>>
    BY <2>1, <2>2 DEF Same, Alive
  <2>3. CASE \E q \in Pids :
               /\ proc[q] # Dead /\ ~Waking(q)
               /\ proc' = [proc EXCEPT ![q] = Dead]
               /\ finalStacks' = finalStacks \cup {allocNumber[q]}
               /\ ended' = ended + 1
    <3>1. PICK q \in Pids :
               /\ proc[q] # Dead /\ ~Waking(q)
               /\ proc' = [proc EXCEPT ![q] = Dead]
               /\ finalStacks' = finalStacks \cup {allocNumber[q]}
               /\ ended' = ended + 1
      BY <2>3
    <3>2. \A p \in Pids : proc'[p] = IF p = q THEN Dead ELSE proc[p]
      BY <1>0, <3>1
    <3>3. q \in Alive /\ Alive' = Alive \ {q}
      BY <2>1, <3>1, <3>2 DEF Alive
    <3>4. QED
      BY <2>1, <3>1, <3>3 DEF Ends
  <2>4. CASE \E q \in Pids :
               /\ proc[q] # Dead
               /\ proc' = [proc EXCEPT ![q] = Inactive]
               /\ UNCHANGED <<finalStacks, ended>>
    <3>1. PICK q \in Pids : proc[q] # Dead /\ proc' = [proc EXCEPT ![q] = Inactive]
      BY <2>4
    <3>2. \A p \in Pids : proc'[p] # Dead <=> proc[p] # Dead
      BY <1>0, <3>1 DEF Dead, Inactive
    <3>3. Alive' = Alive
      BY <2>1, <3>2 DEF Alive
    <3>4. QED
      BY <2>1, <2>4, <3>3 DEF Same
  <2>5. QED
    BY <1>4, <2>2, <2>3, <2>4, DescheduleIs
<1>5. CASE ScheduleTask
  <2>1. Alive' = Alive
    BY <1>5, ScheduleIs DEF Alive
  <2>2. QED
    BY <1>5, <2>1, ScheduleIs DEF Same
<1>6. CASE Fill
  <2>1. Alive' = Alive
    BY <1>6, FillIs DEF Alive
  <2>2. QED
    BY <1>6, <2>1, FillIs DEF Same
<1>7. QED
  BY <1>1, <1>2, <1>3, <1>4, <1>5, <1>6, NextIs DEF HandlesAMessage

\* One process at a time is started in a tick.
LEMMA StartsStayKnown ==
  ASSUME IInv, Meetings, StartsKnown, OneStartATick', [Next]_vars
  PROVE  StartsKnown'
<1> SUFFICES ASSUME phase' = "handle" PROVE StartsKnown'
  BY DEF StartsKnown
<1>1. CASE CoresTick
  <2>1. at' = 0 /\ proc' = proc /\ tasks = <<>> /\ tasks' = tasks
    BY <1>1 DEF CoresTick, tableVars, Meetings, InTick, NothingLeft
  <2>2. \A p : ~Waking(p)'
    BY <2>1 DEF Waking, WakesLeft
  <2>3. QED
    BY <2>1, <2>2 DEF OneStartATick, StartsKnown
<1>2. CASE Passing /\ ~CoresTick
  BY <1>2, PassingIs DEF StartsKnown
<1>3. CASE HandlesAMessage
  <2>1. HandlerStep /\ at \in Cores /\ \A c \in Cores : c < at + 1 <=> c < at \/ c = at
    BY <1>3, Handles DEF HandlesAMessage
  <2>2. \A p : Waking(p)' => \/ Waking(p) \/ proc[p] # Dead
                             \/ msg[at].op = "start"
    BY <1>3 DEF HandlesAMessage, WakesTheLiving, HandleStartProcess, Handling
  <2>3. QED
    BY <2>1, <2>2 DEF StartsKnown, HandlerStep
<1>4. QED
  BY <1>1, <1>2, <1>3, NextIs, DescheduleIs, ScheduleIs, FillIs DEF Fail

LEMMA StaysCounted ==
  ASSUME IInv, Meetings, Counted, OneStartATick', [Next]_vars
  PROVE  Counted'
<1> SUFFICES ASSUME phase' # "failed" PROVE Counted'
  BY DEF Counted
<1>1. ~Fail
  BY DEF Fail
<1>2. CASE phase = "failed"
  <2>1. UNCHANGED vars
    BY <1>2, NextIs, DescheduleIs, ScheduleIs, FillIs
       DEF Passing, CoresTick, HandlingDone, Deliver, DeliverDone, DescheduleDone,
           ScheduleDone, EndTick, HandlesAMessage, HandlerStep, Fail
  <2>2. QED
    BY <1>2, <2>1 DEF vars
<1>3. CASE phase # "failed"
  <2>1. /\ StartsKnown /\ started \in Nat /\ ended \in Nat
        /\ Cardinality(Alive) = started - ended
    BY <1>3 DEF Counted
  <2>2. /\ started' \in Nat /\ ended' \in Nat
        /\ Cardinality(Alive') = started' - ended'
    <3>1. CASE Same
      BY <2>1, <3>1 DEF Same
    <3>2. CASE \E p \in Pids : Begins(p)
      <4>1. PICK p \in Pids : Begins(p)
        BY <3>2
      <4>2. Cardinality(Alive \cup {p}) = Cardinality(Alive) + 1
        BY <4>1, AliveFinite, FS_AddElement DEF Begins
      <4>3. QED
        BY <2>1, <4>1, <4>2 DEF Begins
    <3>3. CASE \E p \in Pids : Ends(p)
      <4>1. PICK p \in Pids : Ends(p)
        BY <3>3
      <4>2. Cardinality(Alive \ {p}) = Cardinality(Alive) - 1
        BY <4>1, AliveFinite, FS_RemoveElement DEF Ends
      <4>3. QED
        BY <2>1, <4>1, <4>2 DEF Ends
    <3>4. QED
      BY <1>1, <2>1, <3>1, <3>2, <3>3, StepCounts
  <2>3. StartsKnown'
    BY <2>1, StartsStayKnown
  <2>4. QED
    BY <2>2, <2>3 DEF Counted
<1>4. QED
  BY <1>2, <1>3

LEMMA InitAlive == Init => Alive = {NCores}
<1> SUFFICES ASSUME Init PROVE Alive = {NCores}
  OBVIOUS
<1>1. \A p : ~Waking(p)
  BY DEF Init, Waking, WakesLeft
<1>2. \A p \in Pids : proc[p] = IF p = NCores THEN Running(0) ELSE Dead
  BY NumbersApart DEF Init
<1>3. NCores \in Pids
  BY ConstantsTyped DEF Pids
<1>4. QED
  BY <1>1, <1>2, <1>3 DEF Alive, Running, Dead

LEMMA InitCounted == Init => Counted
<1> SUFFICES ASSUME Init PROVE Counted
  OBVIOUS
<1>1. Alive = {NCores} /\ started = 1 /\ ended = 0 /\ phase = "cores"
  BY InitAlive DEF Init
<1>2. Cardinality(Alive) = 1
  BY <1>1, FS_Singleton
<1>3. QED
  BY <1>1, <1>2 DEF Counted, StartsKnown

(***************************************************************************)
(* No process overwrites another: as long as two processes never start one *)
(* in the same tick, every process started and not ended has a place in    *)
(* the table (new_process finds the slot, the Schedule task marks it).     *)
(***************************************************************************)
THEOREM NoProcessIsLost ==
  Spec /\ []Disciplined /\ []OneStartATick => []NoProcessLost
<1>1. Init => Counted
  BY InitCounted
<1>2. ASSUME IInv, Meetings, Counted PROVE NoProcessLost
  <2> SUFFICES ASSUME phase \in {"cores", "halted"}
               PROVE  Cardinality({p \in Pids : proc[p] # Dead}) = started - ended
    BY DEF NoProcessLost
  <2>1. \A p : ~Waking(p)
    BY <1>2 DEF Meetings, InTick, NothingLeft, Waking, WakesLeft
  <2>2. Alive = {p \in Pids : proc[p] # Dead}
    BY <2>1 DEF Alive
  <2>3. QED
    BY <1>2, <2>2 DEF Counted
<1>3. QED
  BY <1>1, <1>2, StaysCounted, Inductive, DisciplinedMeetings, PTL DEF Spec

-----------------------------------------------------------------------------
(* How the processes are numbered.                                         *)

\* The slot the next process will get has no number yet.
FreshSlot ==
  phase = "handle" /\ (\E c \in Cores : c >= at /\ msg[c].op = "start") =>
    \A p \in DeadPids : FirstDead(p) => p \notin Numbers

LEMMA FreshStaysFresh ==
  ASSUME IInv, Meetings, StartsKnown, FreshSlot, NoSlotReused', [Next]_vars
  PROVE  FreshSlot'
<1> SUFFICES ASSUME phase' = "handle",
                    NEW c \in Cores, (c >= at)', (msg[c].op)' = "start"
             PROVE  \A p \in DeadPids' : FirstDead(p)' => p \notin Numbers'
  BY DEF FreshSlot
<1>1. CASE CoresTick
  <2>1. at' = 0
    BY <1>1 DEF CoresTick
  <2>2. QED
    BY <2>1 DEF NoSlotReused, Numbers
<1>2. CASE Passing /\ ~CoresTick
  <2>1. UNCHANGED <<phase, at, msg, proc, allocNumber>>
    BY <1>2, PassingIs
  <2>2. QED
    BY <2>1 DEF FreshSlot, DeadPids, FirstDead, Numbers
<1>3. CASE HandlesAMessage
  <2>1. /\ HandlerStep /\ at \in Cores /\ at' = at + 1 /\ phase = "handle"
        /\ proc' = proc /\ msg' = msg
    BY <1>3, Handles DEF HandlesAMessage, HandlerStep
  <2>2. c >= at /\ c # at
    BY <2>1, Handles DEF Cores
  <2>3. CASE HandleStartProcess
    BY <2>1, <2>2, <2>3 DEF StartsKnown, HandleStartProcess, Handling
  <2>4. CASE WakesTheLiving
    <3>1. allocNumber' = allocNumber
      BY <2>4 DEF WakesTheLiving
    <3>2. QED
      BY <2>1, <2>2, <3>1 DEF FreshSlot, DeadPids, FirstDead, Numbers
  <2>5. QED
    BY <1>3, <2>3, <2>4 DEF HandlesAMessage
<1>4. QED
  BY <1>1, <1>2, <1>3, NextIs, DescheduleIs, ScheduleIs, FillIs DEF Fail

\* The numbers of the processes that are gone.
NumberedApart ==
  /\ Numbers \subseteq Pids
  /\ \A p \in Numbers : allocNumber[p] \in Nat /\ allocNumber[p] < Cardinality(Numbers)
  /\ \A p, q \in Numbers : allocNumber[p] = allocNumber[q] => p = q
LeftBehind ==
  /\ Alive \subseteq Numbers
  /\ finalStacks = {allocNumber[p] : p \in Numbers \ Alive}

LEMMA NumbersFinite ==
  ASSUME NumberedApart
  PROVE  IsFiniteSet(Numbers) /\ Cardinality(Numbers) \in Nat
<1>1. Numbers \in SUBSET Pids
  BY DEF NumberedApart
<1>2. QED
  BY <1>1, AliveFinite, FS_Subset, FS_CardinalityType

LEMMA BeginsNumbers ==
  ASSUME NumberedApart, LeftBehind, NEW new \in Pids, Begins(new), new \notin Numbers
  PROVE  NumberedApart' /\ LeftBehind'
<1>1. /\ Numbers' = Numbers \cup {new} /\ allocNumber'[new] = Cardinality(Numbers)
      /\ \A p \in Numbers : allocNumber'[p] = allocNumber[p]
      /\ Alive' = Alive \cup {new} /\ finalStacks' = finalStacks
  BY DEF Begins, Numbers, NextAllocNumber
<1>2. Cardinality(Numbers') = Cardinality(Numbers) + 1 /\ Cardinality(Numbers) \in Nat
  BY <1>1, NumbersFinite, FS_AddElement
<1>3. NumberedApart'
  <2>1. Numbers' \subseteq Pids
    BY <1>1 DEF NumberedApart
  <2>2. ASSUME NEW p \in Numbers'
        PROVE  allocNumber'[p] \in Nat /\ allocNumber'[p] < Cardinality(Numbers')
    BY <1>1, <1>2, <2>2 DEF NumberedApart
  <2>3. ASSUME NEW p \in Numbers', NEW q \in Numbers', allocNumber'[p] = allocNumber'[q]
        PROVE  p = q
    BY <1>1, <1>2, <2>3 DEF NumberedApart
  <2>4. QED
    BY <2>1, <2>2, <2>3 DEF NumberedApart
<1>4. LeftBehind'
  <2>1. Numbers' \ Alive' = Numbers \ Alive
    BY <1>1
  <2>2. {allocNumber'[p] : p \in Numbers' \ Alive'}
          = {allocNumber[p] : p \in Numbers \ Alive}
    BY <1>1, <2>1
  <2>3. QED
    BY <1>1, <2>2 DEF LeftBehind
<1>5. QED
  BY <1>3, <1>4

LEMMA EndsNumbers ==
  ASSUME NumberedApart, LeftBehind, NEW q \in Pids, Ends(q),
         Cardinality(finalStacks) = ended
  PROVE  NumberedApart' /\ LeftBehind' /\ Cardinality(finalStacks') = ended'
<1>1. /\ q \in Numbers /\ q \in Alive /\ Alive' = Alive \ {q} /\ allocNumber' = allocNumber
      /\ Numbers' = Numbers /\ ended' = ended + 1
      /\ finalStacks' = finalStacks \cup {allocNumber[q]}
  BY DEF Ends, LeftBehind, Numbers
<1>2. NumberedApart'
  BY <1>1 DEF NumberedApart
<1>3. LeftBehind'
  <2>1. Numbers' \ Alive' = (Numbers \ Alive) \cup {q}
    BY <1>1
  <2>2. {allocNumber[p] : p \in Numbers' \ Alive'}
          = {allocNumber[p] : p \in Numbers \ Alive} \cup {allocNumber[q]}
    BY <2>1
  <2>3. Alive' \subseteq Numbers'
    BY <1>1 DEF LeftBehind
  <2>4. QED
    BY <1>1, <2>2, <2>3 DEF LeftBehind
<1>4. allocNumber[q] \notin finalStacks
  BY <1>1 DEF LeftBehind, NumberedApart
<1>5. IsFiniteSet(finalStacks)
  <2>1. IsFiniteSet(0 .. Cardinality(Numbers))
    BY NumbersFinite, FS_Interval
  <2>2. finalStacks \in SUBSET (0 .. Cardinality(Numbers))
    <3>1. \A p \in Numbers : allocNumber[p] \in 0 .. Cardinality(Numbers)
      BY NumbersFinite DEF NumberedApart
    <3>2. QED
      BY <3>1 DEF LeftBehind
  <2>3. QED
    BY <2>1, <2>2, FS_Subset
<1>6. Cardinality(finalStacks \cup {allocNumber[q]}) = Cardinality(finalStacks) + 1
  BY <1>4, <1>5, FS_AddElement
<1>7. QED
  BY <1>1, <1>2, <1>3, <1>6

LEMMA StaysNumbered ==
  ASSUME IInv, Meetings, Counted, Numbered, NoSlotReused', [Next]_vars
  PROVE  Numbered'
<1>1. NumberedApart /\ Cardinality(finalStacks) = ended
  BY DEF Numbered, NumberedApart
<1>2. CASE Fail
  <2>1. phase' = "failed" /\ UNCHANGED <<allocNumber, finalStacks, ended>>
    BY <1>2 DEF Fail, machine, tableVars, cellVars, history
  <2>2. QED
    BY <1>1, <2>1 DEF Numbered, NumberedApart, Numbers
<1>3. CASE phase = "failed" /\ ~Fail
  <2>1. UNCHANGED vars
    BY <1>3, NextIs, DescheduleIs, ScheduleIs, FillIs
       DEF Passing, CoresTick, HandlingDone, Deliver, DeliverDone, DescheduleDone,
           ScheduleDone, EndTick, HandlesAMessage, HandlerStep
  <2>2. phase' = "failed" /\ UNCHANGED <<allocNumber, finalStacks, ended>>
    BY <1>3, <2>1 DEF vars, machine, tableVars, cellVars, history
  <2>3. QED
    BY <1>1, <2>2 DEF Numbered, NumberedApart, Numbers
<1>4. CASE phase # "failed" /\ ~Fail
  <2>1. LeftBehind /\ FreshSlot /\ StartsKnown
    BY <1>4 DEF Numbered, LeftBehind, FreshSlot, Counted
  <2>2. NumberedApart' /\ LeftBehind' /\ Cardinality(finalStacks') = ended'
    <3>1. CASE Same
      BY <1>1, <2>1, <3>1 DEF Same, NumberedApart, LeftBehind, Numbers
    <3>2. CASE \E p \in Pids : Begins(p)
      <4>1. PICK p \in Pids : Begins(p)
        BY <3>2
      <4>2. /\ p \in DeadPids /\ FirstDead(p) /\ phase = "handle" /\ at \in Cores
            /\ msg[at].op = "start" /\ at >= at
            /\ UNCHANGED <<finalStacks, ended>>
        BY <4>1 DEF Begins, FirstDead, Cores
      <4>3. p \notin Numbers
        BY <2>1, <4>2 DEF FreshSlot
      <4>4. QED
        BY <1>1, <2>1, <4>1, <4>2, <4>3, BeginsNumbers
    <3>3. CASE \E q \in Pids : Ends(q)
      BY <1>1, <2>1, <3>3, EndsNumbers
    <3>4. QED
      BY <1>4, <2>1, <3>1, <3>2, <3>3, StepCounts
  <2>3. FreshSlot'
    BY <2>1, FreshStaysFresh
  <2>4. QED
    BY <2>2, <2>3 DEF Numbered, NumberedApart, LeftBehind, FreshSlot
<1>5. QED
  BY <1>2, <1>3, <1>4

(***************************************************************************)
(* Every process that ended left a final stack of its own, when no two     *)
(* processes are started in the same tick and no slot is used twice: the   *)
(* size of current_pid_to_alloc_number is then a number nobody has.        *)
(***************************************************************************)
THEOREM FinalStacksAreDistinct ==
  Spec /\ []Disciplined /\ []OneStartATick /\ []NoSlotReused
    => []FinalStacksDistinct
<1>1. Init => Counted
  BY InitCounted
<1>2. Init => Numbered
  <2> SUFFICES ASSUME Init PROVE Numbered
    OBVIOUS
  <2>1. /\ Alive = {NCores} /\ Numbers = {NCores} /\ allocNumber[NCores] = 0
        /\ finalStacks = {} /\ ended = 0 /\ phase = "cores" /\ NCores \in Pids
    BY InitAlive, ConstantsTyped DEF Init, Numbers, Pids
  <2>2. Cardinality(Numbers) = 1 /\ Cardinality(finalStacks) = 0
    BY <2>1, FS_Singleton, FS_EmptySet
  <2>3. {allocNumber[p] : p \in Numbers \ Alive} = {}
    BY <2>1
  <2>4. QED
    BY <2>1, <2>2, <2>3 DEF Numbered
<1>3. Numbered => FinalStacksDistinct
  BY DEF Numbered, FinalStacksDistinct
<1>4. QED
  BY <1>1, <1>2, <1>3, StaysCounted, StaysNumbered, Inductive, DisciplinedMeetings, PTL
     DEF Spec

(***************************************************************************)
(* The two together: new_process and StartProcess of processor/mod.rs lose *)
(* neither a process nor its final stack.                                  *)
(***************************************************************************)
THEOREM ProcessesAreKept ==
  Spec /\ []Disciplined /\ []OneStartATick /\ []NoSlotReused
    => []ProcessesKept
  BY NoProcessIsLost, FinalStacksAreDistinct, PTL DEF ProcessesKept

-----------------------------------------------------------------------------
(* The channels are allocated.                                             *)

\* The steps that change which channels there are, and what passes through them.
LEMMA ChannelsChangeIn ==
  ASSUME IInv, Meetings, [Next]_vars
  PROVE  \/ UNCHANGED <<live, sent, got>>
         \/ CoresTick \/ HandleCreateChannel \/ HandleDeleteChannel
         \/ SendToReceiver \/ ReceiveTakes \/ Deliver
<1>1. CASE HandleNothing \/ HandleYield \/ HandleHalt \/ SendMeetsReceive
  BY <1>1 DEF HandleNothing, HandleYield, HandleHalt, SendMeetsReceive, OnlyAdd, history
<1>2. CASE HandleStartProcess
  BY <1>2 DEF HandleStartProcess
<1>3. CASE SendParks
  BY <1>3 DEF SendParks, Sending
<1>4. CASE ReceiveMeetsSend \/ ReceiveParks
  BY <1>4 DEF ReceiveMeetsSend, ReceiveParks, Receiving
<1>5. CASE Fail
  BY <1>5 DEF Fail, machine, history
<1>6. CASE HandlingDone \/ DeliverDone \/ DescheduleDone \/ ScheduleDone
  BY <1>6 DEF HandlingDone, DeliverDone, DescheduleDone, ScheduleDone, Begin, machine,
     history
<1>7. CASE DescheduleTask \/ ScheduleTask
  BY <1>7 DEF DescheduleTask, ScheduleTask, NextTask
<1>8. CASE Fill \/ EndTick
  BY <1>8 DEF Fill, EndTick, machine, history
<1>9. CASE UNCHANGED vars
  BY <1>9 DEF vars, machine, history
<1>10. QED
  BY <1>1, <1>2, <1>3, <1>4, <1>5, <1>6, <1>7, <1>8, <1>9, NoOthers
     DEF Next, Handle, Assign, HandleStartProcessFails, HandleCreateChannelFails,
         SendToReceiverFails, ScheduleFails

LEMMA LiveFinite ==
  ASSUME live \subseteq Channels
  PROVE  IsFiniteSet(live)
<1>1. IsFiniteSet(Channels)
  BY NumbersApart, ChannelLimitAssumption, FS_Interval DEF Channels, ChannelHeap!Addresses
<1>2. live \in SUBSET Channels
  OBVIOUS
<1>3. QED
  BY <1>1, <1>2, FS_Subset

LEMMA CreatesABlock ==
  ASSUME IInv, Meetings, HandleCreateChannel
  PROVE  ChannelAllocator!Alloc
<1>1. PICK ch \in Channels :
        /\ ChannelHeap!AllocNew(ch) \/ ChannelHeap!AllocFreed(ch)
        /\ word' = [word EXCEPT ![ch] = NoProcess]
        /\ live' = live \cup {ch}
  BY DEF HandleCreateChannel
<1>2. FreeChannelsLinked /\ live \subseteq Channels /\ word \in [Channels -> Nat]
  BY DEF Meetings, Lasting, Kept, IInv, TypeOK
<1>3. ch \notin live /\ ch + 4 <= ChannelLimit /\ \A b \in live : Apart(ch, b)
  BY <1>1, <1>2, Allocates
<1>4. \A b \in live : ~ChannelAllocator!Overlap(ch, b)
  BY <1>2, <1>3, NumbersApart DEF Apart, ChannelAllocator!Overlap
<1>5. ChannelAllocator!Available(ch)
  BY <1>3, <1>4 DEF ChannelAllocator!Available
<1>6. Cardinality(live') = Cardinality(live) + 1
  BY <1>1, <1>2, <1>3, LiveFinite, FS_AddElement
<1>7. ch \in CellCount .. ChannelLimit
  BY DEF Channels, ChannelHeap!Addresses
<1>8. QED
  BY <1>1, <1>5, <1>6, <1>7 DEF ChannelAllocator!Alloc

LEMMA DeletesABlock ==
  ASSUME IInv, Meetings, HandleDeleteChannel
  PROVE  ChannelAllocator!Free
<1>1. /\ HandlerStep /\ msg[at].op = "del" /\ live' = live \ {chan}
  BY DEF HandleDeleteChannel, OnChannel, Handling, NextCore, HandlerStep, tableVars
<1>2. InTick /\ live \subseteq Channels /\ at \in Cores /\ at >= at
  BY <1>1, Handles DEF Meetings, Lasting, HandlerStep, Kept
<1>3. chan \in live
  BY <1>1, <1>2 DEF InTick, Promised, HandlerStep, OnChannels, chan
<1>4. PICK ch \in live : ch = chan
  BY <1>3
<1>5. Cardinality(live') = Cardinality(live) - 1
  BY <1>1, <1>2, <1>4, LiveFinite, FS_RemoveElement
<1>6. QED
  BY <1>1, <1>4, <1>5 DEF ChannelAllocator!Free

(***************************************************************************)
(* The processor's channels implement the abstract allocator: whatever     *)
(* create_channel hands out, fresh or recycled, lies in the heap and       *)
(* overlaps no channel that exists, although processes have written the    *)
(* words through which the heap finds it.                                  *)
(***************************************************************************)
THEOREM ChannelsAreAllocated ==
  Spec /\ []Disciplined => ChannelsAllocated
<1>1. Init => ChannelAllocator!Init
  BY FS_EmptySet DEF Init, ChannelAllocator!Init
<1>2. ASSUME IInv, Meetings, [Next]_vars
      PROVE  [ChannelAllocator!Next]_<<live, Cardinality(live)>>
  <2>1. CASE live' = live
    BY <2>1
  <2>2. CASE HandleCreateChannel
    BY <1>2, <2>2, CreatesABlock DEF ChannelAllocator!Next
  <2>3. CASE HandleDeleteChannel
    BY <1>2, <2>3, DeletesABlock DEF ChannelAllocator!Next
  <2>4. CASE CoresTick \/ SendToReceiver \/ ReceiveTakes \/ Deliver
    BY <2>1, <2>4 DEF CoresTick, SendToReceiver, Sending, ReceiveTakes, Receiving, Deliver
  <2>5. QED
    BY <1>2, <2>1, <2>2, <2>3, <2>4, ChannelsChangeIn
<1>3. QED
  BY <1>1, <1>2, Inductive, DisciplinedMeetings, PTL
     DEF Spec, ChannelsAllocated, ChannelAllocator!Spec

-----------------------------------------------------------------------------
(* The channels are synchronous.                                           *)

\* One value at most is on its way, in a tick that has not failed.
LEMMA OneOnItsWay ==
  ASSUME Meetings, phase # "failed", NEW ch \in live
  PROVE  /\ sent[ch] \in Nat /\ got[ch] \in Seq(Nat) /\ Len(got[ch]) \in Nat
         /\ Len(got[ch]) <= sent[ch] /\ sent[ch] <= Len(got[ch]) + 1
         /\ ~InFlight(ch) => Len(got[ch]) = sent[ch]
<1>1. sent[ch] \in Nat /\ got[ch] \in Seq(Nat) /\ Len(got[ch]) \in Nat
  BY DEF Meetings, Lasting, Kept
<1>2. sent[ch] = Len(got[ch]) + (IF InFlight(ch) THEN 1 ELSE 0)
  BY DEF Meetings, InTick, ValuesKnown
<1>3. CASE InFlight(ch)
  <2>1. sent[ch] = Len(got[ch]) + 1
    BY <1>2, <1>3
  <2>2. QED
    BY <1>1, <1>3, <2>1
<1>4. CASE ~InFlight(ch)
  <2>1. sent[ch] = Len(got[ch]) + 0
    BY <1>2, <1>4
  <2>2. QED
    BY <1>1, <2>1
<1>5. QED
  BY <1>3, <1>4

\* The next state has at most one value on its way, too.
LEMMA OneStaysOnItsWay ==
  ASSUME Meetings', phase' # "failed", NEW ch \in live'
  PROVE  /\ sent'[ch] \in Nat /\ Len(got'[ch]) \in Nat
         /\ Len(got'[ch]) <= sent'[ch] /\ sent'[ch] <= Len(got'[ch]) + 1
<1>1. sent'[ch] \in Nat /\ Len(got'[ch]) \in Nat
  BY DEF Meetings, Lasting, Kept
<1>2. sent'[ch] = Len(got'[ch]) + (IF InFlight(ch)' THEN 1 ELSE 0)
  BY DEF Meetings, InTick, ValuesKnown
<1>3. CASE InFlight(ch)'
  <2>1. sent'[ch] = Len(got'[ch]) + 1
    BY <1>2, <1>3
  <2>2. QED
    BY <1>1, <2>1
<1>4. CASE ~(InFlight(ch)')
  <2>1. sent'[ch] = Len(got'[ch]) + 0
    BY <1>2, <1>4
  <2>2. QED
    BY <1>1, <2>1
<1>5. QED
  BY <1>3, <1>4

\* What the cores send, they send on channels that are idle.
LEMMA CoresSend ==
  ASSUME IInv, Meetings, Meetings', Disciplined, CoresTick
  PROVE  SynchronousChannel!Send
<1> DEFINE spoken == {ch \in Channels : Issuing("send", ch)' # {}}
<1>1. /\ phase = "cores" /\ phase' = "handle" /\ UNCHANGED <<live, got>>
      /\ live \subseteq Channels /\ Kept /\ Kept' /\ InTick'
  BY DEF CoresTick, Meetings, Lasting, Kept
<1>2. sent' = [ch \in Channels |-> IF ch \in spoken THEN sent[ch] + 1 ELSE sent[ch]]
  <2>1. \A ch \in Channels :
          sent'[ch] = IF ch \in spoken THEN sent[ch] + 1 ELSE sent[ch]
    BY <1>1, CoresSpeak
  <2>2. sent' \in [Channels -> Nat]
    BY <1>1 DEF Kept
  <2>3. QED
    BY <2>1, <2>2
<1>3. spoken \in SUBSET live
  BY <1>1 DEF InTick, Promised, Issuing
<1>4. ASSUME NEW ch \in spoken PROVE SynchronousChannel!Idle(ch)
  <2>1. ch \in live /\ ch \in live' /\ ch \in Channels
    BY <1>1, <1>3
  <2>2. sent'[ch] = sent[ch] + 1 /\ got'[ch] = got[ch]
    BY <1>1, <1>2, <2>1
  <2>3. sent[ch] \in Nat /\ Len(got[ch]) \in Nat /\ Len(got[ch]) <= sent[ch]
    BY <1>1, <2>1, OneOnItsWay
  <2>4. sent'[ch] <= Len(got'[ch]) + 1
    BY <1>1, <2>1, OneStaysOnItsWay
  <2>5. QED
    BY <2>2, <2>3, <2>4 DEF SynchronousChannel!Idle
<1>5. QED
  BY <1>1, <1>2, <1>3, <1>4 DEF SynchronousChannel!Send

\* What is received is what was sent last.
LEMMA ReceivesTheValue ==
  ASSUME Meetings, Meetings', NEW ch \in live, NEW v,
         phase # "failed", phase' # "failed",
         got' = [got EXCEPT ![ch] = Append(got[ch], v)],
         UNCHANGED <<live, sent>>
  PROVE  SynchronousChannel!Receive
<1>1. got \in [Channels -> Seq(Nat)] /\ ch \in Channels /\ got'[ch] = Append(got[ch], v)
  BY DEF Meetings, Lasting, Kept
<1>2. v \in Nat
  <2>1. got'[ch] \in Seq(Nat)
    BY <1>1 DEF Meetings, Lasting, Kept
  <2>2. got[ch] \in Seq(Nat) /\ Len(got[ch]) \in Nat
    BY <1>1
  <2>3. Len(got'[ch]) = Len(got[ch]) + 1 /\ got'[ch][Len(got[ch]) + 1] = v
    BY <1>1, <2>2
  <2>4. Len(got[ch]) + 1 \in 1 .. Len(got'[ch])
    BY <2>2, <2>3
  <2>5. QED
    BY <2>1, <2>3, <2>4
<1>3. Len(got'[ch]) = Len(got[ch]) + 1 /\ got'[ch][Len(got[ch]) + 1] = v
  BY <1>1, <1>2
<1>4. sent[ch] \in Nat /\ Len(got[ch]) \in Nat /\ sent[ch] <= Len(got[ch]) + 1
  BY OneOnItsWay
<1>5. Len(got'[ch]) <= sent'[ch]
  BY OneStaysOnItsWay
<1>6. sent[ch] = Len(got[ch]) + 1
  BY <1>3, <1>4, <1>5
<1>7. v = sent[ch]
  <2>1. Len(got[ch]) + 1 \in 1 .. Len(got'[ch])
    BY <1>3, <1>4
  <2>2. \A i \in 1 .. Len(got'[ch]) : got'[ch][i] = i
    BY DEF Meetings, Lasting, GotInOrder
  <2>3. QED
    BY <1>3, <1>6, <2>1, <2>2
<1>8. ~SynchronousChannel!Idle(ch)
  BY <1>4, <1>6 DEF SynchronousChannel!Idle
<1>9. got' = [got EXCEPT ![ch] = Append(got[ch], sent[ch])]
  BY <1>7
<1>10. QED
  BY <1>8, <1>9 DEF SynchronousChannel!Receive

\* A handler that finds its partner in the channel's word.
LEMMA PartnerReceives ==
  ASSUME IInv, Meetings, Meetings', SendToReceiver \/ ReceiveTakes
  PROVE  SynchronousChannel!Receive
<1>1. /\ HandlerStep /\ msg[at].op \in {"send", "recv"} /\ UNCHANGED <<live, sent>>
      /\ \/ got' = [got EXCEPT ![chan] = Append(got[chan], msg[at].value)]
         \/ got' = [got EXCEPT ![chan] = Append(got[chan], value[chan])]
  BY ChannelStep DEF SendToReceiver, ReceiveTakes
<1>2. PICK ch \in live : ch = chan
  BY <1>1, OnItsChannel
<1>3. phase # "failed" /\ phase' # "failed"
  BY <1>1 DEF HandlerStep
<1>4. \/ got' = [got EXCEPT ![ch] = Append(got[ch], msg[at].value)]
      \/ got' = [got EXCEPT ![ch] = Append(got[ch], value[ch])]
  BY <1>1, <1>2
<1>5. QED
  BY <1>1, <1>3, <1>4, ReceivesTheValue

\* The answers to the receivers that met a sender in their tick.
LEMMA DeliverReceives ==
  ASSUME IInv, Meetings, Meetings', Deliver
  PROVE  SynchronousChannel!Receive \/ UNCHANGED <<live, sent, got>>
<1>1. /\ phase = "deliver" /\ phase' = "deliver" /\ at \in Cores
      /\ UNCHANGED <<live, sent>>
      /\ got' = IF ret[at].kind = "receive"
                THEN [got EXCEPT ![ret[at].chan] = Append(got[ret[at].chan], ret[at].value)]
                ELSE got
  BY ConstantsTyped DEF Deliver, IInv, TypeOK
<1>2. CASE ret[at].kind = "receive"
  <2>1. ret[at].chan \in live
    BY <1>1, <1>2 DEF Meetings, InTick, AnswersAreNews, Promised
  <2>2. got' = [got EXCEPT ![ret[at].chan] = Append(got[ret[at].chan], ret[at].value)]
    BY <1>1, <1>2
  <2>3. QED
    BY <1>1, <2>1, <2>2, ReceivesTheValue
<1>3. QED
  BY <1>1, <1>2

\* A channel is deleted when nobody is at its ends, so nothing is on its way.
LEMMA DeletesIdle ==
  ASSUME IInv, Meetings, HandleDeleteChannel
  PROVE  SynchronousChannel!Close
<1>1. /\ HandlerStep /\ msg[at].op = "del" /\ live' = live \ {chan}
      /\ UNCHANGED <<sent, got>>
  BY DEF HandleDeleteChannel, OnChannel, Handling, NextCore, HandlerStep, tableVars
<1>2. InTick /\ at \in Cores /\ at >= at /\ phase = "handle"
  BY <1>1, Handles DEF Meetings, HandlerStep
<1>3. PICK ch \in live : ch = chan
  BY <1>1, <1>2 DEF InTick, Promised, OnChannels, chan
<1>4. word[ch] = NoProcess
  BY <1>1, <1>2, <1>3 DEF InTick, Promised, OnChannels, chan
<1>5. Issuing("send", ch) = {}
  <2> SUFFICES ASSUME NEW c \in Cores, msg[c].op = "send", msg[c].chan = ch
               PROVE  FALSE
    BY DEF Issuing
  <2>1. c # at
    BY <1>1
  <2>2. QED
    BY <2>1, <1>1, <1>2, <1>3, Alone DEF OnChannels
<1>6. ~InFlight(ch)
  BY <1>4, <1>5 DEF InFlight, SenderIn, ToHandle, ToDeliver, Offered
<1>7. Len(got[ch]) = sent[ch]
  BY <1>2, <1>6, OneOnItsWay
<1>8. QED
  BY <1>1, <1>3, <1>7 DEF SynchronousChannel!Close, SynchronousChannel!Idle

\* A new channel begins anew.
LEMMA CreatesAnew ==
  ASSUME IInv, Meetings, HandleCreateChannel
  PROVE  SynchronousChannel!Open
<1>1. PICK ch \in Channels :
        /\ ChannelHeap!AllocNew(ch) \/ ChannelHeap!AllocFreed(ch)
        /\ word' = [word EXCEPT ![ch] = NoProcess]
        /\ live' = live \cup {ch}
        /\ sent' = [sent EXCEPT ![ch] = 0] /\ got' = [got EXCEPT ![ch] = <<>>]
  BY DEF HandleCreateChannel
<1>2. FreeChannelsLinked /\ live \subseteq Channels /\ word \in [Channels -> Nat]
  BY DEF Meetings, Lasting, Kept, IInv, TypeOK
<1>3. ch \notin live
  BY <1>1, <1>2, Allocates
<1>4. QED
  BY <1>1, <1>3 DEF SynchronousChannel!Open

(***************************************************************************)
(* The processor's channels implement the abstract ones: in every tick,    *)
(* whatever the cores do at once, a value is sent when the one before it   *)
(* was received, and received once, as it was sent.                        *)
(***************************************************************************)
THEOREM ChannelsAreSynchronous ==
  Spec /\ []Disciplined => ChannelsSynchronous
<1>1. Init => SynchronousChannel!Init
  BY DEF Init, SynchronousChannel!Init
<1>2. ASSUME IInv, Meetings, Meetings', Disciplined, [Next]_vars
      PROVE  [SynchronousChannel!Next]_<<live, sent, got>>
  <2>1. CASE UNCHANGED <<live, sent, got>>
    BY <2>1
  <2>2. CASE CoresTick
    BY <1>2, <2>2, CoresSend DEF SynchronousChannel!Next
  <2>3. CASE SendToReceiver \/ ReceiveTakes
    BY <1>2, <2>3, PartnerReceives DEF SynchronousChannel!Next
  <2>4. CASE Deliver
    BY <1>2, <2>4, DeliverReceives DEF SynchronousChannel!Next
  <2>5. CASE HandleCreateChannel
    BY <1>2, <2>5, CreatesAnew DEF SynchronousChannel!Next
  <2>6. CASE HandleDeleteChannel
    BY <1>2, <2>6, DeletesIdle DEF SynchronousChannel!Next
  <2>7. QED
    BY <1>2, <2>1, <2>2, <2>3, <2>4, <2>5, <2>6, ChannelsChangeIn
<1>3. QED
  BY <1>1, <1>2, Inductive, DisciplinedMeetings, PTL
     DEF Spec, ChannelsSynchronous, SynchronousChannel!Spec, SynchronousChannel!vars
=============================================================================
