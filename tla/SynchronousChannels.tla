------------------------ MODULE SynchronousChannels ------------------------
(***************************************************************************)
(* What channels promise the processes that use them: one value is on its  *)
(* way at a time, and it is the one received next.  The i-th value sent on *)
(* a channel is the number i.                                              *)
(***************************************************************************)
EXTENDS Naturals, Sequences

CONSTANT Channels

VARIABLES live,      \* the channels there are
          sent,      \* how many values were sent on each
          got        \* the values received from each

vars == <<live, sent, got>>

\* Everything sent was received.
Idle(ch) == Len(got[ch]) = sent[ch]

Init ==
  /\ live = {}
  /\ sent = [ch \in Channels |-> 0]
  /\ got = [ch \in Channels |-> <<>>]

Open ==
  \E ch \in Channels \ live :
    /\ live' = live \cup {ch}
    /\ sent' = [sent EXCEPT ![ch] = 0]
    /\ got' = [got EXCEPT ![ch] = <<>>]

\* Senders of different channels may speak at once.
Send ==
  \E chs \in SUBSET live :
    /\ \A ch \in chs : Idle(ch)
    /\ sent' = [ch \in Channels |-> IF ch \in chs THEN sent[ch] + 1 ELSE sent[ch]]
    /\ UNCHANGED <<live, got>>

Receive ==
  \E ch \in live :
    /\ ~Idle(ch)
    /\ got' = [got EXCEPT ![ch] = Append(got[ch], sent[ch])]
    /\ UNCHANGED <<live, sent>>

\* No value is lost with its channel.
Close ==
  \E ch \in live : Idle(ch) /\ live' = live \ {ch} /\ UNCHANGED <<sent, got>>

Next == Open \/ Send \/ Receive \/ Close

Spec == Init /\ [][Next]_vars
==============================================================================
