---------------------------- MODULE DispatchQueue ----------------------------
(***************************************************************************)
(* What a scheduler promises the rest of the processor: processes wait in  *)
(* one queue, each at most once, and the one that has waited longest is    *)
(* the next to be given an idle core.                                      *)
(***************************************************************************)
EXTENDS Naturals, Sequences

CONSTANTS Pids, Cores, NoPid

VARIABLES
    queue,      \* the processes that wait, longest wait first
    running     \* running[c]: the process of core c, or NoPid

Busy == {running[c] : c \in Cores} \ {NoPid}

Init ==
    /\ queue = <<>>
    /\ running = [c \in Cores |-> NoPid]

Enqueue(p) ==
    /\ p \notin {queue[i] : i \in DOMAIN queue} \cup Busy
    /\ queue' = Append(queue, p)
    /\ UNCHANGED running

Release(c) ==
    /\ running[c] # NoPid
    /\ running' = [running EXCEPT ![c] = NoPid]
    /\ UNCHANGED queue

Dispatch(c) ==
    /\ running[c] = NoPid
    /\ queue # <<>>
    /\ running' = [running EXCEPT ![c] = Head(queue)]
    /\ queue' = Tail(queue)

Next ==
    \/ \E p \in Pids : Enqueue(p)
    \/ \E c \in Cores : Release(c) \/ Dispatch(c)

Spec == Init /\ [][Next]_<<queue, running>>
=============================================================================
