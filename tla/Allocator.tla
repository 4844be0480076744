------------------------------ MODULE Allocator ------------------------------
(***************************************************************************)
(* What a block allocator promises its clients, whatever it keeps to do    *)
(* so: a block handed out lies inside the heap and overlaps no block       *)
(* handed out before and not yet returned, itself included.                *)
(***************************************************************************)
EXTENDS Naturals

CONSTANTS Base, Max, Size     \* blocks of Size words inside Base .. Max - 1

VARIABLES live,               \* the addresses handed out and not returned
          held                \* how many blocks the client holds

Overlap(a, b) == a < b + Size /\ b < a + Size

Available(a) == a + Size <= Max /\ \A b \in live : ~Overlap(a, b)

Init == live = {} /\ held = 0

Alloc == \E a \in Base .. Max : Available(a) /\ live' = live \cup {a}
                                             /\ held' = held + 1

Free == \E a \in live : live' = live \ {a} /\ held' = held - 1

Next == Alloc \/ Free

Spec == Init /\ [][Next]_<<live, held>>
==============================================================================
