------------------------------- MODULE MCHeap -------------------------------
(***************************************************************************)
(* Four blocks of four bytes and two bytes left over at the end of the     *)
(* heap.  A client's word may be 0 or look like the address of a block.    *)
(***************************************************************************)
EXTENDS HeapClient

MCWords == {0, 7, 11, 40}
==============================================================================
