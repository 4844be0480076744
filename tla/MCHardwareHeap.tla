--------------------------- MODULE MCHardwareHeap ---------------------------
\* Three blocks of two words in a memory of ten.  A client's word may be 0, a
\* block or the second word of one.
EXTENDS HardwareHeapClient
MCWords == {0, 3, 4}
=============================================================================
