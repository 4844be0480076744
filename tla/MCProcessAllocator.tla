------------------------- MODULE MCProcessAllocator -------------------------
\* Cells 1 to 3 for processes, and cells of eight words.
EXTENDS ProcessAllocatorClient
=============================================================================
