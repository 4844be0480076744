------------------------------- MODULE Memory -------------------------------
(***************************************************************************)
(* A block of memory, stannel/IceRam.v: one port, and an answer one clock  *)
(* edge after the address.                                                 *)
(***************************************************************************)
EXTENDS Naturals

CONSTANT MemorySize     \* words in a memory, 2^addrBits in the hardware

MemoryAddresses == 0 .. MemorySize - 1

\* An address is as wide as a memory is long, so sums wrap.
Plus(a, n) == (a + n) % MemorySize

\* What a unit asks of its port in a cycle.
NoAccess == [write |-> FALSE, at |-> MemorySize, data |-> 0]
Read(a) == [NoAccess EXCEPT !.at = a]
Write(a, d) == [write |-> TRUE, at |-> a, data |-> d]

\* The answer at an address that nobody drives; no step may depend on it.
Undriven == 0

Stored(ram, port) ==
    IF port.write THEN [ram EXCEPT ![port.at] = port.data] ELSE ram
Answer(ram, port) == IF port.at = MemorySize THEN Undriven ELSE ram[port.at]

\* A clock edge of a memory and of the register of its answer.
RamClock(ram, ramOut, port) ==
    /\ ram' = Stored(ram, port)
    /\ ramOut' = Answer(ram, port)
=============================================================================
