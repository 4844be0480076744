---------------------------- MODULE MCProcessor ----------------------------
(***************************************************************************)
(* Processor on the programs of Programs.                                  *)
(***************************************************************************)
EXTENDS Discipline, Programs

\* No process has come to the part of WorkersOrAlternation that alternates.
OnlyWorkers == \A p \in Pids : pc[p] <= Len(Workers) + 2

(***************************************************************************)
(* The workers keep what the theorems about channels ask of a program      *)
(* (Disciplined and the two below it), and the invariants from which those *)
(* follow hold of them at every step of Processor::tick: between any two   *)
(* handlers, answers and tasks it is known who stops, who is woken, in     *)
(* which word a process stands and where a value is.                       *)
(***************************************************************************)
WorkersMeet ==
  OnlyWorkers =>
    /\ Disciplined /\ OneStartATick /\ NoSlotReused
    /\ Meetings /\ Counted /\ Numbered
==============================================================================
