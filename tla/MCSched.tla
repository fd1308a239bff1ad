------------------------------- MODULE MCSched -------------------------------
(* Sched for TLC.  Process slots and process page tables are               *)
(* interchangeable; the boot and idle threads and the kernel table are not.*)
EXTENDS Sched, TLC

ProcessSymmetry ==
  Permutations(Slots \ {Boot, Idle}) \cup Permutations(Pml4s \ {KernelPml4})
=============================================================================
