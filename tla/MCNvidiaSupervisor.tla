------------------------ MODULE MCNvidiaSupervisor ------------------------
(***************************************************************************)
(* A small instance of NvidiaSupervisor.  The unit is nvidiaDefaultPeriod; *)
(* the caps are scaled down from 5 s, 30 s and 6 failures so that each is  *)
(* reached within a few steps.  Two slots let a child be started while     *)
(* another one is still there, if the code let that happen.                *)
(***************************************************************************)
EXTENDS NvidiaSupervisor, TLC
Symmetry == Permutations(Slots)
=============================================================================
