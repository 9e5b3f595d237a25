---------------------------- MODULE MCProcesses ----------------------------
(***************************************************************************)
(* The sampler of processes and the reader of a process' memory, which use *)
(* one process table and nothing of each other: a behaviour is that of one *)
(* of them and the kernel.                                                 *)
(*                                                                         *)
(* Two PIDs, each used twice, and two ticks: enough for a process that     *)
(* runs during both walks, one that is replaced, and a failed sample in    *)
(* between; and for a wanted process with one before or after it.          *)
(***************************************************************************)
EXTENDS ProcessSampler, ProcessMemory, TLC

VARIABLE collector     \* which of the two is called

Symmetry == Permutations(PIDs)

MCInit == Init /\ MemoryInit /\ collector \in {"sampler", "memory"}

MCNext ==
  /\ UNCHANGED collector
  /\ \/ collector = "sampler" /\ Sampler /\ UNCHANGED readerVars
     \/ collector = "memory" /\ Reader /\ UNCHANGED samplerVars
     \/ Kernel /\ UNCHANGED <<samplerVars, readerVars>>

MCSpec == MCInit /\ [][MCNext]_<<vars, readerVars, collector>>

=============================================================================
