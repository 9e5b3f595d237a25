----------------------------- MODULE ProcTable -----------------------------
(***************************************************************************)
(* The kernel's process table as /proc shows it to the collectors.  A PID  *)
(* is reused: its k-th owner has start time k, so that a PID and a start   *)
(* time name one process for ever (ProcessIdentity).  A tick of the CPU is *)
(* accounted to the aggregate and to the running process at once.          *)
(***************************************************************************)
EXTENDS Naturals, FiniteSets

CONSTANTS PIDs,        \* process numbers
          MaxOwners,   \* a PID is given to at most this many processes
          MaxTotal,    \* aggregate CPU ticks
          MaxIO        \* I/O operations of one process

ASSUME TableConstants ==
  /\ IsFiniteSet(PIDs)     \* up to pid_max
  /\ MaxOwners \in Nat /\ MaxTotal \in Nat /\ MaxIO \in Nat

(* ProcessIdentity: a PID and a start time.                                *)
Identity == PIDs \X (1..MaxOwners)
Nobody == <<>>

VARIABLES owner,   \* how many processes the PID has named so far
          alive,   \* whether the last of them still exists
          cpu, io, \* its CPU ticks and I/O counter, 0 once it is gone
          total    \* aggregate CPU ticks of /proc/stat

tableVars == <<owner, alive, cpu, io, total>>

TableTypeOK ==
  /\ owner \in [PIDs -> 0..MaxOwners] /\ alive \in [PIDs -> BOOLEAN]
  /\ cpu \in [PIDs -> 0..MaxTotal] /\ io \in [PIDs -> 0..MaxIO]
  /\ total \in 0..MaxTotal
  /\ \A p \in PIDs : IF alive[p] THEN owner[p] > 0 ELSE cpu[p] = 0 /\ io[p] = 0

TableInit ==
  /\ owner = [p \in PIDs |-> 0] /\ alive = [p \in PIDs |-> FALSE]
  /\ cpu = [p \in PIDs |-> 0] /\ io = [p \in PIDs |-> 0]
  /\ total = 0

Spawn(p) ==
  /\ ~alive[p] /\ owner[p] < MaxOwners
  /\ owner' = [owner EXCEPT ![p] = @ + 1]
  /\ alive' = [alive EXCEPT ![p] = TRUE]
  /\ UNCHANGED <<cpu, io, total>>

Exit(p) ==
  /\ alive[p]
  /\ alive' = [alive EXCEPT ![p] = FALSE]
  /\ cpu' = [cpu EXCEPT ![p] = 0] /\ io' = [io EXCEPT ![p] = 0]
  /\ UNCHANGED <<owner, total>>

Run(p) ==
  /\ alive[p] /\ total < MaxTotal /\ cpu[p] < MaxTotal
  /\ cpu' = [cpu EXCEPT ![p] = @ + 1]
  /\ total' = total + 1
  /\ UNCHANGED <<owner, alive, io>>

DoIO(p) ==
  /\ alive[p] /\ io[p] < MaxIO
  /\ io' = [io EXCEPT ![p] = @ + 1]
  /\ UNCHANGED <<owner, alive, cpu, total>>

(* A tick that no process in PIDs is charged for.                          *)
Idle ==
  /\ total < MaxTotal
  /\ total' = total + 1
  /\ UNCHANGED <<owner, alive, cpu, io>>

Kernel == Idle \/ \E p \in PIDs : Spawn(p) \/ Exit(p) \/ Run(p) \/ DoIO(p)
=============================================================================
