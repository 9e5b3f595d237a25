--------------------------- MODULE ProcessMemory ---------------------------
(***************************************************************************)
(* ReadProcessMemory (process_linux.go): the identity is validated, the    *)
(* smaps_rollup of the PID is read, and the identity is validated again,   *)
(* while the kernel may end the process and give its PID away between any  *)
(* two of these reads.                                                     *)
(***************************************************************************)
EXTENDS ProcTable

VARIABLES place,   \* which read comes next
          wanted,  \* the identity asked for
          memory,  \* whose smaps_rollup was read, 0 before that
          answer   \* what the last call returned

readerVars == <<place, wanted, memory, answer>>
memoryVars == <<tableVars, readerVars>>

(* validateProcessIdentity: the PID exists and has the start time.         *)
Matches(id) == alive[id[1]] /\ owner[id[1]] = id[2]

Begin(id) ==
  /\ place = "idle"
  /\ wanted' = id /\ memory' = 0 /\ answer' = "none"
  /\ place' = "first"
  /\ UNCHANGED tableVars

Return(what) ==
  /\ answer' = what
  /\ place' = "idle"
  /\ UNCHANGED <<tableVars, wanted, memory>>

ValidateFirst ==
  /\ place = "first" /\ Matches(wanted)
  /\ place' = "read"
  /\ UNCHANGED <<tableVars, wanted, memory, answer>>

(* ErrProcessIdentityChanged, or no such PID.                              *)
Refuse ==
  /\ place \in {"first", "second"} /\ ~Matches(wanted)
  /\ Return(IF alive[wanted[1]] THEN "changed" ELSE "gone")

(* Slip: a file that is gone is taken for an empty one.                    *)
ReadRollupOrEmpty ==
  /\ place = "read"
  /\ memory' = IF alive[wanted[1]] THEN owner[wanted[1]] ELSE 0
  /\ place' = "second"
  /\ UNCHANGED <<tableVars, wanted, answer>>

ReadRollup ==
  /\ place = "read" /\ alive[wanted[1]]
  /\ memory' = owner[wanted[1]]
  /\ place' = "second"
  /\ UNCHANGED <<tableVars, wanted, answer>>

(* A read or a parse fails, at any of the three.                           *)
FailRead == place # "idle" /\ Return("failed")

(* Slip: a PID that exists is good enough the second time.                 *)
AcceptIfAlive ==
  /\ place = "second" /\ alive[wanted[1]]
  /\ Return("memory")

Accept ==
  /\ place = "second" /\ Matches(wanted)
  /\ Return("memory")

Reader ==
  \/ \E id \in Identity : Begin(id)
  \/ ValidateFirst
  \/ Refuse
  \/ ReadRollup
  \/ FailRead
  \/ Accept

MemoryInit ==
  /\ TableInit
  /\ place = "idle" /\ wanted = Nobody /\ memory = 0 /\ answer = "none"

MemoryNext == Reader \/ (Kernel /\ UNCHANGED readerVars)

MemorySpec == MemoryInit /\ [][MemoryNext]_memoryVars

---------------------------------------------------------------------------
MemoryTypeOK ==
  /\ TableTypeOK
  /\ place \in {"idle", "first", "read", "second"}
  /\ wanted \in Identity \cup {Nobody} /\ memory \in 0..MaxOwners
  /\ place # "idle" => wanted \in Identity
  /\ place = "second" => memory > 0
  /\ answer \in {"none", "changed", "gone", "failed", "memory"}

(* Memory that is returned was read from the process that was asked for,   *)
(* not from one that got its PID before or after the read, although        *)
(* neither validation is atomic with the read (readProcessMemory).         *)
MemoryIsOfTheProcess == answer = "memory" => memory = wanted[2]
=============================================================================
