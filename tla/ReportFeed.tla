---------------------------- MODULE ReportFeed ----------------------------
(***************************************************************************)
(* What the stream of nvidia-smi reports promises its reader, without      *)
(* pipes, bytes or rows: reports are published one after the other, each   *)
(* with one row per GPU, and the reader holds either nothing or all the    *)
(* rows of one published report.  What it holds only ever gets newer.      *)
(* nvidiaStream (gpu_nvidia_linux.go) implements it: NvidiaStream.tla maps *)
(* its state here.                                                         *)
(***************************************************************************)
EXTENDS Naturals, Sequences

CONSTANTS MaxReports,   \* reports are numbered 1 .. MaxReports
          MaxGPUs       \* a report has 1 .. MaxGPUs rows

VARIABLES published,    \* the size of every report published so far
          held          \* the rows the reader holds

feedVars == <<published, held>>

Report(r, n) == [i \in 1..n |-> [report |-> r, index |-> i]]

HeldReport == IF held = <<>> THEN 0 ELSE held[1].report

TypeOK ==
  /\ DOMAIN published \subseteq 1..MaxReports
  /\ \A r \in DOMAIN published : published[r] \in 1..MaxGPUs
  /\ held = <<>> \/ \E r \in DOMAIN published : held = Report(r, published[r])

Init == published = <<>> /\ held = <<>>

(* A report number is used once, in order; a number may be skipped when    *)
(* the report it named never became complete.                              *)
Publish(r, n) ==
  /\ \A p \in DOMAIN published : p < r
  /\ published' = [p \in DOMAIN published \cup {r} |->
                     IF p = r THEN n ELSE published[p]]
  /\ UNCHANGED held

Take(r) ==
  /\ r > HeldReport
  /\ held' = Report(r, published[r])
  /\ UNCHANGED published

Next ==
  \/ \E r \in 1..MaxReports, n \in 1..MaxGPUs : Publish(r, n)
  \/ \E r \in DOMAIN published : Take(r)

Spec == Init /\ [][Next]_feedVars
=============================================================================
