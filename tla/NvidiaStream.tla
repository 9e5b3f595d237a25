--------------------------- MODULE NvidiaStream ---------------------------
(***************************************************************************)
(* nvidiaStream (gpu_nvidia_linux.go): the framing of the rows a           *)
(* long-lived nvidia-smi child writes into a pipe.  Two processes run      *)
(* concurrently.  The child writes each report as one row per GPU, every   *)
(* row prefixed with the number of rows in its report, and may exit        *)
(* between any two writes.  The sampler drains the pipe without blocking,  *)
(* in reads that may cut a row anywhere, and keeps the newest complete     *)
(* report as its tick.                                                     *)
(*                                                                         *)
(* Bytes are abstracted to pieces: a row is written as a "head" (the count *)
(* prefix and some of its fields) and a "tail" (the rest and the newline). *)
(* A piece says which row it is of; a "blank" or "junk" piece is a whole   *)
(* line without a usable count prefix.                                     *)
(***************************************************************************)
EXTENDS Naturals, Sequences

CONSTANTS MaxReports,   \* the child writes reports 1 .. MaxReports
          MaxGPUs,      \* a report has 1 .. MaxGPUs rows
          PipeSize,     \* pieces the pipe holds before the child blocks
          ReadSize,     \* pieces one read returns at most (8192 bytes)
          Noise,        \* what the child writes besides whole reports
          MaxNoise      \* how many such lines it writes

ASSUME StreamConstants ==
  /\ MaxReports \in Nat /\ MaxGPUs \in Nat \ {0}
  /\ PipeSize \in Nat \ {0} /\ ReadSize \in Nat \ {0} /\ MaxNoise \in Nat
  /\ Noise \subseteq {"blank", "junk", "cut"}

VARIABLES
  alive,          \* the child runs and holds the write end of the pipe
  sizes,          \* the number of rows of each report the child has begun
  at,             \* where the child is: the row it wrote last, and whether
                  \* that row still misses its tail
  done,           \* the reports the child has written to their last byte
  noise,          \* lines of noise written
  pipe,           \* pieces written and not read yet
  pc,             \* where the sampler is in nvidiaStream.drain
  buf,            \* s.buf
  pending,        \* s.pending, a sequence of lines
  pendingCount,   \* s.pendingCount
  tick,           \* s.tick, a sequence of lines
  err             \* s.err

childVars  == <<alive, sizes, at, done, noise>>
streamVars == <<pc, buf, pending, pendingCount, tick, err>>
vars       == <<alive, sizes, at, done, noise, pipe,
                pc, buf, pending, pendingCount, tick, err>>

Reports == 1..MaxReports
Parts   == {"head", "tail", "blank", "junk"}
Piece   == [report: 0..MaxReports, index: 0..MaxGPUs, count: 0..MaxGPUs,
            part: Parts]

RowPiece(r, i, part) ==
  [report |-> r, index |-> i, count |-> sizes[r], part |-> part]

EndsLine(p) == p.part # "head"

---------------------------------------------------------------------------
(* The child.  Report 0, of size 0, stands for "nothing written yet".      *)

(* Slip: one piece too many.                                               *)
HasRoomOffByOne == Len(pipe) <= PipeSize

HasRoom == Len(pipe) < PipeSize

AtRowEnd == alive /\ ~at.mid /\ HasRoom

(* The head of the next row of the report under way.                       *)
NextRow ==
  /\ AtRowEnd
  /\ at.index < sizes[at.report]
  /\ at' = [at EXCEPT !.index = @ + 1, !.mid = TRUE]
  /\ pipe' = Append(pipe, RowPiece(at.report, at.index + 1, "head"))
  /\ UNCHANGED <<alive, sizes, done, noise, streamVars>>

(* The head of the first row of the next report, which has n rows.  With   *)
(* "cut" the child may leave the report under way unfinished, because the  *)
(* device set changed: the next report then has another size.              *)
NextReport(n) ==
  /\ AtRowEnd
  /\ at.report < MaxReports
  /\ \/ at.index = sizes[at.report]
     \/ "cut" \in Noise /\ n # sizes[at.report]
  /\ sizes' = [sizes EXCEPT ![at.report + 1] = n]
  /\ at' = [report |-> at.report + 1, index |-> 1, mid |-> TRUE]
  /\ pipe' = Append(pipe, [report |-> at.report + 1, index |-> 1,
                           count |-> n, part |-> "head"])
  /\ UNCHANGED <<alive, done, noise, streamVars>>

(* The tail of the row begun: the rest of its fields and the newline.      *)
EndRow ==
  /\ alive /\ at.mid /\ HasRoom
  /\ at' = [at EXCEPT !.mid = FALSE]
  /\ pipe' = Append(pipe, RowPiece(at.report, at.index, "tail"))
  /\ done' = IF at.index = sizes[at.report] THEN done \cup {at.report} ELSE done
  /\ UNCHANGED <<alive, sizes, noise, streamVars>>

(* A line between two rows that is empty, or that has no count prefix.     *)
WriteNoise(part) ==
  /\ AtRowEnd /\ noise < MaxNoise
  /\ noise' = noise + 1
  /\ pipe' = Append(pipe, [report |-> at.report, index |-> at.index,
                           count |-> 0, part |-> part])
  /\ UNCHANGED <<alive, sizes, at, done, streamVars>>

Exit ==
  /\ alive
  /\ alive' = FALSE
  /\ UNCHANGED <<sizes, at, done, noise, pipe, streamVars>>

Child ==
  \/ NextRow
  \/ \E n \in 1..MaxGPUs : NextReport(n)
  \/ EndRow
  \/ \E part \in Noise \cap {"blank", "junk"} : WriteNoise(part)
  \/ Exit

---------------------------------------------------------------------------
(* The sampler: rows() drains the child, one read after the other, and     *)
(* frames every line of a read before the next read.                       *)

NewlineAt(i) ==
  /\ i \in 1..Len(buf)
  /\ EndsLine(buf[i])
  /\ \A j \in 1..(i - 1) : ~EndsLine(buf[j])

HasLine == \E i \in 1..Len(buf) : EndsLine(buf[i])

IsBlank(line) == line[1].part = "blank"

(* nvidiaRowCount: the count prefix at the front of the line, 0 when the   *)
(* line has none that is a number of at least 1.                           *)
RowCount(line) == line[1].count

BeginDrain ==
  /\ pc = "idle" /\ err = "none"
  /\ pc' = "reading"
  /\ UNCHANGED <<childVars, pipe, buf, pending, pendingCount, tick, err>>

(* proc.read returned n pieces; feed appends them to the unfinished row.   *)
ReadData(n) ==
  /\ pc = "reading"
  /\ n <= Len(pipe) /\ n <= ReadSize
  /\ buf' = buf \o SubSeq(pipe, 1, n)
  /\ pipe' = SubSeq(pipe, n + 1, Len(pipe))
  /\ pc' = "framing"
  /\ UNCHANGED <<childVars, pending, pendingCount, tick, err>>

(* EAGAIN: the pipe is empty and the child still holds its write end.      *)
ReadNothing ==
  /\ pc = "reading" /\ pipe = <<>> /\ alive
  /\ pc' = "idle"
  /\ UNCHANGED <<childVars, pipe, buf, pending, pendingCount, tick, err>>

(* Slip: a child that is gone is noticed before its output is read.        *)
ReadEOFEarly ==
  /\ pc = "reading" /\ ~alive
  /\ err' = "EOF"
  /\ pc' = "idle"
  /\ UNCHANGED <<childVars, pipe, buf, pending, pendingCount, tick>>

(* io.EOF: the pipe is empty and nobody holds its write end.               *)
ReadEOF ==
  /\ pc = "reading" /\ pipe = <<>> /\ ~alive
  /\ err' = "EOF"
  /\ pc' = "idle"
  /\ UNCHANGED <<childVars, pipe, buf, pending, pendingCount, tick>>

(* Any other errno.                                                        *)
ReadFails ==
  /\ pc = "reading"
  /\ err' = "failed"
  /\ pc' = "idle"
  /\ UNCHANGED <<childVars, pipe, buf, pending, pendingCount, tick>>

(* Slip: a row of another count does not start a new report.               *)
JoinedAlways(line) == pending

(* The rows of the report under way that a row of this count joins.        *)
Joined(line) == IF RowCount(line) = pendingCount THEN pending ELSE <<>>

(* Slip: the report is complete one row early.                             *)
RowOffByOne(line) ==
  IF RowCount(line) = 0
    THEN pending' = <<>> /\ pendingCount' = 0 /\ UNCHANGED tick
    ELSE LET rows == Append(Joined(line), line)
         IN IF Len(rows) + 1 >= RowCount(line)
              THEN tick' = rows /\ pending' = <<>> /\ pendingCount' = 0
              ELSE /\ pending' = rows /\ pendingCount' = RowCount(line)
                   /\ UNCHANGED tick

(* nvidiaStream.row: a line without a count resets the report under way;   *)
(* the last row of a report makes it the tick.                             *)
Row(line) ==
  IF RowCount(line) = 0
    THEN pending' = <<>> /\ pendingCount' = 0 /\ UNCHANGED tick
    ELSE LET rows == Append(Joined(line), line)
         IN IF Len(rows) = RowCount(line)
              THEN tick' = rows /\ pending' = <<>> /\ pendingCount' = 0
              ELSE /\ pending' = rows /\ pendingCount' = RowCount(line)
                   /\ UNCHANGED tick

(* One turn of feed's loop: the first line of buf is cut off and framed.   *)
FrameLine ==
  /\ pc = "framing"
  /\ \E i \in 1..Len(buf) :
       /\ NewlineAt(i)
       /\ buf' = SubSeq(buf, i + 1, Len(buf))
       /\ IF IsBlank(SubSeq(buf, 1, i))
            THEN UNCHANGED <<pending, pendingCount, tick>>
            ELSE Row(SubSeq(buf, 1, i))
  /\ UNCHANGED <<childVars, pipe, pc, err>>

(* Slip: one read per sample.                                              *)
EndFeedAndDrain ==
  /\ pc = "framing" /\ ~HasLine
  /\ pc' = "idle"
  /\ UNCHANGED <<childVars, pipe, buf, pending, pendingCount, tick, err>>

(* Slip: one line per read.                                                *)
EndFeedEarly ==
  /\ pc = "framing"
  /\ pc' = "reading"
  /\ UNCHANGED <<childVars, pipe, buf, pending, pendingCount, tick, err>>

(* No newline is left in buf: drain reads again.                           *)
EndFeed ==
  /\ pc = "framing" /\ ~HasLine
  /\ pc' = "reading"
  /\ UNCHANGED <<childVars, pipe, buf, pending, pendingCount, tick, err>>

Drain ==
  \/ \E n \in 1..ReadSize : ReadData(n)
  \/ ReadNothing
  \/ ReadEOF
  \/ FrameLine
  \/ EndFeed

Sampler == BeginDrain \/ Drain \/ ReadFails

---------------------------------------------------------------------------
Init ==
  /\ alive = TRUE
  /\ sizes = [r \in 0..MaxReports |-> 0]
  /\ at = [report |-> 0, index |-> 0, mid |-> FALSE]
  /\ done = {} /\ noise = 0
  /\ pipe = <<>>
  /\ pc = "idle" /\ buf = <<>>
  /\ pending = <<>> /\ pendingCount = 0
  /\ tick = <<>> /\ err = "none"

Next == Child \/ Sampler

(* The consumer keeps sampling, and a drain it began is carried on.  The   *)
(* child is under no obligation: it may fall silent at any moment.         *)
Fairness == WF_vars(BeginDrain) /\ WF_vars(Drain)

Spec == Init /\ [][Next]_vars /\ Fairness

---------------------------------------------------------------------------
(* Properties.                                                             *)

Lines(s) == \A i \in DOMAIN s : s[i] \in Seq(Piece)

TypeOK ==
  /\ alive \in BOOLEAN
  /\ sizes \in [0..MaxReports -> 0..MaxGPUs]
  /\ at \in [report: 0..MaxReports, index: 0..MaxGPUs, mid: BOOLEAN]
  /\ done \subseteq Reports
  /\ noise \in 0..MaxNoise
  /\ pipe \in Seq(Piece) /\ Len(pipe) <= PipeSize
  /\ pc \in {"idle", "reading", "framing"}
  /\ buf \in Seq(Piece)
  /\ pending \in Seq(Seq(Piece)) /\ tick \in Seq(Seq(Piece))
  /\ pendingCount \in 0..MaxGPUs
  /\ err \in {"none", "EOF", "failed"}

TickReport == IF tick = <<>> THEN 0 ELSE tick[1][1].report

RowLine(r, i) == <<RowPiece(r, i, "head"), RowPiece(r, i, "tail")>>

(* The tick is all the rows of one report the child finished, each of them *)
(* whole, in order: never a mix of two reports and never part of one,      *)
(* however the reads cut the rows and whatever the device set does         *)
(* (nvidiaStream.feed and row).                                            *)
TickIsOneReport ==
  tick # <<>> => /\ TickReport \in done
                 /\ tick = [i \in 1..sizes[TickReport] |-> RowLine(TickReport, i)]

(* A drain leaves nothing behind: when it ends, every report the child has *)
(* finished by then is the tick or is older than the tick (drain reads     *)
(* until the pipe is empty, feed frames every line of a read).             *)
DrainTakesTheNewest ==
  [][pc # "idle" /\ pc' = "idle" /\ err' # "failed" =>
       \A r \in done' : r <= TickReport']_vars

(* What the sampler keeps between two reads is at most one unfinished row  *)
(* and fewer rows than one report has: nothing accumulates over a long     *)
(* sequence of samples (feed, row).                                        *)
MemoryIsBounded ==
  pc # "framing" => /\ Len(buf) <= 1
                    /\ pending # <<>> => Len(pending) < pendingCount

(* The child's output as the sampler keeps it implements the report feed:  *)
(* a report is published with its last byte, and held whole or not at all. *)
Feed == INSTANCE ReportFeed WITH
  published <- [r \in done |-> sizes[r]],
  held <- [i \in DOMAIN tick |-> [report |-> tick[i][1].report,
                                  index |-> tick[i][1].index]]

ImplementsReportFeed == Feed!Init /\ [][Feed!Next]_(Feed!feedVars)

(* A report the child finished reaches the tick, or is superseded there by *)
(* a newer one, even when the child exits right after writing it: the pipe *)
(* is read to its end before the end of file is seen.  Only a failed read  *)
(* loses it.                                                               *)
FinishedReportIsFramed ==
  \A r \in Reports : r \in done ~> (TickReport >= r \/ err = "failed")

(* What TestNvidiaStreamNeverMixesTwoReports says of the served report:    *)
(* all of its rows are of the same report.                                 *)
NeverMixesTwoReports ==
  \A i, j \in DOMAIN tick : tick[i][1].report = tick[j][1].report
=============================================================================
