------------------------ MODULE NvidiaStream_proofs ------------------------
(***************************************************************************)
(* The tick is one whole report, for any number of reports and rows, any   *)
(* pipe and any reads, of a child that writes no line without a count.     *)
(*                                                                         *)
(* The argument follows the pieces between the reader and the writer.      *)
(* What the sampler keeps (pending, or else the tick) says up to which row *)
(* it has framed, at says up to where the child has written, and buf and   *)
(* pipe together are the pieces from the one place to the other, each of   *)
(* them one that the child may write after the piece before it.  What a    *)
(* drain leaves and takes, and the refinement of ReportFeed, follow from   *)
(* where the last bytes of finished reports are.                           *)
(***************************************************************************)
EXTENDS NvidiaStream, SequenceTheorems, TLAPS

(* The pieces between the reader and the writer.                           *)
Unframed == Len(buf) + Len(pipe)
Nth(k) == IF k <= Len(buf) THEN buf[k] ELSE pipe[k - Len(buf)]

(* Where the reader is: the report and the row it framed last.             *)
FramedReport == IF pending # <<>> THEN pending[1][1].report ELSE TickReport
FramedIndex  == IF pending # <<>> THEN Len(pending) ELSE sizes[TickReport]

(* What the child may write after row i of report r: a blank line, the     *)
(* head of the next row, or the head of the next report, which has another *)
(* size when r is left unfinished.                                         *)
MayFollow(sz, r, i, q) ==
  \/ q.part = "blank" /\ q.report = r /\ q.index = i
  \/ /\ q.part = "head" /\ q.count = sz[q.report]
     /\ \/ q.report = r /\ q.index = i + 1 /\ i < sz[r]
        \/ q.report = r + 1 /\ q.index = 1 /\ (i = sz[r] \/ sz[r + 1] # sz[r])

Follows(sz, p, q) ==
  IF p.part = "head"
    THEN q.part = "tail" /\ q.report = p.report /\ q.index = p.index /\ q.count = p.count
    ELSE MayFollow(sz, p.report, p.index, q)

(* A piece the child has written.                                          *)
Written(p) ==
  /\ p \in Piece
  /\ p.report <= at.report
  /\ p.part # "junk"
  /\ p.part \in {"head", "tail"} => p.report > 0 /\ p.index \in 1..sizes[p.report]
                                    /\ p.count = sizes[p.report]
  /\ p.part = "blank" => p.count = 0
  /\ p.part = "tail" /\ p.index = sizes[p.report] => p.report \in done

(* The child's own bookkeeping.                                            *)
ChildKnows ==
  /\ at.index <= sizes[at.report]
  /\ at.report > 0 => at.index > 0
  /\ at.mid => at.report > 0
  /\ sizes[0] = 0
  /\ \A r \in 1..at.report : sizes[r] > 0
  /\ \A r \in done : r <= at.report

Chain ==
  /\ \A k \in 1..Unframed : Written(Nth(k))
  /\ Unframed = 0 => /\ FramedReport = at.report /\ FramedIndex = at.index
                     /\ ~at.mid
  /\ Unframed > 0 => /\ MayFollow(sizes, FramedReport, FramedIndex, Nth(1))
                     /\ Nth(Unframed).report = at.report
                     /\ Nth(Unframed).index = at.index
                     /\ at.mid <=> Nth(Unframed).part = "head"
  /\ \A k \in 1..(Unframed - 1) : Follows(sizes, Nth(k), Nth(k + 1))

(* The report under way is the beginning of one report.                    *)
PendingIsAPrefix ==
  IF pending = <<>> THEN pendingCount = 0
  ELSE /\ FramedReport \in 1..at.report
       /\ pendingCount = sizes[FramedReport] /\ Len(pending) < pendingCount
       /\ pending = [i \in 1..Len(pending) |-> RowLine(FramedReport, i)]

IInv == TypeOK /\ ChildKnows /\ Chain /\ PendingIsAPrefix /\ TickIsOneReport

---------------------------------------------------------------------------
(* Types.                                                                  *)

(* The first i pieces of s, and what is left of it.                        *)
LEMMA Cut ==
  ASSUME NEW s \in Seq(Piece), NEW i \in 1..Len(s)
  PROVE  /\ SubSeq(s, 1, i) \in Seq(Piece)
         /\ Len(SubSeq(s, 1, i)) = i
         /\ \A j \in 1..i : SubSeq(s, 1, i)[j] = s[j]
         /\ SubSeq(s, i + 1, Len(s)) \in Seq(Piece)
         /\ Len(SubSeq(s, i + 1, Len(s))) = Len(s) - i
         /\ \A j \in 1..(Len(s) - i) :
              SubSeq(s, i + 1, Len(s))[j] = s[i + j]
<1>1. Len(s) \in Nat /\ i \in Int /\ i + 1 \in Int /\ 1 \in Int
  BY LenProperties
<1>2. \A j \in 1..Len(s) : s[j] \in Piece
  BY ElementOfSeq
<1>3. \A j \in 1..i : s[j] \in Piece
  BY <1>1, <1>2
<1>4. \A j \in (i + 1)..Len(s) : s[j] \in Piece
  BY <1>1, <1>2
<1>5. /\ SubSeq(s, 1, i) \in Seq(Piece)
      /\ Len(SubSeq(s, 1, i)) = IF 1 <= i THEN i - 1 + 1 ELSE 0
      /\ \A j \in 1..(i - 1 + 1) : SubSeq(s, 1, i)[j] = s[1 + j - 1]
  BY <1>1, <1>3, SubSeqProperties
<1>6. /\ SubSeq(s, i + 1, Len(s)) \in Seq(Piece)
      /\ Len(SubSeq(s, i + 1, Len(s))) =
           IF i + 1 <= Len(s) THEN Len(s) - (i + 1) + 1 ELSE 0
      /\ \A j \in 1..(Len(s) - (i + 1) + 1) :
           SubSeq(s, i + 1, Len(s))[j] = s[(i + 1) + j - 1]
  BY <1>1, <1>4, SubSeqProperties
<1>7. \A j \in 1..i : SubSeq(s, 1, i)[j] = s[j]
  BY <1>1, <1>5
<1>8. \A j \in 1..(Len(s) - i) : SubSeq(s, i + 1, Len(s))[j] = s[i + j]
  BY <1>1, <1>6
<1>9. QED
  BY <1>1, <1>5, <1>6, <1>7, <1>8

(* A read moves pieces from the pipe to buf, and keeps their order.        *)
LEMMA ReadMoves ==
  ASSUME buf \in Seq(Piece), pipe \in Seq(Piece), NEW n \in 1..Len(pipe)
  PROVE  LET b == buf \o SubSeq(pipe, 1, n)
             p == SubSeq(pipe, n + 1, Len(pipe))
         IN /\ b \in Seq(Piece) /\ Len(b) = Len(buf) + n
            /\ p \in Seq(Piece) /\ Len(p) = Len(pipe) - n
            /\ \A k \in 1..Unframed :
                 Nth(k) = IF k <= Len(b) THEN b[k] ELSE p[k - Len(b)]
<1> DEFINE front == SubSeq(pipe, 1, n)
           b == buf \o front
           p == SubSeq(pipe, n + 1, Len(pipe))
<1>1. /\ front \in Seq(Piece) /\ Len(front) = n
      /\ \A j \in 1..n : front[j] = pipe[j]
      /\ p \in Seq(Piece) /\ Len(p) = Len(pipe) - n
      /\ \A j \in 1..(Len(pipe) - n) : p[j] = pipe[n + j]
  BY Cut
<1>2. Len(buf) \in Nat /\ Len(pipe) \in Nat
  BY LenProperties
<1> HIDE DEF front, p
<1>3. /\ b \in Seq(Piece) /\ Len(b) = Len(buf) + n
      /\ \A k \in 1..(Len(buf) + n) :
           b[k] = IF k <= Len(buf) THEN buf[k] ELSE front[k - Len(buf)]
  BY <1>1, ConcatProperties
<1> HIDE DEF b
<1>4. ASSUME NEW k \in 1..Unframed
      PROVE  Nth(k) = IF k <= Len(b) THEN b[k] ELSE p[k - Len(b)]
  <2>1. CASE k <= Len(buf)
    BY <1>1, <1>2, <1>3, <2>1 DEF Nth
  <2>2. CASE k > Len(buf) /\ k <= Len(b)
    <3>1. k - Len(buf) \in 1..n
      BY <1>2, <1>3, <2>2
    <3>2. QED
      BY <1>1, <1>2, <1>3, <2>2, <3>1 DEF Nth
  <2>3. CASE k > Len(b)
    <3>1. k - Len(b) \in 1..(Len(pipe) - n) /\ n + (k - Len(b)) = k - Len(buf)
      BY <1>2, <1>3, <2>3 DEF Unframed
    <3>2. p[k - Len(b)] = pipe[n + (k - Len(b))]
      BY <1>1, <3>1
    <3>3. Nth(k) = pipe[k - Len(buf)] /\ ~(k <= Len(b))
      BY <1>2, <1>3, <2>3 DEF Nth
    <3>4. QED
      BY <3>1, <3>2, <3>3
  <2>4. QED
    BY <1>2, <1>3, <2>1, <2>2, <2>3
<1>5. QED
  BY <1>1, <1>3, <1>4 DEF b, p, front

(* The child begins with an empty pipe, the sampler with nothing.          *)
LEMMA InitTyped == Init => TypeOK
<1> SUFFICES ASSUME Init PROVE TypeOK
  OBVIOUS
<1>1. <<>> \in Seq(Piece) /\ Len(<<>>) = 0 /\ <<>> \in Seq(Seq(Piece))
  BY EmptySeq
<1>2. alive \in BOOLEAN
  BY DEF Init
<1>3. at \in [report: 0..MaxReports, index: 0..MaxGPUs, mid: BOOLEAN]
  BY StreamConstants DEF Init
<1>4. QED
  BY <1>1, <1>2, <1>3, StreamConstants DEF Init, TypeOK

(* Framing a line keeps the types of what the sampler holds.               *)
LEMMA RowTyped ==
  ASSUME TypeOK, NEW line \in Seq(Piece), line # <<>>, Row(line)
  PROVE  /\ pending' \in Seq(Seq(Piece)) /\ tick' \in Seq(Seq(Piece))
         /\ pendingCount' \in 0..MaxGPUs
<1> DEFINE rows == Append(Joined(line), line)
<1>1. line[1] \in Piece
  BY EmptySeq, ElementOfSeq, LenProperties
<1>2. RowCount(line) \in 0..MaxGPUs
  BY <1>1 DEF RowCount, Piece
<1>3. Joined(line) \in Seq(Seq(Piece)) /\ <<>> \in Seq(Seq(Piece))
  BY EmptySeq DEF Joined, TypeOK
<1>4. rows \in Seq(Seq(Piece))
  BY <1>3, AppendProperties
<1> HIDE DEF rows
<1>5. CASE pending' = <<>> /\ pendingCount' = 0 /\ tick' \in {tick, rows}
  BY <1>3, <1>4, <1>5, StreamConstants DEF TypeOK
<1>6. CASE pending' = rows /\ pendingCount' = RowCount(line) /\ tick' = tick
  BY <1>2, <1>4, <1>6 DEF TypeOK
<1>7. QED
  BY <1>5, <1>6 DEF Row, rows

(* No step of the child or the sampler leaves the types.                   *)
LEMMA NextTyped == TypeOK /\ ChildKnows /\ [Next]_vars => TypeOK'
<1> SUFFICES ASSUME TypeOK, ChildKnows, [Next]_vars PROVE TypeOK'
  OBVIOUS
<1> USE StreamConstants DEF TypeOK, childVars, streamVars
<1>0. Len(pipe) \in Nat /\ Len(buf) \in Nat
  BY LenProperties
<1>1. ASSUME NEW p \in Piece, pipe' = Append(pipe, p), HasRoom
      PROVE  pipe' \in Seq(Piece) /\ Len(pipe') <= PipeSize
  BY <1>0, <1>1, AppendProperties DEF HasRoom
<1>2. CASE NextRow
  <2>1. at.index + 1 \in 0..MaxGPUs
    BY <1>2 DEF NextRow
  <2>2. at' \in [report: 0..MaxReports, index: 0..MaxGPUs, mid: BOOLEAN]
    BY <1>2, <2>1 DEF NextRow
  <2>3. RowPiece(at.report, at.index + 1, "head") \in Piece
    BY <2>1 DEF RowPiece, Piece, Parts
  <2>4. QED
    BY <1>1, <1>2, <2>2, <2>3 DEF NextRow, AtRowEnd
<1>3. ASSUME NEW n \in 1..MaxGPUs, NextReport(n) PROVE TypeOK'
  <2>1. at.report + 1 \in 0..MaxReports /\ n \in 0..MaxGPUs /\ 1 \in 0..MaxGPUs
    BY <1>3 DEF NextReport
  <2>2. at' \in [report: 0..MaxReports, index: 0..MaxGPUs, mid: BOOLEAN]
    BY <1>3, <2>1 DEF NextReport
  <2>3. [report |-> at.report + 1, index |-> 1, count |-> n, part |-> "head"] \in Piece
    BY <2>1 DEF Piece, Parts
  <2>4. QED
    BY <1>1, <1>3, <2>1, <2>2, <2>3 DEF NextReport, AtRowEnd
<1>4. CASE EndRow
  <2>1. at' \in [report: 0..MaxReports, index: 0..MaxGPUs, mid: BOOLEAN]
    BY <1>4 DEF EndRow
  <2>2. RowPiece(at.report, at.index, "tail") \in Piece
    BY DEF RowPiece, Piece, Parts
  <2>3. done' \subseteq Reports
    BY <1>4 DEF EndRow, ChildKnows, Reports
  <2>4. QED
    BY <1>1, <1>4, <2>1, <2>2, <2>3 DEF EndRow
<1>5. ASSUME NEW part \in Noise \cap {"blank", "junk"}, WriteNoise(part)
      PROVE  TypeOK'
  <2>1. [report |-> at.report, index |-> at.index, count |-> 0, part |-> part] \in Piece
    BY DEF Piece, Parts
  <2>2. noise' \in 0..MaxNoise
    BY <1>5 DEF WriteNoise
  <2>3. QED
    BY <1>1, <1>5, <2>1, <2>2 DEF WriteNoise, AtRowEnd
<1>6. CASE Exit
  <2>1. alive' \in BOOLEAN
    BY <1>6 DEF Exit
  <2>2. QED
    BY <1>6, <2>1 DEF Exit
<1>7. CASE BeginDrain \/ ReadNothing \/ ReadEOF \/ ReadFails \/ EndFeed
  BY <1>7 DEF BeginDrain, ReadNothing, ReadEOF, ReadFails, EndFeed
<1>8. ASSUME NEW n \in 1..ReadSize, ReadData(n) PROVE TypeOK'
  <2>1. n \in 1..Len(pipe)
    BY <1>0, <1>8 DEF ReadData
  <2>2. /\ buf' \in Seq(Piece) /\ pipe' \in Seq(Piece)
        /\ Len(pipe') = Len(pipe) - n
    BY <1>8, <2>1, ReadMoves DEF ReadData
  <2>3. Len(pipe') <= PipeSize
    BY <1>0, <2>1, <2>2
  <2>4. QED
    BY <1>8, <2>2, <2>3 DEF ReadData
<1>9. CASE FrameLine
  <2>1. PICK i \in 1..Len(buf) :
          /\ buf' = SubSeq(buf, i + 1, Len(buf))
          /\ IF IsBlank(SubSeq(buf, 1, i))
               THEN UNCHANGED <<pending, pendingCount, tick>>
               ELSE Row(SubSeq(buf, 1, i))
    BY <1>9 DEF FrameLine
  <2> DEFINE line == SubSeq(buf, 1, i)
  <2>2. line \in Seq(Piece) /\ line # <<>> /\ buf' \in Seq(Piece)
    <3>1. line \in Seq(Piece) /\ Len(line) = i /\ buf' \in Seq(Piece)
      BY <2>1, Cut
    <3>2. Len(<<>>) = 0
      BY EmptySeq
    <3> HIDE DEF line
    <3>3. line # <<>>
      BY <3>1, <3>2
    <3>4. QED
      BY <3>1, <3>3
  <2> HIDE DEF line
  <2>3. /\ pending' \in Seq(Seq(Piece)) /\ tick' \in Seq(Seq(Piece))
        /\ pendingCount' \in 0..MaxGPUs
    <3>1. CASE UNCHANGED <<pending, pendingCount, tick>>
      BY <3>1
    <3>2. CASE Row(line)
      BY <2>2, <3>2, RowTyped
    <3>3. QED
      BY <2>1, <3>1, <3>2 DEF line
  <2>4. QED
    BY <1>9, <2>2, <2>3 DEF FrameLine
<1>10. CASE UNCHANGED vars
  BY <1>10 DEF vars
<1>11. QED
  BY <1>2, <1>3, <1>4, <1>5, <1>6, <1>7, <1>8, <1>9, <1>10
     DEF Next, Child, Sampler, Drain

---------------------------------------------------------------------------
(* The pieces between the reader and the writer.                           *)

(* What was framed is of a report the child has begun.                     *)
LEMMA FramedIsWritten ==
  ASSUME IInv
  PROVE  /\ TickReport \in 0..at.report /\ FramedReport \in 0..at.report
         /\ FramedIndex \in Nat /\ at.report \in 0..MaxReports
         /\ pending = <<>> => FramedIndex = sizes[FramedReport]
<1> USE DEF IInv, TypeOK
<1>1. at.report \in 0..MaxReports
  OBVIOUS
<1>2. TickReport \in 0..at.report
  <2>1. CASE tick = <<>>
    BY <1>1, <2>1 DEF TickReport
  <2>2. CASE tick # <<>>
    <3>1. TickReport \in done
      BY <2>2 DEF TickIsOneReport
    <3>2. QED
      BY <1>1, <3>1, StreamConstants DEF ChildKnows, Reports
  <2>3. QED
    BY <2>1, <2>2
<1>3. CASE pending = <<>>
  <2>1. FramedReport = TickReport /\ FramedIndex = sizes[TickReport]
    BY <1>3 DEF FramedReport, FramedIndex
  <2>2. TickReport \in 0..MaxReports
    BY <1>1, <1>2, StreamConstants
  <2>3. sizes[TickReport] \in Nat
    BY <2>2, StreamConstants
  <2> HIDE DEF IInv, TypeOK
  <2>4. QED
    BY <1>1, <1>2, <2>1, <2>3
<1>4. CASE pending # <<>>
  <2>1. FramedReport \in 0..at.report
    BY <1>1, <1>4 DEF PendingIsAPrefix
  <2>2. FramedIndex \in Nat
    BY <1>4, LenProperties DEF FramedIndex
  <2>3. QED
    BY <1>1, <1>2, <1>4, <2>1, <2>2
<1>5. QED
  BY <1>3, <1>4

(* A read, or a step that moves no piece, leaves the chain as it is.       *)
LEMMA SamePieces ==
  ASSUME IInv, UNCHANGED <<sizes, at, done, pending, tick>>,
         Unframed' = Unframed, \A k \in 1..Unframed : Nth(k)' = Nth(k)
  PROVE  Chain'
<1>1. Unframed \in Nat
  BY LenProperties DEF IInv, TypeOK, Unframed
<1>2. /\ FramedReport' = FramedReport /\ FramedIndex' = FramedIndex
  BY DEF FramedReport, FramedIndex, TickReport
<1>3. \A k \in 1..Unframed : Written(Nth(k))'
  BY DEF IInv, Chain, Written
<1>4. \A k \in 1..(Unframed - 1) : Follows(sizes, Nth(k), Nth(k + 1))'
  <2>1. ASSUME NEW k \in 1..(Unframed - 1)
        PROVE  Follows(sizes, Nth(k), Nth(k + 1))'
    <3>1. k \in 1..Unframed /\ k + 1 \in 1..Unframed
      BY <1>1
    <3>2. Follows(sizes, Nth(k), Nth(k + 1))
      BY DEF IInv, Chain
    <3>3. Nth(k)' = Nth(k) /\ Nth(k + 1)' = Nth(k + 1)
      BY <3>1
    <3>4. QED
      BY <3>2, <3>3 DEF Follows, MayFollow
  <2>2. QED
    BY <2>1
<1>5. Unframed > 0 =>
        /\ MayFollow(sizes, FramedReport, FramedIndex, Nth(1))'
        /\ Nth(Unframed)' = Nth(Unframed)
  BY <1>1, <1>2 DEF IInv, Chain, MayFollow
<1>6. QED
  BY <1>1, <1>2, <1>3, <1>4, <1>5 DEF IInv, Chain

(* A piece the child appends comes behind all others.                      *)
LEMMA PieceAdded ==
  ASSUME TypeOK, NEW q \in Piece, pipe' = Append(pipe, q), UNCHANGED buf
  PROVE  /\ Unframed \in Nat /\ Unframed' = Unframed + 1
         /\ \A k \in 1..Unframed : Nth(k)' = Nth(k)
         /\ \A k \in Nat : k = Unframed + 1 => Nth(k)' = q
<1>1. /\ buf \in Seq(Piece) /\ pipe \in Seq(Piece)
      /\ Len(buf) \in Nat /\ Len(pipe) \in Nat
  BY LenProperties DEF TypeOK
<1>2. /\ Len(pipe') = Len(pipe) + 1 /\ pipe'[Len(pipe) + 1] = q
      /\ \A k \in 1..Len(pipe) : pipe'[k] = pipe[k]
  BY <1>1, AppendProperties
<1>3. Unframed \in Nat /\ Unframed' = Unframed + 1
  BY <1>1, <1>2 DEF Unframed
<1>4. ASSUME NEW k \in 1..Unframed PROVE Nth(k)' = Nth(k)
  <2>1. CASE k <= Len(buf)
    BY <2>1 DEF Nth
  <2>2. CASE ~(k <= Len(buf))
    <3>1. k - Len(buf) \in 1..Len(pipe)
      BY <1>1, <2>2 DEF Unframed
    <3>2. QED
      BY <1>2, <2>2, <3>1 DEF Nth
  <2>3. QED
    BY <2>1, <2>2
<1>5. ASSUME NEW k \in Nat, k = Unframed + 1 PROVE Nth(k)' = q
  <2>1. ~(k <= Len(buf')) /\ k - Len(buf') = Len(pipe) + 1
    BY <1>1, <1>5 DEF Unframed
  <2>2. QED
    BY <1>2, <2>1 DEF Nth
<1>6. QED
  BY <1>3, <1>4, <1>5

(* The child writes a piece that may follow what it wrote last.            *)
LEMMA ChildWrites ==
  ASSUME IInv, TypeOK', NEW q \in Piece,
         pipe' = Append(pipe, q), UNCHANGED <<buf, pending, tick>>,
         \A r \in 0..at.report : sizes'[r] = sizes[r],
         at.report <= at'.report, done \subseteq done',
         Written(q)', q.report = at'.report, q.index = at'.index,
         at'.mid <=> q.part = "head",
         at.mid => /\ q.part = "tail" /\ q.report = at.report
                   /\ q.index = at.index /\ q.count = sizes[at.report],
         ~at.mid => MayFollow(sizes', at.report, at.index, q)
  PROVE  Chain'
<1> USE DEF IInv
<1>1. /\ buf \in Seq(Piece) /\ pipe \in Seq(Piece)
      /\ Len(buf) \in Nat /\ Len(pipe) \in Nat
  BY LenProperties DEF TypeOK
<1>2. /\ Unframed \in Nat /\ Unframed' = Unframed + 1
      /\ \A k \in 1..Unframed : Nth(k)' = Nth(k)
      /\ \A k \in Nat : k = Unframed + 1 => Nth(k)' = q
  BY PieceAdded
<1>3. /\ FramedReport \in 0..at.report /\ at.report \in Nat
      /\ FramedReport' = FramedReport /\ FramedIndex' = FramedIndex
  <2>1. TickReport' = TickReport
    BY DEF TickReport
  <2>2. QED
    BY <2>1, FramedIsWritten DEF FramedReport, FramedIndex
<1>4. ASSUME NEW p, Written(p) PROVE Written(p)'
  <2>1. p.report \in 0..at.report /\ p.report <= at'.report
    BY <1>3, <1>4 DEF Written, Piece, TypeOK
  <2>2. sizes'[p.report] = sizes[p.report]
    BY <2>1
  <2>3. QED
    BY <1>4, <2>1, <2>2 DEF Written
<1>5. ASSUME NEW r \in 0..at.report, NEW i, NEW p, Written(p), MayFollow(sizes, r, i, p)
      PROVE  MayFollow(sizes', r, i, p)
  <2>1. p.report \in 0..at.report
    BY <1>3, <1>5 DEF Written, Piece
  <2>2. sizes'[r] = sizes[r] /\ sizes'[p.report] = sizes[p.report]
    BY <1>5, <2>1
  <2>3. QED
    BY <1>5, <2>1, <2>2 DEF MayFollow
<1>6. \A k \in 1..Unframed : Written(Nth(k))
  BY DEF Chain
<1>7. \A k \in 1..Unframed' : Written(Nth(k))'
  <2>1. ASSUME NEW k \in 1..Unframed' PROVE Written(Nth(k))'
    <3>1. CASE k \in 1..Unframed
      BY <1>2, <1>4, <1>6, <3>1
    <3>2. CASE k = Unframed + 1
      <4>1. k \in Nat /\ Nth(k)' = q
        BY <1>2, <3>2
      <4>2. QED
        BY <4>1 DEF Written
    <3>3. QED
      BY <1>2, <3>1, <3>2
  <2>2. QED
    BY <2>1
<1>8. MayFollow(sizes, FramedReport, FramedIndex, Nth(1))'
  <2>1. CASE Unframed = 0
    <3>1. FramedReport = at.report /\ FramedIndex = at.index /\ ~at.mid
      BY <2>1 DEF Chain
    <3>2. Nth(1)' = q
      BY <1>2, <2>1
    <3>3. QED
      BY <1>3, <3>1, <3>2
  <2>2. CASE Unframed > 0
    <3>1. MayFollow(sizes, FramedReport, FramedIndex, Nth(1)) /\ Written(Nth(1))
      BY <1>2, <1>6, <2>2 DEF Chain
    <3>2. Nth(1)' = Nth(1)
      BY <1>2, <2>2
    <3>3. QED
      BY <1>3, <1>5, <3>1, <3>2
  <2>3. QED
    BY <1>2, <2>1, <2>2
<1>9. ASSUME NEW k \in 1..(Unframed' - 1) PROVE Follows(sizes, Nth(k), Nth(k + 1))'
  <2>1. Written(Nth(k)) /\ Nth(k)' = Nth(k) /\ k \in 1..Unframed
    BY <1>2, <1>6, <1>9
  <2>2. Nth(k).report \in 0..at.report
    BY <1>3, <2>1 DEF Written, Piece
  <2>3. CASE k < Unframed
    <3>1. /\ Follows(sizes, Nth(k), Nth(k + 1)) /\ Written(Nth(k + 1))
          /\ Nth(k + 1)' = Nth(k + 1)
      BY <1>2, <1>6, <2>1, <2>3 DEF Chain
    <3>2. QED
      BY <1>5, <2>1, <2>2, <3>1 DEF Follows
  <2>4. CASE k = Unframed
    <3>1. Nth(k + 1)' = q
      <4>1. k + 1 \in Nat /\ k + 1 = Unframed + 1
        BY <1>2, <2>4
      <4>2. QED
        BY <1>2, <4>1
    <3>2. /\ Nth(k).report = at.report /\ Nth(k).index = at.index
          /\ at.mid <=> Nth(k).part = "head"
      BY <1>2, <2>1, <2>4 DEF Chain
    <3>3. Nth(k).part = "head" => Nth(k).count = sizes[at.report]
      BY <2>1, <3>2 DEF Written
    <3>4. CASE Nth(k).part = "head"
      BY <2>1, <3>1, <3>2, <3>3, <3>4 DEF Follows
    <3>5. CASE Nth(k).part # "head"
      <4>1. MayFollow(sizes', at.report, at.index, q)
        BY <3>2, <3>5
      <4>2. QED
        BY <2>1, <3>1, <3>2, <3>5, <4>1 DEF Follows, MayFollow
    <3>6. QED
      BY <3>4, <3>5
  <2>5. QED
    BY <1>2, <1>9, <2>3, <2>4
<1>10. /\ Nth(Unframed)'.report = at'.report
       /\ Nth(Unframed)'.index = at'.index
       /\ at'.mid <=> Nth(Unframed)'.part = "head"
  BY <1>2
<1>11. QED
  BY <1>2, <1>7, <1>8, <1>9, <1>10 DEF Chain

(* What is left when the sampler cuts off a line of i pieces.              *)
LEMMA PiecesLeft ==
  ASSUME IInv, NEW i \in 1..Len(buf),
         buf' = SubSeq(buf, i + 1, Len(buf)), UNCHANGED pipe
  PROVE  /\ Len(buf) \in Nat /\ Unframed \in Nat /\ i \in 1..Unframed
         /\ Unframed' = Unframed - i /\ Unframed' \in Nat
         /\ \A k \in 1..Unframed' : Nth(k)' = Nth(i + k)
<1>1. /\ buf \in Seq(Piece) /\ pipe \in Seq(Piece)
      /\ Len(buf) \in Nat /\ Len(pipe) \in Nat
  BY LenProperties DEF IInv, TypeOK
<1>2. /\ Len(buf') = Len(buf) - i /\ Len(buf') \in Nat
      /\ \A j \in 1..(Len(buf) - i) : buf'[j] = buf[i + j]
  BY <1>1, Cut
<1>3. /\ Unframed \in Nat /\ i \in 1..Unframed
      /\ Unframed' = Unframed - i /\ Unframed' \in Nat
  <2>1. /\ Unframed = Len(buf) + Len(pipe)
        /\ Unframed' = Len(buf') + Len(pipe)
    BY DEF Unframed
  <2>2. QED
    BY <1>1, <1>2, <2>1
<1>4. ASSUME NEW k \in 1..Unframed' PROVE Nth(k)' = Nth(i + k)
  <2>1. CASE k <= Len(buf) - i
    BY <1>1, <1>2, <2>1 DEF Nth
  <2>2. CASE ~(k <= Len(buf) - i)
    <3> DEFINE b == Len(buf)
               c == Len(buf')
    <3>1. b \in Nat /\ c = b - i /\ i \in Nat /\ k \in Nat /\ ~(k <= b - i)
      BY <1>1, <1>2, <1>3, <2>2
    <3> HIDE DEF b, c
    <3>2. ~(k <= c) /\ ~(i + k <= b) /\ k - c = (i + k) - b
      BY <3>1
    <3>3. QED
      BY <3>2 DEF Nth, b, c
  <2>3. QED
    BY <2>1, <2>2
<1>5. QED
  BY <1>1, <1>3, <1>4

(* The sampler cuts off a line that ends with the piece it frames last.    *)
LEMMA SamplerFrames ==
  ASSUME IInv, NEW i \in 1..Len(buf),
         buf' = SubSeq(buf, i + 1, Len(buf)), UNCHANGED <<pipe, sizes, at, done>>,
         buf[i].part # "head",
         FramedReport' = buf[i].report, FramedIndex' = buf[i].index
  PROVE  Chain'
<1> USE DEF IInv
<1>1. Len(buf) \in Nat
  BY LenProperties DEF TypeOK
<1>3. /\ Unframed \in Nat /\ i \in 1..Unframed
      /\ Unframed' = Unframed - i /\ Unframed' \in Nat
  BY PiecesLeft
<1>4. ASSUME NEW k \in 1..Unframed' PROVE Nth(k)' = Nth(i + k)
  BY PiecesLeft
<1>5. Nth(i) = buf[i] /\ Written(Nth(i))
  BY <1>1, <1>3 DEF Nth, Chain
<1>6. ASSUME NEW k \in 1..Unframed' PROVE Written(Nth(k))'
  <2>1. Written(Nth(i + k))
    BY <1>3 DEF Chain
  <2>2. QED
    BY <1>4, <2>1 DEF Written
<1>7. ASSUME NEW k \in 1..(Unframed' - 1)
      PROVE  Follows(sizes, Nth(k), Nth(k + 1))'
  <2>1. Follows(sizes, Nth(i + k), Nth((i + k) + 1))
    BY <1>3 DEF Chain
  <2>2. Nth(k)' = Nth(i + k)
    BY <1>3, <1>4
  <2>3. Nth(k + 1)' = Nth((i + k) + 1)
    <3>1. k + 1 \in 1..Unframed' /\ i + (k + 1) = (i + k) + 1
      BY <1>3
    <3>2. QED
      BY <1>4, <3>1
  <2>4. QED
    BY <2>1, <2>2, <2>3
<1>8. CASE Unframed' = 0
  <2>1. i = Unframed /\ Unframed > 0
    BY <1>3, <1>8
  <2>2. buf[i].report = at.report /\ buf[i].index = at.index /\ ~at.mid
    BY <1>5, <2>1 DEF Chain
  <2>3. QED
    BY <1>3, <1>8, <2>2 DEF Chain
<1>9. CASE Unframed' > 0
  <2>1. Follows(sizes, Nth(i), Nth(i + 1)) /\ Nth(1)' = Nth(i + 1)
    BY <1>3, <1>4, <1>9 DEF Chain
  <2>2. MayFollow(sizes', FramedReport', FramedIndex', Nth(1)')
    BY <1>5, <2>1 DEF Follows
  <2>3. Nth(Unframed)' = Nth(Unframed)
    <3>1. Unframed' \in 1..Unframed' /\ i + Unframed' = Unframed
      BY <1>3, <1>9
    <3>2. \A k \in 1..Unframed' : k = Unframed' => Nth(k)' = Nth(Unframed)
      BY <1>4, <3>1
    <3>3. QED
      BY <3>1, <3>2
  <2>4. /\ Nth(Unframed).report = at.report /\ Nth(Unframed).index = at.index
        /\ at.mid <=> Nth(Unframed).part = "head"
    BY <1>3 DEF Chain
  <2>5. QED
    BY <1>3, <1>6, <1>7, <1>9, <2>2, <2>3, <2>4 DEF Chain
<1>10. QED
  BY <1>3, <1>8, <1>9

---------------------------------------------------------------------------
(* The lines.                                                              *)

(* The first line of buf is a blank, or the row that comes next.           *)
LEMMA FirstLine ==
  ASSUME IInv, NEW i \in 1..Len(buf), NewlineAt(i)
  PROVE  /\ MayFollow(sizes, FramedReport, FramedIndex, buf[1])
         /\ Written(buf[1]) /\ Written(buf[i])
         /\ \/ i = 1 /\ buf[1].part = "blank"
            \/ /\ i = 2 /\ buf[1].part = "head"
               /\ Follows(sizes, buf[1], buf[2])
<1> USE DEF IInv
<1>1. /\ Len(buf) \in Nat /\ Len(pipe) \in Nat /\ Unframed \in Nat
      /\ Len(buf) <= Unframed
  BY LenProperties DEF TypeOK, Unframed
<1>2. \A k \in 1..Len(buf) : k \in 1..Unframed /\ Nth(k) = buf[k]
  BY <1>1 DEF Nth
<1>3. /\ MayFollow(sizes, FramedReport, FramedIndex, buf[1])
      /\ Written(buf[1]) /\ Written(buf[i])
  <2>1. 1 \in 1..Len(buf) /\ Unframed > 0
    BY <1>1
  <2>2. QED
    BY <1>2, <2>1 DEF Chain
<1>4. CASE buf[1].part = "blank"
  <2>1. EndsLine(buf[1])
    BY <1>4 DEF EndsLine
  <2>2. i = 1
    BY <1>1, <2>1 DEF NewlineAt
  <2>3. QED
    BY <1>3, <1>4, <2>2
<1>5. CASE buf[1].part = "head"
  <2>1. i # 1 /\ i >= 2
    BY <1>1, <1>5 DEF NewlineAt, EndsLine
  <2>2. 2 \in 1..Len(buf) /\ 1 \in 1..(Unframed - 1) /\ 1 \in 1..Len(buf)
    BY <1>1, <2>1
  <2>3. Follows(sizes, Nth(1), Nth(1 + 1))
    BY <2>2 DEF Chain
  <2>4. Nth(1) = buf[1] /\ Nth(1 + 1) = buf[2]
    BY <1>2, <2>2
  <2>5. Follows(sizes, buf[1], buf[2])
    BY <2>3, <2>4
  <2>6. EndsLine(buf[2])
    BY <1>5, <2>5 DEF Follows, EndsLine
  <2>7. i = 2
    BY <1>1, <2>1, <2>6 DEF NewlineAt
  <2>8. QED
    BY <1>3, <1>5, <2>5, <2>7
<1>6. QED
  BY <1>3, <1>4, <1>5 DEF MayFollow

(* A head and its tail make the line of the row.                           *)
LEMMA LineOfRow ==
  ASSUME IInv, 2 \in 1..Len(buf), buf[1].part = "head", Written(buf[1]),
         Follows(sizes, buf[1], buf[2])
  PROVE  SubSeq(buf, 1, 2) = RowLine(buf[1].report, buf[1].index)
<1> DEFINE r == buf[1].report
           j == buf[1].index
           line == SubSeq(buf, 1, 2)
<1>1. buf \in Seq(Piece)
  BY DEF IInv, TypeOK
<1>2. /\ line \in Seq(Piece) /\ Len(line) = 2
      /\ line[1] = buf[1] /\ line[2] = buf[2]
  <2>1. /\ line \in Seq(Piece) /\ Len(line) = 2
        /\ \A k \in 1..2 : line[k] = buf[k]
    BY <1>1, Cut
  <2>2. QED
    BY <2>1
<1>3. buf[1] \in Piece /\ buf[2] \in Piece
  <2>1. 1 \in 1..Len(buf)
    BY <1>1, LenProperties
  <2>2. QED
    BY <1>1, <2>1, ElementOfSeq
<1>4. buf[1].count = sizes[r]
  BY DEF Written
<1>5. buf[1] = RowPiece(r, j, "head")
  BY <1>3, <1>4 DEF RowPiece, Piece
<1>6. buf[2] = RowPiece(r, j, "tail")
  BY <1>3, <1>4 DEF RowPiece, Piece, Follows
<1> HIDE DEF line
<1>7. line = <<buf[1], buf[2]>>
  BY <1>2, LenProperties
<1>8. QED
  BY <1>5, <1>6, <1>7 DEF RowLine, line

(* The row joins what it continues, and nothing else.                      *)
LEMMA JoinedRows ==
  ASSUME IInv, NEW line, NEW r \in 1..at.report, NEW j \in 1..sizes[r],
         line = RowLine(r, j), line \in Seq(Piece),
         \/ r = FramedReport /\ j = FramedIndex + 1
         \/ /\ r = FramedReport + 1 /\ j = 1
            /\ FramedIndex = sizes[FramedReport] \/ sizes[r] # sizes[FramedReport]
  PROVE  LET rows == Append(Joined(line), line)
         IN rows = [k \in 1..j |-> RowLine(r, k)] /\ Len(rows) = j
<1> USE DEF IInv
<1> DEFINE rows == Append(Joined(line), line)
<1>1. RowCount(line) = sizes[r]
  BY DEF RowCount, RowLine, RowPiece
<1>2. /\ pending \in Seq(Seq(Piece)) /\ <<>> \in Seq(Seq(Piece)) /\ Len(<<>>) = 0
      /\ sizes[r] \in Nat
  BY EmptySeq, StreamConstants DEF TypeOK
<1>3. /\ Joined(line) \in Seq(Seq(Piece)) /\ Len(Joined(line)) = j - 1
      /\ \A k \in 1..(j - 1) : Joined(line)[k] = RowLine(r, k)
  <2>1. CASE r = FramedReport /\ j = FramedIndex + 1
    <3>1. pending # <<>>
      <4>1. FramedIndex < sizes[FramedReport]
        BY <1>2, <2>1, FramedIsWritten
      <4>2. QED
        BY <1>2, <2>1, <4>1, FramedIsWritten
    <3>2. /\ pendingCount = sizes[r] /\ FramedIndex = Len(pending)
          /\ pending = [k \in 1..Len(pending) |-> RowLine(r, k)]
      BY <2>1, <3>1 DEF PendingIsAPrefix, FramedIndex
    <3>3. Joined(line) = pending
      BY <1>1, <3>2 DEF Joined
    <3>4. Len(pending) \in Nat /\ Len(pending) = j - 1
      BY <1>2, <2>1, <3>2, LenProperties
    <3>5. \A k \in 1..Len(pending) : pending[k] = RowLine(r, k)
      BY <3>2
    <3>6. QED
      BY <1>2, <3>3, <3>4, <3>5
  <2>2. CASE /\ r = FramedReport + 1 /\ j = 1
             /\ FramedIndex = sizes[FramedReport] \/ sizes[r] # sizes[FramedReport]
    <3>1. Joined(line) = <<>>
      <4>1. CASE pending = <<>>
        BY <4>1 DEF Joined
      <4>2. CASE pending # <<>>
        <5>1. /\ pendingCount = sizes[FramedReport]
              /\ FramedIndex = Len(pending) /\ Len(pending) < pendingCount
              /\ Len(pending) \in Nat /\ pendingCount \in Nat
          BY <1>2, <4>2, LenProperties DEF PendingIsAPrefix, FramedIndex, TypeOK
        <5>2. sizes[r] # pendingCount
          BY <2>2, <5>1
        <5>3. QED
          BY <1>1, <5>2 DEF Joined
      <4>3. QED
        BY <4>1, <4>2
    <3>2. Joined(line) \in Seq(Seq(Piece)) /\ Len(Joined(line)) = 0
      BY <1>2, <3>1
    <3>3. j - 1 = 0
      BY <2>2
    <3> HIDE DEF IInv
    <3>4. QED
      BY <3>2, <3>3
  <2>3. QED
    BY <2>1, <2>2
<1> HIDE DEF IInv
<1>4. /\ rows \in Seq(Seq(Piece)) /\ Len(rows) = (j - 1) + 1
      /\ \A k \in 1..(j - 1) : rows[k] = Joined(line)[k]
      /\ rows[(j - 1) + 1] = line
  BY <1>3, AppendProperties
<1> HIDE DEF rows
<1>5. Len(rows) = j /\ rows[j] = line /\ j \in Nat
  BY <1>2, <1>4
<1>6. \A k \in 1..j : rows[k] = RowLine(r, k)
  <2>1. ASSUME NEW k \in 1..j PROVE rows[k] = RowLine(r, k)
    <3>1. CASE k = j
      BY <1>5, <3>1
    <3>2. CASE k # j
      <4>1. k \in 1..(j - 1)
        BY <1>5, <3>2
      <4>2. QED
        BY <1>3, <1>4, <4>1
    <3>3. QED
      BY <3>1, <3>2
  <2>2. QED
    BY <2>1
<1>7. rows = [k \in 1..j |-> rows[k]]
  BY <1>4, <1>5, LenProperties
<1>8. QED
  BY <1>5, <1>6, <1>7 DEF rows

(* The line of i pieces is cut off buf, and may come next.                 *)
Cuts(i) ==
  /\ buf' = SubSeq(buf, i + 1, Len(buf)) /\ Written(buf[i])
  /\ MayFollow(sizes, FramedReport, FramedIndex, buf[1])
  /\ UNCHANGED <<pipe, sizes, at, done>>

TakesBlank(i) ==
  i = 1 /\ buf[1].part = "blank" /\ UNCHANGED <<pending, pendingCount, tick>>

(* It is row j of report r, whose rows up to j are kept.                   *)
Keeps(r, j) ==
  LET rows == [k \in 1..j |-> RowLine(r, k)]
  IN IF j = sizes[r] THEN tick' = rows /\ pending' = <<>> /\ pendingCount' = 0
     ELSE tick' = tick /\ pending' = rows /\ pendingCount' = sizes[r]

TakesRow(i) ==
  \E r \in 1..at.report : \E j \in 1..sizes[r] :
    /\ i = 2 /\ buf[1].part = "head" /\ buf[2].part = "tail"
    /\ buf[1].report = r /\ buf[1].index = j
    /\ buf[2].report = r /\ buf[2].index = j
    /\ Keeps(r, j)

(* A line that is framed is a blank, which changes nothing, or the row     *)
(* that comes next; the last row of a report makes the tick.               *)
LEMMA FrameTakes ==
  ASSUME IInv, FrameLine
  PROVE  \E i \in 1..Len(buf) : Cuts(i) /\ (TakesBlank(i) \/ TakesRow(i))
<1> USE DEF childVars
<1>1. PICK i \in 1..Len(buf) :
        /\ NewlineAt(i)
        /\ buf' = SubSeq(buf, i + 1, Len(buf))
        /\ IF IsBlank(SubSeq(buf, 1, i))
             THEN UNCHANGED <<pending, pendingCount, tick>>
             ELSE Row(SubSeq(buf, 1, i))
  BY DEF FrameLine
<1>2. /\ UNCHANGED <<sizes, at, done, pipe>>
      /\ buf \in Seq(Piece) /\ buf[i].part # "head"
  BY <1>1 DEF FrameLine, NewlineAt, EndsLine, IInv, TypeOK
<1> DEFINE line == SubSeq(buf, 1, i)
<1>3. line \in Seq(Piece) /\ line[1] = buf[1]
  <2>1. line \in Seq(Piece) /\ \A k \in 1..i : line[k] = buf[k]
    BY <1>2, Cut
  <2>2. QED
    BY <2>1
<1>4. /\ MayFollow(sizes, FramedReport, FramedIndex, buf[1])
      /\ Written(buf[1]) /\ Written(buf[i])
      /\ \/ i = 1 /\ buf[1].part = "blank"
         \/ /\ i = 2 /\ buf[1].part = "head"
            /\ Follows(sizes, buf[1], buf[2])
  BY <1>1, FirstLine
<1>5. CASE i = 1 /\ buf[1].part = "blank"
  <2>1. UNCHANGED <<pending, pendingCount, tick>>
    BY <1>1, <1>3, <1>5 DEF IsBlank
  <2>2. QED
    BY <1>1, <1>2, <1>4, <1>5, <2>1 DEF Cuts, TakesBlank
<1>6. CASE i = 2 /\ buf[1].part = "head" /\ Follows(sizes, buf[1], buf[2])
  <2>0. PICK r, j : r = buf[1].report /\ j = buf[1].index
    OBVIOUS
  <2> DEFINE rows == Append(Joined(line), line)
  <2>1. line = RowLine(r, j)
    BY <1>4, <1>6, <2>0, LineOfRow
  <2>2. /\ r \in 1..at.report /\ j \in 1..sizes[r] /\ buf[1].count = sizes[r]
        /\ sizes[r] \in Nat /\ r \in 0..MaxReports
    <3>1. /\ r > 0 /\ j \in 1..sizes[r] /\ buf[1].count = sizes[r]
          /\ r \in 0..MaxReports /\ r <= at.report
      BY <1>4, <1>6, <2>0 DEF Written, Piece
    <3>2. at.report \in 0..MaxReports /\ sizes \in [0..MaxReports -> 0..MaxGPUs]
      BY DEF IInv, TypeOK
    <3>3. QED
      BY <3>1, <3>2, StreamConstants
  <2>3. /\ rows = [k \in 1..j |-> RowLine(r, k)] /\ Len(rows) = j
    <3>1. \/ r = FramedReport /\ j = FramedIndex + 1
          \/ /\ r = FramedReport + 1 /\ j = 1
             /\ FramedIndex = sizes[FramedReport] \/ sizes[r] # sizes[FramedReport]
      BY <1>4, <1>6, <2>0 DEF MayFollow
    <3> HIDE DEF line
    <3>2. QED
      BY <1>3, <2>1, <2>2, <3>1, JoinedRows
  <2>4. RowCount(line) = sizes[r] /\ RowCount(line) > 0 /\ Row(line)
    BY <1>1, <1>3, <1>6, <2>2 DEF RowCount, IsBlank
  <2>5. buf[i].report = r /\ buf[i].index = j /\ buf[2].part = "tail"
    BY <1>6, <2>0 DEF Follows
  <2>6. IF j = sizes[r]
          THEN tick' = rows /\ pending' = <<>> /\ pendingCount' = 0
          ELSE tick' = tick /\ pending' = rows /\ pendingCount' = sizes[r]
    <3>1. RowCount(line) # 0 /\ (Len(rows) = RowCount(line) <=> j = sizes[r])
      BY <2>2, <2>3, <2>4
    <3> HIDE DEF rows, line
    <3>2. CASE j = sizes[r]
      BY <2>4, <3>1, <3>2 DEF Row, rows, line
    <3>3. CASE j # sizes[r]
      BY <2>4, <3>1, <3>3 DEF Row, rows, line
    <3>4. QED
      BY <3>2, <3>3
  <2>7. rows = [k \in 1..j |-> RowLine(r, k)]
    BY <2>3
  <2> HIDE DEF rows, line
  <2>8. /\ buf[1].report = r /\ buf[1].index = j /\ buf[2].part = "tail"
        /\ buf[2].report = r /\ buf[2].index = j
    BY <1>6, <2>0, <2>5
  <2>9. Cuts(i) /\ Keeps(r, j)
    BY <1>1, <1>2, <1>4, <2>6, <2>7 DEF Cuts, Keeps
  <2>10. QED
    BY <1>6, <2>2, <2>8, <2>9 DEF TakesRow
<1>7. QED
  BY <1>4, <1>5, <1>6

(* A line of the buffer becomes part of what the sampler keeps.            *)
LEMMA FrameKeeps ==
  ASSUME IInv, FrameLine
  PROVE  Chain' /\ PendingIsAPrefix' /\ TickIsOneReport'
<1>1. PICK i \in 1..Len(buf) : Cuts(i) /\ (TakesBlank(i) \/ TakesRow(i))
  BY FrameTakes
<1>2. CASE TakesBlank(i)
  <2>1. FramedReport' = FramedReport /\ FramedIndex' = FramedIndex
    BY <1>1, <1>2 DEF Cuts, TakesBlank, FramedReport, FramedIndex, TickReport
  <2>2. FramedReport' = buf[i].report /\ FramedIndex' = buf[i].index
    BY <1>1, <1>2, <2>1 DEF Cuts, TakesBlank, MayFollow
  <2>3. Chain'
    BY <1>1, <1>2, <2>2, SamplerFrames DEF Cuts, TakesBlank
  <2>4. PendingIsAPrefix' /\ TickIsOneReport'
    BY <1>1, <1>2, <2>1
       DEF Cuts, TakesBlank, IInv, PendingIsAPrefix, TickIsOneReport, TickReport,
           RowLine, RowPiece
  <2>5. QED
    BY <2>3, <2>4
<1>3. ASSUME NEW r \in 1..at.report, NEW j \in 1..sizes[r],
             i = 2, buf[2].part = "tail", buf[2].report = r, buf[2].index = j,
             Keeps(r, j)
      PROVE  Chain' /\ PendingIsAPrefix' /\ TickIsOneReport'
  <2> DEFINE rows == [k \in 1..j |-> RowLine(r, k)]
  <2>1. /\ sizes[r] \in Nat /\ j \in Nat /\ j > 0 /\ j <= sizes[r]
        /\ r \in 1..at'.report /\ sizes' = sizes /\ done' = done
    <3>1. at.report \in 0..MaxReports /\ sizes \in [0..MaxReports -> 0..MaxGPUs]
      BY DEF IInv, TypeOK
    <3>2. r \in 0..MaxReports /\ sizes[r] \in 0..MaxGPUs
      BY <3>1, StreamConstants
    <3>3. QED
      BY <1>1, <3>2, StreamConstants DEF Cuts
  <2>2. rows # <<>> /\ rows[1][1].report = r /\ Len(rows) = j
    <3>1. rows[1] = RowLine(r, 1)
      BY <2>1
    <3>2. RowLine(r, 1)[1].report = r
      BY DEF RowLine, RowPiece
    <3>3. Len(rows) = j
      BY <2>1, LenProperties
    <3> HIDE DEF rows
    <3>4. QED
      BY <2>1, <3>1, <3>2, <3>3, EmptySeq
  <2>3. rows = [k \in 1..j |-> RowLine(r, k)'] /\ \A k : RowLine(r, k)' = RowLine(r, k)
    BY <2>1 DEF RowLine, RowPiece
  <2>4. CASE j = sizes[r]
    <3>1. tick' = rows /\ pending' = <<>> /\ pendingCount' = 0
      BY <1>3, <2>4 DEF Keeps
    <3> HIDE DEF rows
    <3>2. r \in done
      BY <1>1, <1>3, <2>4 DEF Cuts, Written
    <3>3. TickReport' = r
      BY <2>2, <3>1 DEF TickReport
    <3>4. FramedReport' = r /\ FramedIndex' = j
      BY <2>1, <2>4, <3>1, <3>3 DEF FramedReport, FramedIndex
    <3>5. Chain'
      BY <1>1, <1>3, <3>4, SamplerFrames DEF Cuts
    <3>6. PendingIsAPrefix'
      BY <3>1 DEF PendingIsAPrefix
    <3>7. TickIsOneReport'
      <4>1. tick' = [k \in 1..sizes'[r] |-> RowLine(r, k)']
        BY <2>1, <2>3, <2>4, <3>1
      <4>2. QED
        BY <2>1, <3>2, <3>3, <4>1 DEF TickIsOneReport, RowLine, RowPiece
    <3>8. QED
      BY <3>5, <3>6, <3>7
  <2>5. CASE j # sizes[r]
    <3>1. tick' = tick /\ pending' = rows /\ pendingCount' = sizes[r]
      BY <1>3, <2>5 DEF Keeps
    <3> HIDE DEF rows
    <3>2. FramedReport' = r /\ FramedIndex' = j
      BY <2>2, <3>1 DEF FramedReport, FramedIndex
    <3>3. Chain'
      BY <1>1, <1>3, <3>2, SamplerFrames DEF Cuts
    <3>4. PendingIsAPrefix'
      <4>1. Len(pending') = j /\ j < sizes[r]
        BY <2>1, <2>2, <2>5, <3>1
      <4>2. pending' = [k \in 1..Len(pending') |-> RowLine(r, k)']
        BY <2>3, <3>1, <4>1
      <4>3. pending' # <<>> /\ FramedReport' \in 1..at'.report
            /\ pendingCount' = sizes'[FramedReport'] /\ Len(pending') < pendingCount'
        BY <2>1, <2>2, <3>1, <3>2, <4>1
      <4>4. pending' = [k \in 1..Len(pending') |-> RowLine(FramedReport, k)']
        BY <3>2, <4>2 DEF RowLine, RowPiece
      <4>5. QED
        BY <4>3, <4>4 DEF PendingIsAPrefix
    <3>5. TickIsOneReport'
      BY <1>1, <3>1 DEF Cuts, IInv, TickIsOneReport, TickReport, RowLine, RowPiece
    <3>6. QED
      BY <3>3, <3>4, <3>5
  <2>6. QED
    BY <2>4, <2>5
<1>4. QED
  BY <1>1, <1>2, <1>3 DEF TakesRow

---------------------------------------------------------------------------
(* The steps.                                                              *)

(* Nothing is written, and nothing is held.                                *)
LEMMA InitKeeps == Init => IInv
<1> SUFFICES ASSUME Init PROVE IInv
  OBVIOUS
<1>1. TypeOK
  BY InitTyped
<1>2. Len(<<>>) = 0 /\ ~at.mid /\ at.report = 0 /\ at.index = 0 /\ sizes[0] = 0
  BY EmptySeq, StreamConstants DEF Init
<1>3. ChildKnows
  BY <1>2 DEF Init, ChildKnows
<1>4. Unframed = 0 /\ FramedReport = 0 /\ FramedIndex = 0
  BY <1>2 DEF Init, Unframed, FramedReport, FramedIndex, TickReport
<1>5. Chain
  BY <1>2, <1>4 DEF Chain
<1>6. PendingIsAPrefix /\ TickIsOneReport
  BY DEF Init, PendingIsAPrefix, TickIsOneReport
<1>7. QED
  BY <1>1, <1>3, <1>5, <1>6 DEF IInv

(* The child goes on from where it is.                                     *)
LEMMA ChildKeeps == TypeOK /\ ChildKnows /\ [Next]_vars => ChildKnows'
<1> SUFFICES ASSUME TypeOK, ChildKnows, [Next]_vars PROVE ChildKnows'
  OBVIOUS
<1> USE StreamConstants DEF TypeOK, ChildKnows
<1>1. CASE NextRow
  <2>1. /\ at'.index = at.index + 1 /\ at'.report = at.report
        /\ at.report > 0 /\ at.index < sizes[at.report]
        /\ UNCHANGED <<sizes, done>>
    BY <1>1 DEF NextRow, streamVars
  <2>2. QED
    BY <2>1
<1>2. ASSUME NEW n \in 1..MaxGPUs, NextReport(n) PROVE ChildKnows'
  <2>1. /\ at'.index = 1 /\ at'.report = at.report + 1 /\ at.report < MaxReports
        /\ sizes' = [sizes EXCEPT ![at.report + 1] = n] /\ done' = done
    BY <1>2 DEF NextReport
  <2>2. /\ sizes'[at'.report] = n
        /\ \A r \in 0..at.report : sizes'[r] = sizes[r]
        /\ at.report \in Nat /\ n >= 1
    BY <2>1
  <2>3. /\ at'.index <= sizes'[at'.report] /\ at'.index > 0 /\ at'.report > 0
        /\ sizes'[0] = 0
    BY <2>1, <2>2
  <2>4. \A r \in 1..at'.report : sizes'[r] > 0
    <3>1. ASSUME NEW r \in 1..at'.report PROVE sizes'[r] > 0
      <4>1. r \in 1..at.report \/ r = at'.report
        BY <2>1, <2>2
      <4>2. QED
        BY <2>2, <4>1
    <3>2. QED
      BY <3>1
  <2>5. \A r \in done' : r <= at'.report
    <3>1. done' = done /\ at'.report = at.report + 1 /\ at.report \in Nat
      BY <2>1, <2>2
    <3>2. ASSUME NEW r \in done PROVE r \in Nat /\ r <= at.report
      BY DEF Reports
    <3>3. QED
      BY <3>1, <3>2
  <2>6. QED
    BY <2>3, <2>4, <2>5
<1>3. CASE EndRow
  <2>1. /\ at'.index = at.index /\ at'.report = at.report /\ sizes' = sizes
        /\ ~at'.mid /\ done' \subseteq done \cup {at.report}
    BY <1>3 DEF EndRow
  <2>2. \A r \in done' : r <= at'.report
    BY <2>1
  <2>3. QED
    BY <2>1, <2>2
<1>4. CASE UNCHANGED <<sizes, at, done>>
  BY <1>4
<1>5. QED
  <2>1. ASSUME NEW part \in Noise, WriteNoise(part) PROVE UNCHANGED <<sizes, at, done>>
    BY <2>1 DEF WriteNoise
  <2>2. CASE Exit \/ Sampler \/ UNCHANGED vars
    <3>1. UNCHANGED <<sizes, at, done>>
      BY <2>2 DEF Exit, Sampler, Drain, BeginDrain, ReadData, ReadNothing, ReadEOF,
                  FrameLine, EndFeed, ReadFails, childVars, vars
    <3>2. QED
      BY <1>4, <3>1
  <2>3. QED
    BY <1>1, <1>2, <1>3, <1>4, <2>1, <2>2 DEF Next, Child

(* What is held of a report is not disturbed while the child writes on.    *)
LEMMA HeldStays ==
  ASSUME IInv, UNCHANGED <<pending, pendingCount, tick>>,
         \A r \in 0..at.report : sizes'[r] = sizes[r],
         at.report <= at'.report, at'.report \in Nat, done \subseteq done'
  PROVE  PendingIsAPrefix' /\ TickIsOneReport'
<1>1. /\ FramedReport' = FramedReport /\ TickReport' = TickReport
      /\ TickReport \in 0..at.report /\ FramedReport \in 0..at.report
      /\ at.report \in Nat
  <2>1. TickReport' = TickReport
    BY DEF TickReport
  <2>2. QED
    BY <2>1, FramedIsWritten DEF FramedReport
<1>2. ASSUME NEW r \in 0..at.report
      PROVE  \A i : RowLine(r, i)' = RowLine(r, i)
  BY DEF RowLine, RowPiece
<1>3. PendingIsAPrefix'
  <2>1. CASE pending = <<>>
    BY <2>1 DEF IInv, PendingIsAPrefix
  <2>2. CASE pending # <<>>
    <3>1. /\ FramedReport \in 1..at.report
          /\ pendingCount = sizes[FramedReport] /\ Len(pending) < pendingCount
          /\ pending = [i \in 1..Len(pending) |-> RowLine(FramedReport, i)]
      BY <2>2 DEF IInv, PendingIsAPrefix
    <3>2. /\ FramedReport' \in 1..at'.report
          /\ pendingCount' = sizes'[FramedReport'] /\ Len(pending') < pendingCount'
      BY <1>1, <3>1
    <3>3. \A i : RowLine(FramedReport, i)' = RowLine(FramedReport, i)
      BY <1>1, <1>2 DEF RowLine, RowPiece
    <3>4. pending' = [i \in 1..Len(pending') |-> RowLine(FramedReport, i)']
      BY <3>1, <3>3
    <3>5. QED
      BY <2>2, <3>2, <3>4 DEF PendingIsAPrefix
  <2>3. QED
    BY <2>1, <2>2
<1>4. TickIsOneReport'
  <2>1. SUFFICES ASSUME tick # <<>>
                 PROVE  /\ TickReport' \in done'
                        /\ tick' = [i \in 1..sizes'[TickReport'] |->
                                     RowLine(TickReport, i)']
    BY DEF TickIsOneReport
  <2>2. /\ TickReport \in done
        /\ tick = [i \in 1..sizes[TickReport] |-> RowLine(TickReport, i)]
    BY <2>1 DEF IInv, TickIsOneReport
  <2>3. \A i : RowLine(TickReport, i)' = RowLine(TickReport, i)
    BY <1>1, <1>2 DEF RowLine, RowPiece
  <2>4. sizes'[TickReport'] = sizes[TickReport]
    BY <1>1
  <2>5. QED
    BY <1>1, <2>2, <2>3, <2>4
<1>5. QED
  BY <1>3, <1>4

(* A read leaves the pieces to be framed as they are.                      *)
LEMMA ReadIsAMove ==
  ASSUME IInv, NEW n \in 1..ReadSize, ReadData(n)
  PROVE  /\ Unframed' = Unframed /\ Unframed \in Nat
         /\ \A k \in 1..Unframed : Nth(k)' = Nth(k)
<1>1. /\ buf \in Seq(Piece) /\ pipe \in Seq(Piece)
      /\ Len(buf) \in Nat /\ Len(pipe) \in Nat
  BY LenProperties DEF IInv, TypeOK
<1>2. n \in 1..Len(pipe)
  BY <1>1 DEF ReadData
<1>3. /\ buf' = buf \o SubSeq(pipe, 1, n)
      /\ pipe' = SubSeq(pipe, n + 1, Len(pipe))
  BY DEF ReadData
<1>4. /\ Len(buf') = Len(buf) + n /\ Len(pipe') = Len(pipe) - n
      /\ \A k \in 1..Unframed :
           Nth(k) = IF k <= Len(buf') THEN buf'[k] ELSE pipe'[k - Len(buf')]
  BY <1>1, <1>2, <1>3, ReadMoves
<1>5. QED
  BY <1>1, <1>2, <1>4 DEF Unframed, Nth

(* Every step of a child that writes no line without a count, and every    *)
(* step of the sampler, keeps the invariant.                               *)
LEMMA StepKeeps ==
  ASSUME "junk" \notin Noise, IInv, [Next]_vars
  PROVE  IInv'
<1>1. TypeOK' /\ ChildKnows'
  BY NextTyped, ChildKeeps DEF IInv
<1>2. SUFFICES Chain' /\ PendingIsAPrefix' /\ TickIsOneReport'
  BY <1>1 DEF IInv
<1>3. /\ at.report \in 0..MaxReports /\ at.index \in Nat /\ at.report <= MaxReports
      /\ sizes \in [0..MaxReports -> 0..MaxGPUs] /\ sizes[at.report] \in 0..MaxGPUs
      /\ at \in [report: 0..MaxReports, index: 0..MaxGPUs, mid: BOOLEAN]
  BY StreamConstants DEF IInv, TypeOK
<1>4. CASE NextRow
  <2>0. PICK q : q = RowPiece(at.report, at.index + 1, "head")
    OBVIOUS
  <2>1. /\ pipe' = Append(pipe, q) /\ ~at.mid /\ at.index < sizes[at.report]
        /\ at'.report = at.report /\ at'.index = at.index + 1 /\ at'.mid = TRUE
        /\ UNCHANGED <<buf, pending, pendingCount, tick, sizes, done>>
    BY <1>3, <1>4, <2>0 DEF NextRow, AtRowEnd, streamVars
  <2>2. /\ q \in Piece /\ q.report = at.report /\ q.index = at.index + 1
        /\ q.part = "head" /\ q.count = sizes[at.report]
    <3>1. at.index + 1 \in 0..MaxGPUs
      BY <1>3, <2>1, StreamConstants
    <3>2. QED
      BY <1>3, <2>0, <3>1 DEF RowPiece, Piece, Parts
  <2>3. at.report > 0 /\ at.index + 1 \in 1..sizes[at.report]
    BY <1>3, <2>1 DEF IInv, ChildKnows
  <2>4. Written(q)'
    BY <1>3, <2>1, <2>2, <2>3 DEF Written
  <2>5. MayFollow(sizes', at.report, at.index, q)
    BY <2>1, <2>2 DEF MayFollow
  <2>6. Chain'
    BY <1>1, <1>3, <2>1, <2>2, <2>4, <2>5, ChildWrites
  <2>7. QED
    BY <1>3, <2>1, <2>6, HeldStays
<1>5. ASSUME NEW n \in 1..MaxGPUs, NextReport(n)
      PROVE  Chain' /\ PendingIsAPrefix' /\ TickIsOneReport'
  <2>0. PICK q : q = [report |-> at.report + 1, index |-> 1, count |-> n, part |-> "head"]
    OBVIOUS
  <2>1. /\ pipe' = Append(pipe, q) /\ ~at.mid /\ at.report < MaxReports
        /\ at.index = sizes[at.report] \/ n # sizes[at.report]
        /\ at'.report = at.report + 1 /\ at'.index = 1 /\ at'.mid = TRUE
        /\ sizes' = [sizes EXCEPT ![at.report + 1] = n]
        /\ UNCHANGED <<buf, pending, pendingCount, tick, done>>
    BY <1>5, <2>0 DEF NextReport, AtRowEnd, streamVars
  <2>2. /\ q \in Piece /\ q.report = at.report + 1 /\ q.index = 1
        /\ q.part = "head" /\ q.count = n
    BY <1>3, <2>0, <2>1, StreamConstants DEF Piece, Parts
  <2>3. /\ sizes'[at.report + 1] = n
        /\ \A r \in 0..at.report : sizes'[r] = sizes[r]
        /\ at.report <= at'.report /\ at'.report \in Nat
    <3>1. at.report + 1 \in 0..MaxReports /\ at.report \in Nat
      BY <1>3, <2>1, StreamConstants
    <3>2. sizes'[at.report + 1] = n
      BY <1>3, <2>1, <3>1
    <3>3. \A r \in 0..at.report : sizes'[r] = sizes[r]
      <4>1. ASSUME NEW r \in 0..at.report PROVE r # at.report + 1 /\ r \in 0..MaxReports
        BY <1>3, StreamConstants
      <4>2. QED
        BY <1>3, <2>1, <4>1
    <3>4. at.report <= at'.report /\ at'.report \in Nat
      BY <2>1, <3>1
    <3>5. QED
      BY <3>2, <3>3, <3>4
  <2>4. Written(q)'
    BY <1>3, <2>1, <2>2, <2>3 DEF Written
  <2>5. MayFollow(sizes', at.report, at.index, q)
    BY <1>3, <2>1, <2>2, <2>3 DEF MayFollow
  <2>6. Chain'
    BY <1>1, <2>1, <2>2, <2>3, <2>4, <2>5, ChildWrites
  <2>7. QED
    BY <2>1, <2>3, <2>6, HeldStays
<1>6. CASE EndRow
  <2>0. PICK q : q = RowPiece(at.report, at.index, "tail")
    OBVIOUS
  <2>1. /\ pipe' = Append(pipe, q) /\ at.mid
        /\ at'.report = at.report /\ at'.index = at.index /\ at'.mid = FALSE
        /\ UNCHANGED <<buf, pending, pendingCount, tick, sizes>>
        /\ done \subseteq done'
        /\ at.index = sizes[at.report] => at.report \in done'
    BY <1>3, <1>6, <2>0 DEF EndRow, streamVars
  <2>2. /\ q \in Piece /\ q.report = at.report /\ q.index = at.index
        /\ q.part = "tail" /\ q.count = sizes[at.report]
    BY <1>3, <2>0 DEF RowPiece, Piece, Parts
  <2>3. at.report > 0 /\ at.index \in 1..sizes[at.report]
    BY <1>3, <2>1 DEF IInv, ChildKnows
  <2>4. Written(q)'
    BY <1>3, <2>1, <2>2, <2>3 DEF Written
  <2>5. Chain'
    BY <1>1, <1>3, <2>1, <2>2, <2>4, ChildWrites
  <2>6. QED
    BY <1>3, <2>1, <2>5, HeldStays
<1>7. CASE WriteNoise("blank")
  <2>0. PICK q : q = [report |-> at.report, index |-> at.index, count |-> 0,
                   part |-> "blank"]
    OBVIOUS
  <2>1. /\ pipe' = Append(pipe, q) /\ ~at.mid
        /\ UNCHANGED <<at, buf, pending, pendingCount, tick, sizes, done>>
    BY <1>7, <2>0 DEF WriteNoise, AtRowEnd, streamVars
  <2>2. /\ q \in Piece /\ q.report = at.report /\ q.index = at.index
        /\ q.part = "blank" /\ q.count = 0
    BY <1>3, <2>0, StreamConstants DEF Piece, Parts
  <2>3. Written(q)'
    BY <1>3, <2>1, <2>2 DEF Written
  <2>4. MayFollow(sizes', at.report, at.index, q)
    BY <2>2 DEF MayFollow
  <2>5. at'.mid <=> q.part = "head"
    BY <2>1, <2>2
  <2>6. Chain'
    BY <1>1, <1>3, <2>1, <2>2, <2>3, <2>4, <2>5, ChildWrites
  <2>7. QED
    BY <1>3, <2>1, <2>6, HeldStays
<1>8. ASSUME NEW n \in 1..ReadSize, ReadData(n)
      PROVE  Chain' /\ PendingIsAPrefix' /\ TickIsOneReport'
  <2>1. UNCHANGED <<sizes, at, done, pending, pendingCount, tick>>
    BY <1>8 DEF ReadData, childVars
  <2>2. Unframed' = Unframed /\ \A k \in 1..Unframed : Nth(k)' = Nth(k)
    BY <1>8, ReadIsAMove
  <2>3. Chain'
    BY <2>1, <2>2, SamePieces
  <2>4. QED
    BY <1>3, <2>1, <2>3, HeldStays
<1>9. CASE UNCHANGED <<sizes, at, done, pipe, buf, pending, pendingCount, tick>>
  <2>1. Unframed' = Unframed /\ \A k \in 1..Unframed : Nth(k)' = Nth(k)
    BY <1>9 DEF Unframed, Nth
  <2>2. Chain'
    BY <1>9, <2>1, SamePieces
  <2>3. QED
    BY <1>3, <1>9, <2>2, HeldStays
<1>10. CASE FrameLine
  BY <1>10, FrameKeeps
<1>11. QED
  <2>1. CASE \/ Exit \/ BeginDrain \/ ReadNothing \/ ReadEOF \/ ReadFails \/ EndFeed
             \/ UNCHANGED vars
    <3>1. UNCHANGED <<sizes, at, done, pipe, buf, pending, pendingCount, tick>>
      BY <2>1 DEF Exit, BeginDrain, ReadNothing, ReadEOF, ReadFails, EndFeed,
                  childVars, streamVars, vars
    <3>2. QED
      BY <1>9, <3>1
  <2>2. \A part \in Noise \cap {"blank", "junk"} : part = "blank"
    OBVIOUS
  <2>3. QED
    BY <1>4, <1>5, <1>6, <1>7, <1>8, <1>10, <2>1, <2>2
       DEF Next, Child, Sampler, Drain

---------------------------------------------------------------------------
(* What a drain leaves, and what it takes.                                 *)

(* A finished report is the tick, older than the tick, or its last byte is *)
(* still between the reader and the writer.                                *)
EndsReport(p, r) == p.part = "tail" /\ p.report = r /\ p.index = sizes[r]

DoneIsKept ==
  \A r \in done :
    r <= TickReport \/ \E k \in 1..Unframed : EndsReport(Nth(k), r)

DInv ==
  /\ IInv
  /\ pc # "framing" => ~HasLine
  /\ pending # <<>> => FramedReport > TickReport
  /\ at.report \in done => at.index = sizes[at.report] /\ ~at.mid
  /\ DoneIsKept



(* What the child writes, and what a read moves, stays to be framed.       *)
LEMMA WrittenIsKept ==
  ASSUME DInv, UNCHANGED <<tick, done>>, Unframed' >= Unframed, Unframed' \in Nat,
         \A r \in done : sizes'[r] = sizes[r],
         \A k \in 1..Unframed : Nth(k)' = Nth(k)
  PROVE  DoneIsKept'
<1> SUFFICES ASSUME NEW r \in done', ~(r <= TickReport')
             PROVE  \E k \in 1..Unframed' : EndsReport(Nth(k), r)'
  BY DEF DoneIsKept
<1>1. PICK k \in 1..Unframed : EndsReport(Nth(k), r)
  BY DEF DInv, DoneIsKept, TickReport
<1>2. k \in 1..Unframed' /\ Nth(k)' = Nth(k) /\ sizes'[r] = sizes[r]
  <2>1. Unframed \in Nat
    BY LenProperties DEF DInv, IInv, TypeOK, Unframed
  <2>2. QED
    BY <2>1
<1>3. QED
  BY <1>1, <1>2 DEF EndsReport

(* The row that comes next is of a report newer than the tick.             *)
LEMMA NextIsNewer ==
  ASSUME DInv, NEW q, q.part = "head",
         MayFollow(sizes, FramedReport, FramedIndex, q)
  PROVE  q.report > TickReport
<1>1. /\ TickReport \in Nat /\ FramedReport \in Nat /\ FramedIndex \in Nat
      /\ pending = <<>> => FramedIndex = sizes[FramedReport] /\ FramedReport = TickReport
  BY FramedIsWritten DEF DInv, FramedReport, FramedIndex
<1>2. CASE pending = <<>>
  BY <1>1, <1>2 DEF MayFollow
<1>3. CASE pending # <<>>
  BY <1>1, <1>3 DEF DInv, MayFollow
<1>4. QED
  BY <1>2, <1>3

(* Framing a line takes no report's last byte but that of the report which *)
(* becomes the tick.                                                       *)
LEMMA FrameAdvances ==
  ASSUME DInv, FrameLine
  PROVE  /\ pending' # <<>> => FramedReport' > TickReport'
         /\ DoneIsKept'
<1>1. PICK i \in 1..Len(buf) : Cuts(i) /\ (TakesBlank(i) \/ TakesRow(i))
  BY FrameTakes DEF DInv
<1>2. /\ Len(buf) \in Nat /\ Unframed \in Nat /\ i \in 1..Unframed
      /\ Unframed' = Unframed - i /\ Unframed' \in Nat
      /\ \A k \in 1..Unframed' : Nth(k)' = Nth(i + k)
  BY <1>1, PiecesLeft DEF Cuts, DInv
<1>3. UNCHANGED <<sizes, at, done>>
  BY <1>1 DEF Cuts
<1>4. TickReport \in Nat /\ \A r \in done : r \in Nat
  BY FramedIsWritten, StreamConstants DEF DInv, IInv, TypeOK, Reports
(* A report that is done and newer than the tick ends behind the line, or  *)
(* in it.                                                                  *)
<1>5. ASSUME NEW r \in done, ~(r <= TickReport)
      PROVE  \/ \E k \in 1..Unframed' : EndsReport(Nth(k), r)'
             \/ \E k \in 1..i : EndsReport(buf[k], r)
  <2>1. PICK k \in 1..Unframed : EndsReport(Nth(k), r)
    BY <1>5 DEF DInv, DoneIsKept
  <2>2. CASE k <= i
    <3>1. Nth(k) = buf[k] /\ k \in 1..i
      BY <1>2, <2>2 DEF Nth
    <3>2. QED
      BY <2>1, <3>1
  <2>3. CASE k > i
    <3>1. k - i \in 1..Unframed' /\ i + (k - i) = k
      BY <1>2, <2>3
    <3>2. Nth(k - i)' = Nth(k)
      BY <1>2, <3>1
    <3>3. EndsReport(Nth(k - i), r)'
      BY <1>3, <2>1, <3>2 DEF EndsReport
    <3>4. QED
      BY <3>1, <3>3
  <2>4. QED
    BY <1>2, <2>2, <2>3
<1>6. CASE TakesBlank(i)
  <2>1. i = 1 /\ buf[1].part = "blank" /\ UNCHANGED <<pending, tick>>
    BY <1>6 DEF TakesBlank
  <2>2. FramedReport' = FramedReport /\ TickReport' = TickReport
    BY <2>1 DEF FramedReport, TickReport
  <2>3. ASSUME NEW r \in done' PROVE ~\E k \in 1..i : EndsReport(buf[k], r)
    BY <2>1 DEF EndsReport
  <2>4. QED
    BY <1>3, <1>5, <2>1, <2>2, <2>3 DEF DInv, DoneIsKept
<1>7. CASE TakesRow(i)
  <2>0. PICK r \in 1..at.report : \E j \in 1..sizes[r] :
          /\ i = 2 /\ buf[1].part = "head" /\ buf[2].part = "tail"
          /\ buf[1].report = r /\ buf[1].index = j
          /\ buf[2].report = r /\ buf[2].index = j
          /\ Keeps(r, j)
    BY <1>7 DEF TakesRow
  <2>1. PICK j \in 1..sizes[r] :
          /\ i = 2 /\ buf[1].part = "head" /\ buf[2].part = "tail"
          /\ buf[1].report = r /\ buf[1].index = j
          /\ buf[2].report = r /\ buf[2].index = j
          /\ Keeps(r, j)
    BY <2>0
  <2>2. r > TickReport /\ r \in Nat /\ j \in Nat /\ j > 0
    <3>1. buf[1].report > TickReport
      BY <1>1, <2>1, NextIsNewer DEF Cuts
    <3>2. at.report \in Nat /\ sizes[r] \in Nat
      BY StreamConstants DEF DInv, IInv, TypeOK
    <3>3. QED
      BY <2>1, <3>1, <3>2
  <2>3. ASSUME NEW s \in done, NEW k \in 1..i, EndsReport(buf[k], s)
        PROVE  s = r /\ j = sizes[r]
    <3>1. k = 1 \/ k = 2
      BY <2>1
    <3>2. QED
      BY <2>1, <2>3, <3>1 DEF EndsReport
  <2> DEFINE rows == [k \in 1..j |-> RowLine(r, k)]
  <2>4. rows # <<>> /\ rows[1][1].report = r
    <3>1. rows[1] = RowLine(r, 1) /\ Len(rows) = j
      BY <2>2, LenProperties
    <3>2. RowLine(r, 1)[1].report = r
      BY DEF RowLine, RowPiece
    <3> HIDE DEF rows
    <3>3. QED
      BY <2>2, <3>1, <3>2, EmptySeq
  <2>5. CASE j = sizes[r]
    <3>1. tick' = rows /\ pending' = <<>>
      BY <2>1, <2>5 DEF Keeps
    <3> HIDE DEF rows
    <3>2. TickReport' = r
      BY <2>4, <3>1 DEF TickReport
    <3>3. ASSUME NEW s \in done', ~(s <= TickReport')
          PROVE  \E k \in 1..Unframed' : EndsReport(Nth(k), s)'
      <4>1. s \in done /\ ~(s <= TickReport) /\ s # r
        BY <1>3, <1>4, <2>2, <3>2, <3>3
      <4>2. QED
        BY <1>5, <2>3, <4>1
    <3>4. QED
      BY <3>1, <3>3 DEF DoneIsKept
  <2>6. CASE j # sizes[r]
    <3>1. tick' = tick /\ pending' = rows
      BY <2>1, <2>6 DEF Keeps
    <3> HIDE DEF rows
    <3>2. FramedReport' = r /\ TickReport' = TickReport
      BY <2>4, <3>1 DEF FramedReport, TickReport
    <3>3. QED
      BY <1>3, <1>5, <2>2, <2>3, <2>6, <3>2 DEF DoneIsKept
  <2>7. QED
    BY <2>5, <2>6
<1>8. QED
  BY <1>1, <1>6, <1>7

LEMMA InitDrained == Init => DInv
<1> SUFFICES ASSUME Init PROVE DInv
  OBVIOUS
<1>1. ~HasLine
  BY EmptySeq DEF Init, HasLine
<1>2. QED
  BY <1>1, InitKeeps DEF Init, DInv, DoneIsKept

(* The child finishes a report with its last byte, and no other way.       *)
LEMMA ChildFinishes ==
  ASSUME DInv, Child \/ Sampler \/ UNCHANGED vars
  PROVE  (at.report \in done => at.index = sizes[at.report] /\ ~at.mid)'
<1> USE DEF DInv, IInv, TypeOK, ChildKnows
<1>1. CASE NextRow
  BY <1>1, StreamConstants DEF NextRow, AtRowEnd
<1>2. ASSUME NEW n \in 1..MaxGPUs, NextReport(n) PROVE at'.report \notin done'
  BY <1>2, StreamConstants DEF NextReport, Reports
<1>3. CASE EndRow
  BY <1>3 DEF EndRow
<1>4. CASE UNCHANGED <<sizes, at, done>>
  BY <1>4
<1>5. QED
  <2>1. ASSUME NEW part \in Noise, WriteNoise(part) PROVE UNCHANGED <<sizes, at, done>>
    BY <2>1 DEF WriteNoise
  <2>2. CASE Exit \/ Sampler \/ UNCHANGED vars
    <3>1. UNCHANGED <<sizes, at, done>>
      BY <2>2 DEF Exit, Sampler, Drain, BeginDrain, ReadData, ReadNothing, ReadEOF,
                  FrameLine, EndFeed, ReadFails, childVars, vars
    <3>2. QED
      BY <1>4, <3>1
  <2>3. QED
    BY <1>1, <1>2, <1>3, <1>4, <2>1, <2>2 DEF Child

(* What the child appends is finished only by a last byte of its own.      *)
LEMMA ChildIsKept ==
  ASSUME "junk" \notin Noise, DInv, Child, TypeOK'
  PROVE  DoneIsKept'
<1>0. /\ at.report \in 0..MaxReports /\ at.index \in 0..MaxGPUs
      /\ sizes \in [0..MaxReports -> 0..MaxGPUs]
      /\ done \subseteq 1..MaxReports /\ \A r \in done : r <= at.report
  BY DEF DInv, IInv, TypeOK, ChildKnows, Reports
<1>1. /\ at.report \in 0..MaxReports /\ at.index \in Nat
      /\ sizes \in [0..MaxReports -> 0..MaxGPUs]
      /\ \A r \in done : r \in 0..MaxReports /\ r <= at.report
  BY <1>0, StreamConstants
<1>2. ASSUME NEW q, pipe' = Append(pipe, q), q \in Piece, UNCHANGED <<buf, tick, done>>,
             \A r \in done : sizes'[r] = sizes[r]
      PROVE  DoneIsKept'
  <2>1. /\ Unframed \in Nat /\ Unframed' = Unframed + 1
        /\ \A k \in 1..Unframed : Nth(k)' = Nth(k)
    BY <1>2, PieceAdded DEF DInv, IInv
  <2>2. QED
    BY <1>2, <2>1, WrittenIsKept
<1>3. CASE NextRow
  <2> DEFINE q == RowPiece(at.report, at.index + 1, "head")
  <2>1. q \in Piece
    <3>1. at.index + 1 \in 0..MaxGPUs
      BY <1>1, <1>3, StreamConstants DEF NextRow
    <3>2. QED
      BY <1>1, <3>1 DEF RowPiece, Piece, Parts
  <2> HIDE DEF q
  <2>2. pipe' = Append(pipe, q) /\ UNCHANGED <<buf, tick, done, sizes>>
    BY <1>3 DEF NextRow, streamVars, q
  <2>3. QED
    BY <1>2, <2>1, <2>2
<1>4. ASSUME NEW n \in 1..MaxGPUs, NextReport(n) PROVE DoneIsKept'
  <2> DEFINE q == [report |-> at.report + 1, index |-> 1, count |-> n, part |-> "head"]
  <2>1. q \in Piece
    BY <1>1, <1>4, StreamConstants DEF NextReport, Piece, Parts
  <2> HIDE DEF q
  <2>2. /\ pipe' = Append(pipe, q) /\ UNCHANGED <<buf, tick, done>>
        /\ sizes' = [sizes EXCEPT ![at.report + 1] = n]
    BY <1>4 DEF NextReport, streamVars, q
  <2>3. \A r \in done : sizes'[r] = sizes[r]
    BY <1>1, <2>2
  <2>4. QED
    BY <1>2, <2>1, <2>2, <2>3
<1>5. ASSUME WriteNoise("blank") PROVE DoneIsKept'
  <2> DEFINE q == [report |-> at.report, index |-> at.index, count |-> 0, part |-> "blank"]
  <2>1. q \in Piece
    BY <1>1, StreamConstants DEF Piece, Parts, DInv, IInv, TypeOK
  <2> HIDE DEF q
  <2>2. pipe' = Append(pipe, q) /\ UNCHANGED <<buf, tick, done, sizes>>
    BY <1>5 DEF WriteNoise, streamVars, q
  <2>3. QED
    BY <1>2, <2>1, <2>2
<1>6. CASE EndRow
  <2> DEFINE q == RowPiece(at.report, at.index, "tail")
  <2>1. /\ q \in Piece /\ q.part = "tail" /\ q.report = at.report /\ q.index = at.index
    BY <1>1 DEF RowPiece, Piece, Parts, DInv, IInv, TypeOK
  <2> HIDE DEF q
  <2>2. /\ pipe' = Append(pipe, q) /\ UNCHANGED <<buf, tick, sizes>>
        /\ done' = IF at.index = sizes[at.report] THEN done \cup {at.report} ELSE done
    BY <1>6 DEF EndRow, streamVars, q
  <2>3. /\ Unframed \in Nat /\ Unframed' = Unframed + 1
        /\ \A k \in 1..Unframed : Nth(k)' = Nth(k)
        /\ \A k \in Nat : k = Unframed + 1 => Nth(k)' = q
    BY <2>1, <2>2, PieceAdded DEF DInv, IInv
  <2>4. ASSUME NEW r \in done', ~(r <= TickReport')
        PROVE  \E k \in 1..Unframed' : EndsReport(Nth(k), r)'
    <3>1. CASE r \in done
      <4>1. PICK k \in 1..Unframed : EndsReport(Nth(k), r)
        BY <2>2, <2>4, <3>1 DEF DInv, DoneIsKept, TickReport
      <4>2. k \in 1..Unframed' /\ Nth(k)' = Nth(k)
        BY <2>3
      <4>3. QED
        BY <2>2, <4>1, <4>2 DEF EndsReport
    <3>2. CASE r = at.report /\ at.index = sizes[at.report]
      <4>1. PICK m \in Nat : m = Unframed + 1
        BY <2>3
      <4>2. Nth(m)' = q /\ m \in 1..Unframed'
        BY <2>3, <4>1
      <4>3. EndsReport(Nth(m), r)'
        BY <2>1, <2>2, <3>2, <4>2 DEF EndsReport
      <4>4. QED
        BY <4>2, <4>3
    <3>3. QED
      BY <2>2, <2>4, <3>1, <3>2
  <2>5. QED
    BY <2>4 DEF DoneIsKept
<1>7. CASE Exit
  <2>1. UNCHANGED <<sizes, done, pipe, buf, tick>>
    BY <1>7 DEF Exit, streamVars
  <2>2. QED
    BY <2>1 DEF DInv, DoneIsKept, TickReport, Unframed, Nth, EndsReport
<1>8. QED
  <2>1. \A part \in Noise \cap {"blank", "junk"} : part = "blank"
    OBVIOUS
  <2>2. QED
    BY <1>3, <1>4, <1>5, <1>6, <1>7, <2>1 DEF Child

LEMMA NextDrained ==
  ASSUME "junk" \notin Noise, DInv, [Next]_vars
  PROVE  DInv'
<1>1. IInv'
  BY StepKeeps DEF DInv
<1>2. (at.report \in done => at.index = sizes[at.report] /\ ~at.mid)'
  BY ChildFinishes DEF Next
<1>3. (pc # "framing" => ~HasLine)'
  <2>1. CASE Child
    BY <2>1 DEF Child, NextRow, NextReport, EndRow, WriteNoise, Exit, streamVars, DInv, HasLine
  <2>2. CASE Sampler \/ UNCHANGED vars
    BY <2>2 DEF Sampler, Drain, BeginDrain, ReadData, ReadNothing, ReadEOF, FrameLine,
                EndFeed, ReadFails, vars, DInv, HasLine
  <2>3. QED
    BY <2>1, <2>2 DEF Next
<1>4. ASSUME UNCHANGED <<pending, tick>> PROVE (pending # <<>> => FramedReport > TickReport)'
  BY <1>4 DEF DInv, FramedReport, TickReport
<1>5. CASE Child
  <2>1. UNCHANGED <<pending, tick>>
    BY <1>5 DEF Child, NextRow, NextReport, EndRow, WriteNoise, Exit, streamVars
  <2>2. DoneIsKept'
    BY <1>1, <1>5, ChildIsKept DEF IInv
  <2>3. QED
    BY <1>1, <1>2, <1>3, <1>4, <2>1, <2>2 DEF DInv
<1>6. CASE FrameLine
  BY <1>1, <1>2, <1>3, <1>6, FrameAdvances DEF DInv
<1>7. ASSUME NEW n \in 1..ReadSize, ReadData(n) PROVE DInv'
  <2>1. UNCHANGED <<sizes, done, pending, tick>>
    BY <1>7 DEF ReadData, childVars
  <2>2. /\ Unframed' = Unframed /\ Unframed \in Nat
        /\ \A k \in 1..Unframed : Nth(k)' = Nth(k)
    BY <1>7, ReadIsAMove DEF DInv
  <2>3. DoneIsKept'
    BY <2>1, <2>2, WrittenIsKept
  <2>4. QED
    BY <1>1, <1>2, <1>3, <1>4, <2>1, <2>3 DEF DInv
<1>8. CASE UNCHANGED <<sizes, done, pipe, buf, pending, tick>>
  <2>1. DoneIsKept'
    BY <1>8 DEF DInv, DoneIsKept, TickReport, Unframed, Nth, EndsReport
  <2>2. QED
    BY <1>1, <1>2, <1>3, <1>4, <1>8, <2>1 DEF DInv
<1>9. QED
  <2>1. CASE BeginDrain \/ ReadNothing \/ ReadEOF \/ ReadFails \/ EndFeed \/ UNCHANGED vars
    <3>1. UNCHANGED <<sizes, done, pipe, buf, pending, tick>>
      BY <2>1 DEF BeginDrain, ReadNothing, ReadEOF, ReadFails, EndFeed, childVars, vars
    <3>2. QED
      BY <1>8, <3>1
  <2>2. QED
    BY <1>5, <1>6, <1>7, <2>1 DEF Next, Sampler, Drain

(* Between two reads buf holds no newline, and two pieces that follow each *)
(* other would have one.                                                   *)
LEMMA BetweenReads ==
  ASSUME DInv
  PROVE  MemoryIsBounded
<1> SUFFICES ASSUME pc # "framing"
             PROVE  /\ Len(buf) <= 1
                    /\ pending # <<>> => Len(pending) < pendingCount
  BY DEF MemoryIsBounded
<1>1. Len(buf) \in Nat /\ Len(pipe) \in Nat /\ Unframed = Len(buf) + Len(pipe)
  BY LenProperties DEF DInv, IInv, TypeOK, Unframed
<1>2. ASSUME ~(Len(buf) <= 1) PROVE FALSE
  <2>1. 1 \in 1..Len(buf) /\ 2 \in 1..Len(buf) /\ 1 \in 1..(Unframed - 1)
    BY <1>1, <1>2
  <2>2. Follows(sizes, Nth(1), Nth(1 + 1)) /\ Nth(1) = buf[1] /\ Nth(1 + 1) = buf[2]
    BY <2>1 DEF DInv, IInv, Chain, Nth
  <2>3. EndsLine(buf[1]) \/ EndsLine(buf[2])
    BY <2>2 DEF Follows, EndsLine
  <2>4. QED
    BY <2>1, <2>3 DEF DInv, HasLine
<1>3. QED
  BY <1>2 DEF DInv, IInv, PendingIsAPrefix

(* A drain that ends without a failed read has emptied the pipe.           *)
LEMMA DrainEnds ==
  ASSUME DInv, [Next]_vars, pc # "idle", pc' = "idle", err' # "failed",
         NEW r \in done'
  PROVE  r <= TickReport'
<1>1. CASE ReadNothing \/ ReadEOF
  <2>1. pipe = <<>> /\ pc = "reading" /\ UNCHANGED <<done, tick>>
    BY <1>1 DEF ReadNothing, ReadEOF, childVars
  <2>2. Len(buf) \in Nat /\ Unframed = Len(buf)
    BY <2>1, EmptySeq, LenProperties DEF DInv, IInv, TypeOK, Unframed
  <2>3. ASSUME NEW k \in 1..Unframed, EndsReport(Nth(k), r) PROVE FALSE
    <3>1. Nth(k) = buf[k] /\ k \in 1..Len(buf)
      BY <2>2 DEF Nth
    <3>2. QED
      BY <2>1, <2>3, <3>1 DEF EndsReport, EndsLine, DInv, HasLine
  <2>4. QED
    BY <2>1, <2>3 DEF DInv, DoneIsKept, TickReport
<1>2. QED
  BY <1>1
     DEF Next, Child, Sampler, Drain, NextRow, NextReport, EndRow, WriteNoise, Exit,
         BeginDrain, ReadData, ReadNothing, ReadEOF, ReadFails, FrameLine, EndFeed,
         streamVars, vars

---------------------------------------------------------------------------
(* The refinement.                                                         *)

(* The state of the feed, of a state of the stream.                        *)
Published == [r \in done |-> sizes[r]]
Held == [i \in DOMAIN tick |-> [report |-> tick[i][1].report,
                                index |-> tick[i][1].index]]

LEMMA MapsInit == Init => Feed!Init
BY DEF Init, Feed!Init

(* The rows of one report, as the feed shows them.                         *)
LEMMA HeldOfReport ==
  ASSUME NEW r, NEW n \in Nat, tick' = [k \in 1..n |-> RowLine(r, k)]
  PROVE  Held' = [k \in 1..n |-> [report |-> r, index |-> k]]
<1>1. DOMAIN tick' = 1..n
  OBVIOUS
<1>2. ASSUME NEW k \in 1..n
      PROVE  tick'[k][1].report = r /\ tick'[k][1].index = k
  BY DEF RowLine, RowPiece
<1>3. QED
  BY <1>1, <1>2 DEF Held

(* The report the feed's reader holds is the tick's.                       *)
LEMMA HeldIsTheTick ==
  ASSUME DInv
  PROVE  Feed!HeldReport = TickReport
<1>1. Feed!HeldReport = IF Held = <<>> THEN 0 ELSE Held[1].report
  BY DEF Feed!HeldReport, Held
<1>2. CASE tick = <<>>
  BY <1>1, <1>2 DEF Held, TickReport
<1>3. CASE tick # <<>>
  <2>1. tick \in Seq(Seq(Piece)) /\ Len(tick) \in Nat /\ DOMAIN tick = 1..Len(tick)
        /\ Len(tick) # 0
    BY <1>3, LenProperties, EmptySeq DEF DInv, IInv, TypeOK
  <2>2. 1 \in DOMAIN tick
    BY <2>1
  <2>3. Held[1].report = tick[1][1].report /\ 1 \in DOMAIN Held
    BY <2>2 DEF Held
  <2>4. DOMAIN <<>> = {}
    OBVIOUS
  <2>5. QED
    BY <1>1, <1>3, <2>3, <2>4 DEF TickReport
<1>4. QED
  BY <1>2, <1>3

LEMMA MapsStep == DInv /\ [Next]_vars => [Feed!Next]_(Feed!feedVars)
<1> SUFFICES ASSUME DInv, [Next]_vars PROVE [Feed!Next]_(Feed!feedVars)
  OBVIOUS
<1>1. ASSUME Published' = Published, Held' = Held PROVE [Feed!Next]_(Feed!feedVars)
  BY <1>1 DEF Feed!feedVars, Published, Held
<1>2. ASSUME tick' = tick PROVE Held' = Held
  BY <1>2 DEF Held
<1>3. ASSUME NEW n \in 1..MaxGPUs, NextReport(n) PROVE Published' = Published /\ Held' = Held
  <2>1. /\ done' = done /\ sizes' = [sizes EXCEPT ![at.report + 1] = n] /\ tick' = tick
    BY <1>3 DEF NextReport, streamVars
  <2>2. \A r \in done : sizes'[r] = sizes[r]
    <3>1. at.report \in Nat /\ \A r \in done : r \in 0..MaxReports /\ r <= at.report
      BY StreamConstants DEF DInv, IInv, TypeOK, ChildKnows, Reports
    <3>2. \A r \in done : r # at.report + 1
      BY <3>1
    <3>3. QED
      BY <2>1, <3>1, <3>2 DEF DInv, IInv, TypeOK
  <2>3. QED
    BY <1>2, <2>1, <2>2 DEF Published
<1>4. CASE EndRow
  <2>1. UNCHANGED <<sizes, tick>> /\ at.mid
        /\ done' = IF at.index = sizes[at.report] THEN done \cup {at.report} ELSE done
    BY <1>4 DEF EndRow, streamVars
  <2>2. CASE at.index # sizes[at.report]
    BY <1>1, <1>2, <2>1, <2>2 DEF Published
  <2>3. CASE at.index = sizes[at.report]
    <3>1. /\ at.report \in 1..MaxReports /\ sizes[at.report] \in 1..MaxGPUs
          /\ \A p \in done : p < at.report
      <4>1. at.report \notin done /\ at.report > 0 /\ at.index > 0
        BY <2>1 DEF DInv, IInv, ChildKnows
      <4>2. QED
        BY <2>3, <4>1, StreamConstants DEF DInv, IInv, TypeOK, ChildKnows, Reports
    <3>2. PICK r \in 1..MaxReports, n \in 1..MaxGPUs : r = at.report /\ n = sizes[at.report]
      BY <3>1
    <3>3. Published' = [p \in done \cup {r} |-> IF p = r THEN n ELSE Published[p]]
      BY <2>1, <2>3, <3>2 DEF Published
    <3>4. Feed!Publish(r, n)
      BY <1>2, <2>1, <3>2, <3>1, <3>3 DEF Feed!Publish, Published, Held
    <3>5. QED
      BY <3>4 DEF Feed!Next
  <2>4. QED
    BY <2>2, <2>3
<1>5. CASE FrameLine
  <2>1. PICK i \in 1..Len(buf) : Cuts(i) /\ (TakesBlank(i) \/ TakesRow(i))
    BY <1>5, FrameTakes DEF DInv
  <2>2. UNCHANGED <<sizes, done>> /\ Published' = Published
    BY <2>1 DEF Cuts, Published
  <2>3. CASE TakesBlank(i)
    BY <1>1, <1>2, <2>2, <2>3 DEF TakesBlank
  <2>4. CASE TakesRow(i)
    <3>0. PICK r \in 1..at.report : \E j \in 1..sizes[r] :
            /\ i = 2 /\ buf[1].part = "head" /\ buf[2].part = "tail"
            /\ buf[1].report = r /\ buf[1].index = j
            /\ buf[2].report = r /\ buf[2].index = j
            /\ Keeps(r, j)
      BY <2>4 DEF TakesRow
    <3>1. PICK j \in 1..sizes[r] :
            /\ i = 2 /\ buf[1].part = "head" /\ buf[2].part = "tail"
            /\ buf[1].report = r /\ buf[1].index = j
            /\ buf[2].report = r /\ buf[2].index = j
            /\ Keeps(r, j)
      BY <3>0
    <3>2. CASE j # sizes[r]
      BY <1>1, <1>2, <2>2, <3>1, <3>2 DEF Keeps
    <3>3. CASE j = sizes[r]
      <4>1. tick' = [k \in 1..sizes[r] |-> RowLine(r, k)]
        BY <3>1, <3>3 DEF Keeps
      <4>2. r \in done /\ sizes[r] \in Nat
        <5>1. r \in done
          BY <2>1, <3>1, <3>3 DEF Cuts, Written
        <5>2. QED
          BY <5>1, StreamConstants DEF DInv, IInv, TypeOK, Reports
      <4>3. r > TickReport
        BY <2>1, <3>1, NextIsNewer DEF Cuts
      <4>4. Held' = [k \in 1..Published[r] |-> [report |-> r, index |-> k]]
        BY <4>1, <4>2, HeldOfReport DEF Published
      <4>5. Feed!Take(r)
        BY <2>2, <4>3, <4>4, HeldIsTheTick DEF Feed!Take, Feed!Report, Published, Held
      <4>6. QED
        BY <4>2, <4>5 DEF Feed!Next, Published
    <3>4. QED
      BY <3>2, <3>3
  <2>5. QED
    BY <2>1, <2>3, <2>4
<1>6. CASE UNCHANGED <<sizes, done, tick>>
  BY <1>1, <1>2, <1>6 DEF Published
<1>7. QED
  <2>1. ASSUME NEW part \in Noise, WriteNoise(part) PROVE UNCHANGED <<sizes, done, tick>>
    BY <2>1 DEF WriteNoise, streamVars
  <2>2. ASSUME NEW n \in 1..ReadSize, ReadData(n) PROVE UNCHANGED <<sizes, done, tick>>
    BY <2>2 DEF ReadData, childVars
  <2>3. CASE NextRow \/ Exit \/ BeginDrain \/ ReadNothing \/ ReadEOF \/ ReadFails
             \/ EndFeed \/ UNCHANGED vars
    BY <1>6, <2>3 DEF NextRow, Exit, BeginDrain, ReadNothing, ReadEOF, ReadFails, EndFeed,
                      childVars, streamVars, vars
  <2>4. QED
    BY <1>1, <1>3, <1>4, <1>5, <1>6, <2>1, <2>2, <2>3 DEF Next, Child, Sampler, Drain

---------------------------------------------------------------------------
(* The theorems.                                                           *)

(* Every state of the child, the pipe and the sampler is well typed, and   *)
(* the pipe is never over its capacity, whatever noise the child writes    *)
(* (nvidiaStream, and the writes of its child).                            *)
THEOREM Typed == Spec => []TypeOK
<1>1. Init => TypeOK /\ ChildKnows
  BY InitKeeps DEF IInv
<1>2. TypeOK /\ ChildKnows /\ [Next]_vars => (TypeOK /\ ChildKnows)'
  BY NextTyped, ChildKeeps
<1>3. QED
  BY <1>1, <1>2, PTL DEF Spec

(* What is sampled is all the rows of one finished report, in order, for   *)
(* any number of reports of any sizes, any pipe and any cuts of the reads, *)
(* also when the child breaks a report off and writes blank lines          *)
(* (nvidiaStream.feed and row).  The assumption is needed: a line without  *)
(* a count prefix between two rows does mix reports (NeverMixesTwoReports).*)
THEOREM WholeReport ==
  ASSUME "junk" \notin Noise
  PROVE  Spec => []TickIsOneReport
<1>1. Init => IInv
  BY InitKeeps
<1>2. IInv /\ [Next]_vars => IInv'
  BY StepKeeps
<1>3. IInv => TickIsOneReport
  BY DEF IInv
<1>4. QED
  BY <1>1, <1>2, <1>3, PTL DEF Spec

(* Between two reads the sampler holds at most one unfinished row and      *)
(* fewer rows than the report under way has (nvidiaStream.buf, pending).   *)
THEOREM BoundedMemory ==
  ASSUME "junk" \notin Noise
  PROVE  Spec => []MemoryIsBounded
<1>1. DInv /\ [Next]_vars => DInv'
  BY NextDrained
<1>2. DInv => MemoryIsBounded
  BY BetweenReads
<1>3. QED
  BY <1>1, <1>2, InitDrained, PTL DEF Spec

(* A drain that ends has taken the newest report the child had finished    *)
(* (nvidiaStream.drain).                                                   *)
THEOREM NewestTaken ==
  ASSUME "junk" \notin Noise
  PROVE  Spec => DrainTakesTheNewest
<1>1. DInv /\ [Next]_vars => DInv'
  BY NextDrained
<1>2. DInv /\ [Next]_vars =>
        [pc # "idle" /\ pc' = "idle" /\ err' # "failed" =>
           \A r \in done' : r <= TickReport']_vars
  BY DrainEnds
<1>3. QED
  BY <1>1, <1>2, InitDrained, PTL DEF Spec, DrainTakesTheNewest

(* What the child writes and the sampler keeps, pieces, pipe and reads     *)
(* left out, is the report feed (nvidiaStream).                            *)
THEOREM StreamImplementsFeed ==
  ASSUME "junk" \notin Noise
  PROVE  Spec => ImplementsReportFeed
<1>1. DInv /\ [Next]_vars => DInv'
  BY NextDrained
<1>2. Init => Feed!Init
  BY MapsInit
<1>3. DInv /\ [Next]_vars => [Feed!Next]_(Feed!feedVars)
  BY MapsStep
<1>4. QED
  BY <1>1, <1>2, <1>3, InitDrained, PTL DEF Spec, ImplementsReportFeed
=============================================================================
