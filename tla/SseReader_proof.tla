---------------------------- MODULE SseReader_proof ----------------------------
(***************************************************************************)
(* Theorems about the SSE reader, for every set of payloads and any number *)
(* of lines.                                                               *)
(***************************************************************************)
EXTENDS SseReader, SequenceFacts

\* The strengthening: the upstream is never more than the one line ahead that
\* waits in the finished read.  A new read is only started when that is taken.
OneLineAhead == Len(lines) = IF read = "line" THEN taken + 1 ELSE taken

LinesInv == TypeOK /\ Len(lines) <= MaxLines /\ OneLineAhead

\* An item that is the last one, or an iteration that came to its end: the body has
\* ended and nothing is assembled.
ItsEnd == reader \in {"flushed", "exhausted"} => read = "eof" /\ dataLines = <<>>

\* What becomes of a line that is taken.
LEMMA TakenLine ==
    ASSUME TakeLine
    PROVE  \/ reader' = "yielding" /\ yielded' = Append(yielded, dataLines) /\ dataLines' = <<>>
              /\ read' = "none"
           \/ reader' = "yielding" /\ read' = "none" /\ UNCHANGED <<dataLines, yielded>>
           \/ /\ lines[taken + 1] \in Data
              /\ dataLines' = Append(dataLines, lines[taken + 1]) /\ read' = "pending"
              /\ UNCHANGED <<reader, yielded>>
           \/ read' = "pending" /\ UNCHANGED <<dataLines, reader, yielded>>
<1>. DEFINE line == lines[taken + 1]
<1>1. line \in Data => line # Blank /\ line # Comment
  BY ReaderAssumption
<1>2. CASE line = Blank /\ dataLines # <<>>
  BY <1>1, <1>2 DEF TakeLine, YieldEvent, IsData, Blank, Comment
<1>3. CASE line = Comment
  <2>1. line # Blank
    BY <1>3 DEF Comment, Blank
  <2>. QED
    BY <1>1, <1>3, <2>1 DEF TakeLine, YieldPing, IsData
<1>4. CASE line \in Data
  BY <1>1, <1>4 DEF TakeLine, IsData
<1>5. CASE ~(line = Blank /\ dataLines # <<>>) /\ line # Comment /\ line \notin Data
  BY <1>5 DEF TakeLine, IsData
<1>. QED
  BY <1>2, <1>3, <1>4, <1>5

LEMMA TakeLineType ==
    ASSUME LinesInv, TakeLine
    PROVE  LinesInv'
<1>1. /\ reader = "waiting" /\ read = "line" /\ taken' = taken + 1
      /\ UNCHANGED <<pings, lines, translator, closed>>
  BY DEF TakeLine
<1>2. taken + 1 = Len(lines) /\ taken \in Nat /\ taken + 1 \in 0..MaxLines
  BY <1>1, ReaderAssumption DEF LinesInv, TypeOK, OneLineAhead
<1>3. /\ read' \in {"none", "pending"} /\ reader' \in {"waiting", "yielding"}
      /\ dataLines' \in Seq(Data) /\ yielded' \in Seq(Seq(Data))
  <2>1. /\ dataLines \in Seq(Data) /\ yielded \in Seq(Seq(Data)) /\ <<>> \in Seq(Data)
        /\ Append(yielded, dataLines) \in Seq(Seq(Data))
    <3>1. \A S : \A s \in Seq(S), e \in S : Append(s, e) \in Seq(S)
      OBVIOUS
    <3>2. dataLines \in Seq(Data) /\ yielded \in Seq(Seq(Data)) /\ <<>> \in Seq(Data)
      BY DEF LinesInv, TypeOK
    <3>. QED
      BY <3>1, <3>2
  <2>2. lines[taken + 1] \in Data => Append(dataLines, lines[taken + 1]) \in Seq(Data)
    BY <2>1
  <2>. QED
    BY <1>1, <2>1, <2>2, TakenLine
<1>. QED
  BY <1>1, <1>2, <1>3 DEF LinesInv, TypeOK, OneLineAhead

LEMMA LinesStep ==
    ASSUME LinesInv, [Next]_vars
    PROVE  LinesInv'
<1>0. /\ TypeOK /\ Len(lines) <= MaxLines /\ OneLineAhead
  BY DEF LinesInv
<1>1. ASSUME NEW line \in Line, LineArrives(line) PROVE LinesInv'
  <2>1. lines' \in Seq(Line) /\ Len(lines') = Len(lines) + 1
    BY <1>0, <1>1 DEF TypeOK, LineArrives
  <2>. QED
    BY <1>0, <1>1, <2>1, ReaderAssumption DEF LineArrives, LinesInv, TypeOK, OneLineAhead
<1>2. ASSUME NEW how \in {"eof", "error"}, BodyEnds(how) PROVE LinesInv'
  BY <1>0, <1>2 DEF BodyEnds, LinesInv, TypeOK, OneLineAhead
<1>3. CASE Timeout
  BY <1>0, <1>3 DEF Timeout, YieldPing, LinesInv, TypeOK, OneLineAhead
<1>4. CASE TakeLine
  BY <1>4, TakeLineType
<1>5. CASE Flush
  <2>1. yielded' \in Seq(Seq(Data)) /\ dataLines' \in Seq(Data)
    BY <1>0, <1>5 DEF Flush, YieldEvent, TypeOK
  <2>. QED
    BY <1>0, <1>5, <2>1 DEF Flush, YieldEvent, LinesInv, TypeOK, OneLineAhead
<1>6. CASE Take
  BY <1>0, <1>6 DEF Take, Resume, ResumeLast, LinesInv, TypeOK, OneLineAhead
<1>7. CASE Finish \/ Raise \/ CloseResponse
  BY <1>0, <1>7 DEF Finish, Raise, CloseResponse, LinesInv, TypeOK, OneLineAhead
<1>8. CASE Cancel \/ Unwind
  BY <1>0, <1>8 DEF Cancel, Unwind, LinesInv, TypeOK, OneLineAhead
<1>9. CASE Abandon \/ FinalizeOuter \/ FinalizeInner
  BY <1>0, <1>9 DEF Abandon, FinalizeOuter, FinalizeInner, LinesInv, TypeOK, OneLineAhead
<1>10. CASE UNCHANGED vars
  BY <1>0, <1>10 DEF vars, LinesInv, TypeOK, OneLineAhead
<1>. QED
  BY <1>1, <1>2, <1>3, <1>4, <1>5, <1>6, <1>7, <1>8, <1>9, <1>10 DEF Next, Upstream, Loop

LEMMA SpecLines == Spec => []LinesInv
<1>1. ASSUME Init PROVE LinesInv
  <2>1. Len(lines) = 0 /\ taken \in 0..MaxLines
    BY <1>1, ReaderAssumption DEF Init
  <2>2. <<>> \in Seq(Line) /\ <<>> \in Seq(Data) /\ <<>> \in Seq(Seq(Data))
    OBVIOUS
  <2>3. Len(lines) <= MaxLines /\ OneLineAhead
    BY <1>1, <2>1, ReaderAssumption DEF Init, OneLineAhead
  <2>. QED
    BY <1>1, <2>1, <2>2, <2>3 DEF Init, LinesInv, TypeOK
<1>. QED
  BY <1>1, LinesStep, PTL DEF Spec

LEMMA ItsEndStep ==
    ASSUME ItsEnd, [Next]_vars
    PROVE  ItsEnd'
<1>1. CASE Upstream
  BY <1>1 DEF Upstream, LineArrives, BodyEnds, ItsEnd
<1>2. CASE Timeout
  BY <1>2 DEF Timeout, YieldPing, ItsEnd
<1>3. CASE TakeLine
  <2>1. reader = "waiting" /\ reader' \in {reader, "yielding"}
    BY <1>3, TakenLine DEF TakeLine
  <2>. QED
    BY <2>1 DEF ItsEnd
<1>4. CASE Flush
  BY <1>4 DEF Flush, YieldEvent, ItsEnd
<1>5. CASE Take
  BY <1>5 DEF Take, Resume, ResumeLast, ItsEnd
<1>6. CASE Finish \/ Raise \/ CloseResponse
  BY <1>6 DEF Finish, Raise, CloseResponse, ItsEnd
<1>7. CASE Cancel \/ Unwind
  BY <1>7 DEF Cancel, Unwind, ItsEnd
<1>8. CASE Abandon \/ FinalizeOuter \/ FinalizeInner
  BY <1>8 DEF Abandon, FinalizeOuter, FinalizeInner, ItsEnd
<1>9. CASE UNCHANGED vars
  BY <1>9 DEF vars, ItsEnd
<1>. QED
  BY <1>1, <1>2, <1>3, <1>4, <1>5, <1>6, <1>7, <1>8, <1>9 DEF Next, Loop

LEMMA SpecItsEnd == Spec => []ItsEnd
<1>1. Init => ItsEnd
  BY DEF Init, ItsEnd
<1>. QED
  BY <1>1, ItsEndStep, PTL DEF Spec

\* The variables of the reader keep their types.
THEOREM TypeCorrect == Spec => []TypeOK
<1>1. LinesInv => TypeOK
  BY DEF LinesInv
<1>. QED
  BY <1>1, SpecLines, PTL

\* However timeouts, lines, the end of the body and the translator's end
\* interleave, a line that was read is taken before the next is asked for, and an
\* iteration only comes to its end when the body was taken to its last line
\* (_lines_with_ping keeps the outstanding read over a timeout).
THEOREM LinesTaken == Spec => []NoLineSkipped
<1>1. LinesInv /\ ItsEnd => NoLineSkipped
  <2>. SUFFICES ASSUME LinesInv, ItsEnd PROVE NoLineSkipped
    OBVIOUS
  <2>1. ASSUME reader = "exhausted" PROVE read = "eof" /\ taken = Len(lines)
    BY <2>1 DEF ItsEnd, LinesInv, OneLineAhead
  <2>. QED
    BY <2>1 DEF LinesInv, OneLineAhead, NoLineSkipped
<1>. QED
  BY <1>1, SpecLines, SpecItsEnd, PTL

-----------------------------------------------------------------------------
(* The outstanding read.                                                   *)

\* When both generators are over, no read is left.
NoReadSurvives == Over => read \notin {"pending", "cancelling"}

\* A read that is being cancelled has a reader that waits for it, and a reader
\* that unwinds has cancelled its read.
CancelledBy ==
    /\ read = "cancelling" => reader = "unwinding"
    /\ reader = "unwinding" => read # "pending"

\* Cancelled, broken out of, at the end of the body or by an error: the reader
\* is not over before its outstanding read is (the finally clause of
\* _lines_with_ping).  This is the safety part of NothingLeftReading.
THEOREM ReadEndsWithReader == Spec => []NoReadSurvives
<1>. DEFINE ReadInv == NoReadSurvives /\ CancelledBy
<1>1. Init => ReadInv
  BY DEF Init, NoReadSurvives, Over, CancelledBy
<1>2. ReadInv /\ ItsEnd /\ [Next]_vars => ReadInv'
  <2>. SUFFICES ASSUME ReadInv, ItsEnd, [Next]_vars PROVE ReadInv'
    OBVIOUS
  <2>1. CASE Upstream
    BY <2>1 DEF Upstream, LineArrives, BodyEnds, NoReadSurvives, Over, CancelledBy
  <2>2. CASE TakeLine
    <3>1. reader' \in {"waiting", "yielding"} /\ read' \in {"none", "pending"}
      BY <2>2, TakenLine DEF TakeLine
    <3>. QED
      BY <3>1 DEF NoReadSurvives, Over, CancelledBy
  <2>3. CASE Timeout \/ Flush
    BY <2>3 DEF Timeout, Flush, YieldPing, YieldEvent, NoReadSurvives, Over, CancelledBy
  <2>4. CASE Take \/ Finish \/ Raise \/ CloseResponse
    BY <2>4 DEF Take, Resume, ResumeLast, Finish, Raise, CloseResponse, ItsEnd, NoReadSurvives, Over, CancelledBy
  <2>5. CASE Cancel \/ Unwind
    BY <2>5 DEF Cancel, Unwind, NoReadSurvives, Over, CancelledBy
  <2>6. CASE Abandon \/ FinalizeOuter \/ FinalizeInner
    BY <2>6 DEF Abandon, FinalizeOuter, FinalizeInner, NoReadSurvives, Over, CancelledBy
  <2>7. CASE UNCHANGED vars
    BY <2>7 DEF vars, NoReadSurvives, Over, CancelledBy
  <2>. QED
    BY <2>1, <2>2, <2>3, <2>4, <2>5, <2>6, <2>7 DEF Next, Loop
<1>3. ReadInv => NoReadSurvives
  OBVIOUS
<1>. QED
  BY <1>1, <1>2, <1>3, SpecItsEnd, PTL DEF Spec

-----------------------------------------------------------------------------
(* The events of the lines, and what one line more adds to them.           *)

\* The payload of each line before line i that the open event holds.
OpenParts(ls, i) ==
    [j \in 1..(i - 1) |->
        IF ls[j] \in Data /\ \A k \in j..(i - 1) : ls[k] # Blank THEN <<ls[j]>> ELSE <<>>]

\* The event each line ends.
EndedParts(ls) ==
    [i \in 1..Len(ls) |->
        IF ls[i] = Blank /\ OpenAt(ls, i) # <<>> THEN <<OpenAt(ls, i)>> ELSE <<>>]

\* The event that is open after ls, and the one a blank line would end.
Open(ls) == OpenAt(ls, Len(ls) + 1)
LastEvent(ls) == IF Open(ls) = <<>> THEN <<>> ELSE <<Open(ls)>>

\* A line more, as its elements.
LEMMA LineMore ==
    ASSUME NEW ls \in Seq(Line), NEW x \in Line
    PROVE  /\ Append(ls, x) \in Seq(Line) /\ Len(Append(ls, x)) = Len(ls) + 1
           /\ Append(ls, x)[Len(ls) + 1] = x
           /\ \A i \in 1..Len(ls) : Append(ls, x)[i] = ls[i]
OBVIOUS

\* A function on 1..n with sequences for values is a sequence of sequences.
LEMMA PartsAreSeq ==
    ASSUME NEW S, NEW n \in Nat, NEW f, f = [j \in 1..n |-> f[j]], \A j \in 1..n : f[j] \in Seq(S)
    PROVE  f \in Seq(Seq(S)) /\ Len(f) = n
OBVIOUS

\* The parts of an event are sequences of payloads.
LEMMA OpenPartsType ==
    ASSUME NEW ls \in Seq(Line), NEW n \in Nat
    PROVE  OpenParts(ls, n + 1) \in Seq(Seq(Data)) /\ Len(OpenParts(ls, n + 1)) = n
<1>1. PICK f : f = OpenParts(ls, n + 1)
  OBVIOUS
<1>2. f = [j \in 1..n |-> f[j]]
  <2>1. (n + 1) - 1 = n
    OBVIOUS
  <2>. QED
    BY <1>1, <2>1 DEF OpenParts
<1>3. \A j \in 1..n : f[j] \in Seq(Data)
  <2>1. \A d \in Data : <<d>> \in Seq(Data)
    OBVIOUS
  <2>2. <<>> \in Seq(Data)
    OBVIOUS
  <2>3. (n + 1) - 1 = n
    OBVIOUS
  <2>. QED
    BY <1>1, <2>1, <2>2, <2>3 DEF OpenParts
<1>4. f \in Seq(Seq(Data)) /\ Len(f) = n
  BY <1>2, <1>3, PartsAreSeq
<1>. QED
  BY <1>1, <1>4

LEMMA OpenAtType ==
    ASSUME NEW ls \in Seq(Line), NEW n \in Nat
    PROVE  OpenAt(ls, n + 1) \in Seq(Data)
<1>1. OpenAt(ls, n + 1) = FlattenSeq(OpenParts(ls, n + 1))
  BY DEF OpenAt, OpenParts
<1>. QED
  BY <1>1, OpenPartsType, FlattenType

\* What is open before a line does not depend on that line or on later ones.
LEMMA OpenAtKept ==
    ASSUME NEW ls \in Seq(Line), NEW x \in Line, NEW i \in 1..(Len(ls) + 1)
    PROVE  OpenAt(Append(ls, x), i) = OpenAt(ls, i)
<1>1. \A j \in 1..(i - 1) : j \in 1..Len(ls) /\ Append(ls, x)[j] = ls[j]
  BY LineMore
<1>2. \A j \in 1..(i - 1) : \A k \in j..(i - 1) : k \in 1..(i - 1)
  OBVIOUS
<1>3. OpenParts(Append(ls, x), i) = OpenParts(ls, i)
  <2>1. \A j \in 1..(i - 1) :
           (\A k \in j..(i - 1) : Append(ls, x)[k] # Blank) <=> (\A k \in j..(i - 1) : ls[k] # Blank)
    BY <1>1, <1>2
  <2>. QED
    BY <1>1, <2>1 DEF OpenParts
<1>. QED
  BY <1>3 DEF OpenAt, OpenParts

\* A line that is not blank adds its payload, if it has one, to the open event.
LEMMA OpenGrows ==
    ASSUME NEW ls \in Seq(Line), NEW x \in Line, x # Blank
    PROVE  Splits(Open(Append(ls, x)), Open(ls), IF x \in Data THEN <<x>> ELSE <<>>)
<1>1. PICK n \in Nat : n = Len(ls)
  OBVIOUS
<1>2. PICK mm : mm = Append(ls, x)
  OBVIOUS
<1>3. mm \in Seq(Line) /\ Len(mm) = n + 1 /\ mm[n + 1] = x /\ \A i \in 1..n : mm[i] = ls[i]
  BY <1>1, <1>2, LineMore
<1>4. PICK ff : ff = OpenParts(ls, n + 1)
  OBVIOUS
<1>5. PICK gg : gg = OpenParts(mm, (n + 1) + 1)
  OBVIOUS
<1>6. /\ ff \in Seq(Seq(Data)) /\ Len(ff) = n
      /\ gg \in Seq(Seq(Data)) /\ Len(gg) = n + 1
  <2>1. n + 1 \in Nat
    OBVIOUS
  <2>. QED
    BY <1>3, <1>4, <1>5, <2>1, OpenPartsType
<1>7. \A i \in 1..Len(ff) : gg[i] = ff[i]
  <2>. SUFFICES ASSUME NEW i \in 1..n PROVE gg[i] = ff[i]
    BY <1>6
  <2>1. i \in 1..(n + 1) /\ mm[i] = ls[i] /\ (n + 1) - 1 = n /\ ((n + 1) + 1) - 1 = n + 1
    BY <1>3
  <2>2. (\A k \in i..(n + 1) : mm[k] # Blank) <=> (\A k \in i..n : ls[k] # Blank)
    <3>1. \A k \in i..(n + 1) : k = n + 1 \/ k \in i..n
      OBVIOUS
    <3>2. \A k \in i..n : k \in i..(n + 1) /\ k \in 1..n
      OBVIOUS
    <3>. QED
      BY <1>3, <3>1, <3>2
  <2>3. gg[i] = IF mm[i] \in Data /\ \A k \in i..(n + 1) : mm[k] # Blank THEN <<mm[i]>> ELSE <<>>
    BY <1>5, <2>1 DEF OpenParts
  <2>4. ff[i] = IF ls[i] \in Data /\ \A k \in i..n : ls[k] # Blank THEN <<ls[i]>> ELSE <<>>
    BY <1>4, <2>1 DEF OpenParts
  <2>. QED
    BY <2>1, <2>2, <2>3, <2>4
<1>8. PICK t \in Seq(Data) : t = IF x \in Data THEN <<x>> ELSE <<>>
  <2>1. x \in Data => <<x>> \in Seq(Data)
    OBVIOUS
  <2>2. <<>> \in Seq(Data)
    OBVIOUS
  <2>. QED
    BY <2>1, <2>2
<1>9. gg[Len(ff) + 1] = t
  <2>1. n + 1 \in 1..(n + 1) /\ ((n + 1) + 1) - 1 = n + 1 /\ \A k \in (n + 1)..(n + 1) : k = n + 1
    OBVIOUS
  <2>2. gg[n + 1] = IF mm[n + 1] \in Data /\ \A k \in (n + 1)..(n + 1) : mm[k] # Blank
                    THEN <<mm[n + 1]>> ELSE <<>>
    BY <1>5, <2>1 DEF OpenParts
  <2>. QED
    BY <1>3, <1>6, <1>8, <2>1, <2>2
<1>10. Splits(FlattenSeq(gg), FlattenSeq(ff), t)
  <2>1. Len(gg) = Len(ff) + 1
    BY <1>6
  <2>. QED
    BY <1>6, <1>7, <1>9, <2>1, FlattenMore
<1>11. Open(mm) = FlattenSeq(gg) /\ Open(ls) = FlattenSeq(ff)
  BY <1>1, <1>3, <1>4, <1>5 DEF Open, OpenAt, OpenParts
<1>. QED
  BY <1>2, <1>8, <1>10, <1>11

\* After a blank line no event is open.
LEMMA OpenEnds ==
    ASSUME NEW ls \in Seq(Line)
    PROVE  Open(Append(ls, Blank)) = <<>>
<1>1. PICK n \in Nat : n = Len(ls)
  OBVIOUS
<1>2. PICK mm : mm = Append(ls, Blank)
  OBVIOUS
<1>3. mm \in Seq(Line) /\ Len(mm) = n + 1 /\ mm[n + 1] = Blank
  <2>1. Blank \in Line
    BY DEF Line
  <2>. QED
    BY <1>1, <1>2, <2>1, LineMore
<1>4. PICK gg : gg = OpenParts(mm, (n + 1) + 1)
  OBVIOUS
<1>5. gg \in Seq(Seq(Data)) /\ Len(gg) = n + 1
  <2>1. n + 1 \in Nat
    OBVIOUS
  <2>. QED
    BY <1>3, <1>4, <2>1, OpenPartsType
<1>6. \A i \in 1..Len(gg) : gg[i] = <<>>
  <2>. SUFFICES ASSUME NEW i \in 1..(n + 1) PROVE gg[i] = <<>>
    BY <1>5
  <2>1. n + 1 \in i..(n + 1) /\ ((n + 1) + 1) - 1 = n + 1
    OBVIOUS
  <2>2. ~ \A k \in i..(n + 1) : mm[k] # Blank
    BY <1>3, <2>1
  <2>. QED
    BY <1>4, <2>1, <2>2 DEF OpenParts
<1>7. FlattenSeq(gg) = <<>>
  BY <1>5, <1>6, FlattenNothing
<1>8. Open(mm) = FlattenSeq(gg)
  BY <1>3, <1>4 DEF Open, OpenAt, OpenParts
<1>. QED
  BY <1>2, <1>7, <1>8

\* The events ended by lines are sequences of payloads.
LEMMA EndedPartsType ==
    ASSUME NEW ls \in Seq(Line)
    PROVE  /\ EndedParts(ls) \in Seq(Seq(Seq(Data))) /\ Len(EndedParts(ls)) = Len(ls)
           /\ EndedIn(ls) = FlattenSeq(EndedParts(ls))
<1>1. PICK f : f = EndedParts(ls)
  OBVIOUS
<1>2. PICK n \in Nat : n = Len(ls)
  OBVIOUS
<1>3. f = [j \in 1..n |-> f[j]]
  BY <1>1, <1>2 DEF EndedParts
<1>4. \A j \in 1..n : f[j] \in Seq(Seq(Data))
  <2>. SUFFICES ASSUME NEW j \in 1..n PROVE f[j] \in Seq(Seq(Data))
    OBVIOUS
  <2>1. OpenAt(ls, j) \in Seq(Data)
    <3>1. j - 1 \in Nat /\ (j - 1) + 1 = j
      OBVIOUS
    <3>. QED
      BY <3>1, OpenAtType
  <2>2. \A d \in Seq(Data) : <<d>> \in Seq(Seq(Data))
    OBVIOUS
  <2>3. <<>> \in Seq(Seq(Data))
    OBVIOUS
  <2>. QED
    BY <1>1, <1>2, <2>1, <2>2, <2>3 DEF EndedParts
<1>5. f \in Seq(Seq(Seq(Data))) /\ Len(f) = n
  BY <1>3, <1>4, PartsAreSeq
<1>. QED
  BY <1>1, <1>2, <1>5 DEF EndedIn, EndedParts

\* A blank line ends the open event, no other line ends one.
LEMMA EndedGrows ==
    ASSUME NEW ls \in Seq(Line), NEW x \in Line
    PROVE  Splits(EndedIn(Append(ls, x)), EndedIn(ls), IF x = Blank THEN LastEvent(ls) ELSE <<>>)
<1>1. PICK n \in Nat : n = Len(ls)
  OBVIOUS
<1>2. PICK mm : mm = Append(ls, x)
  OBVIOUS
<1>3. mm \in Seq(Line) /\ Len(mm) = n + 1 /\ mm[n + 1] = x /\ \A i \in 1..n : mm[i] = ls[i]
  BY <1>1, <1>2, LineMore
<1>4. PICK ff : ff = EndedParts(ls)
  OBVIOUS
<1>5. PICK gg : gg = EndedParts(mm)
  OBVIOUS
<1>6. /\ ff \in Seq(Seq(Seq(Data))) /\ Len(ff) = n /\ EndedIn(ls) = FlattenSeq(ff)
      /\ gg \in Seq(Seq(Seq(Data))) /\ Len(gg) = n + 1 /\ EndedIn(mm) = FlattenSeq(gg)
  BY <1>1, <1>3, <1>4, <1>5, EndedPartsType
<1>7. \A i \in 1..Len(ff) : gg[i] = ff[i]
  <2>. SUFFICES ASSUME NEW i \in 1..n PROVE gg[i] = ff[i]
    BY <1>6
  <2>1. i \in 1..(n + 1) /\ mm[i] = ls[i]
    BY <1>3
  <2>2. OpenAt(mm, i) = OpenAt(ls, i)
    BY <1>1, <1>2, <2>1, OpenAtKept
  <2>. QED
    BY <1>1, <1>3, <1>4, <1>5, <2>1, <2>2 DEF EndedParts
<1>8. Open(ls) \in Seq(Data) /\ OpenAt(mm, n + 1) = Open(ls)
  <2>1. n + 1 \in 1..(Len(ls) + 1)
    BY <1>1
  <2>. QED
    BY <1>1, <1>2, <2>1, OpenAtKept, OpenAtType DEF Open
<1>9. PICK t \in Seq(Seq(Data)) : t = IF x = Blank THEN LastEvent(ls) ELSE <<>>
  <2>1. <<Open(ls)>> \in Seq(Seq(Data)) /\ <<>> \in Seq(Seq(Data))
    BY <1>8
  <2>. QED
    BY <2>1 DEF LastEvent
<1>10. gg[Len(ff) + 1] = t
  <2>1. n + 1 \in 1..(n + 1)
    OBVIOUS
  <2>2. gg[n + 1] = IF mm[n + 1] = Blank /\ OpenAt(mm, n + 1) # <<>>
                    THEN <<OpenAt(mm, n + 1)>> ELSE <<>>
    BY <1>3, <1>5, <2>1 DEF EndedParts
  <2>. QED
    BY <1>3, <1>6, <1>8, <1>9, <2>2 DEF LastEvent
<1>11. Splits(FlattenSeq(gg), FlattenSeq(ff), t)
  <2>1. Len(gg) = Len(ff) + 1
    BY <1>6
  <2>. QED
    BY <1>6, <1>7, <1>10, <2>1, FlattenMore
<1>. QED
  BY <1>2, <1>6, <1>9, <1>11

-----------------------------------------------------------------------------
(* The events that are yielded are the events of the lines.                *)

\* The lines that were taken.
Taken == SubSeq(lines, 1, taken)

\* The strengthening: until the end of the body the open event of the lines is
\* what is being assembled; after it was flushed, it has been yielded.
EventsInv ==
    \/ yielded = EndedIn(Taken) /\ dataLines = Open(Taken)
    \/ /\ read = "eof" /\ dataLines = <<>>
       /\ Splits(yielded, EndedIn(Taken), LastEvent(Taken))

\* A line that is taken is the next one.
LEMMA TakenMore ==
    ASSUME LinesInv, TakeLine
    PROVE  /\ Taken \in Seq(Line) /\ lines[taken + 1] \in Line
           /\ Taken' = Append(Taken, lines[taken + 1])
<1>1. read = "line" /\ taken' = taken + 1 /\ lines' = lines
  BY DEF TakeLine
<1>2. lines \in Seq(Line) /\ taken \in Nat /\ taken + 1 \in 1..Len(lines)
  BY <1>1, ReaderAssumption DEF LinesInv, TypeOK, OneLineAhead
<1>3. \A S : \A s \in Seq(S), n \in Nat :
         n + 1 \in 1..Len(s) =>
            /\ SubSeq(s, 1, n) \in Seq(S) /\ s[n + 1] \in S
            /\ SubSeq(s, 1, n + 1) = Append(SubSeq(s, 1, n), s[n + 1])
  OBVIOUS
<1>. QED
  BY <1>1, <1>2, <1>3 DEF Taken

\* Lines that arrive do not change the ones that were taken.
LEMMA TakenKept ==
    ASSUME LinesInv, NEW line \in Line, LineArrives(line)
    PROVE  Taken' = Taken
<1>1. read = "pending" /\ taken' = taken /\ lines' = Append(lines, line)
  BY DEF LineArrives
<1>2. lines \in Seq(Line) /\ taken \in Nat /\ taken = Len(lines)
  BY <1>1, ReaderAssumption DEF LinesInv, TypeOK, OneLineAhead
<1>3. \A S : \A s \in Seq(S), e \in S, n \in Nat :
         n = Len(s) => SubSeq(Append(s, e), 1, n) = SubSeq(s, 1, n)
  OBVIOUS
<1>. QED
  BY <1>1, <1>2, <1>3 DEF Taken

\* What the last event of the lines becomes, by what line is taken.
LEMMA TakeLineEvents ==
    ASSUME LinesInv, EventsInv, TakeLine
    PROVE  EventsInv'
<1>0. read = "line" /\ ~(read = "eof")
  BY DEF TakeLine
<1>1. yielded = EndedIn(Taken) /\ dataLines = Open(Taken)
  BY <1>0 DEF EventsInv
<1>2. PICK ls \in Seq(Line) : ls = Taken
  BY TakenMore
<1>3. PICK x \in Line : x = lines[taken + 1]
  BY TakenMore
<1>4. PICK mm : mm = Append(ls, x)
  OBVIOUS
<1>5. Taken' = mm
  BY <1>2, <1>3, <1>4, TakenMore
<1>6. Splits(EndedIn(mm), EndedIn(ls), IF x = Blank THEN LastEvent(ls) ELSE <<>>)
  BY <1>4, EndedGrows
<1>7. /\ EndedIn(ls) \in Seq(Seq(Data)) /\ EndedIn(ls) \o <<>> = EndedIn(ls)
      /\ Open(ls) \in Seq(Data) /\ Open(ls) \o <<>> = Open(ls)
  <2>1. EndedIn(ls) \in Seq(Seq(Data))
    BY EndedPartsType, FlattenType
  <2>2. Open(ls) \in Seq(Data)
    BY OpenAtType DEF Open
  <2>3. \A S : \A s \in Seq(S) : s \o <<>> = s
    OBVIOUS
  <2>. QED
    BY <2>1, <2>2, <2>3
<1>8. yielded' = EndedIn(mm) /\ dataLines' = Open(mm)
  <2>1. CASE x = Blank /\ dataLines # <<>>
    <3>1. yielded' = Append(yielded, dataLines) /\ dataLines' = <<>>
      <4>1. x # Comment /\ ~IsData(x)
        BY <2>1, ReaderAssumption DEF Blank, Comment, IsData
      <4>. QED
        BY <1>3, <2>1, <4>1 DEF TakeLine, YieldEvent
    <3>2. Open(mm) = <<>>
      BY <1>4, <2>1, OpenEnds
    <3>3. EndedIn(mm) = EndedIn(ls) \o <<Open(ls)>>
      BY <1>1, <1>2, <1>6, <2>1 DEF Splits, LastEvent
    <3>4. Append(EndedIn(ls), Open(ls)) = EndedIn(ls) \o <<Open(ls)>>
      <4>1. \A S : \A s \in Seq(S), e \in S : Append(s, e) = s \o <<e>>
        OBVIOUS
      <4>. QED
        BY <1>7, <4>1
    <3>. QED
      BY <1>1, <1>2, <3>1, <3>2, <3>3, <3>4
  <2>2. CASE x = Blank /\ dataLines = <<>>
    <3>1. UNCHANGED <<dataLines, yielded>>
      <4>1. x # Comment /\ ~IsData(x)
        BY <2>2, ReaderAssumption DEF Blank, Comment, IsData
      <4>. QED
        BY <1>3, <2>2, <4>1 DEF TakeLine
    <3>2. Open(mm) = <<>>
      BY <1>4, <2>2, OpenEnds
    <3>3. EndedIn(mm) = EndedIn(ls)
      BY <1>1, <1>2, <1>6, <1>7, <2>2 DEF Splits, LastEvent
    <3>. QED
      BY <1>1, <1>2, <2>2, <3>1, <3>2, <3>3
  <2>3. CASE x \in Data
    <3>1. x # Blank /\ x # Comment
      BY <2>3, ReaderAssumption
    <3>2. dataLines' = Append(dataLines, x) /\ yielded' = yielded
      BY <1>3, <2>3, <3>1 DEF TakeLine, IsData
    <3>3. Open(mm) = Open(ls) \o <<x>>
      BY <1>4, <2>3, <3>1, OpenGrows DEF Splits
    <3>4. Append(Open(ls), x) = Open(ls) \o <<x>>
      BY <1>7, <2>3
    <3>5. EndedIn(mm) = EndedIn(ls)
      BY <1>6, <1>7, <3>1 DEF Splits
    <3>. QED
      BY <1>1, <1>2, <3>2, <3>3, <3>4, <3>5
  <2>4. CASE x # Blank /\ x \notin Data
    <3>1. UNCHANGED <<dataLines, yielded>>
      <4>1. CASE x = Comment
        BY <1>3, <2>4, <4>1 DEF TakeLine, YieldPing, IsData
      <4>2. CASE x # Comment
        BY <1>3, <2>4, <4>2 DEF TakeLine, IsData
      <4>. QED
        BY <4>1, <4>2
    <3>2. Open(mm) = Open(ls)
      BY <1>4, <1>7, <2>4, OpenGrows DEF Splits
    <3>3. EndedIn(mm) = EndedIn(ls)
      BY <1>6, <1>7, <2>4 DEF Splits
    <3>. QED
      BY <1>1, <1>2, <3>1, <3>2, <3>3
  <2>. QED
    BY <2>1, <2>2, <2>3, <2>4
<1>. QED
  BY <1>5, <1>8 DEF EventsInv

\* The end of the body: the open event is yielded.
LEMMA FlushEvents ==
    ASSUME LinesInv, EventsInv, Flush
    PROVE  EventsInv'
<1>1. /\ read' = "eof" /\ dataLines # <<>> /\ yielded' = Append(yielded, dataLines)
      /\ dataLines' = <<>> /\ lines' = lines /\ taken' = taken
  BY DEF Flush, YieldEvent
<1>2. yielded = EndedIn(Taken) /\ dataLines = Open(Taken)
  BY <1>1 DEF EventsInv
<1>3. Append(yielded, dataLines) = yielded \o <<dataLines>>
  <2>1. yielded \in Seq(Seq(Data)) /\ dataLines \in Seq(Data)
    BY DEF LinesInv, TypeOK
  <2>2. \A S : \A s \in Seq(S), e \in S : Append(s, e) = s \o <<e>>
    OBVIOUS
  <2>. QED
    BY <2>1, <2>2
<1>4. PICK ls : ls = Taken
  OBVIOUS
<1>5. Taken' = ls
  BY <1>1, <1>4 DEF Taken
<1>6. Splits(yielded', EndedIn(ls), LastEvent(ls))
  BY <1>1, <1>2, <1>3, <1>4 DEF Splits, LastEvent
<1>. QED
  BY <1>1, <1>5, <1>6 DEF EventsInv

LEMMA EventsStep ==
    ASSUME LinesInv, EventsInv, [Next]_vars
    PROVE  EventsInv'
<1>1. ASSUME NEW line \in Line, LineArrives(line) PROVE EventsInv'
  <2>1. Taken' = Taken
    BY <1>1, TakenKept
  <2>2. read # "eof" /\ UNCHANGED <<dataLines, yielded>>
    BY <1>1 DEF LineArrives
  <2>3. yielded = EndedIn(Taken) /\ dataLines = Open(Taken)
    BY <2>2 DEF EventsInv
  <2>4. PICK ls : ls = Taken
    OBVIOUS
  <2>5. yielded' = EndedIn(ls) /\ dataLines' = Open(ls) /\ Taken' = ls
    BY <2>1, <2>2, <2>3, <2>4
  <2>. QED
    BY <2>5 DEF EventsInv
<1>2. CASE TakeLine
  BY <1>2, TakeLineEvents
<1>3. CASE Flush
  BY <1>3, FlushEvents
<1>4. ASSUME UNCHANGED <<lines, taken, dataLines, yielded>>, read = "eof" => read' = "eof"
      PROVE  EventsInv'
  <2>1. PICK ls : ls = Taken
    OBVIOUS
  <2>2. Taken' = ls
    BY <1>4, <2>1 DEF Taken
  <2>3. CASE yielded = EndedIn(ls) /\ dataLines = Open(ls)
    BY <1>4, <2>2, <2>3 DEF EventsInv
  <2>4. CASE read = "eof" /\ dataLines = <<>> /\ Splits(yielded, EndedIn(ls), LastEvent(ls))
    BY <1>4, <2>2, <2>4 DEF EventsInv, Splits
  <2>. QED
    BY <2>1, <2>3, <2>4 DEF EventsInv
<1>5. ASSUME NEW how \in {"eof", "error"}, BodyEnds(how) PROVE EventsInv'
  BY <1>4, <1>5 DEF BodyEnds
<1>6. CASE Timeout
  BY <1>4, <1>6 DEF Timeout, YieldPing
<1>7. CASE Take
  BY <1>4, <1>7 DEF Take, Resume, ResumeLast
<1>8. CASE Finish \/ Raise \/ CloseResponse
  BY <1>4, <1>8 DEF Finish, Raise, CloseResponse
<1>9. CASE Cancel \/ Unwind
  BY <1>4, <1>9 DEF Cancel, Unwind
<1>10. CASE Abandon \/ FinalizeOuter \/ FinalizeInner
  BY <1>4, <1>10 DEF Abandon, FinalizeOuter, FinalizeInner
<1>11. CASE UNCHANGED vars
  BY <1>4, <1>11 DEF vars
<1>. QED
  BY <1>1, <1>2, <1>3, <1>5, <1>6, <1>7, <1>8, <1>9, <1>10, <1>11 DEF Next, Upstream, Loop

\* What was yielded and what is being assembled are the events of the lines
\* taken: no interleaving of timeouts, slow lines, the end of the body and the
\* translator's end loses, repeats, splits or reorders one, and an iteration that
\* came to its end has yielded them all (iter_sse_data).
THEOREM EventsArrive == Spec => []EventsDelivered
<1>1. Init => EventsInv
  <2>. SUFFICES ASSUME Init PROVE EventsInv
    OBVIOUS
  <2>1. Taken = <<>>
    BY DEF Init, Taken
  <2>2. <<>> \in Seq(Line) /\ Len(<<>>) = 0
    OBVIOUS
  <2>3. Open(<<>>) = <<>>
    <3>1. OpenParts(<<>>, 0 + 1) \in Seq(Seq(Data)) /\ Len(OpenParts(<<>>, 0 + 1)) = 0
      BY <2>2, OpenPartsType
    <3>2. FlattenSeq(OpenParts(<<>>, 0 + 1)) = <<>>
      BY <3>1, FlattenNothing
    <3>. QED
      BY <2>2, <3>2 DEF Open, OpenAt, OpenParts
  <2>4. EndedIn(<<>>) = <<>>
    <3>1. EndedParts(<<>>) \in Seq(Seq(Seq(Data))) /\ Len(EndedParts(<<>>)) = 0
          /\ EndedIn(<<>>) = FlattenSeq(EndedParts(<<>>))
      BY <2>2, EndedPartsType
    <3>2. FlattenSeq(EndedParts(<<>>)) = <<>>
      BY <3>1, FlattenNothing
    <3>. QED
      BY <3>1, <3>2
  <2>. QED
    BY <2>1, <2>3, <2>4 DEF Init, EventsInv
<1>2. LinesInv /\ EventsInv /\ ItsEnd => EventsDelivered
  <2>. SUFFICES ASSUME LinesInv, EventsInv, ItsEnd PROVE EventsDelivered
    OBVIOUS
  <2>1. PICK ls \in Seq(Line) : ls = Taken
    <3>1. lines \in Seq(Line) /\ taken \in 0..Len(lines)
      BY ReaderAssumption DEF LinesInv, TypeOK, OneLineAhead
    <3>2. \A S : \A s \in Seq(S) : \A n \in 0..Len(s) : SubSeq(s, 1, n) \in Seq(S)
      OBVIOUS
    <3>. QED
      BY <3>1, <3>2 DEF Taken
  <2>2. Splits(EndedIn(Append(ls, Blank)), EndedIn(ls), LastEvent(ls))
    <3>1. Blank \in Line
      BY DEF Line
    <3>. QED
      BY <3>1, EndedGrows
  <2>3. CASE yielded = EndedIn(ls) /\ dataLines = Open(ls)
    BY <2>1, <2>2, <2>3 DEF EventsDelivered, ItsEnd, Splits, LastEvent, Taken
  <2>4. CASE read = "eof" /\ dataLines = <<>> /\ Splits(yielded, EndedIn(ls), LastEvent(ls))
    <3>1. yielded \o <<>> = yielded
      <4>1. yielded \in Seq(Seq(Data))
        BY DEF LinesInv, TypeOK
      <4>2. \A S : \A s \in Seq(S) : s \o <<>> = s
        OBVIOUS
      <4>. QED
        BY <4>1, <4>2
    <3>. QED
      BY <2>1, <2>2, <2>4, <3>1 DEF EventsDelivered, ItsEnd, Splits, Taken
  <2>. QED
    BY <2>1, <2>3, <2>4 DEF EventsInv
<1>. QED
  BY <1>1, <1>2, EventsStep, SpecLines, SpecItsEnd, PTL DEF Spec
================================================================================
