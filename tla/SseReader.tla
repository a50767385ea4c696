------------------------------- MODULE SseReader -------------------------------
(***************************************************************************)
(* iter_sse_data over _lines_with_ping (streaming.py): one task reads the  *)
(* next line of the upstream body while the reader waits for it with the   *)
(* ping interval as timeout.  The translator that iterates over the        *)
(* payloads may go away at any time:                                       *)
(*   - cancelled while it awaits: both generators unwind at once;          *)
(*   - broken out of, or closed, while it holds an item: the generators    *)
(*     stay suspended until the event loop finalizes the outer one and     *)
(*     then the inner one, concurrently with response.aclose().            *)
(***************************************************************************)
EXTENDS Integers, Sequences, SequencesExt

CONSTANTS Data,      \* payloads of data lines
          MaxLines   \* bound: lines the upstream sends

\* What a line is to the reader: a data line, the blank line that ends an
\* event, a comment, or a field it ignores.
Blank   == "blank"
Comment == "comment"
Ignored == "ignored"

ASSUME ReaderAssumption ==
    /\ Data \cap {Blank, Comment, Ignored} = {}
    /\ MaxLines \in Nat

Line == Data \cup {Blank, Comment, Ignored}

\* Mutant: every other line is taken for data.
IsNotSpecial(line) == line \notin {Blank, Comment}

\* line.startswith("data:")
IsData(line) == line \in Data

VARIABLES
    pings,       \* ping_interval > 0, never changed
    lines,       \* history: the lines the upstream has sent
    read,        \* the outstanding read: "none", "pending", "line", "eof",
                 \* "error", "cancelling" or "cancelled"
    taken,       \* lines handed to iter_sse_data
    dataLines,   \* data_lines, the event being assembled
    yielded,     \* history: the events yielded (pings are not kept)
    reader,      \* "waiting"; holding an item: "yielding", "flushed" (the last
                 \* one); leaving: "unwinding", "abandoned", "orphaned"; over:
                 \* "exhausted" (iterated to the end) or "ended"
    translator,  \* "running", "closing" or "done"
    closed       \* response.aclose() was called

vars == <<pings, lines, read, taken, dataLines, yielded, reader, translator, closed>>

Init ==
    /\ pings \in BOOLEAN
    /\ lines = <<>> /\ read = "pending" /\ taken = 0 /\ dataLines = <<>> /\ yielded = <<>>
    /\ reader = "waiting" /\ translator = "running" /\ closed = FALSE

-----------------------------------------------------------------------------
(* The upstream answers the outstanding read.                              *)

LineArrives(line) ==
    /\ read = "pending" /\ ~closed /\ Len(lines) < MaxLines
    /\ lines' = Append(lines, line)
    /\ read' = "line"
    /\ UNCHANGED <<pings, taken, dataLines, yielded, reader, translator, closed>>

BodyEnds(how) ==
    /\ read = "pending" /\ (closed => how = "error")
    /\ read' = how
    /\ UNCHANGED <<pings, lines, taken, dataLines, yielded, reader, translator, closed>>

-----------------------------------------------------------------------------
(* The reader.                                                             *)

YieldPing == reader' = "yielding" /\ UNCHANGED yielded

\* Mutant: data_lines is not cleared.
YieldEventAgain == yielded' = Append(yielded, dataLines) /\ UNCHANGED dataLines

YieldEvent == yielded' = Append(yielded, dataLines) /\ dataLines' = <<>>

\* Mutant: no ping inside an event.
TimeoutBetweenEvents ==
    /\ pings /\ reader = "waiting" /\ read = "pending" /\ dataLines = <<>>
    /\ YieldPing
    /\ UNCHANGED <<pings, lines, read, taken, dataLines, translator, closed>>

\* The timeout of asyncio.wait: the read stays outstanding.
Timeout ==
    /\ pings /\ reader = "waiting" /\ read = "pending"
    /\ YieldPing
    /\ UNCHANGED <<pings, lines, read, taken, dataLines, translator, closed>>

\* A line is taken.  The next read starts when the generator is resumed: at
\* once unless the line makes iter_sse_data yield.
TakeLine ==
    /\ reader = "waiting" /\ read = "line"
    /\ taken' = taken + 1
    /\ LET line == lines[taken + 1]
       IN  CASE line = Blank /\ dataLines # <<>> ->
                  YieldEvent /\ reader' = "yielding" /\ read' = "none"
             [] line = Comment ->
                  YieldPing /\ read' = "none" /\ UNCHANGED dataLines
             [] IsData(line) ->
                  /\ dataLines' = Append(dataLines, line) /\ read' = "pending"
                  /\ UNCHANGED <<reader, yielded>>
             [] OTHER -> read' = "pending" /\ UNCHANGED <<dataLines, reader, yielded>>
    /\ UNCHANGED <<pings, lines, translator, closed>>

\* Mutant: a new read is started although one is outstanding.
ResumeAnew ==
    /\ reader = "yielding"
    /\ reader' = "waiting"
    /\ read' = IF read \in {"none", "line"} THEN "pending" ELSE read
    /\ UNCHANGED <<pings, lines, taken, dataLines, yielded, translator, closed>>

\* Mutant: the end of the body, found when the generator is resumed inside an
\* event, is not acted on.
ResumeBeforeEnd ==
    /\ reader = "yielding" /\ (read = "eof" => dataLines = <<>>)
    /\ reader' = "waiting"
    /\ read' = IF read = "none" THEN "pending" ELSE read
    /\ UNCHANGED <<pings, lines, taken, dataLines, yielded, translator, closed>>

\* The client asks for more.  Whatever became of the read in the meantime is found
\* by the wait that follows.
Resume ==
    /\ reader = "yielding"
    /\ reader' = "waiting"
    /\ read' = IF read = "none" THEN "pending" ELSE read
    /\ UNCHANGED <<pings, lines, taken, dataLines, yielded, translator, closed>>

\* The end of the body: what is assembled is yielded without its blank line.
Flush ==
    /\ reader = "waiting" /\ read = "eof" /\ dataLines # <<>>
    /\ YieldEvent /\ reader' = "flushed"
    /\ UNCHANGED <<pings, lines, read, taken, translator, closed>>

\* The iteration is over: nothing is assembled when the body ends,
Finish ==
    /\ reader = "waiting" /\ read = "eof" /\ dataLines = <<>>
    /\ reader' = "exhausted" /\ translator' = "closing"
    /\ UNCHANGED <<pings, lines, read, taken, dataLines, yielded, closed>>

\* or the client asks for more after the last event,
ResumeLast ==
    /\ reader = "flushed"
    /\ reader' = "exhausted" /\ translator' = "closing"
    /\ UNCHANGED <<pings, lines, read, taken, dataLines, yielded, closed>>

\* or the read raised.
Raise ==
    /\ reader = "waiting" /\ read = "error"
    /\ reader' = "ended" /\ translator' = "closing"
    /\ UNCHANGED <<pings, lines, read, taken, dataLines, yielded, closed>>

-----------------------------------------------------------------------------
(* The translator goes away.                                               *)

\* CancelledError where the reader waits: its finally clause cancels the read
\* and waits for it before the translator gets to close the response.
Cancel ==
    /\ reader = "waiting"
    /\ reader' = "unwinding"
    /\ read' = IF read = "pending" THEN "cancelling" ELSE read
    /\ UNCHANGED <<pings, lines, taken, dataLines, yielded, translator, closed>>

Unwind ==
    /\ reader = "unwinding"
    /\ reader' = "ended" /\ translator' = "closing"
    /\ read' = IF read = "cancelling" THEN "cancelled" ELSE read
    /\ UNCHANGED <<pings, lines, taken, dataLines, yielded, closed>>

\* The translator leaves its loop, or is closed at a yield of its own.
Abandon ==
    /\ reader \in {"yielding", "flushed"}
    /\ reader' = "abandoned" /\ translator' = "closing"
    /\ UNCHANGED <<pings, lines, read, taken, dataLines, yielded, closed>>

FinalizeOuter ==
    /\ reader = "abandoned"
    /\ reader' = "orphaned"
    /\ UNCHANGED <<pings, lines, read, taken, dataLines, yielded, translator, closed>>

\* Mutant: no finally clause around the waiting.
FinalizeInnerOnly ==
    /\ reader = "orphaned"
    /\ reader' = "ended"
    /\ UNCHANGED <<pings, lines, read, taken, dataLines, yielded, translator, closed>>

FinalizeInner ==
    /\ reader = "orphaned"
    /\ reader' = "ended"
    /\ read' = IF read = "pending" THEN "cancelled" ELSE read
    /\ UNCHANGED <<pings, lines, taken, dataLines, yielded, translator, closed>>

\* The finally clause of the translator.
CloseResponse ==
    /\ translator = "closing"
    /\ translator' = "done" /\ closed' = TRUE
    /\ UNCHANGED <<pings, lines, read, taken, dataLines, yielded, reader>>

Upstream == (\E line \in Line : LineArrives(line)) \/ \E how \in {"eof", "error"} : BodyEnds(how)

Loop ==
    \/ TakeLine \/ Flush \/ Finish \/ Raise
    \/ Unwind \/ FinalizeOuter \/ FinalizeInner \/ CloseResponse

\* The client takes the item it was given.
Take == Resume \/ ResumeLast

Next == Upstream \/ Timeout \/ Loop \/ Take \/ Cancel \/ Abandon

\* The event loop runs what is ready and the timer fires; nothing is assumed of
\* the upstream or of how fast the client takes what is yielded.
Spec == Init /\ [][Next]_vars /\ WF_vars(Loop) /\ WF_vars(Timeout)
             /\ WF_vars(FinalizeOuter \/ FinalizeInner) /\ WF_vars(CloseResponse)

-----------------------------------------------------------------------------
(* Properties.                                                             *)

TypeOK ==
    /\ pings \in BOOLEAN
    /\ lines \in Seq(Line) /\ taken \in 0..MaxLines /\ dataLines \in Seq(Data)
    /\ read \in {"none", "pending", "line", "eof", "error", "cancelling", "cancelled"}
    /\ yielded \in Seq(Seq(Data))
    /\ reader \in {"waiting", "yielding", "flushed", "unwinding", "abandoned", "orphaned",
                    "exhausted", "ended"}
    /\ translator \in {"running", "closing", "done"} /\ closed \in BOOLEAN

\* The payloads of the event that is open before line i of ls: the data lines
\* before it with no blank line since.
OpenAt(ls, i) ==
    FlattenSeq([j \in 1..(i - 1) |->
                  IF ls[j] \in Data /\ \A k \in j..(i - 1) : ls[k] # Blank THEN <<ls[j]>> ELSE <<>>])

\* The events that a blank line ends in ls.
EndedIn(ls) ==
    FlattenSeq([i \in 1..Len(ls) |->
                  IF ls[i] = Blank /\ OpenAt(ls, i) # <<>> THEN <<OpenAt(ls, i)>> ELSE <<>>])

\* Both generators are over.
Over == reader \in {"exhausted", "ended"}

\* Pings, whenever they fall, neither lose, repeat, split nor reorder an event:
\* what was yielded and what is being assembled are the events of the lines
\* taken, the last one ended as if by a blank line.  An iteration that came to its
\* end has left nothing unyielded.
EventsDelivered ==
    /\ yielded \o (IF dataLines = <<>> THEN <<>> ELSE <<dataLines>>) =
          EndedIn(Append(SubSeq(lines, 1, taken), Blank))
    /\ reader = "exhausted" => dataLines = <<>>

\* While the reader lives no line is skipped, and an iteration that came to its
\* end has taken the body to its last line.
NoLineSkipped ==
    /\ reader \in {"waiting", "yielding", "flushed"} =>
          Len(lines) = IF read = "line" THEN taken + 1 ELSE taken
    /\ reader = "exhausted" => read = "eof" /\ taken = Len(lines)

\* README: "Downstream cancellation cancels an outstanding upstream read, and
\* every ... path closes the streamed upstream response".  However the translator
\* ends, nothing is left that still reads.
NothingLeftReading ==
    (translator # "running" \/ reader \in {"unwinding", "abandoned"}) ~>
        (closed /\ Over /\ read \notin {"pending", "cancelling"})

\* README: "During an upstream pause, the proxy emits Anthropic ping events".  No
\* pause lasts forever for the client: the wait ends with a line or with an item.
PauseIsBridged ==
    \A n \in 0..MaxLines :
        (pings /\ reader = "waiting" /\ Len(lines) = n) ~> (reader # "waiting" \/ Len(lines) > n)

\* Once the body has ended, a client that takes what it is given gets to the end
\* of the iteration, whatever it held when the body ended; or it goes away.
EndIsReached ==
    WF_vars(Take) =>
        ((read = "eof" /\ reader \in {"waiting", "yielding", "flushed"}) ~>
            (reader \in {"exhausted", "unwinding", "abandoned"}))

\* Neither an upstream that pauses nor one that has ended leaves the client
\* waiting.
ClientNotLeftWaiting == PauseIsBridged /\ EndIsReached
=================================================================================
