------------------------------- MODULE ChatStream -------------------------------
(***************************************************************************)
(* openai_stream_to_anthropic and _ChatToolStreamState (streaming.py):     *)
(* Chat Completions chunks in, Anthropic block events out.                 *)
(*                                                                         *)
(* A chunk carries text, refusal text and tool-call deltas at once; the    *)
(* handler walks through them one by one, yielding as it goes, so an       *)
(* exception or a hang-up in the middle leaves what came before on the     *)
(* wire.  `work` is what is left of the chunk, and after the last chunk    *)
(* `remaining` the tool calls that emit_terminal has still to finish.      *)
(***************************************************************************)
EXTENDS Integers, Sequences, FiniteSetsExt, SequencesExt

CONSTANTS Fragment,     \* pieces of text, function names and arguments
          JsonObjects,  \* the strings over Fragment that parse to a JSON object
          Index,        \* values of a tool call's index
          Id,           \* ids of tool calls
          NoId,         \* no id: the block is called tool_<index>
          Null,         \* None
          Chunks,       \* the chunks a gateway sends, see Chunk
          MaxChunks     \* bound: how many of them are read

Piece == Seq(Fragment)

CallDelta == [index : Index, id : Id \cup {NoId}, name : Piece, arguments : Piece]

FinishReason == {"stop", "length", "tool_calls", "content_filter", "unknown"}

\* What is left of a chunk once its choice and delta were taken out.
Chunk == [finish : FinishReason \cup {Null}, content : Piece,
          refusal : Piece \cup {Null}, calls : Seq(CallDelta)]

ASSUME ChatAssumption ==
    /\ Index \subseteq Nat /\ IsFiniteSet(Index)
    /\ JsonObjects \subseteq Piece
    /\ Null \notin Piece /\ Null \notin FinishReason
    /\ Chunks \subseteq Chunk

Identity == [id : Id \cup {NoId}, name : Piece]
Label == Identity \cup {Null}

INSTANCE AnthropicBlocks

\* parse_function_arguments accepts it.
ParsesToObject(arguments) == arguments = <<>> \/ arguments \in JsonObjects

\* Mutants: an unknown reason is passed on; a missing one is an end of turn.
StopReasonPassedOn(finish) ==
    CASE finish = "stop"           -> "end_turn"
      [] finish = "length"         -> "max_tokens"
      [] finish = "tool_calls"     -> "tool_use"
      [] finish = "content_filter" -> "refusal"
      [] OTHER                     -> finish

StopReasonAssumed(finish) ==
    CASE finish \in {"stop", Null} -> "end_turn"
      [] finish = "length"         -> "max_tokens"
      [] finish = "tool_calls"     -> "tool_use"
      [] finish = "content_filter" -> "refusal"
      [] OTHER                     -> Null

\* finish_reason_to_anthropic; Null stands for the ConversionError, which
\* _require_chat_finish_reason raises for a missing reason.
StopReason(finish) ==
    CASE finish = "stop"           -> "end_turn"
      [] finish = "length"         -> "max_tokens"
      [] finish = "tool_calls"     -> "tool_use"
      [] finish = "content_filter" -> "refusal"
      [] OTHER                     -> Null

\* refusal_stop_details.
Explanation(reason, text) == IF reason = "refusal" /\ text # <<>> THEN text ELSE Null

None == -1  \* text_index, live_openai_index or live_anthropic_index is None

VARIABLES
    phase,         \* "reading", "working", "closing", "stopped", "failed", "hungup"
    closed,        \* response.aclose() was called
    read,          \* history: the chunks read so far
    started, finishReason, hasRefusal, refusalParts,
    \* the fields of _ChatToolStreamState
    streamLive,    \* the request had parallel_tool_calls = false, never changed
    tools,         \* the calls heard of
    nextIndex, textIndex, liveIndex, liveBlock, liveCount,
    wire,          \* the blocks yielded so far
    work,          \* texts and tool deltas of the chunk not yet handled
    remaining,     \* tool indexes not yet finished at the end of the stream
    ending         \* message_delta, or Null

toolVars  == <<streamLive, tools, liveIndex, liveBlock, liveCount>>
flagVars  == <<finishReason, hasRefusal, refusalParts>>
blockVars == <<nextIndex, textIndex, wire>>
vars == <<phase, closed, read, started, flagVars, toolVars, blockVars, work, remaining, ending>>

Init ==
    /\ phase = "reading" /\ closed = FALSE /\ read = <<>> /\ started = FALSE
    /\ finishReason = Null /\ hasRefusal = FALSE /\ refusalParts = <<>>
    /\ streamLive \in BOOLEAN /\ tools = [i \in {} |-> Null]
    /\ nextIndex = 0 /\ textIndex = None
    /\ liveIndex = None /\ liveBlock = None /\ liveCount = 0
    /\ wire = <<>> /\ work = <<>> /\ remaining = {} /\ ending = Null

-----------------------------------------------------------------------------
(* Reading.                                                                *)

\* The non-empty texts of the chunk, then its tool-call deltas.
Refused(chunk) == IF chunk.refusal = Null THEN <<>> ELSE chunk.refusal
Said(text) == IF text = <<>> THEN <<>> ELSE <<[text |-> text]>>

\* Mutant: a chunk has content or a refusal, not both.
FirstText(chunk) ==
    IF chunk.content # <<>> THEN Said(chunk.content) ELSE Said(Refused(chunk))

Texts(chunk) == Said(chunk.content) \o Said(Refused(chunk))

ReadChunk(chunk) ==
    /\ phase = "reading" /\ Len(read) < MaxChunks
    /\ read' = Append(read, chunk)
    /\ started' = TRUE
    /\ finishReason' = IF chunk.finish # Null THEN chunk.finish ELSE finishReason
    /\ hasRefusal' = (hasRefusal \/ chunk.refusal # Null)
    /\ refusalParts' = refusalParts \o Refused(chunk)
    /\ work' = Texts(chunk) \o chunk.calls
    /\ phase' = "working"
    /\ UNCHANGED <<closed, toolVars, blockVars, remaining, ending>>

\* A chunk without a choice (usage only) starts the message all the same.
ReadUsage ==
    /\ phase = "reading" /\ ~started
    /\ started' = TRUE
    /\ UNCHANGED <<phase, closed, read, flagVars, toolVars, blockVars, work, remaining, ending>>

\* [DONE] or the end of the upstream body, which are not told apart.
EndOfStream ==
    /\ phase = "reading"
    /\ started' = TRUE
    /\ phase' = "closing"
    /\ remaining' = DOMAIN tools
    /\ UNCHANGED <<closed, read, flagVars, toolVars, blockVars, work, ending>>

\* An exception, or an error chunk: one error event, no content_block_stop.
Fail ==
    /\ phase' = "failed"
    /\ UNCHANGED <<closed, read, started, flagVars, toolVars, blockVars, work, remaining, ending>>

\* A transport error, a chunk that is not well-formed or reports an error; the
\* tool-call deltas are looked at only when the texts were yielded.
StreamFails ==
    /\ phase = "reading" \/ (phase = "working" /\ \A i \in DOMAIN work : "text" \notin DOMAIN work[i])
    /\ Fail

-----------------------------------------------------------------------------
(* The pieces of a chunk.                                                  *)

Working == phase = "working" /\ work # <<>> /\ UNCHANGED <<closed, read, started, remaining, ending>>

\* Mutants: each text uses up an index; text after a live call is let through.
EmitTextAtNewIndex ==
    /\ Working /\ "text" \in DOMAIN Head(work) /\ liveBlock = None
    /\ LET index == IF textIndex = None THEN nextIndex ELSE textIndex
           open  == IF textIndex = None THEN StartBlock(wire, "text", Null) ELSE wire
       IN  /\ textIndex' = index
           /\ nextIndex' = nextIndex + 1
           /\ wire' = AppendDelta(open, index, Head(work).text)
    /\ work' = Tail(work)
    /\ UNCHANGED <<phase, flagVars, toolVars>>

EmitTextAfterCall ==
    /\ Working /\ "text" \in DOMAIN Head(work)
    /\ LET isNew == textIndex = None
           index == IF isNew THEN nextIndex ELSE textIndex
           open  == IF isNew THEN StartBlock(wire, "text", Null) ELSE wire
       IN  /\ textIndex' = index
           /\ nextIndex' = IF isNew THEN nextIndex + 1 ELSE nextIndex
           /\ wire' = AppendDelta(open, index, Head(work).text)
    /\ work' = Tail(work)
    /\ UNCHANGED <<phase, flagVars, toolVars>>

\* A piece of content or refusal text: reopens no tool block, and opens a text
\* block unless one is open.
EmitText ==
    /\ Working /\ "text" \in DOMAIN Head(work) /\ liveBlock = None
    /\ LET isNew == textIndex = None
           index == IF isNew THEN nextIndex ELSE textIndex
           open  == IF isNew THEN StartBlock(wire, "text", Null) ELSE wire
       IN  /\ textIndex' = index
           /\ nextIndex' = IF isNew THEN nextIndex + 1 ELSE nextIndex
           /\ wire' = AppendDelta(open, index, Head(work).text)
    /\ work' = Tail(work)
    /\ UNCHANGED <<phase, flagVars, toolVars>>

TextAfterCall ==
    /\ phase = "working" /\ work # <<>> /\ "text" \in DOMAIN Head(work) /\ liveBlock # None
    /\ Fail

\* record_delta.  The list of argument pieces is kept joined: what is counted of
\* it, live_argument_count, are then fragments.
NewCall == [id |-> NoId, name |-> <<>>, arguments |-> <<>>]

\* Mutant: a later piece of the name replaces the earlier ones.
MergedLastName(call, delta) ==
    [id        |-> IF delta.id = NoId THEN call.id ELSE delta.id,
     name      |-> IF delta.name = <<>> THEN call.name ELSE delta.name,
     arguments |-> call.arguments \o delta.arguments]

Merged(call, delta) ==
    [id        |-> IF delta.id = NoId THEN call.id ELSE delta.id,
     name      |-> call.name \o delta.name,
     arguments |-> call.arguments \o delta.arguments]

Recorded(delta) ==
    LET call == IF delta.index \in DOMAIN tools THEN tools[delta.index] ELSE NewCall
    IN  [i \in DOMAIN tools \cup {delta.index} |->
            IF i = delta.index THEN Merged(call, delta) ELSE tools[i]]

\* Mutant: all pieces are sent each time.
AllArguments(call, sent) == call.arguments

\* The arguments of a call after the first `sent` fragments.
Unsent(call, sent) == SubSeq(call.arguments, sent + 1, Len(call.arguments))

\* Mutant: the open text block is forgotten instead of stopped.
TextForgotten == wire

\* The blocks once the open text block, if any, is stopped.
TextClosed == IF textIndex = None THEN wire ELSE StopBlock(wire, textIndex)

\* Mutant: a call has to have an id, too.
AnnounceableWithId(call) == call.name # <<>> /\ call.id # NoId

\* Nothing is said of a call before its name is known.
Announceable(call) == call.name # <<>>

\* emit_live for the call at index i: the text block is closed, the tool block
\* started and the argument pieces since the last time sent.
LiveConflict(i) == liveIndex # None /\ liveIndex # i
EmitLive(i, calls) ==
    LET index  == IF liveBlock = None THEN nextIndex ELSE liveBlock
        label  == [id |-> calls[i].id, name |-> calls[i].name]
        open   == IF liveBlock = None THEN StartBlock(TextClosed, "tool_use", label)
                  ELSE TextClosed
    IN  IF ~Announceable(calls[i])
        THEN UNCHANGED <<liveIndex, liveBlock, liveCount, blockVars>>
        ELSE /\ liveIndex' = i /\ liveBlock' = index
             /\ textIndex' = None
             /\ nextIndex' = IF liveBlock = None THEN nextIndex + 1 ELSE nextIndex
             /\ wire' = AppendDelta(open, index, Unsent(calls[i], liveCount))
             /\ liveCount' = Len(calls[i].arguments)

RecordCall ==
    /\ Working /\ "text" \notin DOMAIN Head(work)
    /\ tools' = Recorded(Head(work))
    /\ IF streamLive /\ LiveConflict(Head(work).index)
       THEN /\ phase' = "failed"
            /\ UNCHANGED <<streamLive, liveIndex, liveBlock, liveCount, blockVars, flagVars, work>>
       ELSE /\ IF streamLive THEN EmitLive(Head(work).index, tools')
               ELSE UNCHANGED <<liveIndex, liveBlock, liveCount, blockVars>>
            /\ work' = Tail(work)
            /\ UNCHANGED <<phase, streamLive, flagVars>>

ChunkDone ==
    /\ phase = "working" /\ work = <<>>
    /\ phase' = "reading"
    /\ UNCHANGED <<closed, read, started, flagVars, toolVars, blockVars, work, remaining, ending>>

-----------------------------------------------------------------------------
(* The end of the stream.                                                  *)

CloseText ==
    /\ phase = "closing" /\ textIndex # None
    /\ wire' = TextClosed
    /\ textIndex' = None
    /\ UNCHANGED <<phase, closed, read, started, flagVars, toolVars, nextIndex, work, remaining,
                   ending>>

\* One iteration of emit_terminal, in the order of the indexes.
Closing(i) ==
    /\ phase = "closing" /\ textIndex = None
    /\ i \in remaining /\ \A j \in remaining : i <= j

\* Mutant: the arguments of the finished call are not parsed.
CallRejectedUnparsed(i) ==
    streamLive /\ (LiveConflict(i) \/ (~Announceable(tools[i]) /\ liveBlock = None))

\* The iteration raises: invalid arguments; live, a second call or no name.
CallRejected(i) ==
    \/ ~ParsesToObject(Unsent(tools[i], 0))
    \/ streamLive /\ (LiveConflict(i) \/ (~Announceable(tools[i]) /\ liveBlock = None))

RejectCall(i) == Closing(i) /\ CallRejected(i) /\ Fail

\* A live call is brought up to date and stopped, a buffered one is sent whole.
FinishCall(i) ==
    /\ Closing(i) /\ ~CallRejected(i)
    /\ remaining' = remaining \ {i}
    /\ LET index == IF liveBlock = None THEN nextIndex ELSE liveBlock
           label == [id |-> tools[i].id, name |-> tools[i].name]
           open  == IF streamLive /\ liveBlock # None THEN wire
                    ELSE StartBlock(wire, "tool_use", label)
           rest  == Unsent(tools[i], IF streamLive THEN liveCount ELSE 0)
       IN  /\ wire' = StopBlock(AppendDelta(open, index, rest), index)
           /\ nextIndex' = IF streamLive /\ liveBlock # None THEN nextIndex ELSE nextIndex + 1
           /\ IF streamLive
              THEN liveIndex' = i /\ liveBlock' = index /\ liveCount' = Len(tools[i].arguments)
              ELSE UNCHANGED <<liveIndex, liveBlock, liveCount>>
    /\ UNCHANGED <<phase, closed, read, started, flagVars, streamLive, tools, textIndex, work,
                   ending>>

\* message_delta and message_stop.
Conclude ==
    /\ phase = "closing" /\ textIndex = None /\ remaining = {}
    /\ IF StopReason(finishReason) = Null THEN Fail
       ELSE /\ LET reason == IF hasRefusal /\ DOMAIN tools = {} THEN "refusal"
                             ELSE StopReason(finishReason)
               IN  ending' = [stop_reason |-> reason,
                              explanation |-> Explanation(reason, refusalParts)]
            /\ phase' = "stopped"
            /\ UNCHANGED <<closed, read, started, flagVars, toolVars, blockVars, work, remaining>>

\* The client disconnects, between two chunks or two pieces of one.  The yields of
\* one piece (a block's start, its deltas, its stop) are not told apart.
HangUp ==
    /\ phase \in {"reading", "working", "closing"}
    /\ phase' = "hungup"
    /\ UNCHANGED <<closed, read, started, flagVars, toolVars, blockVars, work, remaining, ending>>

\* Mutant: the response is closed on success only.
CloseWhenStopped ==
    /\ phase = "stopped" /\ ~closed
    /\ closed' = TRUE
    /\ UNCHANGED <<phase, read, started, flagVars, toolVars, blockVars, work, remaining, ending>>

\* finally: await response.aclose().
CloseUpstream ==
    /\ phase \in {"stopped", "failed", "hungup"} /\ ~closed
    /\ closed' = TRUE
    /\ UNCHANGED <<phase, read, started, flagVars, toolVars, blockVars, work, remaining, ending>>

Upstream == (\E chunk \in Chunks : ReadChunk(chunk)) \/ ReadUsage \/ EndOfStream \/ StreamFails

Proceed ==
    \/ EmitText \/ TextAfterCall \/ RecordCall \/ ChunkDone
    \/ CloseText \/ (\E i \in Index : RejectCall(i) \/ FinishCall(i)) \/ Conclude
    \/ CloseUpstream

Next == Upstream \/ Proceed \/ HangUp

Spec == Init /\ [][Next]_vars

\* The event loop runs the handler whenever it can run.
FairSpec == Spec /\ WF_vars(Proceed)

-----------------------------------------------------------------------------
(* Properties.                                                             *)

TypeOK ==
    /\ phase \in {"reading", "working", "closing", "stopped", "failed", "hungup"}
    /\ closed \in BOOLEAN /\ started \in BOOLEAN
    /\ read \in Seq(Chunk)
    /\ finishReason \in FinishReason \cup {Null}
    /\ hasRefusal \in BOOLEAN /\ refusalParts \in Piece /\ streamLive \in BOOLEAN
    /\ DOMAIN tools \subseteq Index
    /\ \A i \in DOMAIN tools :
          tools[i] \in [id : Id \cup {NoId}, name : Piece, arguments : Piece]
    /\ nextIndex \in Nat
    /\ {textIndex, liveIndex, liveBlock} \subseteq Nat \cup {None}
    /\ liveCount \in Nat
    /\ wire \in Seq(Block)
    /\ work \in Seq([text : Piece] \cup CallDelta)
    /\ remaining \subseteq Index
    /\ ending \in [stop_reason : {"end_turn", "max_tokens", "tool_use", "refusal"},
                   explanation : Piece \cup {Null}] \cup {Null}

\* What the gateway has said, chunk by chunk.
HeardText == FlattenSeq([n \in DOMAIN read |-> read[n].content \o Refused(read[n])])
HeardRefusal == FlattenSeq([n \in DOMAIN read |-> Refused(read[n])])
HeardDeltas == UNION {Range(read[n].calls) : n \in DOMAIN read}
HeardCalls == {delta.index : delta \in HeardDeltas}

\* The pieces of call i, in the order they arrived.
ArgumentsIn(deltas, i) ==
    FlattenSeq([k \in DOMAIN deltas |-> IF deltas[k].index = i THEN deltas[k].arguments ELSE <<>>])
NameIn(deltas, i) ==
    FlattenSeq([k \in DOMAIN deltas |-> IF deltas[k].index = i THEN deltas[k].name ELSE <<>>])
ArgumentsOf(i) == FlattenSeq([n \in DOMAIN read |-> ArgumentsIn(read[n].calls, i)])
NameOf(i) == FlattenSeq([n \in DOMAIN read |-> NameIn(read[n].calls, i)])
IdsOf(i) == {delta.id : delta \in {d \in HeardDeltas : d.index = i}} \ {NoId}

\* What the client was told: all text, and the tool blocks.
ShownText ==
    FlattenSeq([p \in DOMAIN wire |-> IF wire[p].kind = "text" THEN wire[p].content ELSE <<>>])
ToolBlocks == {p \in DOMAIN wire : wire[p].kind = "tool_use"}

\* call says which call a tool block is about: one block for each call heard of,
\* in the order of the indexes.
InCallOrder(call) ==
    /\ \A p, q \in ToolBlocks : p < q => call[p] < call[q]
    /\ {call[p] : p \in ToolBlocks} = HeardCalls

\* The translator's indexes agree with what the client was told: the counter is
\* the number of blocks started, and while chunks arrive the block without a stop
\* is the text block or the live tool block, of which there is never both.
Bookkeeping ==
    /\ nextIndex = Len(wire)
    /\ None \in {textIndex, liveBlock}
    /\ phase \in {"reading", "working"} =>
          {p - 1 : p \in {q \in DOMAIN wire : wire[q].stops = 0}} =
              {textIndex, liveBlock} \ {None}

\* All text and refusal text reaches the client, in the order it arrived, even
\* when tool deltas arrive in between.
TextDelivered == phase = "stopped" => ShownText = HeardText

\* Each call the gateway made becomes one tool_use block, in the order of the
\* indexes, with all its argument pieces, however the calls were interleaved.
CallsDelivered ==
    phase = "stopped" =>
        \E call \in [ToolBlocks -> HeardCalls] :
            /\ InCallOrder(call)
            /\ \A p \in ToolBlocks : wire[p].content = ArgumentsOf(call[p])

\* A buffered call is announced with its whole name and an id the gateway gave.
\* A live one is announced as soon as it has a name: later pieces of the name
\* and a later id are lost, but the name is never empty and never another call's.
IdentitiesDelivered ==
    phase = "stopped" =>
        \E call \in [ToolBlocks -> HeardCalls] :
            /\ InCallOrder(call)
            /\ \A p \in ToolBlocks :
                  LET label == wire[p].label
                      i     == call[p]
                  IN  IF streamLive
                      THEN /\ label.name # <<>> /\ IsPrefix(label.name, NameOf(i))
                           /\ label.id \in IdsOf(i) \cup {NoId}
                      ELSE /\ label.name = NameOf(i)
                           /\ IF IdsOf(i) = {} THEN label.id = NoId ELSE label.id \in IdsOf(i)

\* README: "parallel calls remain buffered to preserve valid Anthropic block
\* ordering".  A block starts only when the one before it was stopped.
OneBlockOpen ==
    \A p \in DOMAIN wire : wire[p].stops = 0 => p = Len(wire)

\* README: invalid function arguments terminate the stream "without emitting a
\* misleading content_block_stop".
StoppedToolsAreObjects ==
    \A p \in DOMAIN wire :
        (wire[p].kind = "tool_use" /\ Sealed(wire[p])) => ParsesToObject(wire[p].content)

\* README: "Chat tool arguments stream immediately when parallel_tool_calls=false".
\* Between two chunks the client has every argument piece of a named call.
ArgumentsStreamLive ==
    (streamLive /\ phase = "reading") =>
        \A i \in HeardCalls : NameOf(i) # <<>> =>
            \E p \in ToolBlocks : wire[p].content = ArgumentsOf(i)

\* README: "unterminated results produce protocol errors rather than a false
\* end_turn", and refusal text is accompanied by stop_reason refusal and its text.
EndingHonest ==
    phase = "stopped" =>
        LET finished == {n \in DOMAIN read : read[n].finish # Null}
        IN  /\ finished # {}
            /\ IF HeardCalls = {} /\ \E n \in DOMAIN read : read[n].refusal # Null
               THEN ending.stop_reason = "refusal"
               ELSE ending.stop_reason = StopReason(read[Max(finished)].finish)
            /\ (ending.stop_reason = "refusal" /\ HeardRefusal # <<>>) =>
                    ending.explanation = HeardRefusal

\* The client sees an Anthropic stream.
Client == INSTANCE AnthropicStream WITH
    phase <- IF phase \in {"reading", "working", "closing"} THEN "streaming" ELSE phase
ClientContract == Client!Spec

\* README: "every terminal, error, disconnect, and cancellation path closes the
\* streamed upstream response".  Once the end of the stream was read nothing more
\* is needed from the gateway for that.
UpstreamGetsClosed == (phase \notin {"reading", "working"}) ~> closed
=================================================================================
