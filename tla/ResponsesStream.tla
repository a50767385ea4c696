---------------------------- MODULE ResponsesStream ----------------------------
(***************************************************************************)
(* responses_stream_to_anthropic (streaming.py): typed OpenAI Responses    *)
(* events in, Anthropic block events out, in front of a gateway that may   *)
(* send any well-formed event at any time.                                 *)
(*                                                                         *)
(* One action per event handler.  `blocks` is what the handlers have       *)
(* produced, `wire` what has been yielded to the client.  A handler that   *)
(* loops over items (output_item.done, the terminal events) joins all its  *)
(* events before it yields them: its iterations are the steps of the       *)
(* "reconciling" phase, during which nothing else runs, and an exception   *)
(* in one of them loses what the others produced.                          *)
(***************************************************************************)
EXTENDS ResponsesOutput

CONSTANTS Deltas,        \* the delta strings a gateway sends
          Bodies,        \* the final strings its `done` events carry
          Items,         \* the items of output_item.done (each a flat output)
          Terminals,     \* the terminal events, see TerminalEvent
          Alphabet,      \* the event types this gateway uses
          MaxEvents,     \* bound: how many of them are read
          LateArguments  \* whether argument events may follow the completion
                         \* of their function call

Output == Seq(Entry)

\* The event's type and its response's output, status and incomplete reason:
\* a gateway fills in each of them on its own.
TerminalEvent ==
    [type : {"completed", "incomplete"},
     output : Output \cup {Null},
     status : {"completed", "incomplete", "failed", Null},
     reason : {"max_output_tokens", "content_filter", "context_window_exceeded",
               "unknown", Null}]

ASSUME StreamAssumption ==
    /\ Null \notin Output /\ Null \notin TerminalEvent
    /\ Deltas \subseteq Seq(Fragment) /\ Bodies \subseteq Body
    /\ Items \subseteq Output
    /\ Terminals \subseteq TerminalEvent
    /\ LateArguments \in BOOLEAN

Label == Name \cup {NoName, Null} \cup Output

INSTANCE AnthropicBlocks

Absent == -1  \* block_indices has no entry

VARIABLES
    phase,         \* "reading", "reconciling", "stopped", "failed", "hungup"
    closed,        \* response.aclose() was called
    received,      \* events read, up to MaxEvents
    \* the fields of _ResponsesStreamState
    started, nextIndex, textIndex, toolIndex, openBlocks, toolItems,
    argumentParts, textParts, hasToolCall, hasRefusal, refusalParts,
    blocks,        \* every block event produced so far, as the client sees it
    wire,          \* the part of it that was yielded
    work,          \* entries the running handler has still to reconcile
    terminal,      \* the terminal event being handled, or Null
    ending         \* message_delta, or Null

indexVars   == <<nextIndex, textIndex, toolIndex>>
contentVars == <<argumentParts, textParts>>
flagVars    == <<toolItems, hasToolCall, hasRefusal, refusalParts>>
state       == <<indexVars, openBlocks, contentVars, flagVars, blocks>>
handlerVars == <<work, terminal, ending>>
vars == <<phase, closed, received, started, state, wire, handlerVars>>

Init ==
    /\ phase = "reading" /\ closed = FALSE /\ received = 0 /\ started = FALSE
    /\ nextIndex = 0
    /\ textIndex = [k \in Slot \X Part |-> Absent]
    /\ toolIndex = [o \in Slot |-> Absent]
    /\ openBlocks = {}
    /\ toolItems = [o \in Slot |-> NoName]
    /\ argumentParts = [o \in Slot |-> <<>>]
    /\ textParts = [k \in Slot \X Part |-> <<>>]
    /\ hasToolCall = FALSE /\ hasRefusal = FALSE /\ refusalParts = <<>>
    /\ blocks = <<>> /\ wire = <<>>
    /\ work = <<>> /\ terminal = Null /\ ending = Null

-----------------------------------------------------------------------------
(* Helpers of the handlers.                                                *)

Receive(type) ==
    /\ phase = "reading" /\ type \in Alphabet /\ received < MaxEvents
    /\ received' = received + 1

\* start_text: the block of a text part, started unless it exists.
TextBlock(k) == IF textIndex[k] = Absent THEN nextIndex ELSE textIndex[k]

\* Mutant: start_text opens the block whether it was stopped or not.
ReopenText(k) == openBlocks \cup {TextBlock(k)}

OpenWithText(k) ==
    IF textIndex[k] = Absent THEN openBlocks \cup {nextIndex} ELSE openBlocks
BlocksWithText(k) ==
    IF textIndex[k] = Absent THEN StartBlock(blocks, "text", Null) ELSE blocks

\* Mutant: an index is used up for a block that exists already.
StartTextAnew(k) ==
    /\ textIndex' = [textIndex EXCEPT ![k] = TextBlock(k)]
    /\ nextIndex' = nextIndex + 1
    /\ UNCHANGED toolIndex

StartText(k) ==
    /\ textIndex' = [textIndex EXCEPT ![k] = TextBlock(k)]
    /\ nextIndex' = IF textIndex[k] = Absent THEN nextIndex + 1 ELSE nextIndex
    /\ UNCHANGED toolIndex

\* start_tool: the same for a function call; its identity is the one known
\* when the block starts.
ToolBlock(o) == IF toolIndex[o] = Absent THEN nextIndex ELSE toolIndex[o]

OpenWithTool(o) ==
    IF toolIndex[o] = Absent THEN openBlocks \cup {nextIndex} ELSE openBlocks
BlocksWithTool(o, name) ==
    IF toolIndex[o] = Absent THEN StartBlock(blocks, "tool_use", name) ELSE blocks
StartTool(o) ==
    /\ toolIndex' = [toolIndex EXCEPT ![o] = ToolBlock(o)]
    /\ nextIndex' = IF toolIndex[o] = Absent THEN nextIndex + 1 ELSE nextIndex
    /\ UNCHANGED textIndex

\* What a final string adds to the pieces already emitted.
StartsWith(complete, emitted) ==
    /\ Len(emitted) <= Len(complete)
    /\ SubSeq(complete, 1, Len(emitted)) = emitted

Suffix(complete, emitted) == SubSeq(complete, Len(emitted) + 1, Len(complete))

\* An exception: the except clauses turn it into one error event.
Fail(delivered) ==
    /\ phase' = "failed"
    /\ wire' = delivered
    /\ UNCHANGED <<closed, state, handlerVars>>

\* The handler yields what it produced and reads on.
Yield ==
    /\ phase' = "reading"
    /\ wire' = blocks'
    /\ UNCHANGED <<closed, handlerVars>>

-----------------------------------------------------------------------------
(* Final text and final arguments, shared by the `done` events and the     *)
(* reconciliation of completed items.                                      *)

\* A content part without text means the text already emitted.
CompleteText(k, kind, body) ==
    IF kind = "part" /\ body \in {Null, <<>>} THEN textParts[k] ELSE body

\* Mutants: only the length of the final text is compared; it is final only once.
TextLongEnough(k, complete) ==
    /\ complete # Null
    /\ Len(textParts[k]) <= Len(complete)
    /\ TextBlock(k) \in OpenWithText(k) \/ complete = textParts[k]

TextFinalOnce(k, complete) ==
    /\ complete # Null
    /\ StartsWith(complete, textParts[k])
    /\ TextBlock(k) \in OpenWithText(k)

TextAgrees(k, complete) ==
    /\ complete # Null
    /\ StartsWith(complete, textParts[k])
    /\ TextBlock(k) \in OpenWithText(k) \/ complete = textParts[k]

\* _responses_text_done_events: emit the rest and stop the block.
FinishText(k, kind, complete) ==
    LET suffix == Suffix(complete, textParts[k])
        isOpen == TextBlock(k) \in OpenWithText(k)
    IN  /\ StartText(k)
        /\ textParts' = [textParts EXCEPT ![k] = @ \o suffix]
        /\ refusalParts' = IF kind = "refusal" THEN refusalParts \o suffix ELSE refusalParts
        /\ openBlocks' = OpenWithText(k) \ {TextBlock(k)}
        /\ blocks' = IF isOpen
                     THEN StopBlock(AppendDelta(BlocksWithText(k), TextBlock(k), suffix),
                                    TextBlock(k))
                     ELSE blocks
        /\ UNCHANGED argumentParts

\* _responses_function_argument_suffix.
CompleteArguments(o, arguments) ==
    IF arguments = Null THEN argumentParts[o] ELSE arguments

\* Mutant: any object will do, whatever was streamed.
ArgumentsParse(o, complete) == ParsesToObject(complete)

ArgumentsAgree(o, complete) ==
    /\ ParsesToObject(complete)
    /\ StartsWith(complete, argumentParts[o])

\* The function_call branch of _responses_output_item_done_events, on the
\* blocks and open set given by the caller.
CallAgrees(o, complete, open) ==
    /\ ArgumentsAgree(o, complete)
    /\ ToolBlock(o) \in open \/ complete = argumentParts[o]

FinishCall(o, complete, open, produced) ==
    LET suffix == Suffix(complete, argumentParts[o])
    IN  /\ argumentParts' = [argumentParts EXCEPT ![o] = @ \o suffix]
        /\ openBlocks' = open \ {ToolBlock(o)}
        /\ blocks' = IF ToolBlock(o) \in open
                     THEN StopBlock(AppendDelta(produced, ToolBlock(o), suffix), ToolBlock(o))
                     ELSE produced
        /\ UNCHANGED textParts

-----------------------------------------------------------------------------
(* The event handlers.                                                     *)

Created ==
    /\ Receive("created")
    /\ started' = TRUE
    /\ phase' = "reading"
    /\ UNCHANGED <<closed, state, wire, handlerVars>>

\* response.output_item.added for a function call (the other item types and
\* the ignored event types change nothing).
ItemAdded(o, name) ==
    /\ Receive("item.added")
    /\ started' = TRUE
    /\ toolItems' = [toolItems EXCEPT ![o] = name]
    /\ hasToolCall' = TRUE
    /\ StartTool(o)
    /\ openBlocks' = OpenWithTool(o)
    /\ blocks' = BlocksWithTool(o, name)
    /\ UNCHANGED <<contentVars, hasRefusal, refusalParts>>
    /\ Yield

\* response.output_text.delta and response.refusal.delta.
TextDelta(k, kind, delta) ==
    /\ Receive("text.delta")
    /\ started' = TRUE
    /\ IF TextBlock(k) \in OpenWithText(k)
       THEN /\ StartText(k)
            /\ openBlocks' = OpenWithText(k)
            /\ textParts' = [textParts EXCEPT ![k] = @ \o delta]
            /\ blocks' = AppendDelta(BlocksWithText(k), TextBlock(k), delta)
            /\ hasRefusal' = (hasRefusal \/ kind = "refusal")
            /\ refusalParts' = IF kind = "refusal" THEN refusalParts \o delta ELSE refusalParts
            /\ UNCHANGED <<argumentParts, toolItems, hasToolCall>>
            /\ Yield
       ELSE Fail(wire)

\* response.output_text.done, response.refusal.done, response.content_part.done.
\* The start of the block is yielded before the final text is checked.
TextDone(k, kind, body) ==
    LET complete == CompleteText(k, kind, body)
    IN  /\ Receive("text.done")
        /\ started' = TRUE
        /\ IF TextAgrees(k, complete)
           THEN /\ FinishText(k, kind, complete)
                /\ UNCHANGED <<toolItems, hasToolCall, hasRefusal>>
                /\ Yield
           ELSE Fail(BlocksWithText(k))

\* The environment assumption that LateArguments = FALSE stands for.
CallStillOpen(o) == toolIndex[o] = Absent \/ toolIndex[o] \in openBlocks

\* response.function_call_arguments.delta: whether the block is still open is
\* not looked at.
ArgumentsDelta(o, delta) ==
    /\ Receive("arguments.delta")
    /\ LateArguments \/ CallStillOpen(o)
    /\ started' = TRUE
    /\ StartTool(o)
    /\ openBlocks' = OpenWithTool(o)
    /\ argumentParts' = [argumentParts EXCEPT ![o] = @ \o delta]
    /\ blocks' = AppendDelta(BlocksWithTool(o, toolItems[o]), ToolBlock(o), delta)
    /\ UNCHANGED <<textParts, flagVars>>
    /\ Yield

\* response.function_call_arguments.done: checks and completes the arguments,
\* leaves the block open.
ArgumentsDone(o, arguments) ==
    LET complete == CompleteArguments(o, arguments)
        suffix   == Suffix(complete, argumentParts[o])
        produced == BlocksWithTool(o, toolItems[o])
    IN  /\ Receive("arguments.done")
        /\ LateArguments \/ CallStillOpen(o)
        /\ started' = TRUE
        /\ IF ArgumentsAgree(o, complete)
           THEN /\ StartTool(o)
                /\ openBlocks' = OpenWithTool(o)
                /\ argumentParts' = [argumentParts EXCEPT ![o] = @ \o suffix]
                /\ blocks' = AppendDelta(produced, ToolBlock(o), suffix)
                /\ UNCHANGED <<textParts, flagVars>>
                /\ Yield
           ELSE Fail(produced)

\* response.output_item.done: starts reconciling the item.
ItemDone(item) ==
    /\ Receive("item.done")
    /\ started' = TRUE
    /\ work' = item
    /\ phase' = "reconciling"
    /\ UNCHANGED <<closed, state, wire, terminal, ending>>

\* response.completed and response.incomplete: start reconciling the output.
Terminate(event) ==
    /\ Receive("terminal")
    /\ started' = TRUE
    /\ work' = IF event.output = Null THEN <<>> ELSE event.output
    /\ terminal' = event
    /\ phase' = "reconciling"
    /\ UNCHANGED <<closed, state, wire, ending>>

\* An error or response.failed event, an event that is not well-formed, a
\* transport error, or the end of the stream before a terminal event.
StreamFails ==
    /\ phase = "reading"
    /\ Fail(wire)
    /\ UNCHANGED <<received, started>>

-----------------------------------------------------------------------------
(* Reconciliation of a completed item or of the terminal output.           *)

Reconcile(kinds) ==
    /\ phase = "reconciling" /\ work # <<>> /\ Head(work).kind \in kinds
    /\ UNCHANGED <<received, started>>

Continue ==
    /\ phase' = "reconciling"
    /\ work' = Tail(work)
    /\ UNCHANGED <<closed, wire, terminal, ending>>

\* One content part of reconcile_message_item.
ReconcileText ==
    /\ Reconcile({"text", "refusal"})
    /\ LET entry == Head(work)
           k     == <<entry.slot, entry.part>>
       IN  IF TextAgrees(k, entry.body)
           THEN /\ FinishText(k, entry.kind, entry.body)
                /\ hasRefusal' = (hasRefusal \/ entry.kind = "refusal")
                /\ UNCHANGED <<toolItems, hasToolCall>>
                /\ Continue
           ELSE Fail(wire)

\* output_item.done for a call: nothing to finish if it was never started.
ReconcileCall ==
    /\ Reconcile({"call"}) /\ terminal = Null
    /\ LET o        == Head(work).slot
           complete == CompleteArguments(o, Head(work).body)
       IN  CASE toolIndex[o] = Absent /\ ArgumentsAgree(o, complete) ->
                  UNCHANGED state /\ Continue
             [] toolIndex[o] # Absent /\ CallAgrees(o, complete, openBlocks) ->
                  /\ FinishCall(o, complete, openBlocks, blocks)
                  /\ UNCHANGED <<indexVars, flagVars>>
                  /\ Continue
             [] OTHER -> Fail(wire)

\* The function_call branch of reconcile_terminal_output.
ReconcileTerminalCall ==
    /\ Reconcile({"call"}) /\ terminal # Null
    /\ LET o        == Head(work).slot
           complete == CompleteArguments(o, Head(work).body)
       IN  IF CallAgrees(o, complete, OpenWithTool(o))
           THEN /\ toolItems' = [toolItems EXCEPT ![o] = Head(work).name]
                /\ hasToolCall' = TRUE
                /\ StartTool(o)
                /\ FinishCall(o, complete, OpenWithTool(o), BlocksWithTool(o, Head(work).name))
                /\ UNCHANGED <<hasRefusal, refusalParts>>
                /\ Continue
           ELSE Fail(wire)

\* output_item.done shows a reasoning item; the terminal handler passes over it
\* and over items of unknown type.
ReconcileReasoning ==
    /\ Reconcile({"reasoning"}) /\ terminal = Null
    /\ blocks' = WholeBlock(blocks, "reasoning", <<Head(work)>>)
    /\ nextIndex' = nextIndex + 1
    /\ UNCHANGED <<textIndex, toolIndex, openBlocks, contentVars, flagVars>>
    /\ Continue

SkipTerminalItem ==
    /\ Reconcile({"reasoning", "other"}) /\ terminal # Null
    /\ UNCHANGED state
    /\ Continue

\* output_item.done does not know the type.
RejectItem ==
    /\ Reconcile({"other"}) /\ terminal = Null
    /\ Fail(wire)

\* The whole item was reconciled.
YieldItem ==
    /\ phase = "reconciling" /\ work = <<>> /\ terminal = Null
    /\ UNCHANGED <<received, started, state>>
    /\ Yield

\* Mutant: an empty text block counts.
HasTextBlock == hasToolCall \/ \E k \in Slot \X Part : textIndex[k] # Absent

HasVisibleOutput == hasToolCall \/ \E k \in Slot \X Part : textParts[k] # <<>>

\* The rest of finish(): stop what is open, append the carrier of the complete
\* output, end the message.
Finish ==
    /\ phase = "reconciling" /\ work = <<>> /\ terminal # Null
    /\ UNCHANGED <<received, started>>
    /\ LET reason  == StopReason(terminal.status, terminal.reason, hasToolCall, hasRefusal)
           stopped == StopBlocks(blocks, openBlocks)
           carried == terminal.output # Null
       IN  IF (terminal.type = "completed" => HasVisibleOutput) /\ reason # Null
           THEN /\ phase' = "stopped"
                /\ openBlocks' = {}
                /\ blocks' = IF carried THEN WholeBlock(stopped, "carrier", terminal.output)
                             ELSE stopped
                /\ nextIndex' = IF carried THEN nextIndex + 1 ELSE nextIndex
                /\ wire' = blocks'
                /\ ending' = [stop_reason |-> reason,
                              explanation |-> Explanation(reason, refusalParts)]
                /\ UNCHANGED <<closed, textIndex, toolIndex, contentVars, flagVars,
                               work, terminal>>
           ELSE Fail(wire)

-----------------------------------------------------------------------------
(* The client and the end of the stream.                                   *)

\* The client disconnects: the generator is cancelled where it awaits the next
\* event, or closed at a yield.  A handler yields a block's start before the rest;
\* a hang-up between the two is taken together with the one before or after it, as
\* nobody reads the state of a generator that was closed.
HangUp ==
    /\ phase = "reading"
    /\ phase' = "hungup"
    /\ UNCHANGED <<closed, received, started, state, wire, handlerVars>>

\* Mutants: the response is closed on one kind of path only.
CloseWhenStopped ==
    /\ phase = "stopped" /\ ~closed
    /\ closed' = TRUE
    /\ UNCHANGED <<phase, received, started, state, wire, handlerVars>>

CloseOnError ==
    /\ phase \in {"failed", "hungup"} /\ ~closed
    /\ closed' = TRUE
    /\ UNCHANGED <<phase, received, started, state, wire, handlerVars>>

\* finally: await response.aclose().
CloseUpstream ==
    /\ phase \in {"stopped", "failed", "hungup"} /\ ~closed
    /\ closed' = TRUE
    /\ UNCHANGED <<phase, received, started, state, wire, handlerVars>>

Keys == Slot \X Part

Handle ==
    \/ Created
    \/ \E o \in Slot, name \in Name \cup {NoName} : ItemAdded(o, name)
    \/ \E k \in Keys, kind \in {"text", "refusal"}, delta \in Deltas : TextDelta(k, kind, delta)
    \/ \E k \in Keys, kind \in {"text", "refusal", "part"}, body \in Bodies : TextDone(k, kind, body)
    \/ \E o \in Slot, delta \in Deltas : ArgumentsDelta(o, delta)
    \/ \E o \in Slot, arguments \in Bodies : ArgumentsDone(o, arguments)
    \/ \E item \in Items : ItemDone(item)
    \/ \E event \in Terminals : Terminate(event)
    \/ StreamFails

\* What the translator does on its own once an event was read.
Proceed ==
    \/ ReconcileText \/ ReconcileCall \/ ReconcileTerminalCall
    \/ ReconcileReasoning \/ SkipTerminalItem \/ RejectItem
    \/ YieldItem \/ Finish
    \/ CloseUpstream

Next == Handle \/ Proceed \/ HangUp

Spec == Init /\ [][Next]_vars

\* The event loop runs a handler that can run; nothing is assumed of the
\* gateway or of the client.
FairSpec == Spec /\ WF_vars(Proceed)

-----------------------------------------------------------------------------
(* Properties.                                                             *)

TypeOK ==
    /\ phase \in {"reading", "reconciling", "stopped", "failed", "hungup"}
    /\ closed \in BOOLEAN /\ received \in Nat /\ started \in BOOLEAN
    /\ nextIndex \in Nat
    /\ textIndex \in [Keys -> Nat \cup {Absent}]
    /\ toolIndex \in [Slot -> Nat \cup {Absent}]
    /\ openBlocks \subseteq Nat
    /\ toolItems \in [Slot -> Name \cup {NoName}]
    /\ argumentParts \in [Slot -> String]
    /\ textParts \in [Keys -> String]
    /\ hasToolCall \in BOOLEAN /\ hasRefusal \in BOOLEAN
    /\ refusalParts \in String
    /\ blocks \in Seq(Block) /\ wire \in Seq(Block)
    /\ work \in Output
    /\ terminal \in TerminalEvent \cup {Null}
    /\ ending \in [stop_reason : {"tool_use", "refusal", "end_turn", "max_tokens",
                                  "model_context_window_exceeded"},
                   explanation : Body] \cup {Null}

\* The five views the translator keeps of one message agree: the next index is
\* the number of blocks started, open_blocks holds exactly the blocks without a
\* stop, and the pieces remembered per output part are what its block shows.
IndexesDense == nextIndex = Len(blocks)

OpenBlocksExact ==
    /\ openBlocks \subseteq 0..(Len(blocks) - 1)
    /\ \A p \in DOMAIN blocks : blocks[p].stops = IF p - 1 \in openBlocks THEN 0 ELSE 1

TextMirrored ==
    \A k \in Keys :
        IF textIndex[k] = Absent THEN textParts[k] = <<>>
        ELSE /\ textIndex[k] + 1 \in DOMAIN blocks
             /\ blocks[textIndex[k] + 1].kind = "text"
             /\ blocks[textIndex[k] + 1].content = textParts[k]
             /\ \A j \in Keys : textIndex[j] = textIndex[k] => j = k

ArgumentsMirrored ==
    \A o \in Slot :
        IF toolIndex[o] = Absent THEN argumentParts[o] = <<>>
        ELSE /\ toolIndex[o] + 1 \in DOMAIN blocks
             /\ blocks[toolIndex[o] + 1].kind = "tool_use"
             /\ blocks[toolIndex[o] + 1].content = argumentParts[o]
             /\ \A q \in Slot : toolIndex[q] = toolIndex[o] => q = o

WireMirrored == phase \in {"reading", "stopped"} => wire = blocks

Bookkeeping ==
    IndexesDense /\ OpenBlocksExact /\ TextMirrored /\ ArgumentsMirrored /\ WireMirrored

\* message_stop is sent only when every block was stopped exactly once
\* (`finish` stops what open_blocks still holds).
MessageStopSealsEveryBlock ==
    phase = "stopped" => \A p \in DOMAIN wire : wire[p].stops = 1

Stopped == phase = "stopped" /\ terminal.output # Null

\* However the pieces arrived, what the client shows at message_stop is the
\* text of the terminal output: mismatches are errors, omissions are filled in.
FinalTextDelivered ==
    Stopped => \A i \in DOMAIN terminal.output :
        LET entry == terminal.output[i]
        IN  IsText(entry) => \E p \in DOMAIN wire :
                /\ p = textIndex[<<entry.slot, entry.part>>] + 1
                /\ wire[p].kind = "text" /\ wire[p].content = entry.body

\* The same for function arguments, which are also an object or empty.
FinalArgumentsDelivered ==
    Stopped => \A i \in DOMAIN terminal.output :
        LET entry == terminal.output[i]
        IN  entry.kind = "call" => \E p \in DOMAIN wire :
                /\ p = toolIndex[entry.slot] + 1
                /\ wire[p].kind = "tool_use" /\ ParsesToObject(wire[p].content)
                /\ entry.body \in {Null, wire[p].content}

\* README: "Function-call arguments must be empty or a JSON object.  Invalid JSON
\* and scalar or array values terminate translation".
ToolArgumentsAreObjects ==
    phase = "stopped" => \A p \in DOMAIN wire :
        wire[p].kind = "tool_use" => ParsesToObject(wire[p].content)

\* A completed response that ends in message_stop showed something: text or a
\* function call (`has_visible_output` looks at its own tables, not at the wire).
CompletedShowsOutput ==
    (phase = "stopped" /\ terminal.type = "completed") =>
        \E p \in DOMAIN wire :
            wire[p].kind = "tool_use" \/ (wire[p].kind = "text" /\ wire[p].content # <<>>)

\* README, "translated back into ... correctly ordered event streams": no delta
\* reaches a content block after its content_block_stop.
SealedBlocksFrozen ==
    [][\A p \in DOMAIN wire : Sealed(wire[p]) => wire'[p] = wire[p]]_vars

\* The client sees an Anthropic stream.
Client == INSTANCE AnthropicStream WITH
    phase <- IF phase \in {"reading", "reconciling"} THEN "streaming" ELSE phase
ClientContract == Client!Spec

\* README: "every terminal, error, disconnect, and cancellation path closes the
\* streamed upstream response".
UpstreamGetsClosed == (phase # "reading") ~> (closed \/ phase = "reading")

=================================================================================
