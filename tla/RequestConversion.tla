--------------------------- MODULE RequestConversion ---------------------------
(***************************************************************************)
(* A conversation as the two sides of the proxy write it down: Anthropic   *)
(* messages of blocks, Chat messages or Responses input items.  Validation *)
(* (request_validation.py), the two request converters and the shape of    *)
(* results (conversion.py), and what a carrier is bound to                 *)
(* (reasoning_state.py).                                                   *)
(*                                                                         *)
(* What is said is a coordinate `at`: the number of the message it was     *)
(* said in and its place there.  That is all that tells two texts, calls   *)
(* or results apart; a result also names the call it is `about`.           *)
(***************************************************************************)
EXTENDS ModelRouting

CONSTANTS FallbackId,     \* tool_<index>, the id of a call that came without one
          NoId,           \* the empty id
          MaxBreakpoints  \* MAX_PROMPT_CACHE_BREAKPOINTS

ASSUME ConversionAssumption ==
    /\ FallbackId \in Seq(Range(FallbackId)) /\ NoId \notin Range(FallbackId) \cup Nat \X Nat
    /\ \A i, j \in DOMAIN FallbackId : FallbackId[i] = FallbackId[j] => i = j
    /\ MaxBreakpoints \in Nat

\* The kinds of items an output may have.
OutputKind ==
    [responses        |-> {"reasoning", "output_text", "refusal", "function_call"},
     chat_completions |-> {"output_text", "refusal", "function_call"},
     anthropic        |-> {"thinking", "text", "tool_use"}]

Coordinate == Nat \X Nat
Id == {NoId} \cup Range(FallbackId) \cup Coordinate
Shown == {"text", "tool_use", "tool_result", "reasoning", "thinking"}

\* Blocks of Anthropic messages: one that says something, or a carrier of Outcomes.
\* "reasoning" and "carrier" are redacted_thinking blocks of the proxy, "thinking"
\* is Anthropic's own.
SaidBlock ==
    [kind : Shown, id : Id, at : Coordinate, about : Coordinate \cup {Null}, mark : BOOLEAN]
Outcome ==
    [kind : OutputKind.responses, id : Id, at : Coordinate, about : {Null}, mark : BOOLEAN]
CarrierBlock == [kind : {"carrier"}, model : Name, output : Seq(Outcome), mark : BOOLEAN]
Block == SaidBlock \cup CarrierBlock
Message == [role : {"user", "assistant"}, blocks : Seq(Block)]

\* An item the upstream is sent.
UpItem ==
    [from : {"blocks", "user", "output"}, id : Id, at : Coordinate,
     kind : Shown \cup OutputKind.responses \cup {"function_call", "function_call_output"},
     about : Coordinate \cup {Null}, mark : BOOLEAN]

\* Null, what a rejected request is converted to, is no sequence of blocks or items.
ASSUME RejectionAssumption == Null \notin Seq(Block) /\ Null \notin Seq(UpItem)

Said(kind, id, at) == [kind |-> kind, id |-> id, at |-> at, about |-> Null, mark |-> FALSE]
Carrier(model, output) ==
    [kind |-> "carrier", model |-> model, output |-> output, mark |-> FALSE]

\* The blocks of some kinds, and the blocks that are not.
Only(blocks, kinds) ==
    FlattenSeq([b \in DOMAIN blocks |->
                  IF blocks[b].kind \in kinds THEN <<blocks[b]>> ELSE <<>>])
Without(blocks, kinds) ==
    FlattenSeq([b \in DOMAIN blocks |->
                  IF blocks[b].kind \in kinds THEN <<>> ELSE <<blocks[b]>>])

Carriers(blocks) == Only(blocks, {"carrier"})
Visible(blocks)  == Without(blocks, {"carrier"})
Calls(blocks)    == Only(blocks, {"tool_use"})

-----------------------------------------------------------------------------
(* Validation.                                                             *)

\* _validate_block: only the Responses backend knows the proxy's own blocks, a
\* call takes no cache mark.
ValidBlock(role, block, backend) ==
    /\ block.kind = "tool_use" => role = "assistant" /\ block.id # NoId /\ ~block.mark
    /\ block.kind = "tool_result" => role = "user" /\ block.id # NoId
    /\ block.kind \in {"reasoning", "carrier"} =>
          role = "assistant" /\ backend = "responses" /\ ~block.mark
    /\ block.kind # "thinking"

\* The blocks of all messages, as pairs of a message and a place in it.
Places(messages) == UNION {{<<m, b>> : b \in DOMAIN messages[m].blocks} : m \in DOMAIN messages}
At(messages, place) == messages[place[1]].blocks[place[2]]

\* _count_cache_controls.
Marked(messages) == {p \in Places(messages) : At(messages, p).mark}

\* prepare_anthropic_request, as far as the messages go.
ValidRequest(messages, backend) ==
    /\ \A p \in Places(messages) :
          ValidBlock(messages[p[1]].role, At(messages, p), backend)
    /\ messages # <<>> => Last(messages).role # "assistant"
    /\ Cardinality(Marked(messages)) <= MaxBreakpoints

\* _mark_top_level_cache_control: the last cacheable block of all messages.
MarkTopLevel(messages) ==
    LET cacheable == {p \in Places(messages) :
                         At(messages, p).kind \in {"text", "tool_use", "tool_result"}}
        last == CHOOSE p \in cacheable : \A q \in cacheable :
                    q[1] < p[1] \/ (q[1] = p[1] /\ q[2] <= p[2])
    IN  IF cacheable = {} THEN messages
        ELSE [messages EXCEPT ![last[1]].blocks[last[2]].mark = TRUE]

-----------------------------------------------------------------------------
(* Upstream items: a block as the upstream is told of it, with where the   *)
(* proxy has it from, or an item of an output.                             *)

Item(from, kind, block) ==
    [from |-> from, kind |-> kind, id |-> block.id, at |-> block.at, about |-> block.about,
     mark |-> block.mark]

ItemKind(block) ==
    CASE block.kind = "tool_use"    -> "function_call"
      [] block.kind = "tool_result" -> "function_call_output"
      [] OTHER                      -> block.kind

Told(from, blocks) == [b \in DOMAIN blocks |-> Item(from, ItemKind(blocks[b]), blocks[b])]

\* _responses_visible_blocks: how the client is shown an output.  The kind of a
\* refusal is lost.
BlockKind(item) ==
    CASE item.kind = "function_call"             -> "tool_use"
      [] item.kind \in {"output_text", "refusal"} -> "text"
      [] OTHER                                   -> item.kind

VisibleBlocks(output) ==
    [i \in DOMAIN output |-> Said(BlockKind(output[i]), output[i].id, output[i].at)]

\* The carried items are sent as they came.
Carried(output) == [i \in DOMAIN output |-> Item("output", output[i].kind, output[i])]

\* Mutants: the carrier's model is not compared; the carrier is compared along
\* with the blocks it stands for.
AssistantOfAnyModel(blocks, expected) ==
    LET carriers == Carriers(blocks)
        visible  == Visible(blocks)
    IN  IF carriers # <<>>
        THEN IF Len(carriers) = 1 /\ visible = VisibleBlocks(carriers[1].output)
             THEN Carried(carriers[1].output) ELSE Null
        ELSE IF \E b \in DOMAIN visible : visible[b].kind = "reasoning" THEN Null
        ELSE Told("blocks", visible)

AssistantComparesAll(blocks, expected) ==
    LET carriers == Carriers(blocks)
    IN  IF carriers # <<>>
        THEN IF /\ Len(carriers) = 1 /\ carriers[1].model = expected
                /\ blocks = VisibleBlocks(carriers[1].output)
             THEN Carried(carriers[1].output) ELSE Null
        ELSE IF \E b \in DOMAIN blocks : blocks[b].kind = "reasoning" THEN Null
        ELSE Told("blocks", blocks)

\* _responses_assistant_items: the carried output stands for all blocks, which
\* have to be the ones it was shown as, without cache marks; without a carrier
\* reasoning cannot be sent.  Null stands for the ConversionError.
AssistantItems(blocks, expected) ==
    LET carriers == Carriers(blocks)
        visible  == Visible(blocks)
    IN  IF carriers # <<>>
        THEN IF /\ Len(carriers) = 1 /\ carriers[1].model = expected
                /\ visible = VisibleBlocks(carriers[1].output)
             THEN Carried(carriers[1].output) ELSE Null
        ELSE IF \E b \in DOMAIN visible : visible[b].kind = "reasoning" THEN Null
        ELSE Told("blocks", visible)

ResponsesItems(messages, expected) ==
    LET items(m) == IF messages[m].role = "assistant"
                    THEN AssistantItems(messages[m].blocks, expected)
                    ELSE Told("user", messages[m].blocks)
    IN  IF \E m \in DOMAIN messages : items(m) = Null THEN Null
        ELSE FlattenSeq([m \in DOMAIN messages |-> items(m)])

\* Mutant: results follow the text of their message.
UserTextFirst(blocks) ==
    Told("user", Only(blocks, {"text"}) \o Only(blocks, {"tool_result"}))

\* _user_messages keeps the order, splitting the message at its results.
UserMessages(blocks) == Told("user", blocks)

\* _assistant_message: one message, its content before its tool calls.
AssistantMessage(blocks) ==
    Told("blocks", Without(blocks, {"tool_use"}) \o Calls(blocks))

ChatMessages(messages) ==
    FlattenSeq([m \in DOMAIN messages |->
        IF messages[m].role = "assistant" THEN AssistantMessage(messages[m].blocks)
        ELSE UserMessages(messages[m].blocks)])

\* The body the upstream is sent; Null stands for HTTP 400.  The relay reads
\* nothing but the model.
Convert(messages, backend, expected) ==
    CASE backend = "anthropic" -> FlattenSeq([m \in DOMAIN messages |-> messages[m].blocks])
      [] backend # "anthropic" /\ ~ValidRequest(messages, backend) -> Null
      [] backend = "responses" /\ ValidRequest(messages, backend) ->
            ResponsesItems(messages, expected)
      [] backend = "chat_completions" /\ ValidRequest(messages, backend) ->
            ChatMessages(messages)

-----------------------------------------------------------------------------
(* Results.  An output is a sequence of items; what a Chat message is made *)
(* of is called by the same names.                                         *)

\* Mutant: all calls without an id get the same one.
CallIdConstant(output, i, streamed) ==
    IF output[i].kind = "function_call" /\ output[i].id = NoId /\ streamed THEN FallbackId[1]
    ELSE output[i].id

\* The streamed translation makes up an id from the index of the call, the
\* buffered one leaves it empty.
CallId(output, i, streamed) ==
    IF output[i].kind = "function_call" /\ output[i].id = NoId /\ streamed
    THEN FallbackId[Cardinality({j \in 1..i : output[j].kind = "function_call"})]
    ELSE output[i].id

\* openai_to_anthropic, and what openai_stream_to_anthropic comes to.
ChatResult(output, streamed) ==
    VisibleBlocks([i \in DOMAIN output |-> [output[i] EXCEPT !.id = CallId(output, i, streamed)]])

\* responses_to_anthropic puts the carrier first, the stream sends it last.
ResponsesResult(output, model, streamed) ==
    IF streamed THEN Append(VisibleBlocks(output), Carrier(model, output))
    ELSE <<Carrier(model, output)>> \o VisibleBlocks(output)

\* What the client of a request to this backend and model is shown.
Result(backend, model, output, streamed) ==
    CASE backend = "responses"        -> ResponsesResult(output, model, streamed)
      [] backend = "chat_completions" -> ChatResult(output, streamed)
      [] backend = "anthropic"        -> VisibleBlocks(output)
=================================================================================
