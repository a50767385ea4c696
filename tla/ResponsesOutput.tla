---------------------------- MODULE ResponsesOutput ----------------------------
(***************************************************************************)
(* The output array of an OpenAI response and the pure functions of        *)
(* conversion.py over it: which function arguments parse, which Anthropic  *)
(* stop reason a terminal status maps to, which blocks an output is shown  *)
(* as, and whether the assistant turn a client sends back is accepted.     *)
(*                                                                         *)
(* The array is read flat: one entry per message content part, function    *)
(* call or reasoning item, in order.  An item of a type the proxy does not *)
(* know is one entry of kind "other".                                      *)
(***************************************************************************)
EXTENDS Integers, SequencesExt

CONSTANTS Fragment,     \* pieces of text and of function arguments
          JsonObjects,  \* the strings over Fragment that parse to a JSON object
          Slot,         \* values of output_index
          Part,         \* values of content_index
          Name,         \* identities (call id and name) of function calls
          NoName,       \* the empty identity
          Null          \* None

ASSUME FragmentAssumption ==
    /\ JsonObjects \subseteq Seq(Fragment)
    /\ Null \notin Seq(Fragment)

Body == Seq(Fragment) \cup {Null}

Entry == [slot : Slot, part : Part, kind : {"text", "refusal", "call", "reasoning", "other"},
          name : Name \cup {NoName}, body : Body]

IsText(entry) == entry.kind \in {"text", "refusal"}

\* parse_function_arguments raises for anything else.
ParsesToObject(arguments) == arguments \in {Null, <<>>} \cup JsonObjects

\* The object it returns: absent and empty arguments are the same one.
Parsed(arguments) == IF arguments = Null THEN <<>> ELSE arguments

\* Mutants of the stop reason: a refusal outweighs a call; an unknown reason of
\* an incomplete response is passed on.
RefusalBeforeCall(status, incompleteReason, hasToolCall, hasRefusal) ==
    IF status \notin {Null, "completed"} THEN Null
    ELSE IF hasRefusal THEN "refusal" ELSE IF hasToolCall THEN "tool_use" ELSE "end_turn"

UnknownReasonPassedOn(status, incompleteReason, hasToolCall, hasRefusal) ==
    IF status = "incomplete" THEN incompleteReason
    ELSE IF hasToolCall THEN "tool_use" ELSE IF hasRefusal THEN "refusal" ELSE "end_turn"

(***************************************************************************)
(* responses_stop_reason; Null stands for the ConversionError.             *)
(***************************************************************************)
StopReason(status, incompleteReason, hasToolCall, hasRefusal) ==
    CASE status \notin {Null, "completed", "incomplete"} -> Null
      [] status \in {Null, "completed", "incomplete"} /\ hasToolCall -> "tool_use"
      [] status \in {Null, "completed"} /\ ~hasToolCall ->
            IF hasRefusal THEN "refusal" ELSE "end_turn"
      [] status = "incomplete" /\ ~hasToolCall ->
            IF incompleteReason = "max_output_tokens" THEN "max_tokens"
            ELSE IF hasRefusal \/ incompleteReason = "content_filter" THEN "refusal"
            ELSE IF incompleteReason = "context_window_exceeded"
                 THEN "model_context_window_exceeded"
            ELSE Null

\* refusal_stop_details: the explanation beside a refusal, no other reason has one.
Explanation(reason, text) == IF reason = "refusal" /\ text # <<>> THEN text ELSE Null

(***************************************************************************)
(* Replay of an assistant turn.  Visible is what validation compares: the  *)
(* kind of a block, what it carries and its content, arguments as parsed.  *)
(***************************************************************************)
\* The elements of a sequence that are in a set.
Selected(s, S) ==
    FlattenSeq([i \in DOMAIN s |-> IF s[i] \in S THEN <<s[i]>> ELSE <<>>])

Visible(kind, label, content) == [kind |-> kind, label |-> label, content |-> content]

VisibleEntry(entry) ==
    CASE IsText(entry) -> Visible("text", Null, entry.body)
      [] entry.kind = "call" -> Visible("tool_use", entry.name, Parsed(entry.body))
      [] entry.kind = "reasoning" -> Visible("reasoning", <<entry>>, <<>>)
      [] entry.kind = "other" -> Null

VisibleBlocks(output) == [i \in DOMAIN output |-> VisibleEntry(output[i])]

VisibleBlock(block) == Visible(block.kind, block.label, block.content)

Carriers(blocks) == Selected(blocks, {b \in Range(blocks) : b.kind = "carrier"})
Shown(blocks) == Selected(blocks, {b \in Range(blocks) : b.kind # "carrier"})

\* Mutant: the carrier is compared along with the blocks it stands for.
ReplayComparesCarrier(blocks) ==
    LET carriers == Carriers(blocks)
    IN  carriers # <<>> =>
            [i \in DOMAIN blocks |-> VisibleBlock(blocks[i])] = VisibleBlocks(carriers[1].label)

\* _responses_assistant_items: with a carrier the turn is its output, provided
\* the other blocks are exactly the ones that output is shown as; without one,
\* bare reasoning cannot be replayed.
ReplayAccepts(blocks) ==
    LET carriers == Carriers(blocks)
        shown    == Shown(blocks)
    IN  IF carriers = <<>>
        THEN \A i \in DOMAIN shown : shown[i].kind # "reasoning"
        ELSE /\ Len(carriers) = 1
             /\ \A i \in DOMAIN carriers[1].label : carriers[1].label[i].kind # "other"
             /\ [i \in DOMAIN shown |-> VisibleBlock(shown[i])] =
                VisibleBlocks(carriers[1].label)
=================================================================================
