--------------------------- MODULE ResponsesBuffered ---------------------------
(***************************************************************************)
(* The other way a Responses result reaches a client: as one JSON body,    *)
(* converted by responses_to_anthropic (conversion.py) and, for a client   *)
(* that asked for a stream from an upstream that ignored it, written out   *)
(* block by block by anthropic_message_stream (streaming.py).              *)
(***************************************************************************)
EXTENDS ResponsesStream

IsRejected(entry) ==
    \/ entry.kind = "other"
    \/ IsText(entry) /\ entry.body = Null
    \/ entry.kind = "call" /\ ~ParsesToObject(entry.body)

HasText(output) == \E i \in DOMAIN output : IsText(output[i]) /\ output[i].body # <<>>
HasKind(output, kind) == \E i \in DOMAIN output : output[i].kind = kind

\* responses_to_anthropic: the carrier first, then what the output is shown as;
\* Null stands for the ConversionError.
BufferedMessage(output, status, incompleteReason) ==
    LET reason == StopReason(status, incompleteReason, HasKind(output, "call"),
                             HasKind(output, "refusal"))
    IN  IF \/ \E i \in DOMAIN output : IsRejected(output[i])
           \/ status # "incomplete" /\ ~HasKind(output, "call") /\ ~HasText(output)
           \/ reason = Null
        THEN Null
        ELSE [content |-> <<Visible("carrier", output, <<>>)>> \o VisibleBlocks(output),
              stop_reason |-> reason]

\* Mutant: the input of a call is left to its content_block_start.
WriteBlockStart(produced, block) ==
    IF block.kind # "text" THEN WholeBlock(produced, block.kind, block.label)
    ELSE LET i == Len(produced)
         IN  StopBlock(AppendDelta(StartBlock(produced, block.kind, block.label), i, block.content), i)

\* anthropic_message_stream, one block: redacted_thinking has no delta, any other
\* block one.
WriteBlock(produced, block) ==
    IF block.kind \in {"reasoning", "carrier"} THEN WholeBlock(produced, block.kind, block.label)
    ELSE LET i == Len(produced)
         IN  StopBlock(AppendDelta(StartBlock(produced, block.kind, block.label), i, block.content), i)

WriteMessage(message) ==
    LET written[n \in 0..Len(message.content)] ==
            IF n = 0 THEN <<>> ELSE WriteBlock(written[n - 1], message.content[n])
    IN  written[Len(message.content)]
=================================================================================
