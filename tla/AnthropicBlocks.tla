---------------------------- MODULE AnthropicBlocks ----------------------------
(***************************************************************************)
(* The content blocks of one streamed Anthropic message, as the client     *)
(* assembles them from content_block_start / _delta / _stop events.  Both  *)
(* stream translators (Chat and Responses) write their output in these     *)
(* terms.  The event at index i is about blocks[i + 1].                    *)
(*                                                                         *)
(* Text and JSON are sequences over Fragment: what a property can tell     *)
(* apart is which pieces arrived and in which order, never a character.    *)
(***************************************************************************)
EXTENDS Integers, Sequences

CONSTANTS Fragment,  \* the pieces text and function arguments are made of
          Label      \* what else a block start carries: the identity (id and
                     \* name) of a tool, or the state a carrier transports

String == Seq(Fragment)

\* "reasoning" and "carrier" are both redacted_thinking on the wire; the two
\* prefixes of reasoning_state.py tell them apart.
Kind == {"text", "tool_use", "reasoning", "carrier"}

Block == [kind : Kind, label : Label, content : String, stops : Nat]

\* content_block_start at the next free index.
StartBlock(blocks, kind, label) ==
    Append(blocks, [kind |-> kind, label |-> label, content |-> <<>>, stops |-> 0])

\* content_block_delta: a text_delta or an input_json_delta.
AppendDelta(blocks, i, delta) ==
    [blocks EXCEPT ![i + 1].content = @ \o delta]

\* Mutant: the stop event is forgotten.
StopBlockSilently(blocks, i) == blocks

\* content_block_stop.
StopBlock(blocks, i) == [blocks EXCEPT ![i + 1].stops = @ + 1]

\* Mutant: only the newest open block is stopped.
StopNewestBlock(blocks, open) ==
    [p \in 1..Len(blocks) |->
        [blocks[p] EXCEPT !.stops =
            IF p - 1 \in open /\ \A q \in open : q <= p - 1 THEN @ + 1 ELSE @]]

\* One content_block_stop for each index in a set.
StopBlocks(blocks, open) ==
    [p \in 1..Len(blocks) |->
        [blocks[p] EXCEPT !.stops = IF p - 1 \in open THEN @ + 1 ELSE @]]

\* A redacted_thinking block is started and stopped in one breath.
WholeBlock(blocks, kind, label) ==
    Append(blocks, [kind |-> kind, label |-> label, content |-> <<>>, stops |-> 1])

Sealed(block) == block.stops = 1

\* What may happen to a block between two reads of the client: a sealed block
\* is final, an open one keeps its kind and identity, only gains content, and
\* is stopped at most once.
Evolves(old, new) ==
    /\ Sealed(old) => new = old
    /\ new.kind = old.kind /\ new.label = old.label
    /\ new.stops \in {0, 1}
    /\ Len(old.content) <= Len(new.content)
    /\ old.content = SubSeq(new.content, 1, Len(old.content))

\* What may happen to the message: no block is withdrawn or reordered.
Extends(old, new) ==
    /\ Len(old) <= Len(new)
    /\ \A i \in 1..Len(old) : Evolves(old[i], new[i])
=================================================================================
