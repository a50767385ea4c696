--------------------------- MODULE MCResponsesStream ---------------------------
(***************************************************************************)
(* Small gateways for TLC.  The alphabets are chosen so that every final   *)
(* string can agree with, extend or contradict what was streamed before.   *)
(***************************************************************************)
EXTENDS ResponsesStream

CONSTANTS n1, n2  \* identities of function calls

Text(o, c, body) == [slot |-> o, part |-> c, kind |-> "text", name |-> NoName, body |-> body]
Refusal(o, c, body) == [Text(o, c, body) EXCEPT !.kind = "refusal"]
Call(o, name, body) ==
    [slot |-> o, part |-> 0, kind |-> "call", name |-> name, body |-> body]
Reasoning(o) == [Text(o, 0, Null) EXCEPT !.kind = "reasoning"]
Other(o) == [Text(o, 0, Null) EXCEPT !.kind = "other"]

A == <<"a">>
AB == <<"a", "b">>
Open == <<"{">>
Object == <<"{", "}">>

Ends(type, status, reason, outputs) ==
    {[type |-> type, output |-> out, status |-> status, reason |-> reason] : out \in outputs}

MCFragment == {"a", "b", "{", "}"}
MCJsonObjects == {Object}

\* Text and refusals: two parts of one message.
TextDeltas == {A}
TextBodies == {A, AB, Null}
TextItems == {<<Text(0, 0, A), Refusal(0, 1, A)>>, <<Text(0, 0, AB)>>, <<Other(0)>>}
TextOutputs == {<<>>, <<Text(0, 0, AB)>>, <<Refusal(0, 0, A), Text(0, 1, A)>>, Null}
TextTerminals ==
    Ends("completed", "completed", Null, TextOutputs)
    \cup Ends("incomplete", "incomplete", "max_output_tokens", {<<Text(0, 1, A)>>})
    \cup Ends("incomplete", "incomplete", "unknown", {<<Refusal(0, 0, A)>>, <<>>})
    \cup Ends("completed", "failed", Null, {<<Text(0, 0, AB)>>})

\* Function calls at two output indexes, with reasoning.
ToolDeltas == {Open, <<"}">>}
ToolBodies == {Object, Null}
ToolItems == {<<Call(0, n1, Object)>>, <<Call(1, n2, Null)>>, <<Reasoning(1)>>, <<Other(1)>>}
ToolOutputs == {<<Call(0, n1, Object)>>, <<Reasoning(0), Call(1, n2, Null)>>,
                <<Other(0), Call(1, n1, Object)>>, Null}
ToolTerminals ==
    Ends("completed", "completed", Null, ToolOutputs)
    \cup Ends("incomplete", Null, "content_filter", {<<Call(0, n1, <<>>), Call(1, n2, Object)>>})
    \cup Ends("completed", "failed", Null, {<<Call(0, n1, Object)>>})

\* Calls, reasoning and a message with text at two output indexes.
MixedDeltas == {Open, <<"}">>}
MixedBodies == {Object, Null}
MixedItems == {<<Call(0, n1, Object)>>, <<Call(1, n2, Null)>>, <<Reasoning(1)>>,
               <<Text(1, 0, Open)>>}
MixedTerminals ==
    Ends("completed", "completed", Null,
         {<<Call(0, n1, Object)>>, <<Reasoning(0), Call(1, n2, Null), Other(0)>>,
          <<Text(0, 0, Open), Call(1, n1, Object)>>})
    \cup Ends("incomplete", Null, "content_filter", {<<Call(0, n1, <<>>), Call(1, n2, Object)>>})
=================================================================================
