------------------------------ MODULE MCChatStream ------------------------------
(***************************************************************************)
(* Small gateways for TLC: text, refusals, calls split over chunks and     *)
(* several deltas in one chunk, with every kind of finish reason.          *)
(***************************************************************************)
EXTENDS ChatStream

CONSTANTS i1, i2  \* ids of tool calls

MCFragment == {"a", "b", "{", "}", "n", "m"}
MCJsonObjects == {<<"{", "}">>, <<"{", "a", "}">>}

Says(content) == [finish |-> Null, content |-> content, refusal |-> Null, calls |-> <<>>]
Refuses(refusal) == [Says(<<>>) EXCEPT !.refusal = refusal]
Calls(calls) == [Says(<<>>) EXCEPT !.calls = calls]
Ends(finish) == [Says(<<>>) EXCEPT !.finish = finish]
Delta(index, id, name, arguments) ==
    [index |-> index, id |-> id, name |-> name, arguments |-> arguments]

TextChunks == {Says(<<"a">>), [Refuses(<<"b">>) EXCEPT !.content = <<"a">>], Refuses(<<>>)}
EndChunks == {Ends("stop"), Ends("unknown"),
              [Ends("tool_calls") EXCEPT !.content = <<"b">>],
              [Ends("content_filter") EXCEPT !.refusal = <<"a">>]}

\* Two calls, interleaved, with names and ids that arrive late or in pieces.  With
\* parallel calls disabled the second one breaks the promise, before or after the
\* first was announced.
MCChunks == TextChunks \cup EndChunks \cup {
    Calls(<<Delta(0, NoId, <<"n">>, <<"{">>)>>),
    Calls(<<Delta(0, i1, <<"m">>, <<"}">>)>>),
    Calls(<<Delta(1, i2, <<>>, <<"{", "}">>), Delta(0, NoId, <<>>, <<"}">>)>>),
    Calls(<<Delta(1, NoId, <<"n">>, <<>>)>>)}
=================================================================================
