---------------------------- MODULE MCResponsesTurn ----------------------------
(***************************************************************************)
(* Answers of a conforming gateway, for TLC.                               *)
(***************************************************************************)
EXTENDS ResponsesTurn

CONSTANTS n1, n2

Text(o, c, body) == [slot |-> o, part |-> c, kind |-> "text", name |-> NoName, body |-> body]
Refusal(o, c, body) == [Text(o, c, body) EXCEPT !.kind = "refusal"]
Call(o, name, body) ==
    [slot |-> o, part |-> 0, kind |-> "call", name |-> name, body |-> body]
Reasoning(o) == [Text(o, 0, Null) EXCEPT !.kind = "reasoning"]

AB == <<"a", "b">>
Object == <<"{", "}">>

MCFragment == {"a", "b", "{", "}"}
MCJsonObjects == {Object}
MCEvents == {"created", "item.added", "text.delta", "text.done", "arguments.delta",
             "arguments.done", "item.done", "terminal"}

PlainAnswers == {
    <<Text(0, 0, AB), Text(0, 1, <<"b">>), Call(1, n1, Object)>>,
    <<Call(0, n1, Object), Call(1, n2, <<>>), Text(2, 0, AB)>>,
    <<Call(0, n1, <<>>), Call(1, n1, <<>>), Call(2, n2, Object)>>}
ReasoningAnswers == {
    <<Reasoning(0), Text(1, 0, AB), Call(2, n1, Object)>>,
    <<Text(0, 0, <<"a">>), Reasoning(1), Call(2, n1, Object)>>}
RefusalAnswers == {<<Refusal(0, 0, AB)>>, <<Text(0, 0, AB), Refusal(0, 1, <<"a">>)>>,
                   <<Refusal(0, 0, AB), Call(1, n1, Object)>>}
\* Cut short before anything visible.
CutAnswers == {<<>>, <<Text(0, 0, <<"a">>)>>}

GatewaysOf(answers, omits, echoing, cuts) ==
    [answer : answers, omitted : SUBSET omits, echoes : echoing, cut : cuts]
Cuts == {"max_output_tokens", "content_filter", "context_window_exceeded"}

\* A gateway that completes every item and repeats its output may leave out all
\* else; without reasoning it may also leave out those, as long as it sends deltas.
ConformingGateways ==
    GatewaysOf(PlainAnswers \cup ReasoningAnswers \cup RefusalAnswers,
              {"deltas", "lastDeltas", "bodyDone", "partDone"}, {TRUE}, {Null} \cup Cuts)
    \cup GatewaysOf(PlainAnswers \cup RefusalAnswers, {"bodyDone", "partDone", "itemDone"},
                   BOOLEAN, {Null} \cup Cuts)
    \cup GatewaysOf(CutAnswers, Redundant \ {"deltas", "lastDeltas"}, BOOLEAN, Cuts)

ASSUME ConformingAssumption == \A g \in ConformingGateways : Conforming(g)

\* A refusal that neither the item nor the completed response repeats.
RefusalGateways == GatewaysOf(RefusalAnswers, {"deltas", "itemDone"}, {FALSE}, {Null})

\* Reasoning that only the completed response lists.
ReasoningGateways == GatewaysOf(ReasoningAnswers, {"itemDone"}, {TRUE}, {Null})
=================================================================================
