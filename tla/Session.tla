-------------------------------- MODULE Session --------------------------------
(***************************************************************************)
(* A conversation through the proxy, which keeps nothing of it: the client *)
(* picks a model from the list, sends its whole history with every         *)
(* request, and what the upstream is told is made from that history and    *)
(* the settings alone.  Between two requests, or while one is under way,   *)
(* the proxy may be replaced by one with other settings; a request is      *)
(* finished by the process that took it.                                   *)
(***************************************************************************)
EXTENDS ModelPages, RequestConversion

CONSTANTS Deployments,  \* the settings the proxy may be started with
          Favourites,   \* names the client knows without having read the list
          Clients,      \* see Client
          Outputs,      \* Outputs[api]: the kinds of items of an answer
          MaxMessages   \* bound: messages of the conversation

\* What a client keeps of an answer, and where it puts its cache marks.
Client == [keeps : {"everything", "noReasoning", "noText"},
           marks : {"nothing", "topLevel", "userTurns", "answers"}]

ASSUME SessionAssumption ==
    /\ Clients \subseteq Client /\ Deployments \subseteq Deployment
    /\ \A d \in Deployments : Valid(d)
    /\ \A api \in DOMAIN OutputKind : Outputs[api] \subseteq Seq(OutputKind[api])
    /\ \A kinds \in Outputs["chat_completions"] : Len(kinds) <= Len(FallbackId)

VARIABLES
    requested,  \* the client's model, Null before it chose one
    listed,     \* whether the deployment's list offered it
    client,     \* external: the client's habits
    history,    \* the messages the client has, its own last one included
    outputs,    \* history: what the upstream said in message m, and who
    sent,       \* history: what the upstream was sent for the pending request
    stage       \* "choosing", "composing", "waiting" or "rejected"

talkVars    == <<requested, listed, client, history, outputs, sent, stage>>
sessionVars == <<pagesVars, talkVars>>

SessionInit ==
    /\ PagesInit(Deployments)
    /\ requested = Null /\ listed = FALSE /\ client \in Clients
    /\ history = <<>> /\ outputs = <<>> /\ sent = Null /\ stage = "choosing"

Browse == stage = "choosing" /\ PagesNext /\ UNCHANGED talkVars

\* Choosing ends the walk; the list is not looked at again.
Choose(name) ==
    /\ stage = "choosing" /\ walk \in {"idle", "finished", "rejected"}
    /\ name \in Favourites \cup Range(seen)
    /\ requested' = name /\ listed' = (name \in Range(seen)) /\ stage' = "composing"
    /\ walk' = "idle" /\ seen' = <<>> /\ steady' = {} /\ cursor' = Null /\ way' = "after"
    /\ catalog' = (CHOOSE c \in Catalogs : TRUE) /\ rebuilds' = 0
    /\ UNCHANGED <<deployment, client, history, outputs, sent>>

\* A call is answered in the next message, with or without more to say.
Prompts ==
    LET n       == Len(history) + 1
        calls   == IF history = <<>> THEN <<>> ELSE Calls(Last(history).blocks)
        text(i) == Said("text", NoId, <<n, i>>)
        result(i, call) == [Said("tool_result", call.id, <<n, i>>) EXCEPT !.about = call.at]
        k       == Len(calls)
    IN  IF calls = <<>> THEN {<<text(1)>>}
        ELSE {[i \in 1..k |-> result(i, calls[i])],
              Append([i \in 1..k |-> result(i, calls[k + 1 - i])], text(k + 1)),
              <<text(1)>> \o [i \in 1..k |-> result(i + 1, calls[i])]}

\* The messages of a request, with the client's cache marks.
WithMarks(messages) ==
    LET wanted(role, blocks, b) ==
            \/ client.marks = "userTurns" /\ role = "user" /\ b = Len(blocks)
            \/ client.marks = "answers" /\ role = "assistant" /\ blocks[b].kind = "text"
        marked(role, blocks) ==
            [b \in DOMAIN blocks |-> [blocks[b] EXCEPT !.mark = wanted(role, blocks, b)]]
    IN  IF client.marks = "topLevel" THEN MarkTopLevel(messages)
        ELSE [m \in DOMAIN messages |->
                 [messages[m] EXCEPT !.blocks = marked(messages[m].role, @)]]

\* POST /v1/messages.  A rejection ends the conversation: the same history
\* would be rejected again.
Submit(prompt) ==
    /\ stage = "composing" /\ Len(history) < MaxMessages
    /\ LET messages == Append(history, [role |-> "user", blocks |-> prompt])
           backend  == Backend(deployment, requested)
           items    == Convert(WithMarks(messages), backend, MapModel(deployment, requested))
       IN  /\ history' = messages /\ outputs' = Append(outputs, Null)
           /\ IF items = Null THEN stage' = "rejected" /\ sent' = Null
              ELSE /\ stage' = "waiting"
                   /\ sent' = [under |-> deployment, listed |-> listed, backend |-> backend,
                               model |-> UpstreamModel(deployment, requested), items |-> items]
    /\ UNCHANGED <<pagesVars, requested, listed, client>>

Kept(blocks) ==
    CASE client.keeps = "everything"  -> blocks
      [] client.keeps = "noReasoning" -> Without(blocks, {"reasoning", "thinking", "carrier"})
      [] client.keeps = "noText"      -> Without(blocks, {"text"})

\* The upstream's answer, streamed or buffered.  Its ids are unique, as long as
\* it has any.
Answer(kinds, named, streamed) ==
    /\ stage = "waiting"
    /\ LET n  == Len(history) + 1
           id(i) == IF kinds[i] \in {"function_call", "tool_use"} /\ named THEN <<n, i>> ELSE NoId
           output == [i \in DOMAIN kinds |-> Said(kinds[i], id(i), <<n, i>>)]
       IN  /\ history' = Append(history, [role |-> "assistant",
                             blocks |-> Kept(Result(sent.backend, sent.model, output, streamed))])
           /\ outputs' = Append(outputs, [model |-> sent.model, backend |-> sent.backend])
    /\ sent' = Null /\ stage' = "composing"
    /\ UNCHANGED <<pagesVars, requested, listed, client>>

AnyAnswer ==
    /\ sent # Null /\ Len(history) + 1 < MaxMessages
    /\ \E kinds \in Outputs[sent.backend], streamed \in BOOLEAN :
          \E named \in (IF sent.backend = "chat_completions" THEN BOOLEAN ELSE {TRUE}) :
             Answer(kinds, named, streamed)

\* The proxy is started anew with other settings.
Redeploy ==
    /\ stage \in {"composing", "waiting"}
    /\ deployment' \in Deployments \ {deployment} /\ listed' = FALSE
    /\ UNCHANGED <<catalog, rebuilds, walkVars, requested, client, history, outputs, sent, stage>>

SessionNext ==
    \/ Browse \/ AnyAnswer \/ Redeploy
    \/ \E name \in Name : Choose(name)
    \/ \E prompt \in Prompts : Submit(prompt)

SessionSpec == SessionInit /\ [][SessionNext]_sessionVars

-----------------------------------------------------------------------------
(* Properties.                                                             *)

Translated == sent # Null /\ sent.backend # "anthropic"
Items == sent.items

\* README: covering every published alias prevents "a display-only alias from
\* being sent accidentally as an upstream model ID", and selecting an automatic
\* alias "maps back to the exact upstream id", which configured names override.
\* The relay of UPSTREAM_PROTOCOL=anthropic maps nothing.
RoutedAsListed ==
    sent # Null /\ sent.listed /\ sent.under.protocol # "anthropic" =>
        /\ sent.model \in Model
        /\ \/ AutomaticAlias[sent.model] = requested
           \/ sent.model \in {sent.under.override, sent.under.extra}
           \/ sent.model \in Range(sent.under.exact)
           \/ \E g \in DOMAIN sent.under.globs : sent.model = sent.under.globs[g].model

\* README: the proxy "sends each original OpenAI output item only once".  What
\* the client has of the conversation is told upstream, each thing once and in
\* the order it was said; Chat tells the calls of an answer after its text.
UpstreamSeesConversation ==
    Translated =>
        LET due == {At(history, p).at : p \in {q \in Places(history) : At(history, q).kind # "carrier"}}
        IN  /\ {Items[i].at : i \in DOMAIN Items} = due
            /\ \A i, j \in DOMAIN Items : i < j =>
                  \/ Items[i].at[1] < Items[j].at[1]
                  \/ Items[i].at[1] = Items[j].at[1] /\ Items[i].at[2] < Items[j].at[2]
                  \/ /\ sent.backend = "chat_completions" /\ Items[i].at[1] = Items[j].at[1]
                     /\ history[Items[i].at[1]].role = "assistant"
                     /\ Items[i].kind # "function_call" /\ Items[j].kind = "function_call"

\* README: "clients must preserve response content blocks"; carriers "from
\* another model are rejected".  Nothing else makes a conversation stop: not a
\* restart, nor a change of settings that leads to the same model, nor the loss of
\* all reasoning.  (A mark on a call or on an answer that is carried is rejected,
\* so is an answer whose buffered calls came without an id, and EXTRA_OPENAI_BODY
\* with a model binds the carriers to that.)
RejectionsHaveCauses ==
    stage = "rejected" =>
        LET Opaque(block) == block.kind \in {"carrier", "reasoning", "thinking"}
            places == Places(history)
        IN  \/ \E p \in places :
                  LET block == At(history, p)
                      by    == outputs[p[1]]
                  IN  \/ /\ Opaque(block)
                         /\ \/ by.backend # Backend(deployment, requested)
                            \/ by.model # MapModel(deployment, requested)
                            \/ client.keeps = "noText"
                            \/ client.marks = "answers"
                      \/ block.kind = "tool_use" /\ block.id = NoId
            \/ Cardinality(Marked(WithMarks(history))) > MaxBreakpoints

\* Every tool result the upstream is sent is, by its id, the result of the call
\* the client made it for, and that call was told before it.
ResultsReachTheirCalls ==
    Translated =>
        \A i \in DOMAIN Items : Items[i].kind = "function_call_output" =>
            LET calls == {j \in 1..(i - 1) : Items[j].kind = "function_call"
                                             /\ Items[j].id = Items[i].id}
            IN  calls # {} /\ Items[Max(calls)].at = Items[i].about

\* README: "carriers from another model are rejected rather than replayed
\* unsafely".  Unless EXTRA_OPENAI_BODY replaces the model after the check,
\* original output only goes to the model that produced it.
StateBoundToModel ==
    Translated /\ sent.under.extra = Null =>
        \A i \in DOMAIN Items : Items[i].from = "output" =>
            outputs[Items[i].at[1]].model = sent.model
=================================================================================
