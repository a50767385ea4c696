------------------------------- MODULE MCSession -------------------------------
(***************************************************************************)
(* Small deployments, catalogs, clients and answers, for TLC.              *)
(***************************************************************************)
EXTENDS Session

CONSTANTS m1, m2, m3, a1, a2, p1, p2, p3, t0, t1, t2

\* a1 and a2 are curated aliases, p1 to p3 the encodings of m1 to m3.
MCAutomaticAlias == m1 :> p1 @@ m2 :> p2 @@ m3 :> p3
MCFallbackId == <<t0, t1, t2>>

Plain == [override |-> Null, exact |-> <<>>, globs |-> <<>>, static |-> <<>>,
          discovery |-> "auto", listed |-> {m1, m2, m3}, protocol |-> "openai", native |-> {},
          api |-> "responses", extra |-> Null]

\* The Responses API with curated aliases only, and all requests relayed.
Curated == [Plain EXCEPT !.discovery = "passthrough", !.static = <<a1, a2>>,
                         !.exact = a1 :> m1 @@ a2 :> m2]
Relay == [Curated EXCEPT !.protocol = "anthropic"]

\* Automatic discovery in front of both protocols; the same with Chat.
Gateway == [Plain EXCEPT !.static = <<a1>>, !.exact = a1 :> m1, !.protocol = "auto",
                         !.native = {m2}]
ChatGateway == [Gateway EXCEPT !.api = "chat_completions", !.listed = {m1, m3}]

\* A glob that takes an automatic alias, too, behind one that does not; an
\* override; a model in EXTRA_OPENAI_BODY.
Globs == [Plain EXCEPT !.static = <<a2>>,
                       !.globs = <<[names |-> {a1}, model |-> m2], [names |-> {a1, a2, p3}, model |-> m1]>>]
Override == [Curated EXCEPT !.override = m1]
Extra == [Plain EXCEPT !.extra = m2]

MCDeployments == {Curated, Relay, Gateway, ChatGateway, Globs, Override, Extra}

MCCatalogs == {<<m1, m2, m3>>, <<m1, m3>>, <<m3>>, <<m1, m2, m1>>}

MCClients == {c \in Client : c.keeps = "everything" \/ c.marks = "nothing"}

MCOutputs == [responses |-> {<<"reasoning", "refusal">>,
                             <<"function_call", "output_text", "function_call">>},
              chat_completions |-> {<<"output_text", "function_call", "function_call">>},
              anthropic |-> {<<"thinking", "tool_use">>}]
================================================================================
