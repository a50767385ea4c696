----------------------------- MODULE ProxyRequests -----------------------------
(***************************************************************************)
(* The request handlers of app.py, from the client's request to the last   *)
(* use of the upstream response, for several requests that share the one   *)
(* httpx client of the application and its bounded pool of connections.    *)
(*                                                                         *)
(* Every handler sends with stream=True and is itself responsible for      *)
(* closing the upstream response on each of its paths.  What httpx does is *)
(* external: a body read to its end and a read that raises give the        *)
(* connection back, an unread or half-read body keeps it.                  *)
(***************************************************************************)
EXTENDS Integers, FiniteSets

CONSTANTS Requests,  \* bound: the requests served
          PoolSize   \* bound: connections of the httpx client

ASSUME ProxyAssumption ==
    /\ IsFiniteSet(Requests)
    /\ PoolSize \in Nat \ {0}

\* messages without and with stream, count_tokens and automatic model discovery
\* are translated; "relay" stands for forward_json and forward_upstream.
Route == {"messages", "stream", "count", "models", "relay"}

Passed == 0  \* the upstream's own status

Reply == [status : {200, 400, 401, 404, 413, 500, 501, 502, 504, Passed},
          shape  : {"json", "events", "anthropic error", "relayed", "plain error"}]
NoReply == [status |-> -1, shape |-> "none"]

AnthropicError(status) == [status |-> status, shape |-> "anthropic error"]
ServerError == [status |-> 500, shape |-> "plain error"]
Json == [status |-> 200, shape |-> "json"]

\* token_count_mode and token_count_fallback.
Settings == [mode : {"auto", "exact", "estimate", "unsupported"},
             fallback : {"estimate", "error"}]

VARIABLES
    settings,  \* of the deployment, never changed
    route,  \* which handler serves the request
    stage,  \* "accepted", "sending", "error body", "body", "prepared", "streaming", "done" or "dropped"
    conn,   \* its upstream connection: "none", "open" or "closed"
    reply   \* what the client was answered, or NoReply

vars == <<settings, route, stage, conn, reply>>

Init ==
    /\ settings \in Settings
    /\ route \in [Requests -> Route]
    /\ stage = [r \in Requests |-> "accepted"]
    /\ conn = [r \in Requests |-> "none"]
    /\ reply = [r \in Requests |-> NoReply]

-----------------------------------------------------------------------------

Goto(r, next) == stage' = [stage EXCEPT ![r] = next] /\ UNCHANGED <<settings, route>>

Answer(r, what) ==
    /\ Goto(r, "done")
    /\ reply' = [reply EXCEPT ![r] = what]

\* Mutant: the response of an upstream error is not closed.
CloseResult(r) ==
    conn' = [conn EXCEPT ![r] = IF stage[r] = "error body" THEN @ ELSE "closed"]

Close(r) == conn' = [conn EXCEPT ![r] = "closed"]

\* Mutants: exact counting falls back, too; the wrong status.
FallbackAlways(exact) ==
    IF settings.fallback = "estimate" THEN Json ELSE AnthropicError(501)
FallbackForbidden(exact) ==
    IF ~exact /\ settings.fallback = "estimate" THEN Json ELSE AnthropicError(403)

\* _token_count_fallback.
FallbackReply(exact) ==
    IF ~exact /\ settings.fallback = "estimate" THEN Json ELSE AnthropicError(501)

\* Every POST reads the client's body within its limit; messages and
\* count_tokens convert it, also when the model's backend is relayed to;
\* upstream_headers may reject the credentials; a pass-through route may be
\* disabled.  A tool_result whose content is null is valid, but the converters
\* iterate over it, and only a ConversionError is expected there.
Rejections(how) ==
    {AnthropicError(401)}
    \cup (IF how \in {"messages", "stream", "count"} THEN {ServerError} ELSE {})
    \cup (IF how = "models" THEN {} ELSE {AnthropicError(413), AnthropicError(400)})
    \cup (IF how = "relay" THEN {AnthropicError(404)} ELSE {})

Reject(r) ==
    /\ stage[r] = "accepted"
    /\ \E what \in Rejections(route[r]) : Answer(r, what)
    /\ UNCHANGED conn

\* count_tokens modes that never ask the upstream, and a backend without a
\* token count endpoint.
CountsLocally(hasEndpoint) == settings.mode \in {"estimate", "unsupported"} \/ ~hasEndpoint
LocalCount ==
    CASE settings.mode = "unsupported" -> AnthropicError(501)
      [] settings.mode = "estimate"    -> Json
      [] OTHER                     -> FallbackReply(settings.mode = "exact")

CountLocally(r) ==
    /\ stage[r] = "accepted" /\ route[r] = "count"
    /\ \E hasEndpoint \in BOOLEAN : CountsLocally(hasEndpoint)
    /\ Answer(r, LocalCount)
    /\ UNCHANGED conn

\* The client's send waits for a free connection.
Send(r) ==
    /\ stage[r] = "accepted"
    /\ route[r] = "count" => ~CountsLocally(TRUE)
    /\ Goto(r, "sending")
    /\ UNCHANGED <<conn, reply>>

\* Mutant: waiting for a connection has no timeout.
SendFailsConnected(r) ==
    /\ stage[r] = "sending" /\ Cardinality({q \in Requests : conn[q] = "open"}) < PoolSize
    /\ \E status \in {502, 504} : Answer(r, AnthropicError(status))
    /\ UNCHANGED conn

\* httpx.TimeoutException (the pool's timeout included) or HTTPError.
SendFails(r) ==
    /\ stage[r] = "sending"
    /\ \E status \in {502, 504} : Answer(r, AnthropicError(status))
    /\ UNCHANGED conn

OpenConnections == {r \in Requests : conn[r] = "open"}

\* The upstream's status and headers arrive.
Headers == {"error", "unsupported", "events", "body"}

StageAfter(how, headers) ==
    CASE how = "relay"  -> IF headers = "events" THEN "prepared" ELSE "body"
      [] how # "relay" /\ headers \in {"error", "unsupported"} -> "error body"
      [] how = "stream" /\ headers = "events" -> "prepared"
      [] OTHER -> "body"

Connect(r) ==
    /\ stage[r] = "sending" /\ Cardinality(OpenConnections) < PoolSize
    /\ \E headers \in Headers :
          IF route[r] = "count" /\ headers = "unsupported" /\ settings.mode = "auto"
          THEN /\ Close(r)
               /\ Answer(r, FallbackReply(FALSE))
          ELSE /\ conn' = [conn EXCEPT ![r] = "open"]
               /\ Goto(r, StageAfter(route[r], headers))
               /\ UNCHANGED reply

\* httpx raises while a body is read.  Only model discovery expects it there.
ReadFails(r) ==
    /\ stage[r] \in {"error body", "body"}
    /\ Close(r)
    /\ Answer(r, IF route[r] = "models" /\ stage[r] = "body" THEN AnthropicError(502)
                 ELSE ServerError)

\* The limit is exceeded: the rest of the body is not read.
ReadTooLarge(r) ==
    /\ stage[r] \in {"error body", "body"}
    /\ Close(r)
    /\ Answer(r, AnthropicError(IF stage[r] = "error body" THEN Passed ELSE 502))

\* upstream_error.
RelayError(r) ==
    /\ stage[r] = "error body"
    /\ Close(r)
    /\ Answer(r, AnthropicError(Passed))

\* The whole body was read: a result, something that does not convert, or bytes
\* that are not UTF-8, which only model discovery expects.  In a list of models
\* the cursor or the model the client asked for may be missing.
Converted(how, result) ==
    CASE result = "valid" /\ how = "stream"      -> {[status |-> 200, shape |-> "events"]}
      [] result = "valid" /\ how = "models"      ->
            {Json, AnthropicError(400), AnthropicError(404)}
      [] result = "not utf-8" /\ how # "models"  -> {ServerError}
      [] result = "valid" /\ how \in {"messages", "count"} -> {Json}
      [] OTHER                                   -> {AnthropicError(502)}

Convert(r) ==
    /\ stage[r] = "body" /\ route[r] # "relay"
    /\ Close(r)
    /\ \E result \in {"valid", "invalid", "not utf-8"} :
          \E what \in Converted(route[r], result) : Answer(r, what)

Relay(r) ==
    /\ stage[r] = "body" /\ route[r] = "relay"
    /\ Close(r)
    /\ Answer(r, [status |-> Passed, shape |-> "relayed"])

\* A StreamingResponse was returned: its generator starts with the first pull.
Pull(r) ==
    /\ stage[r] = "prepared"
    /\ reply' = [reply EXCEPT ![r] =
                    IF route[r] = "relay" THEN [status |-> Passed, shape |-> "relayed"]
                    ELSE [status |-> 200, shape |-> "events"]]
    /\ Goto(r, "streaming")
    /\ UNCHANGED conn

\* The generator ends in whatever way: its finally clause closes the response.
StreamEnds(r) ==
    /\ stage[r] = "streaming"
    /\ Close(r)
    /\ Goto(r, "done")
    /\ UNCHANGED reply

\* The client is gone when the server sends the response start, so it never asks
\* for a chunk.  A generator that was never started has no finally clause to run.
DropUnstarted(r) ==
    /\ stage[r] = "prepared"
    /\ Goto(r, "dropped")
    /\ UNCHANGED <<conn, reply>>

Handle(r) ==
    \/ Reject(r) \/ CountLocally(r) \/ Send(r) \/ SendFails(r) \/ Connect(r)
    \/ ReadFails(r) \/ ReadTooLarge(r) \/ RelayError(r) \/ Convert(r) \/ Relay(r)
    \/ Pull(r) \/ StreamEnds(r) \/ DropUnstarted(r)

Next == \E r \in Requests : Handle(r)

\* Every wait of a handler is bounded by a timeout of the httpx client or ends
\* with the client's connection.
Spec == Init /\ [][Next]_vars /\ \A r \in Requests : WF_vars(Handle(r))

-----------------------------------------------------------------------------
(* Properties.                                                             *)

TypeOK ==
    /\ settings \in Settings
    /\ route \in [Requests -> Route]
    /\ stage \in [Requests -> {"accepted", "sending", "error body", "body", "prepared",
                               "streaming", "done", "dropped"}]
    /\ conn \in [Requests -> {"none", "open", "closed"}]
    /\ reply \in [Requests -> Reply \cup {NoReply}]

\* Every path of a handler and every stream that was started gives the upstream
\* connection back: a finished request holds none.
ConnectionReturned == \A r \in Requests : stage[r] = "done" => conn[r] # "open"

\* README: "every terminal, error, disconnect, and cancellation path closes the
\* streamed upstream response".  The same for streams that were never started.
ConnectionAlwaysReturned ==
    \A r \in Requests : stage[r] \in {"done", "dropped"} => conn[r] # "open"

\* A success is never answered for a request whose upstream response is in use,
\* except by a stream, and never without one except for a local token count.
SuccessBacked ==
    \A r \in Requests : reply[r].status \in {200, Passed} =>
        \/ conn[r] = "closed"
        \/ conn[r] = "open" /\ stage[r] = "streaming"
        \/ conn[r] = "none" /\ route[r] = "count" /\ settings.mode # "exact"

\* README: "Translated failures use Anthropic's standard error discriminators".
FailuresAreAnthropic ==
    \A r \in Requests : route[r] # "relay" => reply[r].shape # "plain error"

\* Every request is answered and over, however the others fare.
EveryRequestEnds == \A r \in Requests : <>(stage[r] \in {"done", "dropped"})
=================================================================================
