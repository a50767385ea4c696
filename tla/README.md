# A verification of openai-claude-proxy in TLA+

The proxy accepts Anthropic Messages requests, sends them to an OpenAI-compatible
upstream (Chat Completions or Responses) and translates the result back, streamed or
buffered. Paths below are relative to the repository; `streaming.py`, `app.py` and so
on are in `src/openai_claude_proxy/`.

## The system

| Component | State | Operations | Talks to |
|---|---|---|---|
| Request handlers (`app.py`) | one shared `httpx.AsyncClient` with a bounded pool; per request an upstream response that must be closed | `messages`, `count_tokens`, model list, pass-through, error relaying | the client (ASGI), the upstream (httpx), the translators |
| Responses stream translator (`streaming.py:615-1179`) | `_ResponsesStreamState`: next index, block table, open blocks, remembered text and argument pieces, refusal and call flags | one handler per event type, reconciliation of finished items and of the terminal output, `finish` | reads the SSE reader, yields to the client |
| Chat stream translator (`streaming.py:324-612`) | `_ChatToolStreamState`, finish reason, refusal | per chunk: text, refusal, tool deltas (buffered or live); at the end: close text, finish calls, message end | the same |
| SSE reader (`streaming.py:268-321`) | `data_lines`, the one outstanding read task | timeouts become pings, blank lines end events | a task that reads `response.aiter_lines()`; the translator iterates over it |
| Buffered message as a stream (`streaming.py:190-265`) | none | writes a finished message as block events | the client |
| Conversion (`conversion.py`), carriers (`reasoning_state.py`) | none (the conversation's state travels in `redacted_thinking` blocks) | requests, results, stop reasons, arguments, replay of assistant turns | handlers and translators |
| Models, backends (`models.py`, `backends.py`, parts of `config.py`) | none after start: settings, and the catalog the upstream lists at the moment | the list, its pages, the model and the protocol of a request | handlers, the upstream |
| Validation, auth, errors | none | pure functions | handlers |

What is hard in it:

- **Order of redundant events.** A Responses gateway says everything up to five times
  (deltas, `done`, part done, item done, terminal output), may leave any of it out and
  may contradict itself. The translator must emit each piece once, in a stopped block
  never again, and notice contradictions.
- **What is shown and what is carried.** The next turn is accepted only if the blocks
  the client kept equal the output carried with them; the two are made of different events.
- **Parallel tool calls.** Chat deltas of several calls interleave, Anthropic blocks must not.
- **Failures in the middle.** Any handler may raise after some events were yielded, or
  after some were produced but not yielded.
- **Timers and cancellation.** A ping timeout races the line it waits for; a client may
  leave while a read is outstanding, or while both generators are suspended.
- **A conversation without a server-side state.** What the upstream is told is made from
  the client's history and the settings of the process that answers, which may have changed
  since any of it was said: aliases, models, protocols, carriers bound to a model.
- **A list that changes while it is read.** Every page is cut from a new list.
- **Ownership of the upstream response.** It passes from handler to generator, on many paths.

What makes each component correct:

- translators: the client sees a well-formed Anthropic stream (message_start first, blocks
  that only grow until their single stop, message_stop only when all are stopped, nothing
  after the end); it shows the final text and arguments; the stop reason is the one the
  output deserves; invalid arguments never look finished; the upstream is closed;
- reader: each event is delivered once, whole and in order, pauses are bridged, nothing
  is left reading;
- handlers: every path closes the upstream, every request ends, failures are in
  Anthropic's form, an exact token count is never an estimate;
- buffered and streamed translation of one answer show the same message;
- conversion: a client that sends back what it was shown has its turn accepted; the upstream
  is told everything the client has of the conversation, once and in order; a result reaches
  the call it is for; a model never gets another model's opaque state;
- models: a published name is routed to the model it was published for; a walk through the
  list shows every model that stays in it.

## Modules

| Module | Models | State and actions |
|---|---|---|
| `AnthropicBlocks` | the blocks of a message as a client assembles them | pure operators: start, delta, stop; how a block may evolve |
| `AnthropicStream` | the abstract promise to a client | `Deliver`, `Stop`, `Fail`, `HangUp` |
| `ResponsesOutput` | pure parts of `conversion.py` over a response's output | arguments, stop reason, visible blocks, acceptance of a replayed turn |
| `ResponsesStream` | `responses_stream_to_anthropic`, `_ResponsesStreamState` | one action per event handler; `Reconcile...` actions for each entry of an item or of the terminal output; `Finish`; `HangUp`, `CloseUpstream` |
| `ResponsesTurn` | the same behind a gateway that follows the protocol: one answer, the kinds of event it leaves out, whether it echoes its output; which gateways the translator can follow (`Conforming`) | `Send...` actions of the gateway, synchronised with the handlers |
| `ChatStream` | `openai_stream_to_anthropic`, `_ChatToolStreamState` | `ReadChunk`, then one action per text or tool delta of the chunk; after the last chunk one action per tool call |
| `ResponsesBuffered` | `responses_to_anthropic` and `anthropic_message_stream` over a whole output | pure operators, compared with the stream in `ResponsesTurn` |
| `SseReader` | `_lines_with_ping`, `iter_sse_data` | lines arrive, the body ends, timer, taking a line, the client taking an item, cancellation, abandoned generators |
| `ProxyRequests` | the handlers of `app.py` over a shared pool | from `Reject` and `Send` to `Relay`, `Convert`, `StreamEnds` |
| `ModelRouting` | the settings that decide model and protocol (`config.py`), `backends.py`, the published list and its pages (`models.py`) | pure operators |
| `ModelPages` | a client that walks `GET /v1/models` while the catalog changes | `StartWalk`, `ReadPage`, `CursorRejected`, `Rebuild` |
| `RequestConversion` | validation of messages, both request converters, what a result is shown as, carriers | pure operators |
| `Session` | a conversation over several requests and settings; extends `ModelPages` and `RequestConversion` | `Choose`, `Submit`, `Answer`, `Redeploy` |
| `..._proof` | theorems about the module of that name; `ResponsesTurn_proof` builds on `ResponsesStream_proof`, `ChatContent_proof` continues `ChatStream_proof` | - |
| `SequenceFacts` | lemmas about sequences that take induction: flattening, prefixes, picked elements, their order | - |
| `MC...` | small gateways, chunks, requests, settings and clients for TLC | - |

How state corresponds:

- `ResponsesStream`: `nextIndex`, `openBlocks`, `toolItems`, `argumentParts`, `textParts`,
  `hasToolCall`, `hasRefusal`, `refusalParts` are the fields of `_ResponsesStreamState`
  (`block_indices` is split into `textIndex` and `toolIndex`). `blocks` is what the
  handlers have produced, `wire` what was yielded. A handler that joins the events of
  several entries before yielding is one action per entry in phase `reconciling`, so an
  exception there loses events that the state has counted, as in the code.
- Text and JSON are sequences over a set `Fragment`. `JsonObjects` is the set of those
  sequences that parse to an object: "is a prefix of", "extends" and "parses" keep their
  meaning, characters do not matter. Output items are read flat: one entry per content
  part, call or reasoning item.
- `ChatStream`: the fields of `_ChatToolStreamState` with `live_openai_index`,
  `live_anthropic_index`, `live_argument_count` as `liveIndex`, `liveBlock`, `liveCount`.
  The argument parts of a call are kept joined, so `liveCount` counts fragments of them, not
  parts: what is still to be sent is the same text (`Unsent`);
  `streamLive` is chosen at the start (parallel calls disabled or not);
  `read` is a history of the chunks, `work` what is left of the current one.
- A handler's yields about one block (start, delta, stop) are one step: only the client sees
  the state in between, and it sees a prefix of the same events. A hang-up in between is
  therefore modelled before or after the step. What a failing handler had already yielded is
  kept (`Fail(delivered)`).
- `SseReader`: `pings` is whether the ping interval is positive, `read` the state of
  `line_task`, `reader` where the two generators are, `translator` where the generator is
  that iterates over them. While the client holds an item the read goes on by itself: it may
  bring a line, fail or come to the end of the body, also inside an event, after a ping.
  `Resume` leads back to the wait, which finds out (`TakeLine`, `Raise`, `Flush`, `Finish`).
  An iteration that came to its end (`"exhausted"`) is told from one that was cancelled,
  abandoned or ended by an exception (`"ended"`).
- `ResponsesBuffered` reads the same flat output as the stream, so that `BufferedAgrees`
  compares two translations of one value.
- `ModelRouting`: a deployment is a record of settings; MODEL_MAP is read as `exact` names
  and `globs` in their order, a glob as the set of names it matches. The escaping of
  automatic aliases is an injective function, which is what the encoding is for.
- `RequestConversion`: a block or item is a kind, an id and a coordinate `at` (message and
  place where it was said), the only thing that tells two texts, calls or results apart.
  A carrier is a block that holds an output and a model. `Null` is the HTTP 400.
- `Session`: `history` is what the client has; `outputs` and `sent` are history variables.
- `ProxyRequests`: `stage` is where the handler of a request is, `conn` whether its upstream
  response still holds a connection.

Definitions whose comment says *Mutant* are plausible bugs. They are used by no
specification; replacing the definition they follow by them must break the property
that PROJECT.json names.

## Runs

| Run | Question | Result |
|---|---|---|
| `Responses` | Is the stream well-formed, complete and honest for **any** sequence of 5 or 4 well-formed events (text and refusals; calls, text and reasoning)? | holds |
| `ResponsesLate` | ... also when arguments arrive after the end of their call? | violated |
| `ResponsesBadArguments` | Does a stopped tool block always hold an object? | violated |
| `Turn` | Does a conforming gateway always get its answer through as the buffered translation would show it, whatever redundant events it leaves out, and is the answer accepted when it comes back? | holds |
| `TurnRefusalDone` | ... also a refusal that only `refusal.done` tells of? | violated |
| `TurnReplayReasoning` | ... also reasoning that only the terminal output lists? | violated |
| `Chat` | Do text, calls and endings survive any 4 chunks, with calls buffered or streamed live? | holds |
| `Sse` | Do timers, slow clients and cancellation at any point neither lose nor leave behind anything, and does a client that keeps asking get past every pause and to the end of the body? | holds |
| `Proxy` | Does every path give its connection back, does every request end, is every success backed? | holds |
| `Session` | Does a client that picks a listed model, keeps what it likes of the answers and survives redeployments reach the model it chose, have its history told completely and once, and only get the rejections that the documentation calls for? | holds |
| `ProxyServerError` | Are all failures of translated routes in Anthropic's form? | violated |
| `ProxyUnstarted` | Is the upstream closed when a stream is never started? | violated |

The violated properties are listed as findings in PROJECT.json with the sentence of
README.md each contradicts:

1. a delta for a tool block after its `content_block_stop` (`streaming.py:1118-1132` does
   not check `open_blocks`, the text handler does);
2. `finish` stops tool blocks whose arguments were never parsed (`streaming.py:1044`);
3. a refusal known from `refusal.done` or `content_part.done` only ends with `end_turn`
   (`streaming.py:1099`);
4. reasoning that only the terminal output lists makes a turn that a faithful client cannot
   send back (`streaming.py:1017`);
5. a body that fails to arrive or is not UTF-8 is answered by the framework's plain 500
   (`app.py:452`, `app.py:199`, `app.py:533`), and so is a request with a `tool_result`
   whose content is null, which validation lets through and conversion iterates over
   (`conversion.py:98`, `conversion.py:513`);
6. a `StreamingResponse` dropped before its first chunk leaks its upstream connection
   (`app.py:432`). This assumes a server that may do so: with ASGI spec 2.4 the send of the
   response start raises when the client is gone, before 2.4 the task is cancelled there.

Some more have no run of their own. They show when the constants of a run are changed, or
are written into a property as the exceptions it needs:

- with `Gateways` set to reasoning answers that are not echoed
  (`GatewaysOf(ReasoningAnswers, {}, {FALSE})`) no carrier is sent (`streaming.py:845`) and
  `ReplayAccepted` fails;
- a refusal first recovered by `content_part.done` is shown, but its details have no
  explanation (`streaming.py:725` adds to `refusal_parts` for `refusal.done` only), and the
  explanation may differ from the buffered one, so `BufferedAgrees` leaves it out;
- a client that marks the text of a carried answer for caching, which README.md:444 allows
  for text blocks, is rejected: the marked block no longer equals the carrier's
  (`conversion.py:388`; `RejectionsHaveCauses`, clause `client.marks = "answers"`);
- EXTRA_OPENAI_BODY may name a model. The carrier is bound to that one but checked against
  the mapped one, so the next request is rejected (`conversion.py:623`;
  `RejectionsHaveCauses`, clause `by.model`);
- a buffered Chat call without an id is shown with an empty id, and a history with it is
  rejected; the streamed one gets a fallback id (`streaming.py:389`);
- under UPSTREAM_PROTOCOL=anthropic requests are relayed as they are, so a display-only
  alias reaches the upstream although the settings cover it (`config.py:251-268`,
  `app.py:399`, against README.md:308-310); `RoutedAsListed` leaves this protocol out;
- an upstream that removes a model and adds it again elsewhere in its list can make a walk
  skip models: a cursor is a place in the list. `PagesAssumption` excludes reordering.

### Bounds, and why they are enough

- `Responses` puts the translator in front of one of two gateways (`MCResponsesGateways`):
  one sends any 5 events about the two parts of a message, the other any 4 about calls, text
  and reasoning. `MaxChunks` is 4: each hazard needs at most a start, a delta, a
  completion, one more event about the same block and the terminal event. A terminal event
  brings up to two entries of its own, an item or a chunk up to two.
- Two output indexes (or two content parts), two call identities: enough for two blocks to
  interleave and for one to be confused with the other.
- `MCFragment` and the sets of deltas and bodies are chosen so that final strings can equal,
  extend and contradict what was streamed, and that arguments can be valid, incomplete or
  wrong (`{`, `{}`, `}`).
- `ResponsesTurn` is bounded by its answers (up to three entries), not by `MaxEvents`; 30
  events are never reached. Three entries are enough for two parts of a message and a call
  after it; the theorems below are about answers of any length.
- `MaxLines` 4: an event of two lines, its blank line and one line of the next.
- `Session`: five messages are three requests with two answers, enough for a carried and an
  uncarried turn in one history, for fallback ids to repeat and for settings to change
  between any two steps. Seven deployments cover the three protocols, both APIs, exact,
  glob and automatic aliases, an override and an extra model. Three models and four
  catalogs, one with a duplicate, change at most twice during a walk with pages of one or two.
- Two requests on a pool of one connection: one holds what the other waits for.
- `LateArguments = FALSE` and `Conforming` are assumptions about the gateway that the code
  does not ensure: no argument event after the end of its call; every item is completed and
  the output echoed, or, without reasoning, every delta is sent. The findings say what
  happens without them. `ConnectionReturned` leaves out the streams that
  are never started, `ConnectionAlwaysReturned` does not.

### Fairness

The translators, the reader and the handlers are coroutines: once what they wait for has
happened the event loop runs them, hence weak fairness of their own steps (`Proceed`,
`Loop`, `Handle`). Nothing is assumed of the upstream or the client, except in
`ResponsesTurn`, where the gateway sends its whole answer, and in `ProxyRequests`, where
every wait has a timeout of the httpx client (`app.py:324`), the wait for a connection
included, and every stream ends: an upstream that sends forever to a client that stays is
left out. Weak fairness of `Timeout` in `SseReader` is the timer of `asyncio.wait`. A client
may hold an item forever: that it takes what it is given (`WF_vars(Take)`) is a hypothesis of
`EndIsReached`, not part of `Spec`.

## Proofs

Eight modules hold theorems, one of them only lemmas (`SequenceFacts`). They are about all
values of the constants, under the `ASSUME` of the module (`FragmentAssumption`,
`StreamAssumption`, `TurnAssumption`, `ChatAssumption`, `ReaderAssumption`, `ProxyAssumption`,
`RoutingAssumption`, `PagesAssumption`, `ConversionAssumption`, `RejectionAssumption`,
`SessionAssumption`): the sets have the right types, `Null` is in none of them and neither a stop reason nor a message, `Index` is a
finite set of naturals, automatic aliases are one-to-one, fallback ids differ and there are
enough of them, the settings are valid, and no two catalogs disagree on the order of models both have.
Alphabets, gateways, chunks, deployments, catalogs, answers, bounds, the
length of a conversation, the number of requests and the size of the pool are arbitrary.

| Module | Theorems | Inductive invariant |
|---|---|---|
| `ResponsesStream_proof` | `TypeCorrect`, `BookkeepingHolds` (`Bookkeeping`), `MessageStopSeals` (`MessageStopSealsEveryBlock`) | `Inv` |
| `ResponsesStream_proof` | `ContractKept`: if `LateArguments = FALSE`, `Spec => ClientContract` | `Inv /\ Delivered` |
| `ResponsesStream_proof` | `FinalText` (`FinalTextDelivered`), `FinalArguments` (`FinalArgumentsDelivered`), `OutputShown` (`CompletedShowsOutput`) | `Inv /\ Reconciled` |
| `ResponsesTurn_proof` | if every gateway is `Conforming`: `ConformingTurnsSucceed` (`ConformingNeverFails`), `StopReasonsTrue` (`StopReasonHonest`), `BlocksOneByOne` (`OneBlockOpen`), `TurnsReplay` (`ReplayAccepted`), `BufferedMatchesStream` (`BufferedAgrees`) | `TurnInv` |
| `ChatStream_proof` | `TypeCorrect`, `IndexesAgree` (`Bookkeeping`), `BlocksInOrder` (`OneBlockOpen`), `StoppedToolsParse` (`StoppedToolsAreObjects`), `ContractKept` (`Spec => ClientContract`) | `Inv` |
| `ChatContent_proof` | `TextArrives` (`TextDelivered`), `CallsArrive` (`CallsDelivered`), `IdentitiesArrive` (`IdentitiesDelivered`), `ArgumentsArriveLive` (`ArgumentsStreamLive`), `EndingTrue` (`EndingHonest`) | `Inv /\ Content` |
| `SseReader_proof` | `TypeCorrect`, `LinesTaken` (`NoLineSkipped`), `ReadEndsWithReader` (`NoReadSurvives`), `EventsArrive` (`EventsDelivered`) | `LinesInv`, `ItsEnd`, `ReadInv`, `EventsInv` |
| `Session_proof` | `ListedNamesLead` (`RoutedAsListed`), `WalksSkipNothing` (`NoModelSkipped`), `ConversationIsSeen` (`UpstreamSeesConversation`), `ResultsFindTheirCalls` (`ResultsReachTheirCalls`), `StateStaysWithModel` (`StateBoundToModel`), `RejectionsExplained` (`RejectionsHaveCauses`) | `RoutedInv`, `WalkInv`, `TalkInv`, `RejectInv` |
| `ProxyRequests_proof` | `TypeCorrect`, `ConnectionsReturned` (`ConnectionReturned`), `SuccessesBacked` (`SuccessBacked`) | `IInv` |

**Responses, bookkeeping.** `TypeOK` is inductive. `Bookkeeping` is not as it stands: it
speaks of what is on the wire while the handlers work on `blocks`. The invariant is

    Inv == /\ TypeOK
           /\ Mirror          \* counter, open set, tables and pieces agree with blocks
           /\ WireMirrored    \* between two events everything produced was yielded
           /\ phase = "stopped" => openBlocks = {}

`Mirror` is made of `Counts` (the counter and the open set describe `blocks`) and two
instances of `View` (text blocks by part, tool blocks by output index, one block per key).
Lemmas show how starting, extending and stopping a block changes each of them, for any
tables; a handler is a composition of these, so its case in `NextInv` cites the lemmas and
the frame. The last conjunct is what makes `MessageStopSeals` follow.

**Responses, contract.** The refinement of `AnthropicStream` is proved step by step: a
handler maps to `Deliver`, `Fail`, `Stop`, `HangUp` or a stutter. `Delivered` adds that
`blocks` extends `wire`, so that whatever a failing handler had yielded extends what
the client has. The condition on late arguments is needed, as `ResponsesLate` shows.

**Responses, outcome.** `Reconciled` says that every entry of the terminal output that was
gone through is `Settled`: its block is stopped and the remembered pieces are exactly the
entry's. A settled entry stays so because a stopped block takes no further piece while the
rest is reconciled; with `Mirror` the pieces are the content on the wire.

**Responses, whole turns.** The theorems are about every gateway that conforms, with answers
of any length. `Conforming` says which gateways the translator can follow. Each clause of it is
needed: with gateways in `Turn` that break it and no other, TLC finds `ConformingNeverFails`
(an interleaved or rejected answer, an empty one, deltas that nothing makes up for) or
`BufferedAgrees` (the others) violated.

- the entries of an item are together, only a message has several, with different parts, and
  nothing in the answer is rejected by the buffered conversion, either;
- an answer that was not cut short has a text that is not empty or a call (otherwise
  `finish` and `responses_to_anthropic` raise);
- it completes every item and repeats its output, or it sends all deltas, has no reasoning
  and no empty refusal (otherwise findings 3 and 4 apply, or nothing tells of the refusal);
- an empty text is completed by an event of its own, unless no deltas are sent at all
  (otherwise its block starts with its item, after those of later parts).

TLC evaluates it for the gateways of the run (`ConformingAssumption`). The invariant is

    TurnInv == /\ Inv                    \* the translator's own, see above
               /\ Script                 \* the gateway conforms
               /\ \/ Turning             \* while the turn lasts
                  \/ phase = "stopped" /\ Final

    Turning == Place /\ (Reading \/ (phase = "reconciling" /\ Handling)) /\ Following

`Place` is where in its answer the gateway is, `Handling` what is left of the item or of the
output that the handler is going through: a run of entries up to the gateway's place.
`Following` is the heart of it. For each entry it says, from the gateway's place alone,
whether it has a block yet (`Begun`), what was heard of it (`Heard`: nothing, a first part,
or everything), and whether its block is stopped; and that `blocks` are the blocks of the
entries begun, in order, the tables point to them, and the two flags tell of calls and
refusals among them. The five properties are not inductive without it: whether a final text
contradicts the deltas depends on all that was sent about the part before, and whether the
message can be replayed on every block.

The proof has three layers. First what a handler does to the block of its part or call,
whatever the tables say (`TextDeltaDoes` to `FinishCallDoes`). Then one lemma per action of the
gateway and one per reconciled entry (`SendDeltaKeeps`, ..., `YieldItemKeeps`): no guard that
raises is met, because what was heard is a beginning of what the entry says (`HeardFacts`), and
blocks are in the order of the answer, because every earlier entry has one when a block starts
(`EarlierBegun`, `EarlierDone`). Last the end: when the output was gone through, everything was
told (`AllTold`) and the flags are true (`FlagsTell`), so `FinishEnds` gives `Final`: the wire
is a block for each entry, whole and stopped, and the carrier if the output was repeated.

`ConformingNeverFails` and `StopReasonHonest` follow at once. `OneBlockOpen` follows from
`Following` between two events, when the handlers are done. `ReplayAccepted` and
`BufferedAgrees` compare `Final` with what the buffered path shows: selecting the visible
blocks of the wire (`TellsParts`), or writing the buffered message block by block
(`WrittenTells`, an induction over the blocks written), both give the blocks of the answer.

**Chat.** `Inv == TypeOK /\ Cursor /\ Progress`. `Cursor` ties the translator's counters to
the wire: the next index is its length, an open block is its last one and is the text
block or the live call, and every stopped tool block parses. `Progress` says that
message_start comes first and that the final loop only has known calls before it. The contract needs no condition here.

**Chat, content.** What was heard is defined over all chunks, by flattening; the translator
works delta by delta. `Content` says for text, arguments and names: what was heard is what
was dealt with (shown, or recorded for the call), followed by what is left of the chunk
(`Left`); `LiveInv` and `BufferedInv` say how much of a record is on the wire in each mode.
Each action moves a piece from what is left to what was dealt with (`PieceMoves`).

**Reader.** `OneLineAhead`: the upstream is at most one line ahead of what was taken, the one
in the finished read. `ItsEnd`: behind the last event, and behind an iteration that came to its
end, the body has ended and nothing is assembled; so whoever sees the end has got everything.
`CancelledBy` says why a read can be cancelled. `NoReadSurvives` is the safety part of
`NothingLeftReading`. `EventsInv`: what was yielded are the events that ended
in the lines taken, `dataLines` the open one; at the end of the body the last event is cut by
the end instead of by a blank line.

**Model list.** `NoModelSkipped` speaks of finished walks only; `WalkInv` says where an
unfinished one stands. The list may be another one at every page, and the cursor may vanish
and come back, so it cannot say what the client has seen of *the* list. It says (`Walked`):
of the aliases that are due, those seen are the ones on the near side of the cursor, each
once, in whichever catalog has both the alias and the cursor. One catalog decides this for
all, since lists agree on the order of what they have in common (`ListOrder`: static aliases
lead, automatic ones follow the first listing of their models); that is the part of
`PagesAssumption` on order, carried through aliases and duplicates. A page is a run of the
list next to the cursor, so its last (or first) entry is the next cursor.

**Conversation.** `RoutedInv`: what the client saw of the list was offered by the deployment
(an induction over pages cut from changing lists), a chosen name is marked as listed only
under the deployment that offered it, and the pending request remembers its own. `TalkInv`:

    TalkInv == /\ client \in Client
               /\ GoodTalk(history, outputs)
               /\ sent # Null => ... Faithful(sent.items, history, ...) /\ CallsHaveIds(history)

`GoodTalk` says of every message that its blocks are in the place and order they were said,
that no two of its calls have the same id, that its carriers are bound to the model that
spoke, and that its results are of calls of the message before. `Faithful` says that the
items tell what the messages show, each thing once and in order, and original output only
from a carrier of the model compared with. `ConvertIsFaithful` proves that of each converter,
message by message and then for what is flattened; `MarksOnly` and `UnmarkedFaithful` show
that cache marks change nothing of it. That results reach their calls follows: the call is
in the message before, no call of the result's own message can come between, and ids differ
in one message, although a fallback id comes back in every answer.

**Rejections.** A rejected conversation is one that could have become anything, so the proof
goes the other way: without a cause, the request is converted. `RejectInv`, next to `TalkInv`:
every answer has its shape (`Shaped`: nobody marked it, each kind of opaque block comes from
its backend, and a Responses answer kept in full is one carrier and the blocks its output is
shown as), and a rejected history ends with the user's message and converts to `Null`. If no
cause holds, marks sit on user blocks or on text (`AnswersUnmarked`), every block passes
validation (`RequestValid`), and every answer with a carrier can be replayed, because what is
visible is still what the carrier shows (`AnswersReplayable`). So every message is converted
to a sequence of items (`RequestAccepted`), and by `RejectionAssumption` `Null` is none.

**Handlers.** `IInv == TypeOK /\ \A r : Holds(r)`, where `Holds` says for each stage what
state the connection and the reply are in.

### Only model-checked

- All liveness (`UpstreamGetsClosed`, `EveryRequestEnds`, `ClientNotLeftWaiting`,
  `AnswerEventuallyDelivered`, `NothingLeftReading`): out of the prover's reach.
- That the properties of `Turn` need `Conforming`: two runs keep a counterexample each.

Where a property compares the state with a fold over what was read, the induction is over
numbers: the lemmas of `SequenceFacts` rest on the least-number principle, which is about
sets and can be cited, where the library's induction theorems take an operator.

## Not modelled

- Usage numbers, message ids, wording and redaction of errors, header selection: data that
  no property here tells apart.
- Tools, tool choice, effort, sampling fields, output formats, images and system prompts in
  request conversion, and their validation: copied or checked field by field, without
  state. The rejections they cause are one choice in `ProxyRequests`.
- The text encoding of carriers and of automatic aliases, and display names.
- Parsing of the environment, limits and header policies, health and hello, start-up and
  shut-down of the client.
- The identity of calls that are announced by an argument event first (`streaming.py:958`),
  beyond gateways that announce every call: no document says what the client should see.
- The comparison in the body limits (`app.py:93`): a choice in `ProxyRequests`.
- Undecodable lines and the splitting of lines by httpx: external.

## Plan

Done: the modules above, the buffered translation and its agreement with the stream, the
model list under changes, conversations over several requests, and the proofs of the table.

What could come next:

1. composition of `SseReader` with a translator: pings between blocks, cancellation at a
   yield inside a handler;
2. a theorem for `ToolArgumentsAreObjects` under a gateway that lists all its calls;
3. validation and conversion of tools and tool choice, if a property about them turns up:
   none of them keeps state.
