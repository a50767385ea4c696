----------------------------- MODULE ResponsesTurn -----------------------------
(***************************************************************************)
(* A whole turn: ResponsesStream behind a gateway that follows the         *)
(* Responses protocol.  The gateway has one answer, sends its items in     *)
(* order, the events of an item in order, and leaves out some of the       *)
(* redundant kinds of event, the same ones throughout.  It is external to  *)
(* the repository: the orders and omissions are those of the streams in    *)
(* its tests.                                                              *)
(***************************************************************************)
EXTENDS ResponsesBuffered

CONSTANT Gateways  \* the gateways, see Gateway

Redundant == {"deltas",      \* no text or argument deltas
              "lastDeltas",  \* only the first piece is sent as a delta
              "bodyDone",    \* no output_text.done, refusal.done, arguments.done
              "partDone",    \* no content_part.done
              "itemDone"}    \* no output_item.done

Reasons == {"max_output_tokens", "content_filter", "context_window_exceeded"}

\* What a gateway has to say, which kinds of event it leaves out, whether the
\* terminal event repeats its output, and why it stopped early, if it did.
Gateway == [answer : Output, omitted : SUBSET Redundant, echoes : BOOLEAN,
            cut : Reasons \cup {Null}]

\* The entries of an item are together; only a message has several, its parts.
IsAnswer(output) ==
    /\ \A i \in DOMAIN output : ~IsRejected(output[i])
    /\ \A i, j \in DOMAIN output : i < j /\ output[i].slot = output[j].slot =>
          /\ \A k \in i..j : output[k].slot = output[i].slot /\ IsText(output[k])
          /\ output[i].part # output[j].part

\* A gateway the translator can follow.  It has an answer to tell, if it was not
\* cut short.  It completes every item and repeats its output, or it sends all
\* deltas, a refusal has one, and there is no reasoning.  An empty text between
\* others is not told of by its item alone.
Conforming(g) ==
    /\ IsAnswer(g.answer)
    /\ g.cut = Null => HasKind(g.answer, "call") \/ HasText(g.answer)
    /\ \/ "itemDone" \notin g.omitted /\ g.echoes
       \/ /\ {"deltas", "lastDeltas"} \cap g.omitted = {}
          /\ ~HasKind(g.answer, "reasoning")
          /\ \A i \in DOMAIN g.answer : g.answer[i].kind = "refusal" => g.answer[i].body # <<>>
    /\ \A i \in DOMAIN g.answer : IsText(g.answer[i]) /\ g.answer[i].body = <<>> =>
          "deltas" \in g.omitted \/ ~({"bodyDone", "partDone"} \subseteq g.omitted)

StopReasons == {"tool_use", "refusal", "end_turn", "max_tokens", "model_context_window_exceeded"}
Message == [content : Seq([kind : Kind, label : Label, content : String]), stop_reason : StopReasons]

ASSUME TurnAssumption ==
    /\ Gateways \subseteq Gateway
    /\ Null \notin Reasons \cup StopReasons \cup {"incomplete"} /\ Null \notin Message

VARIABLES
    answer, omitted, echoes, cut,  \* of the gateway
    cursor,  \* the entry it is sending
    sent,    \* pieces of its body sent as deltas
    stage    \* 0 not announced, 1 open, 2 final body sent, 3 part completed

script   == <<answer, omitted, echoes, cut>>
gateway  == <<script, cursor, sent, stage>>
turnVars == <<vars, gateway>>

TurnInit ==
    /\ Init
    /\ \E g \in Gateways :
          answer = g.answer /\ omitted = g.omitted /\ echoes = g.echoes /\ cut = g.cut
    /\ cursor = 1 /\ sent = 0 /\ stage = 0

Sending == cursor <= Len(answer)
Current == answer[cursor]
IsLastOfItem == cursor < Len(answer) => answer[cursor + 1].slot # Current.slot
Key == <<Current.slot, Current.part>>
Pieces == IF Current.body = Null THEN <<>> ELSE Current.body
DeltasDue ==
    CASE "deltas" \in omitted -> 0
      [] "deltas" \notin omitted /\ "lastDeltas" \in omitted -> IF Pieces = <<>> THEN 0 ELSE 1
      [] OTHER -> Len(Pieces)
HasOpened == IF Current.kind = "call" THEN stage = 1 ELSE stage \in {0, 1}

SendCreated ==
    /\ cursor = 1 /\ stage = 0 /\ sent = 0 /\ ~started
    /\ Created
    /\ UNCHANGED gateway

SendAdded ==
    /\ Sending /\ Current.kind = "call" /\ stage = 0
    /\ ItemAdded(Current.slot, Current.name)
    /\ stage' = 1
    /\ UNCHANGED <<script, cursor, sent>>

SendDelta ==
    /\ Sending /\ Current.kind # "reasoning" /\ HasOpened /\ sent < DeltasDue
    /\ LET piece == <<Pieces[sent + 1]>>
       IN  IF Current.kind = "call"
           THEN ArgumentsDelta(Current.slot, piece)
           ELSE TextDelta(Key, Current.kind, piece)
    /\ sent' = sent + 1 /\ stage' = 1
    /\ UNCHANGED <<script, cursor>>

SendBodyDone ==
    /\ Sending /\ Current.kind # "reasoning" /\ HasOpened /\ sent = DeltasDue
    /\ "bodyDone" \notin omitted
    /\ IF Current.kind = "call"
       THEN ArgumentsDone(Current.slot, Current.body)
       ELSE TextDone(Key, Current.kind, Current.body)
    /\ stage' = 2
    /\ UNCHANGED <<script, cursor, sent>>

BodySent == stage \in {2, 3} \/ (HasOpened /\ sent = DeltasDue /\ "bodyDone" \in omitted)

SendPartDone ==
    /\ Sending /\ IsText(Current) /\ stage # 3 /\ BodySent /\ "partDone" \notin omitted
    /\ TextDone(Key, "part", Current.body)
    /\ stage' = 3
    /\ UNCHANGED <<script, cursor, sent>>

EntrySent ==
    CASE Current.kind = "reasoning" -> TRUE
      [] Current.kind = "call"      -> BodySent
      [] OTHER                      -> stage = 3 \/ (BodySent /\ "partDone" \in omitted)

NextEntry == cursor' = cursor + 1 /\ sent' = 0 /\ stage' = 0 /\ UNCHANGED script

CurrentItem == Selected(answer, {entry \in Range(answer) : entry.slot = Current.slot})

SendItemDone ==
    /\ Sending /\ IsLastOfItem /\ EntrySent /\ "itemDone" \notin omitted
    /\ ItemDone(CurrentItem)
    /\ NextEntry

\* No event: the next part of the same item, or output_item.done left out.
MoveOn ==
    /\ Sending /\ EntrySent /\ phase = "reading"
    /\ IsLastOfItem => "itemDone" \in omitted
    /\ NextEntry
    /\ UNCHANGED vars

Status == IF cut = Null THEN "completed" ELSE "incomplete"

SendTerminal ==
    /\ ~Sending
    /\ Terminate([type |-> Status, status |-> Status, reason |-> cut,
                  output |-> IF echoes THEN answer ELSE Null])
    /\ UNCHANGED gateway

Send ==
    \/ SendCreated \/ SendAdded \/ SendDelta \/ SendBodyDone \/ SendPartDone
    \/ SendItemDone \/ MoveOn \/ SendTerminal

TurnNext == Send \/ (Proceed /\ UNCHANGED gateway)

\* The gateway sends its whole answer, the event loop runs the translator.
TurnSpec == TurnInit /\ [][TurnNext]_turnVars /\ WF_turnVars(TurnNext)

-----------------------------------------------------------------------------
(* Properties.                                                             *)

ContentOf(stream) ==
    LET content == Shown(stream)
    IN  [p \in DOMAIN content |-> VisibleBlock(content[p])]
CarriersOf(stream) == {carrier.label : carrier \in Range(Carriers(stream))}

Calls    == {i \in DOMAIN answer : answer[i].kind = "call"}
Refusals == {i \in DOMAIN answer : answer[i].kind = "refusal"}

\* No order of a conforming gateway's events, and no redundant event it leaves
\* out, makes the translator report an error.
ConformingNeverFails == phase # "failed"

\* README: "argument/text/refusal done events recover deltas omitted".  Streamed
\* or buffered, the same answer leaves the client with the same message: blocks in
\* order, the state to send back (if the gateway told it), and the stop reason;
\* and the buffered one, written out, is a stream that can be replayed, too.
BufferedAgrees ==
    phase = "stopped" =>
        LET message  == BufferedMessage(answer, Status, cut)
            buffered == WriteMessage(message)
        IN  /\ message # Null
            /\ ContentOf(wire) = ContentOf(buffered)
            /\ echoes => CarriersOf(wire) = CarriersOf(buffered)
            /\ ending.stop_reason = message.stop_reason
            /\ \A p \in DOMAIN buffered : Sealed(buffered[p])
            /\ ReplayAccepts(buffered)

\* README: "correctly ordered event streams".  A block starts only when the one
\* before it was stopped, provided the gateway completes every text part before
\* the next one (otherwise they are completed together with their item) and every
\* item (otherwise the terminal event completes its call).
CompletesAsItGoes == "itemDone" \notin omitted /\ ~({"bodyDone", "partDone"} \subseteq omitted)
OneBlockOpen ==
    CompletesAsItGoes => \A p \in DOMAIN wire : wire[p].stops = 0 => p = Len(wire)

\* README: "the proxy validates those blocks against the carried output ...
\* clients must preserve response content blocks".  A client that does has its
\* next request accepted.
ReplayAccepted == phase = "stopped" => ReplayAccepts(wire)

\* README: refusal text "is accompanied by stop_reason refusal"; a call outweighs
\* everything, a cut answer says why, the rest ends with end_turn.
StopReasonHonest ==
    phase = "stopped" =>
        ending.stop_reason =
            IF Calls # {} THEN "tool_use"
            ELSE IF cut = "max_output_tokens" THEN "max_tokens"
            ELSE IF cut = "content_filter" \/ Refusals # {} THEN "refusal"
            ELSE IF cut = "context_window_exceeded" THEN "model_context_window_exceeded"
            ELSE "end_turn"

\* The turn ends with message_stop and a closed upstream connection.
AnswerEventuallyDelivered == <>(phase = "stopped" /\ closed)
=================================================================================
