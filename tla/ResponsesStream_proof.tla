------------------------- MODULE ResponsesStream_proof -------------------------
(***************************************************************************)
(* Theorems about ResponsesStream, for every set of output and content     *)
(* indexes, every alphabet of strings and every gateway.                   *)
(*                                                                         *)
(* First types and bookkeeping.  Then what the translator promises its     *)
(* client: it implements AnthropicStream for every gateway that sends no   *)
(* argument event after the end of its call (LateArguments = FALSE; the    *)
(* run ResponsesLate shows that the condition is needed).  And at          *)
(* message_stop it has shown, for every gateway, the text and the          *)
(* arguments of the terminal output, and, for a completed response,        *)
(* something at all.                                                       *)
(***************************************************************************)
EXTENDS ResponsesStream, TLAPS

-----------------------------------------------------------------------------
(* The block operators stay within the type of a message.                  *)

LEMMA StartBlockType ==
    ASSUME NEW bs \in Seq(Block), NEW kind \in Kind, NEW label \in Label
    PROVE  StartBlock(bs, kind, label) \in Seq(Block)
BY DEF StartBlock, Block, String

LEMMA WholeBlockType ==
    ASSUME NEW bs \in Seq(Block), NEW kind \in Kind, NEW label \in Label
    PROVE  WholeBlock(bs, kind, label) \in Seq(Block)
BY DEF WholeBlock, Block, String

LEMMA ExceptOutside ==
    ASSUME NEW bs \in Seq(Block), NEW j, j \notin DOMAIN bs, NEW b
    PROVE  [bs EXCEPT ![j] = b] = bs
<1>1. bs = [x \in DOMAIN bs |-> bs[x]]
  OBVIOUS
<1>2. [bs EXCEPT ![j] = b] = [x \in DOMAIN bs |-> IF x = j THEN b ELSE bs[x]]
  OBVIOUS
<1>3. \A x \in DOMAIN bs : (IF x = j THEN b ELSE bs[x]) = bs[x]
  OBVIOUS
<1>. QED
  BY <1>1, <1>2, <1>3

LEMMA ConcatType ==
    ASSUME NEW s \in String, NEW t \in String
    PROVE  s \o t \in String
BY DEF String

LEMMA AppendDeltaType ==
    ASSUME NEW bs \in Seq(Block), NEW i \in Int, NEW delta \in String
    PROVE  AppendDelta(bs, i, delta) \in Seq(Block)
<1>1. CASE i + 1 \in DOMAIN bs
  <2>1. bs[i + 1] \in Block
    BY <1>1
  <2>2. [bs[i + 1] EXCEPT !.content = @ \o delta] \in Block
    <3>. DEFINE c == bs[i + 1].content \o delta
    <3>1. bs[i + 1].content \in String
      BY <2>1 DEF Block
    <3>2. c \in String
      BY <3>1, ConcatType
    <3>. HIDE DEF c
    <3>3. [bs[i + 1] EXCEPT !.content = c] \in Block
      BY <2>1, <3>2 DEF Block
    <3>. QED
      BY <3>3 DEF c
  <2>. QED
    BY <1>1, <2>2 DEF AppendDelta
<1>2. CASE i + 1 \notin DOMAIN bs
  <2>. DEFINE b == [bs[i + 1] EXCEPT !.content = @ \o delta]
  <2>1. AppendDelta(bs, i, delta) = [bs EXCEPT ![i + 1] = b]
    BY DEF AppendDelta
  <2>. HIDE DEF b
  <2>. QED
    BY <1>2, <2>1, ExceptOutside
<1>. QED
  BY <1>1, <1>2

LEMMA StopBlockType ==
    ASSUME NEW bs \in Seq(Block), NEW i \in Int
    PROVE  StopBlock(bs, i) \in Seq(Block)
<1>1. CASE i + 1 \in DOMAIN bs
  <2>1. bs[i + 1] \in Block
    BY <1>1
  <2>2. [bs[i + 1] EXCEPT !.stops = @ + 1] \in Block
    BY <2>1 DEF Block
  <2>. QED
    BY <1>1, <2>2 DEF StopBlock
<1>2. CASE i + 1 \notin DOMAIN bs
  <2>. DEFINE b == [bs[i + 1] EXCEPT !.stops = @ + 1]
  <2>1. StopBlock(bs, i) = [bs EXCEPT ![i + 1] = b]
    BY DEF StopBlock
  <2>. HIDE DEF b
  <2>. QED
    BY <1>2, <2>1, ExceptOutside
<1>. QED
  BY <1>1, <1>2

LEMMA StopBlocksType ==
    ASSUME NEW bs \in Seq(Block), NEW open
    PROVE  StopBlocks(bs, open) \in Seq(Block)
<1>. DEFINE stops(p) == IF p - 1 \in open THEN bs[p].stops + 1 ELSE bs[p].stops
<1>0. \A p \in 1..Len(bs) : bs[p] \in Block
  OBVIOUS
<1>1. \A p \in 1..Len(bs) : bs[p] \in Block /\ stops(p) \in Nat
  BY <1>0 DEF Block
<1>. HIDE DEF stops
<1>2. \A p \in 1..Len(bs) : [bs[p] EXCEPT !.stops = stops(p)] \in Block
  BY <1>1 DEF Block
<1>3. StopBlocks(bs, open) = [p \in 1..Len(bs) |-> [bs[p] EXCEPT !.stops = stops(p)]]
  BY DEF StopBlocks, stops
<1>4. StopBlocks(bs, open) \in [1..Len(bs) -> Block]
  BY <1>2, <1>3
<1>5. Len(bs) \in Nat
  OBVIOUS
<1>. QED
  BY <1>4, <1>5

LEMMA SuffixType ==
    ASSUME NEW complete \in String, NEW emitted \in String
    PROVE  Suffix(complete, emitted) \in String
BY DEF Suffix, String

-----------------------------------------------------------------------------
(* What the helpers of the handlers return.                                *)

LEMMA TextHelperTypes ==
    ASSUME TypeOK, NEW k \in Keys
    PROVE  /\ TextBlock(k) \in Nat
           /\ OpenWithText(k) \subseteq Nat
           /\ BlocksWithText(k) \in Seq(Block)
<1>1. textIndex[k] \in Nat \cup {Absent} /\ nextIndex \in Nat
  BY DEF TypeOK
<1>2. TextBlock(k) \in Nat
  BY <1>1 DEF TextBlock
<1>3. OpenWithText(k) \subseteq Nat
  BY DEF TypeOK, OpenWithText
<1>4. BlocksWithText(k) \in Seq(Block)
  BY StartBlockType DEF TypeOK, BlocksWithText, Kind, Label
<1>. QED
  BY <1>2, <1>3, <1>4

LEMMA ToolHelperTypes ==
    ASSUME TypeOK, NEW o \in Slot, NEW name \in Name \cup {NoName}
    PROVE  /\ ToolBlock(o) \in Nat
           /\ OpenWithTool(o) \subseteq Nat
           /\ BlocksWithTool(o, name) \in Seq(Block)
<1>1. toolIndex[o] \in Nat \cup {Absent} /\ nextIndex \in Nat
  BY DEF TypeOK
<1>2. ToolBlock(o) \in Nat
  BY <1>1 DEF ToolBlock
<1>3. OpenWithTool(o) \subseteq Nat
  BY DEF TypeOK, OpenWithTool
<1>4. BlocksWithTool(o, name) \in Seq(Block)
  BY StartBlockType DEF TypeOK, BlocksWithTool, Kind, Label
<1>. QED
  BY <1>2, <1>3, <1>4

LEMMA StartTextTypes ==
    ASSUME TypeOK, NEW k \in Keys, StartText(k)
    PROVE  /\ nextIndex' \in Nat
           /\ textIndex' \in [Keys -> Nat \cup {Absent}]
           /\ toolIndex' \in [Slot -> Nat \cup {Absent}]
BY TextHelperTypes DEF TypeOK, StartText

LEMMA StartToolTypes ==
    ASSUME TypeOK, NEW o \in Slot, StartTool(o)
    PROVE  /\ nextIndex' \in Nat
           /\ textIndex' \in [Keys -> Nat \cup {Absent}]
           /\ toolIndex' \in [Slot -> Nat \cup {Absent}]
<1>1. ToolBlock(o) \in Nat
  BY DEF TypeOK, ToolBlock
<1>. QED
  BY <1>1 DEF TypeOK, StartTool

\* A failing step only changes the phase and what was delivered.
LEMMA FailTypes ==
    ASSUME TypeOK, NEW delivered \in Seq(Block), Fail(delivered),
           received' \in Nat, started' \in BOOLEAN
    PROVE  TypeOK'
BY DEF TypeOK, Fail, state, indexVars, contentVars, flagVars, handlerVars

LEMMA FinishTextTypes ==
    ASSUME TypeOK, NEW k \in Keys, NEW kind, NEW complete \in String,
           FinishText(k, kind, complete)
    PROVE  /\ nextIndex' \in Nat
           /\ textIndex' \in [Keys -> Nat \cup {Absent}]
           /\ toolIndex' \in [Slot -> Nat \cup {Absent}]
           /\ openBlocks' \subseteq Nat
           /\ argumentParts' \in [Slot -> String]
           /\ textParts' \in [Keys -> String]
           /\ refusalParts' \in String
           /\ blocks' \in Seq(Block)
<1>. DEFINE suffix == Suffix(complete, textParts[k])
<1>1. textParts[k] \in String
  BY DEF TypeOK
<1>2. suffix \in String
  BY <1>1, SuffixType
<1>3. textParts[k] \o suffix \in String /\ refusalParts \o suffix \in String
  BY <1>1, <1>2, ConcatType DEF TypeOK
<1>4. AppendDelta(BlocksWithText(k), TextBlock(k), suffix) \in Seq(Block)
  BY <1>2, TextHelperTypes, AppendDeltaType
<1>5. StopBlock(AppendDelta(BlocksWithText(k), TextBlock(k), suffix), TextBlock(k))
        \in Seq(Block)
  BY <1>4, TextHelperTypes, StopBlockType
<1>6. StartText(k)
  BY DEF FinishText
<1>7. blocks' \in Seq(Block)
  BY <1>5 DEF FinishText, TypeOK
<1>8. openBlocks' \subseteq Nat
  BY TextHelperTypes DEF FinishText
<1>9. textParts' \in [Keys -> String] /\ refusalParts' \in String
      /\ argumentParts' \in [Slot -> String]
  <2>. HIDE DEF suffix
  <2>1. /\ textParts' = [textParts EXCEPT ![k] = @ \o suffix]
        /\ refusalParts' = IF kind = "refusal" THEN refusalParts \o suffix ELSE refusalParts
        /\ UNCHANGED argumentParts
    BY DEF FinishText, suffix
  <2>. QED
    BY <1>3, <2>1 DEF TypeOK
<1>. QED
  BY <1>6, <1>7, <1>8, <1>9, StartTextTypes

LEMMA FinishCallTypes ==
    ASSUME TypeOK, NEW o \in Slot, NEW complete \in String,
           NEW open \in SUBSET Nat, NEW produced \in Seq(Block),
           FinishCall(o, complete, open, produced)
    PROVE  /\ openBlocks' \subseteq Nat
           /\ argumentParts' \in [Slot -> String]
           /\ textParts' \in [Keys -> String]
           /\ blocks' \in Seq(Block)
<1>. DEFINE suffix == Suffix(complete, argumentParts[o])
<1>1. argumentParts[o] \in String /\ ToolBlock(o) \in Nat
  BY DEF TypeOK, ToolBlock
<1>2. suffix \in String
  BY <1>1, SuffixType
<1>3. argumentParts[o] \o suffix \in String
  BY <1>1, <1>2, ConcatType
<1>4. AppendDelta(produced, ToolBlock(o), suffix) \in Seq(Block)
  BY <1>1, <1>2, AppendDeltaType
<1>5. StopBlock(AppendDelta(produced, ToolBlock(o), suffix), ToolBlock(o)) \in Seq(Block)
  BY <1>1, <1>4, StopBlockType
<1>. HIDE DEF suffix
<1>6. /\ argumentParts' = [argumentParts EXCEPT ![o] = @ \o suffix]
      /\ openBlocks' = open \ {ToolBlock(o)}
      /\ blocks' = IF ToolBlock(o) \in open
                   THEN StopBlock(AppendDelta(produced, ToolBlock(o), suffix), ToolBlock(o))
                   ELSE produced
      /\ UNCHANGED textParts
  BY DEF FinishCall, suffix
<1>. QED
  BY <1>3, <1>5, <1>6 DEF TypeOK

-----------------------------------------------------------------------------
(* Type correctness.                                                       *)

LEMMA InitType == Init => TypeOK
<1>. SUFFICES ASSUME Init PROVE TypeOK
  OBVIOUS
<1>1. <<>> \in String /\ <<>> \in Seq(Block) /\ <<>> \in Output
  BY DEF String, Output
<1>. QED
  BY <1>1 DEF Init, TypeOK, Keys

LEMMA EventTypes ==
    /\ \A delta \in Deltas : delta \in String
    /\ \A body \in Bodies : body = Null \/ body \in String
    /\ \A item \in Items : item \in Output
    /\ \A event \in Terminals : /\ event \in TerminalEvent
                                /\ event.output = Null \/ event.output \in Output
BY StreamAssumption DEF String, Body, TerminalEvent

\* The handlers, for every event that is well-formed, whether a gateway of the
\* specification sends it or not.
AnyEvent ==
    \/ Created
    \/ \E o \in Slot, name \in Name \cup {NoName} : ItemAdded(o, name)
    \/ \E k \in Keys, kind \in {"text", "refusal"}, delta \in String : TextDelta(k, kind, delta)
    \/ \E k \in Keys, kind \in {"text", "refusal", "part"}, body \in Body : TextDone(k, kind, body)
    \/ \E o \in Slot, delta \in String : ArgumentsDelta(o, delta)
    \/ \E o \in Slot, arguments \in Body : ArgumentsDone(o, arguments)
    \/ \E item \in Output : ItemDone(item)
    \/ \E event \in TerminalEvent : Terminate(event)
    \/ StreamFails

LEMMA AnyTypes ==
    /\ \A body \in Body : body = Null \/ body \in String
    /\ \A event \in TerminalEvent : event.output = Null \/ event.output \in Output
BY DEF String, Body, TerminalEvent

LEMMA HandleIsAny == Handle => AnyEvent
BY StreamAssumption DEF Handle, AnyEvent, String

LEMMA EventType == TypeOK /\ AnyEvent => TypeOK'
<1>. SUFFICES ASSUME TypeOK, AnyEvent PROVE TypeOK'
  OBVIOUS
<1>0. received + 1 \in Nat
  BY DEF TypeOK
<1>1. CASE Created
  BY <1>0, <1>1 DEF TypeOK, Created, Receive, state, indexVars, contentVars, flagVars, handlerVars
<1>2. ASSUME NEW o \in Slot, NEW name \in Name \cup {NoName}, ItemAdded(o, name)
      PROVE  TypeOK'
  <2>1. StartTool(o)
    BY <1>2 DEF ItemAdded
  <2>. QED
    BY <1>0, <1>2, <2>1, StartToolTypes, ToolHelperTypes
       DEF TypeOK, ItemAdded, Receive, Yield, contentVars, handlerVars
<1>3. ASSUME NEW k \in Keys, NEW kind \in {"text", "refusal"}, NEW delta \in String,
             TextDelta(k, kind, delta)
      PROVE  TypeOK'
  <2>0. received' \in Nat /\ started' \in BOOLEAN /\ wire \in Seq(Block)
    BY <1>0, <1>3 DEF TextDelta, Receive, TypeOK
  <2>1. CASE TextBlock(k) \in OpenWithText(k)
    <3>1. delta \in String /\ textParts[k] \in String /\ refusalParts \in String
      BY AnyTypes DEF TypeOK
    <3>2. textParts[k] \o delta \in String /\ refusalParts \o delta \in String
      BY <3>1, ConcatType
    <3>3. AppendDelta(BlocksWithText(k), TextBlock(k), delta) \in Seq(Block)
      BY <3>1, TextHelperTypes, AppendDeltaType
    <3>4. StartText(k)
      BY <1>3, <2>1 DEF TextDelta
    <3>. QED
      BY <1>3, <2>0, <2>1, <3>2, <3>3, <3>4, StartTextTypes, TextHelperTypes
         DEF TypeOK, TextDelta, Yield, handlerVars
  <2>2. CASE ~(TextBlock(k) \in OpenWithText(k))
    BY <1>3, <2>0, <2>2, FailTypes DEF TextDelta
  <2>. QED
    BY <2>1, <2>2
<1>4. ASSUME NEW k \in Keys, NEW kind \in {"text", "refusal", "part"}, NEW body \in Body,
             TextDone(k, kind, body)
      PROVE  TypeOK'
  <2>. DEFINE complete == CompleteText(k, kind, body)
  <2>0. received' \in Nat /\ started' \in BOOLEAN
    BY <1>0, <1>4 DEF TextDone, Receive
  <2>1. CASE TextAgrees(k, complete)
    <3>1. complete \in String
      BY <2>1, AnyTypes DEF CompleteText, TextAgrees, TypeOK
    <3>. HIDE DEF complete
    <3>2. /\ FinishText(k, kind, complete)
          /\ UNCHANGED <<toolItems, hasToolCall, hasRefusal>>
          /\ Yield
      BY <1>4, <2>1 DEF TextDone, complete
    <3>. QED
      BY <2>0, <3>1, <3>2, FinishTextTypes DEF TypeOK, Yield, handlerVars
  <2>2. CASE ~TextAgrees(k, complete)
    <3>1. Fail(BlocksWithText(k))
      BY <1>4, <2>2 DEF TextDone
    <3>. QED
      BY <2>0, <3>1, FailTypes, TextHelperTypes
  <2>. QED
    BY <2>1, <2>2
<1>5. ASSUME NEW o \in Slot, NEW delta \in String, ArgumentsDelta(o, delta)
      PROVE  TypeOK'
  <2>0. received' \in Nat /\ started' \in BOOLEAN
    BY <1>0, <1>5 DEF ArgumentsDelta, Receive
  <2>1. delta \in String /\ argumentParts[o] \in String /\ toolItems[o] \in Name \cup {NoName}
    BY AnyTypes DEF TypeOK
  <2>2. argumentParts[o] \o delta \in String
    BY <2>1, ConcatType
  <2>3. AppendDelta(BlocksWithTool(o, toolItems[o]), ToolBlock(o), delta) \in Seq(Block)
    BY <2>1, ToolHelperTypes, AppendDeltaType
  <2>4. StartTool(o)
    BY <1>5 DEF ArgumentsDelta
  <2>. QED
    BY <1>5, <2>0, <2>1, <2>2, <2>3, <2>4, StartToolTypes, ToolHelperTypes
       DEF TypeOK, ArgumentsDelta, Yield, flagVars, handlerVars
<1>6. ASSUME NEW o \in Slot, NEW arguments \in Body, ArgumentsDone(o, arguments)
      PROVE  TypeOK'
  <2>. DEFINE complete == CompleteArguments(o, arguments)
              suffix   == Suffix(complete, argumentParts[o])
              produced == BlocksWithTool(o, toolItems[o])
  <2>0. received' \in Nat /\ started' \in BOOLEAN
    BY <1>0, <1>6 DEF ArgumentsDone, Receive
  <2>1. argumentParts[o] \in String /\ toolItems[o] \in Name \cup {NoName}
    BY DEF TypeOK
  <2>2. complete \in String
    BY <2>1, AnyTypes DEF CompleteArguments
  <2>3. suffix \in String
    BY <2>1, <2>2, SuffixType
  <2>4. produced \in Seq(Block) /\ ToolBlock(o) \in Nat /\ OpenWithTool(o) \subseteq Nat
    BY <2>1, ToolHelperTypes
  <2>5. CASE ArgumentsAgree(o, complete)
    <3>1. argumentParts[o] \o suffix \in String
      BY <2>1, <2>3, ConcatType
    <3>2. AppendDelta(produced, ToolBlock(o), suffix) \in Seq(Block)
      BY <2>3, <2>4, AppendDeltaType
    <3>3. /\ StartTool(o)
          /\ openBlocks' = OpenWithTool(o)
          /\ argumentParts' = [argumentParts EXCEPT ![o] = @ \o suffix]
          /\ blocks' = AppendDelta(produced, ToolBlock(o), suffix)
          /\ UNCHANGED <<textParts, flagVars>>
          /\ Yield
      BY <1>6, <2>5 DEF ArgumentsDone
    <3>. HIDE DEF complete, suffix, produced
    <3>. QED
      BY <2>0, <2>4, <3>1, <3>2, <3>3, StartToolTypes DEF TypeOK, Yield, flagVars, handlerVars
  <2>6. CASE ~ArgumentsAgree(o, complete)
    <3>1. Fail(produced)
      BY <1>6, <2>6 DEF ArgumentsDone
    <3>. QED
      BY <2>0, <2>4, <3>1, FailTypes
  <2>. QED
    BY <2>5, <2>6
<1>7. ASSUME NEW item \in Output, ItemDone(item) PROVE TypeOK'
  BY <1>0, <1>7, AnyTypes
     DEF TypeOK, ItemDone, Receive, state, indexVars, contentVars, flagVars
<1>8. ASSUME NEW event \in TerminalEvent, Terminate(event) PROVE TypeOK'
  <2>1. <<>> \in Output
    BY DEF Output
  <2>. QED
    BY <1>0, <1>8, <2>1, AnyTypes
       DEF TypeOK, Terminate, Receive, state, indexVars, contentVars, flagVars
<1>9. CASE StreamFails
  BY <1>9, FailTypes DEF StreamFails, TypeOK
<1>. QED
  BY <1>1, <1>2, <1>3, <1>4, <1>5, <1>6, <1>7, <1>8, <1>9 DEF AnyEvent

LEMMA ProceedType == TypeOK /\ Proceed => TypeOK'
<1>. SUFFICES ASSUME TypeOK, Proceed PROVE TypeOK'
  OBVIOUS
<1>0. /\ wire \in Seq(Block) /\ blocks \in Seq(Block) /\ nextIndex + 1 \in Nat
      /\ work # <<>> => Head(work) \in Entry /\ Tail(work) \in Output
  BY DEF TypeOK, Output
<1>1. CASE ReconcileText
  <2>. DEFINE entry == Head(work)
              k     == <<entry.slot, entry.part>>
  <2>1. /\ entry \in Entry /\ Tail(work) \in Output /\ k \in Keys
        /\ received' = received /\ started' = started
    BY <1>0, <1>1 DEF ReconcileText, Reconcile, Entry, Keys
  <2>2. CASE TextAgrees(k, entry.body)
    <3>1. entry.body \in String
      BY <2>1, <2>2 DEF TextAgrees, Entry, Body, String
    <3>2. /\ FinishText(k, entry.kind, entry.body)
          /\ hasRefusal' = (hasRefusal \/ entry.kind = "refusal")
          /\ UNCHANGED <<toolItems, hasToolCall>>
          /\ Continue
      BY <1>1, <2>2 DEF ReconcileText
    <3>. QED
      BY <2>1, <3>1, <3>2, FinishTextTypes DEF TypeOK, Continue
  <2>3. CASE ~TextAgrees(k, entry.body)
    BY <1>0, <1>1, <2>1, <2>3, FailTypes DEF ReconcileText, TypeOK
  <2>. QED
    BY <2>2, <2>3
<1>2. CASE ReconcileCall
  <2>. DEFINE o        == Head(work).slot
              complete == CompleteArguments(o, Head(work).body)
  <2>1. /\ Head(work) \in Entry /\ Tail(work) \in Output /\ o \in Slot
        /\ received' = received /\ started' = started
    BY <1>0, <1>2 DEF ReconcileCall, Reconcile, Entry
  <2>2. complete \in String
    BY <2>1 DEF CompleteArguments, Entry, Body, String, TypeOK
  <2>3. \/ UNCHANGED state /\ Continue
        \/ /\ FinishCall(o, complete, openBlocks, blocks)
           /\ UNCHANGED <<indexVars, flagVars>>
           /\ Continue
        \/ Fail(wire)
    BY <1>2 DEF ReconcileCall
  <2>. HIDE DEF complete
  <2>4. CASE UNCHANGED state /\ Continue
    BY <2>1, <2>4 DEF TypeOK, Continue, state, indexVars, contentVars, flagVars
  <2>5. CASE /\ FinishCall(o, complete, openBlocks, blocks)
             /\ UNCHANGED <<indexVars, flagVars>>
             /\ Continue
    <3>1. openBlocks \in SUBSET Nat
      BY DEF TypeOK
    <3>. QED
      BY <1>0, <2>1, <2>2, <2>5, <3>1, FinishCallTypes DEF TypeOK, Continue, indexVars, flagVars
  <2>6. CASE Fail(wire)
    BY <1>0, <2>1, <2>6, FailTypes DEF TypeOK
  <2>. QED
    BY <2>3, <2>4, <2>5, <2>6
<1>3. CASE ReconcileTerminalCall
  <2>. DEFINE o        == Head(work).slot
              name     == Head(work).name
              complete == CompleteArguments(o, Head(work).body)
  <2>1. /\ Head(work) \in Entry /\ Tail(work) \in Output
        /\ o \in Slot /\ name \in Name \cup {NoName}
        /\ received' = received /\ started' = started
    BY <1>0, <1>3 DEF ReconcileTerminalCall, Reconcile, Entry
  <2>2. complete \in String
    BY <2>1 DEF CompleteArguments, Entry, Body, String, TypeOK
  <2>3. \/ /\ toolItems' = [toolItems EXCEPT ![o] = name]
           /\ hasToolCall' = TRUE
           /\ StartTool(o)
           /\ FinishCall(o, complete, OpenWithTool(o), BlocksWithTool(o, name))
           /\ UNCHANGED <<hasRefusal, refusalParts>>
           /\ Continue
        \/ Fail(wire)
    BY <1>3 DEF ReconcileTerminalCall
  <2>. HIDE DEF complete
  <2>4. CASE Fail(wire)
    BY <1>0, <2>1, <2>4, FailTypes DEF TypeOK
  <2>5. CASE ~Fail(wire)
    <3>1. OpenWithTool(o) \in SUBSET Nat /\ BlocksWithTool(o, name) \in Seq(Block)
      BY <2>1, ToolHelperTypes
    <3>2. /\ openBlocks' \subseteq Nat
          /\ argumentParts' \in [Slot -> String]
          /\ textParts' \in [Keys -> String]
          /\ blocks' \in Seq(Block)
      BY <2>1, <2>2, <2>3, <2>5, <3>1, FinishCallTypes
    <3>. QED
      BY <2>1, <2>3, <2>5, <3>2, StartToolTypes DEF TypeOK, Continue
  <2>. QED
    BY <2>4, <2>5
<1>4. CASE ReconcileReasoning
  <2>1. /\ Head(work) \in Entry /\ Tail(work) \in Output
    BY <1>0, <1>4 DEF ReconcileReasoning, Reconcile
  <2>2. <<Head(work)>> \in Label
    BY <2>1 DEF Label, Output
  <2>3. WholeBlock(blocks, "reasoning", <<Head(work)>>) \in Seq(Block)
    BY <1>0, <2>2, WholeBlockType DEF Kind
  <2>. QED
    BY <1>0, <1>4, <2>1, <2>3
       DEF TypeOK, ReconcileReasoning, Reconcile, Continue, contentVars, flagVars
<1>5. CASE SkipTerminalItem
  BY <1>0, <1>5
     DEF TypeOK, SkipTerminalItem, Reconcile, Continue, state, indexVars, contentVars, flagVars
<1>6. CASE YieldItem
  BY <1>6 DEF TypeOK, YieldItem, Yield, state, indexVars, contentVars, flagVars, handlerVars
<1>7. CASE Finish
  <2>. DEFINE reason  == StopReason(terminal.status, terminal.reason, hasToolCall, hasRefusal)
              stopped == StopBlocks(blocks, openBlocks)
              carrier == WholeBlock(stopped, "carrier", terminal.output)
              message == [stop_reason |-> reason,
                          explanation |-> Explanation(reason, refusalParts)]
              carried == terminal.output # Null
  <2>1. received' = received /\ started' = started /\ terminal # Null
    BY <1>7 DEF Finish
  <2>2. \/ /\ reason # Null
           /\ phase' = "stopped"
           /\ openBlocks' = {}
           /\ blocks' = IF carried THEN carrier ELSE stopped
           /\ nextIndex' = IF carried THEN nextIndex + 1 ELSE nextIndex
           /\ wire' = blocks'
           /\ ending' = message
           /\ UNCHANGED <<closed, textIndex, toolIndex, contentVars, flagVars, work, terminal>>
        \/ Fail(wire)
    BY <1>7 DEF Finish
  <2>3. stopped \in Seq(Block)
    BY <1>0, StopBlocksType
  <2>4. ASSUME carried PROVE carrier \in Seq(Block)
    <3>1. terminal.output \in Label
      BY <2>1, <2>4 DEF TypeOK, TerminalEvent, Label
    <3>. HIDE DEF stopped
    <3>. QED
      BY <2>3, <3>1, WholeBlockType DEF Kind
  <2>5. ASSUME reason # Null
        PROVE  message \in [stop_reason : {"tool_use", "refusal", "end_turn", "max_tokens",
                                           "model_context_window_exceeded"},
                            explanation : Body]
    <3>1. reason \in {"tool_use", "refusal", "end_turn", "max_tokens",
                      "model_context_window_exceeded"}
      BY <2>5, <2>1 DEF StopReason, TypeOK, TerminalEvent
    <3>2. refusalParts \in Body /\ Null \in Body
      BY DEF TypeOK, Body, String
    <3>. HIDE DEF reason
    <3>. QED
      BY <3>1, <3>2 DEF Explanation
  <2>6. CASE Fail(wire)
    BY <1>0, <2>1, <2>6, FailTypes DEF TypeOK
  <2>7. CASE ~Fail(wire)
    <3>. HIDE DEF reason, stopped, carrier, message, carried
    <3>1. blocks' \in Seq(Block)
      BY <2>2, <2>3, <2>4, <2>7
    <3>2. /\ ending' \in [stop_reason : {"tool_use", "refusal", "end_turn", "max_tokens",
                                           "model_context_window_exceeded"},
                          explanation : Body]
          /\ nextIndex' \in Nat
      BY <1>0, <2>2, <2>5, <2>7 DEF TypeOK
    <3>. QED
      BY <2>1, <2>2, <2>7, <3>1, <3>2 DEF TypeOK, contentVars, flagVars
  <2>. QED
    BY <2>6, <2>7
<1>8. CASE CloseUpstream
  BY <1>8 DEF TypeOK, CloseUpstream, state, indexVars, contentVars, flagVars, handlerVars
<1>9. CASE RejectItem
  BY <1>0, <1>9, FailTypes DEF TypeOK, RejectItem, Reconcile
<1>. QED
  BY <1>1, <1>2, <1>3, <1>4, <1>5, <1>6, <1>7, <1>8, <1>9 DEF Proceed

\* Type correctness of the translator.
THEOREM TypeCorrect == Spec => []TypeOK
<1>1. TypeOK /\ [Next]_vars => TypeOK'
  <2>. SUFFICES ASSUME TypeOK, [Next]_vars PROVE TypeOK'
    OBVIOUS
  <2>1. CASE HangUp
    BY <2>1 DEF TypeOK, HangUp, state, indexVars, contentVars, flagVars, handlerVars
  <2>2. CASE UNCHANGED vars
    BY <2>2 DEF TypeOK, vars, state, indexVars, contentVars, flagVars, handlerVars
  <2>. QED
    BY <2>1, <2>2, EventType, HandleIsAny, ProceedType DEF Next
<1>. QED
  BY <1>1, InitType, PTL DEF Spec

-----------------------------------------------------------------------------
(* The bookkeeping invariant.  A handler is a composition of starting,     *)
(* extending and stopping a block, so the invariant is stated for any      *)
(* values of the variables it relates and shown to survive each of these.  *)

\* The index counter, the open set and the stops of a message.
Counts(next, open, bs) ==
    /\ bs \in Seq(Block) /\ next = Len(bs)
    /\ open \subseteq 0..(Len(bs) - 1)
    /\ \A p \in DOMAIN bs : bs[p].stops = IF p - 1 \in open THEN 0 ELSE 1

\* The blocks of one kind, indexed by output part (D is Keys or Slot), and the
\* pieces remembered for each part.
View(D, kind, index, parts, bs) ==
    /\ index \in [D -> Nat \cup {Absent}]
    /\ parts \in [D -> String]
    /\ \A k \in D : index[k] = Absent => parts[k] = <<>>
    /\ \A k \in D : index[k] # Absent =>
          /\ index[k] + 1 \in DOMAIN bs
          /\ bs[index[k] + 1].kind = kind
          /\ bs[index[k] + 1].content = parts[k]
    /\ \A j, k \in D : index[k] # Absent /\ index[j] = index[k] => j = k

TextView(bs) == View(Keys, "text", textIndex, textParts, bs)
ToolView(bs) == View(Slot, "tool_use", toolIndex, argumentParts, bs)

LEMMA CountsStart ==
    ASSUME NEW next, NEW open, NEW bs, Counts(next, open, bs),
           NEW kind \in Kind, NEW label \in Label
    PROVE  Counts(next + 1, open \cup {next}, StartBlock(bs, kind, label))
<1>. DEFINE bs1 == StartBlock(bs, kind, label)
<1>1. bs \in Seq(Block) /\ next = Len(bs) /\ Len(bs) \in Nat
  BY DEF Counts
<1>2. bs1 \in Seq(Block)
  BY <1>1, StartBlockType
<1>3. /\ Len(bs1) = Len(bs) + 1
      /\ \A p \in 1..Len(bs) : bs1[p] = bs[p]
      /\ bs1[Len(bs) + 1].stops = 0
  BY <1>1 DEF StartBlock
<1>. HIDE DEF bs1
<1>4. open \cup {next} \subseteq 0..(Len(bs1) - 1)
  <2>1. \A i \in open : i \in 0..(Len(bs) - 1)
    BY DEF Counts
  <2>2. Len(bs1) - 1 = Len(bs)
    BY <1>1, <1>3
  <2>3. next \in 0..Len(bs) /\ \A i \in open : i \in 0..Len(bs)
    BY <1>1, <2>1
  <2>. QED
    BY <2>2, <2>3
<1>5. ASSUME NEW p \in DOMAIN bs1
      PROVE  bs1[p].stops = IF p - 1 \in open \cup {next} THEN 0 ELSE 1
  <2>1. CASE p = Len(bs) + 1
    BY <1>1, <1>3, <2>1
  <2>2. CASE p \in 1..Len(bs)
    <3>1. bs1[p].stops = IF p - 1 \in open THEN 0 ELSE 1
      BY <1>1, <1>3, <2>2 DEF Counts
    <3>2. p - 1 # next
      BY <1>1, <2>2
    <3>. QED
      BY <3>1, <3>2
  <2>3. p \in 1..(Len(bs) + 1)
    BY <1>2, <1>3
  <2>. QED
    BY <1>1, <2>1, <2>2, <2>3
<1>. QED
  BY <1>1, <1>2, <1>3, <1>4, <1>5 DEF Counts, bs1

LEMMA CountsWhole ==
    ASSUME NEW next, NEW open, NEW bs, Counts(next, open, bs),
           NEW kind \in Kind, NEW label \in Label
    PROVE  Counts(next + 1, open, WholeBlock(bs, kind, label))
<1>. DEFINE bs1 == WholeBlock(bs, kind, label)
<1>1. bs \in Seq(Block) /\ next = Len(bs) /\ Len(bs) \in Nat
  BY DEF Counts
<1>2. bs1 \in Seq(Block)
  BY <1>1, WholeBlockType
<1>3. /\ Len(bs1) = Len(bs) + 1
      /\ \A p \in 1..Len(bs) : bs1[p] = bs[p]
      /\ bs1[Len(bs) + 1].stops = 1
  BY <1>1 DEF WholeBlock
<1>. HIDE DEF bs1
<1>4. open \subseteq 0..(Len(bs) - 1)
  BY DEF Counts
<1>5. ASSUME NEW p \in DOMAIN bs1
      PROVE  bs1[p].stops = IF p - 1 \in open THEN 0 ELSE 1
  <2>1. CASE p = Len(bs) + 1
    <3>1. p - 1 \notin open
      BY <1>1, <1>4, <2>1
    <3>. QED
      BY <1>3, <2>1, <3>1
  <2>2. CASE p \in 1..Len(bs)
    BY <1>1, <1>3, <2>2 DEF Counts
  <2>3. p \in 1..(Len(bs) + 1)
    BY <1>2, <1>3
  <2>. QED
    BY <1>1, <2>1, <2>2, <2>3
<1>6. open \subseteq 0..(Len(bs1) - 1)
  BY <1>1, <1>3, <1>4
<1>. QED
  BY <1>1, <1>2, <1>3, <1>5, <1>6 DEF Counts, bs1

\* A block's pieces may change, its stops not.
LEMMA AppendDeltaFacts ==
    ASSUME NEW bs \in Seq(Block), NEW i \in Nat, i + 1 \in DOMAIN bs, NEW delta \in String
    PROVE  LET bs1 == AppendDelta(bs, i, delta)
           IN  /\ bs1 \in Seq(Block) /\ Len(bs1) = Len(bs) /\ DOMAIN bs1 = DOMAIN bs
               /\ \A p \in DOMAIN bs : /\ bs1[p].stops = bs[p].stops
                                       /\ bs1[p].kind = bs[p].kind
                                       /\ p # i + 1 => bs1[p] = bs[p]
               /\ bs1[i + 1].content = bs[i + 1].content \o delta
<1>1. AppendDelta(bs, i, delta) \in Seq(Block)
  BY AppendDeltaType
<1>2. \A p \in DOMAIN bs : bs[p] \in Block
  OBVIOUS
<1>. QED
  BY <1>1, <1>2, SMTT(30) DEF AppendDelta, Block

LEMMA StopBlockFacts ==
    ASSUME NEW bs \in Seq(Block), NEW i \in Nat, i + 1 \in DOMAIN bs
    PROVE  LET bs1 == StopBlock(bs, i)
           IN  /\ bs1 \in Seq(Block) /\ Len(bs1) = Len(bs) /\ DOMAIN bs1 = DOMAIN bs
               /\ \A p \in DOMAIN bs : /\ bs1[p].kind = bs[p].kind
                                       /\ bs1[p].content = bs[p].content
                                       /\ p # i + 1 => bs1[p] = bs[p]
               /\ bs1[i + 1].stops = bs[i + 1].stops + 1
<1>1. StopBlock(bs, i) \in Seq(Block)
  BY StopBlockType
<1>2. \A p \in DOMAIN bs : bs[p] \in Block
  OBVIOUS
<1>. QED
  BY <1>1, <1>2 DEF StopBlock, Block

LEMMA CountsAppend ==
    ASSUME NEW next, NEW open, NEW bs, Counts(next, open, bs),
           NEW i \in Nat, i + 1 \in DOMAIN bs, NEW delta \in String
    PROVE  Counts(next, open, AppendDelta(bs, i, delta))
<1>1. bs \in Seq(Block)
  BY DEF Counts
<1>. DEFINE bs1 == AppendDelta(bs, i, delta)
<1>2. /\ bs1 \in Seq(Block) /\ Len(bs1) = Len(bs) /\ DOMAIN bs1 = DOMAIN bs
      /\ \A p \in DOMAIN bs : bs1[p].stops = bs[p].stops
  BY <1>1, AppendDeltaFacts
<1>. HIDE DEF bs1
<1>3. Counts(next, open, bs1)
  BY <1>1, <1>2 DEF Counts
<1>. QED
  BY <1>3 DEF bs1

LEMMA CountsStop ==
    ASSUME NEW next, NEW open, NEW bs, Counts(next, open, bs), NEW i \in open
    PROVE  Counts(next, open \ {i}, StopBlock(bs, i))
<1>. DEFINE bs1 == StopBlock(bs, i)
<1>1. bs \in Seq(Block) /\ i \in Nat /\ i + 1 \in DOMAIN bs
  BY DEF Counts
<1>2. /\ bs1 \in Seq(Block) /\ Len(bs1) = Len(bs)
      /\ \A p \in DOMAIN bs : p # i + 1 => bs1[p] = bs[p]
      /\ bs1[i + 1].stops = bs[i + 1].stops + 1
  BY <1>1, StopBlockFacts
<1>. HIDE DEF bs1
<1>3. bs[i + 1].stops = 0
  BY <1>1, SMTT(30) DEF Counts
<1>4. ASSUME NEW p \in DOMAIN bs1
      PROVE  bs1[p].stops = IF p - 1 \in open \ {i} THEN 0 ELSE 1
  <2>1. CASE p = i + 1
    BY <1>1, <1>2, <1>3, <2>1
  <2>2. CASE p # i + 1
    <3>1. p \in DOMAIN bs /\ p \in Nat /\ bs1[p] = bs[p]
      BY <1>1, <1>2, <2>2
    <3>. QED
      BY <1>1, <2>2, <3>1 DEF Counts
  <2>. QED
    BY <2>1, <2>2
<1>. QED
  BY <1>1, <1>2, <1>4 DEF Counts, bs1

LEMMA CountsStopAll ==
    ASSUME NEW next, NEW open, NEW bs, Counts(next, open, bs)
    PROVE  Counts(next, {}, StopBlocks(bs, open))
<1>1. bs \in Seq(Block)
  BY DEF Counts
<1>2. StopBlocks(bs, open) \in Seq(Block)
  BY <1>1, StopBlocksType
<1>3. \A p \in DOMAIN bs : bs[p] \in Block
  BY <1>1
<1>. QED
  BY <1>1, <1>2, <1>3 DEF Counts, StopBlocks, Block

\* A view survives whatever keeps kind and content of the old blocks.
LEMMA ViewFrame ==
    ASSUME NEW D, NEW kind, NEW index, NEW parts, NEW bs, View(D, kind, index, parts, bs),
           NEW bs1, DOMAIN bs \subseteq DOMAIN bs1,
           \A p \in DOMAIN bs : bs1[p].kind = bs[p].kind /\ bs1[p].content = bs[p].content
    PROVE  View(D, kind, index, parts, bs1)
BY DEF View

\* A new block for a part that had none.
LEMMA ViewStart ==
    ASSUME NEW D, NEW kind \in Kind, NEW index, NEW parts, NEW bs \in Seq(Block),
           View(D, kind, index, parts, bs),
           NEW k \in D, index[k] = Absent, NEW label \in Label
    PROVE  View(D, kind, [index EXCEPT ![k] = Len(bs)], parts, StartBlock(bs, kind, label))
<1>. DEFINE bs1    == StartBlock(bs, kind, label)
            index1 == [index EXCEPT ![k] = Len(bs)]
<1>1. /\ DOMAIN bs = 1..Len(bs) /\ DOMAIN bs1 = 1..(Len(bs) + 1) /\ Len(bs) \in Nat
      /\ \A p \in DOMAIN bs : bs1[p] = bs[p]
      /\ bs1[Len(bs) + 1].kind = kind /\ bs1[Len(bs) + 1].content = <<>>
  BY DEF StartBlock
<1>2. /\ index \in [D -> Nat \cup {Absent}]
      /\ index1 \in [D -> Nat \cup {Absent}]
      /\ index1[k] = Len(bs)
      /\ \A j \in D : j # k => index1[j] = index[j]
  BY <1>1 DEF View
<1>3. Len(bs) # Absent
  BY <1>1 DEF Absent
<1>4. \A j \in D : index[j] # Absent => index[j] # Len(bs)
  BY <1>1 DEF View, Absent
<1>. HIDE DEF bs1, index1
<1>5. ASSUME NEW j \in D, index1[j] # Absent
      PROVE  /\ index1[j] + 1 \in DOMAIN bs1
             /\ bs1[index1[j] + 1].kind = kind
             /\ bs1[index1[j] + 1].content = parts[j]
  <2>1. CASE j = k
    <3>1. parts[k] = <<>>
      BY DEF View
    <3>. QED
      BY <1>1, <1>2, <2>1, <3>1
  <2>2. CASE j # k
    <3>1. /\ index[j] + 1 \in DOMAIN bs /\ bs[index[j] + 1].kind = kind
          /\ bs[index[j] + 1].content = parts[j] /\ index1[j] = index[j]
      BY <1>2, <1>5, <2>2 DEF View
    <3>. QED
      BY <1>1, <3>1
  <2>. QED
    BY <2>1, <2>2
<1>6. \A i, j \in D : index1[j] # Absent /\ index1[i] = index1[j] => i = j
  BY <1>2, <1>3, <1>4 DEF View
<1>7. \A j \in D : index1[j] = Absent => parts[j] = <<>>
  BY <1>2, <1>3 DEF View
<1>8. parts \in [D -> String]
  BY DEF View
<1>. QED
  BY <1>2, <1>5, <1>6, <1>7, <1>8 DEF View, bs1, index1

\* A delta for a part that has a block.
LEMMA ViewAppend ==
    ASSUME NEW D, NEW kind, NEW index, NEW parts, NEW bs \in Seq(Block),
           View(D, kind, index, parts, bs),
           NEW k \in D, index[k] # Absent, NEW delta \in String
    PROVE  View(D, kind, index, [parts EXCEPT ![k] = @ \o delta],
                AppendDelta(bs, index[k], delta))
<1>0. PICK i : i = index[k]
  OBVIOUS
<1>. DEFINE bs1    == AppendDelta(bs, i, delta)
            parts1 == [parts EXCEPT ![k] = @ \o delta]
<1>1. /\ i \in Nat /\ i + 1 \in DOMAIN bs
      /\ bs[i + 1].content = parts[k] /\ parts[k] \in String
      /\ index \in [D -> Nat \cup {Absent}] /\ parts \in [D -> String]
  BY <1>0 DEF View
<1>2. /\ bs1 \in Seq(Block) /\ DOMAIN bs1 = DOMAIN bs
      /\ \A p \in DOMAIN bs : bs1[p].kind = bs[p].kind
      /\ \A p \in DOMAIN bs : p # i + 1 => bs1[p] = bs[p]
      /\ bs1[i + 1].content = parts[k] \o delta
  <2>1. i \in Nat /\ i + 1 \in DOMAIN bs
    BY <1>1
  <2>2. /\ bs1 \in Seq(Block) /\ DOMAIN bs1 = DOMAIN bs
        /\ \A p \in DOMAIN bs : bs1[p].kind = bs[p].kind
        /\ \A p \in DOMAIN bs : p # i + 1 => bs1[p] = bs[p]
        /\ bs1[i + 1].content = bs[i + 1].content \o delta
    BY <2>1, AppendDeltaFacts
  <2>. HIDE DEF bs1
  <2>. QED
    BY <1>1, <2>2
<1>3. parts[k] \o delta \in String
  BY <1>1, ConcatType
<1>4. /\ parts1 \in [D -> String] /\ parts1[k] = parts[k] \o delta
      /\ \A j \in D : j # k => parts1[j] = parts[j]
  BY <1>1, <1>3
<1>. HIDE DEF bs1, parts1
<1>5. ASSUME NEW j \in D, index[j] # Absent
      PROVE  /\ index[j] + 1 \in DOMAIN bs1
             /\ bs1[index[j] + 1].kind = kind
             /\ bs1[index[j] + 1].content = parts1[j]
  <2>1. /\ index[j] + 1 \in DOMAIN bs /\ bs[index[j] + 1].kind = kind
        /\ bs[index[j] + 1].content = parts[j]
    BY <1>5 DEF View
  <2>2. CASE j = k
    BY <1>0, <1>2, <1>4, <2>1, <2>2
  <2>3. CASE j # k
    <3>1. index[j] # i /\ index[j] \in Nat
      BY <1>0, <1>1, <1>5, <2>3 DEF View
    <3>2. index[j] + 1 # i + 1
      BY <1>1, <3>1
    <3>. QED
      BY <1>2, <1>4, <2>1, <2>3, <3>2
  <2>. QED
    BY <2>2, <2>3
<1>6. \A j \in D : index[j] = Absent => parts1[j] = <<>>
  BY <1>4 DEF View
<1>7. \A m, j \in D : index[j] # Absent /\ index[m] = index[j] => m = j
  BY DEF View
<1>. QED
  BY <1>0, <1>1, <1>4, <1>5, <1>6, <1>7 DEF View, bs1, parts1

\* A delta for a block of another kind.
LEMMA ViewOther ==
    ASSUME NEW D, NEW kind, NEW index, NEW parts, NEW bs \in Seq(Block),
           View(D, kind, index, parts, bs),
           NEW i \in Nat, i + 1 \in DOMAIN bs, bs[i + 1].kind # kind, NEW delta \in String
    PROVE  View(D, kind, index, parts, AppendDelta(bs, i, delta))
<1>. DEFINE bs1 == AppendDelta(bs, i, delta)
<1>1. /\ DOMAIN bs1 = DOMAIN bs
      /\ \A p \in DOMAIN bs : p # i + 1 => bs1[p] = bs[p]
  BY AppendDeltaFacts
<1>. HIDE DEF bs1
<1>2. ASSUME NEW k \in D, index[k] # Absent
      PROVE  /\ index[k] + 1 \in DOMAIN bs1
             /\ bs1[index[k] + 1].kind = kind
             /\ bs1[index[k] + 1].content = parts[k]
  <2>1. /\ index[k] + 1 \in DOMAIN bs /\ bs[index[k] + 1].kind = kind
        /\ bs[index[k] + 1].content = parts[k]
    BY <1>2 DEF View
  <2>2. index[k] + 1 # i + 1
    BY <2>1
  <2>3. bs1[index[k] + 1] = bs[index[k] + 1]
    BY <1>1, <2>1, <2>2
  <2>. QED
    BY <1>1, <2>1, <2>3
<1>3. /\ index \in [D -> Nat \cup {Absent}] /\ parts \in [D -> String]
      /\ \A k \in D : index[k] = Absent => parts[k] = <<>>
      /\ \A m, k \in D : index[k] # Absent /\ index[m] = index[k] => m = k
  BY DEF View
<1>. QED
  BY <1>2, <1>3 DEF View, bs1

LEMMA ViewStopAll ==
    ASSUME NEW D, NEW kind, NEW index, NEW parts, NEW bs \in Seq(Block),
           View(D, kind, index, parts, bs), NEW open
    PROVE  View(D, kind, index, parts, StopBlocks(bs, open))
<1>1. \A p \in DOMAIN bs : bs[p] \in Block
  OBVIOUS
<1>2. /\ DOMAIN bs \subseteq DOMAIN StopBlocks(bs, open)
      /\ \A p \in DOMAIN bs : /\ StopBlocks(bs, open)[p].kind = bs[p].kind
                              /\ StopBlocks(bs, open)[p].content = bs[p].content
  BY <1>1 DEF StopBlocks, Block
<1>. QED
  BY <1>2, ViewFrame

\* The whole invariant of a message, and that it is what Bookkeeping states.
Mirror ==
    /\ Counts(nextIndex, openBlocks, blocks)
    /\ TextView(blocks)
    /\ ToolView(blocks)

LEMMA MirrorIsBookkeeping ==
    TypeOK => (Mirror <=> IndexesDense /\ OpenBlocksExact /\ TextMirrored /\ ArgumentsMirrored)
BY DEF TypeOK, Mirror, Counts, TextView, ToolView, View,
       IndexesDense, OpenBlocksExact, TextMirrored, ArgumentsMirrored

LEMMA SuffixOfItself ==
    ASSUME NEW s \in String
    PROVE  Suffix(s, s) = <<>> /\ s \o Suffix(s, s) = s
BY DEF Suffix, String

-----------------------------------------------------------------------------
(* The helpers of the handlers keep the message in order.                  *)

LEMMA AfterStartText ==
    ASSUME TypeOK, Mirror, NEW k \in Keys, StartText(k)
    PROVE  /\ Counts(nextIndex', OpenWithText(k), BlocksWithText(k))
           /\ View(Keys, "text", textIndex', textParts, BlocksWithText(k))
           /\ View(Slot, "tool_use", toolIndex', argumentParts, BlocksWithText(k))
           /\ textIndex'[k] = TextBlock(k) /\ textIndex'[k] # Absent
<1>1. /\ blocks \in Seq(Block) /\ nextIndex = Len(blocks) /\ Len(blocks) \in Nat
      /\ textIndex \in [Keys -> Nat \cup {Absent}] /\ toolIndex' = toolIndex
      /\ textIndex' = [textIndex EXCEPT ![k] = TextBlock(k)]
  BY DEF Mirror, Counts, TypeOK, StartText
<1>2. CASE textIndex[k] = Absent
  <2>1. /\ nextIndex' = nextIndex + 1 /\ TextBlock(k) = Len(blocks)
        /\ OpenWithText(k) = openBlocks \cup {nextIndex}
        /\ BlocksWithText(k) = StartBlock(blocks, "text", Null)
    BY <1>1, <1>2 DEF StartText, TextBlock, OpenWithText, BlocksWithText
  <2>2. "text" \in Kind /\ Null \in Label
    BY DEF Kind, Label
  <2>3. Counts(nextIndex + 1, openBlocks \cup {nextIndex}, StartBlock(blocks, "text", Null))
    BY <2>2, CountsStart DEF Mirror
  <2>4. View(Keys, "text", [textIndex EXCEPT ![k] = Len(blocks)], textParts,
             StartBlock(blocks, "text", Null))
    BY <1>1, <1>2, <2>2, ViewStart DEF Mirror, TextView
  <2>5. /\ DOMAIN blocks \subseteq DOMAIN StartBlock(blocks, "text", Null)
        /\ \A p \in DOMAIN blocks : StartBlock(blocks, "text", Null)[p] = blocks[p]
    BY <1>1 DEF StartBlock
  <2>6. View(Slot, "tool_use", toolIndex, argumentParts, StartBlock(blocks, "text", Null))
    BY <2>5, ViewFrame DEF Mirror, ToolView
  <2>7. textIndex'[k] = TextBlock(k) /\ TextBlock(k) # Absent
    BY <1>1, <2>1 DEF Absent
  <2>. QED
    BY <1>1, <2>1, <2>3, <2>4, <2>6, <2>7
<1>3. CASE textIndex[k] # Absent
  <2>1. /\ nextIndex' = nextIndex /\ TextBlock(k) = textIndex[k]
        /\ OpenWithText(k) = openBlocks /\ BlocksWithText(k) = blocks
    BY <1>3 DEF StartText, TextBlock, OpenWithText, BlocksWithText
  <2>2. textIndex' = textIndex
    BY <1>1, <2>1
  <2>. QED
    BY <1>1, <1>3, <2>1, <2>2 DEF Mirror, TextView, ToolView
<1>. QED
  BY <1>2, <1>3

LEMMA AfterStartTool ==
    ASSUME TypeOK, Mirror, NEW o \in Slot, NEW name \in Name \cup {NoName}, StartTool(o)
    PROVE  /\ Counts(nextIndex', OpenWithTool(o), BlocksWithTool(o, name))
           /\ View(Keys, "text", textIndex', textParts, BlocksWithTool(o, name))
           /\ View(Slot, "tool_use", toolIndex', argumentParts, BlocksWithTool(o, name))
           /\ toolIndex'[o] = ToolBlock(o) /\ toolIndex'[o] # Absent
<1>1. /\ blocks \in Seq(Block) /\ nextIndex = Len(blocks) /\ Len(blocks) \in Nat
      /\ toolIndex \in [Slot -> Nat \cup {Absent}] /\ textIndex' = textIndex
      /\ toolIndex' = [toolIndex EXCEPT ![o] = ToolBlock(o)]
  BY DEF Mirror, Counts, TypeOK, StartTool
<1>2. CASE toolIndex[o] = Absent
  <2>. DEFINE bs1 == StartBlock(blocks, "tool_use", name)
  <2>1. /\ nextIndex' = nextIndex + 1 /\ ToolBlock(o) = Len(blocks)
        /\ OpenWithTool(o) = openBlocks \cup {nextIndex}
        /\ BlocksWithTool(o, name) = bs1
    BY <1>1, <1>2 DEF StartTool, ToolBlock, OpenWithTool, BlocksWithTool
  <2>2. "tool_use" \in Kind /\ name \in Label
    BY DEF Kind, Label
  <2>3. Counts(nextIndex + 1, openBlocks \cup {nextIndex}, bs1)
    BY <2>2, CountsStart DEF Mirror
  <2>4. View(Slot, "tool_use", [toolIndex EXCEPT ![o] = Len(blocks)], argumentParts, bs1)
    BY <1>1, <1>2, <2>2, ViewStart DEF Mirror, ToolView
  <2>5. /\ DOMAIN blocks \subseteq DOMAIN bs1
        /\ \A p \in DOMAIN blocks : bs1[p] = blocks[p]
    BY <1>1 DEF StartBlock
  <2>6. View(Keys, "text", textIndex, textParts, bs1)
    BY <2>5, ViewFrame DEF Mirror, TextView
  <2>7. toolIndex'[o] = ToolBlock(o) /\ ToolBlock(o) # Absent
    BY <1>1, <2>1 DEF Absent
  <2>. QED
    BY <1>1, <2>1, <2>3, <2>4, <2>6, <2>7
<1>3. CASE toolIndex[o] # Absent
  <2>1. /\ nextIndex' = nextIndex /\ ToolBlock(o) = toolIndex[o]
        /\ OpenWithTool(o) = openBlocks /\ BlocksWithTool(o, name) = blocks
    BY <1>3 DEF StartTool, ToolBlock, OpenWithTool, BlocksWithTool
  <2>2. toolIndex' = toolIndex
    BY <1>1, <2>1
  <2>. QED
    BY <1>1, <1>3, <2>1, <2>2 DEF Mirror, TextView, ToolView
<1>. QED
  BY <1>2, <1>3

\* A delta for a text part, then for a function call.
LEMMA ExtendText ==
    ASSUME NEW next, NEW texts, NEW tools, NEW open, NEW args, NEW parts, NEW bs,
           Counts(next, open, bs),
           View(Keys, "text", texts, parts, bs), View(Slot, "tool_use", tools, args, bs),
           NEW k \in Keys, texts[k] # Absent, NEW delta \in String
    PROVE  LET bs1 == AppendDelta(bs, texts[k], delta)
           IN  /\ Counts(next, open, bs1)
               /\ View(Keys, "text", texts, [parts EXCEPT ![k] = @ \o delta], bs1)
               /\ View(Slot, "tool_use", tools, args, bs1)
<1>1. /\ bs \in Seq(Block) /\ texts[k] \in Nat
      /\ texts[k] + 1 \in DOMAIN bs /\ bs[texts[k] + 1].kind # "tool_use"
  BY DEF Counts, View
<1>. QED
  BY <1>1, CountsAppend, ViewAppend, ViewOther

LEMMA ExtendTool ==
    ASSUME NEW next, NEW texts, NEW tools, NEW open, NEW args, NEW parts, NEW bs,
           Counts(next, open, bs),
           View(Keys, "text", texts, parts, bs), View(Slot, "tool_use", tools, args, bs),
           NEW o \in Slot, tools[o] # Absent, NEW delta \in String
    PROVE  LET bs1 == AppendDelta(bs, tools[o], delta)
           IN  /\ Counts(next, open, bs1)
               /\ View(Keys, "text", texts, parts, bs1)
               /\ View(Slot, "tool_use", tools, [args EXCEPT ![o] = @ \o delta], bs1)
<1>1. /\ bs \in Seq(Block) /\ tools[o] \in Nat
      /\ tools[o] + 1 \in DOMAIN bs /\ bs[tools[o] + 1].kind # "text"
  BY DEF Counts, View
<1>. QED
  BY <1>1, CountsAppend, ViewAppend, ViewOther

LEMMA StopOne ==
    ASSUME NEW next, NEW texts, NEW tools, NEW open, NEW args, NEW parts, NEW bs,
           Counts(next, open, bs),
           View(Keys, "text", texts, parts, bs), View(Slot, "tool_use", tools, args, bs),
           NEW i \in open
    PROVE  LET bs1 == StopBlock(bs, i)
           IN  /\ Counts(next, open \ {i}, bs1)
               /\ View(Keys, "text", texts, parts, bs1)
               /\ View(Slot, "tool_use", tools, args, bs1)
<1>. DEFINE bs1 == StopBlock(bs, i)
<1>1. bs \in Seq(Block) /\ i \in Nat /\ i + 1 \in DOMAIN bs
  BY DEF Counts
<1>2. /\ DOMAIN bs \subseteq DOMAIN bs1
      /\ \A p \in DOMAIN bs : bs1[p].kind = bs[p].kind /\ bs1[p].content = bs[p].content
  BY <1>1, StopBlockFacts
<1>. HIDE DEF bs1
<1>3. View(Keys, "text", texts, parts, bs1) /\ View(Slot, "tool_use", tools, args, bs1)
  BY <1>2, ViewFrame
<1>4. Counts(next, open \ {i}, bs1)
  BY CountsStop DEF bs1
<1>. QED
  BY <1>3, <1>4 DEF bs1


-----------------------------------------------------------------------------
(* The handlers keep the message in order.                                 *)

\* The final text of a part: what is missing is appended, then the block is
\* stopped; a part that is stopped already is left alone.
LEMMA FinishTextMirror ==
    ASSUME TypeOK, Mirror, NEW k \in Keys, NEW kind, NEW complete \in String,
           TextAgrees(k, complete), FinishText(k, kind, complete)
    PROVE  Mirror'
<1>. DEFINE suffix == Suffix(complete, textParts[k])
            isOpen == TextBlock(k) \in OpenWithText(k)
<1>0. textParts \in [Keys -> String] /\ textParts[k] \in String
  BY DEF TypeOK
<1>1. suffix \in String
  BY <1>0, SuffixType
<1>2. /\ StartText(k)
      /\ textParts' = [textParts EXCEPT ![k] = @ \o suffix]
      /\ openBlocks' = OpenWithText(k) \ {TextBlock(k)}
      /\ blocks' = IF isOpen
                   THEN StopBlock(AppendDelta(BlocksWithText(k), TextBlock(k), suffix),
                                  TextBlock(k))
                   ELSE blocks
      /\ argumentParts' = argumentParts
  BY DEF FinishText
<1>3. CASE isOpen
  <2>. DEFINE bs == AppendDelta(BlocksWithText(k), TextBlock(k), suffix)
  <2>1. /\ Counts(nextIndex', OpenWithText(k), BlocksWithText(k))
        /\ View(Keys, "text", textIndex', textParts, BlocksWithText(k))
        /\ View(Slot, "tool_use", toolIndex', argumentParts, BlocksWithText(k))
        /\ textIndex'[k] = TextBlock(k) /\ textIndex'[k] # Absent
    BY <1>2, AfterStartText
  <2>. HIDE DEF suffix
  <2>2. /\ Counts(nextIndex', OpenWithText(k), bs)
        /\ View(Keys, "text", textIndex', textParts', bs)
        /\ View(Slot, "tool_use", toolIndex', argumentParts', bs)
    BY <1>1, <1>2, <2>1, ExtendText
  <2>. HIDE DEF bs
  <2>3. /\ Counts(nextIndex', openBlocks', StopBlock(bs, TextBlock(k)))
        /\ View(Keys, "text", textIndex', textParts', StopBlock(bs, TextBlock(k)))
        /\ View(Slot, "tool_use", toolIndex', argumentParts', StopBlock(bs, TextBlock(k)))
    BY <1>2, <1>3, <2>2, StopOne
  <2>4. blocks' = StopBlock(bs, TextBlock(k))
    BY <1>2, <1>3 DEF bs
  <2>. QED
    BY <2>3, <2>4 DEF Mirror, TextView, ToolView
<1>4. CASE ~isOpen
  <2>1. textIndex[k] # Absent /\ complete = textParts[k]
    BY <1>4 DEF TextAgrees, TextBlock, OpenWithText
  <2>2. /\ OpenWithText(k) = openBlocks /\ TextBlock(k) = textIndex[k]
        /\ TextBlock(k) \notin openBlocks
    BY <1>4, <2>1 DEF TextBlock, OpenWithText
  <2>3. textParts[k] \o suffix = textParts[k]
    BY <1>0, <2>1, SuffixOfItself
  <2>. HIDE DEF suffix, isOpen
  <2>4. textParts' = textParts
    BY <1>0, <1>2, <2>3
  <2>5. /\ nextIndex' = nextIndex /\ textIndex' = textIndex /\ toolIndex' = toolIndex
    BY <1>2, <2>1, <2>2 DEF StartText, TypeOK
  <2>6. openBlocks' = openBlocks /\ blocks' = blocks
    BY <1>2, <1>4, <2>2
  <2>. QED
    BY <1>2, <2>4, <2>5, <2>6 DEF Mirror, TextView, ToolView
<1>. QED
  BY <1>3, <1>4

\* The final arguments of a call, on the message in which it is started.
LEMMA FinishCallMirror ==
    ASSUME TypeOK, NEW o \in Slot, NEW complete \in String, NEW open, NEW produced,
           Counts(nextIndex', open, produced),
           View(Keys, "text", textIndex', textParts, produced),
           View(Slot, "tool_use", toolIndex', argumentParts, produced),
           toolIndex'[o] = ToolBlock(o), toolIndex'[o] # Absent,
           CallAgrees(o, complete, open), FinishCall(o, complete, open, produced)
    PROVE  Mirror'
<1>. DEFINE suffix == Suffix(complete, argumentParts[o])
<1>0. argumentParts \in [Slot -> String] /\ argumentParts[o] \in String
  BY DEF TypeOK
<1>1. suffix \in String
  BY <1>0, SuffixType
<1>2. /\ argumentParts' = [argumentParts EXCEPT ![o] = @ \o suffix]
      /\ openBlocks' = open \ {ToolBlock(o)}
      /\ blocks' = IF ToolBlock(o) \in open
                   THEN StopBlock(AppendDelta(produced, ToolBlock(o), suffix), ToolBlock(o))
                   ELSE produced
      /\ textParts' = textParts
  BY DEF FinishCall
<1>3. CASE ToolBlock(o) \in open
  <2>. DEFINE bs == AppendDelta(produced, ToolBlock(o), suffix)
  <2>. HIDE DEF suffix
  <2>1. /\ Counts(nextIndex', open, bs)
        /\ View(Keys, "text", textIndex', textParts', bs)
        /\ View(Slot, "tool_use", toolIndex', argumentParts', bs)
    BY <1>1, <1>2, ExtendTool
  <2>. HIDE DEF bs
  <2>2. /\ Counts(nextIndex', openBlocks', StopBlock(bs, ToolBlock(o)))
        /\ View(Keys, "text", textIndex', textParts', StopBlock(bs, ToolBlock(o)))
        /\ View(Slot, "tool_use", toolIndex', argumentParts', StopBlock(bs, ToolBlock(o)))
    BY <1>2, <1>3, <2>1, StopOne
  <2>3. blocks' = StopBlock(bs, ToolBlock(o))
    BY <1>2, <1>3 DEF bs
  <2>. QED
    BY <2>2, <2>3 DEF Mirror, TextView, ToolView
<1>4. CASE ToolBlock(o) \notin open
  <2>1. complete = argumentParts[o]
    BY <1>4 DEF CallAgrees
  <2>2. argumentParts[o] \o suffix = argumentParts[o]
    BY <1>0, <2>1, SuffixOfItself
  <2>. HIDE DEF suffix
  <2>3. argumentParts' = argumentParts
    BY <1>0, <1>2, <2>2
  <2>4. openBlocks' = open /\ blocks' = produced
    BY <1>2, <1>4
  <2>. QED
    BY <1>2, <2>3, <2>4 DEF Mirror, TextView, ToolView
<1>. QED
  BY <1>3, <1>4

LEMMA FailMirror ==
    ASSUME Mirror, NEW delivered, Fail(delivered)
    PROVE  Mirror'
BY DEF Mirror, TextView, ToolView, Fail, state, indexVars, contentVars

\* The inductive invariant.  Mirror relates the translator's tables to the
\* message, WireMirrored the message to what was yielded.
Inv ==
    /\ TypeOK
    /\ Mirror
    /\ WireMirrored
    /\ phase = "stopped" => openBlocks = {}

LEMMA InitInv == Init => Inv
<1>. SUFFICES ASSUME Init PROVE Inv
  OBVIOUS
<1>1. TypeOK
  BY InitType
<1>2. Counts(nextIndex, openBlocks, blocks)
  BY <1>1 DEF Init, Counts, TypeOK
<1>3. TextView(blocks) /\ ToolView(blocks)
  BY <1>1 DEF Init, TextView, ToolView, View, TypeOK, Keys, Absent
<1>. QED
  BY <1>1, <1>2, <1>3 DEF Init, Inv, Mirror, WireMirrored

LEMMA EventInv == Inv /\ AnyEvent => Inv'
<1>. SUFFICES ASSUME Inv, AnyEvent PROVE Inv'
  OBVIOUS
<1>0. TypeOK /\ Mirror /\ WireMirrored /\ TypeOK'
  BY EventType DEF Inv
<1>a. ASSUME NEW delivered, Fail(delivered) PROVE Inv'
  BY <1>0, <1>a, FailMirror DEF Inv, Fail, WireMirrored
<1>b. ASSUME Mirror', Yield PROVE Inv'
  BY <1>0, <1>b DEF Inv, Yield, WireMirrored
<1>1. CASE Created
  BY <1>0, <1>1 DEF Inv, Created, Receive, WireMirrored, Mirror, TextView, ToolView,
                    state, indexVars, contentVars
<1>2. ASSUME NEW o \in Slot, NEW name \in Name \cup {NoName}, ItemAdded(o, name)
      PROVE  Inv'
  <2>1. /\ StartTool(o) /\ openBlocks' = OpenWithTool(o)
        /\ blocks' = BlocksWithTool(o, name)
        /\ textParts' = textParts /\ argumentParts' = argumentParts /\ Yield
    BY <1>2 DEF ItemAdded, contentVars
  <2>2. Mirror'
    BY <1>0, <2>1, AfterStartTool DEF Mirror, TextView, ToolView
  <2>. QED
    BY <1>b, <2>1, <2>2
<1>3. ASSUME NEW k \in Keys, NEW kind \in {"text", "refusal"}, NEW delta \in String,
             TextDelta(k, kind, delta)
      PROVE  Inv'
  <2>1. CASE TextBlock(k) \in OpenWithText(k)
    <3>1. /\ StartText(k) /\ openBlocks' = OpenWithText(k)
          /\ textParts' = [textParts EXCEPT ![k] = @ \o delta]
          /\ blocks' = AppendDelta(BlocksWithText(k), TextBlock(k), delta)
          /\ argumentParts' = argumentParts /\ Yield
      BY <1>3, <2>1 DEF TextDelta
    <3>2. delta \in String
      BY AnyTypes
    <3>3. /\ Counts(nextIndex', OpenWithText(k), BlocksWithText(k))
          /\ View(Keys, "text", textIndex', textParts, BlocksWithText(k))
          /\ View(Slot, "tool_use", toolIndex', argumentParts, BlocksWithText(k))
          /\ textIndex'[k] = TextBlock(k) /\ textIndex'[k] # Absent
      BY <1>0, <3>1, AfterStartText
    <3>4. /\ Counts(nextIndex', openBlocks', blocks')
          /\ View(Keys, "text", textIndex', textParts', blocks')
          /\ View(Slot, "tool_use", toolIndex', argumentParts', blocks')
      BY <3>1, <3>2, <3>3, ExtendText
    <3>5. Mirror'
      BY <3>4 DEF Mirror, TextView, ToolView
    <3>. QED
      BY <1>b, <3>1, <3>5
  <2>2. CASE ~(TextBlock(k) \in OpenWithText(k))
    BY <1>3, <1>a, <2>2 DEF TextDelta
  <2>. QED
    BY <2>1, <2>2
<1>4. ASSUME NEW k \in Keys, NEW kind \in {"text", "refusal", "part"}, NEW body \in Body,
             TextDone(k, kind, body)
      PROVE  Inv'
  <2>. DEFINE complete == CompleteText(k, kind, body)
  <2>1. CASE TextAgrees(k, complete)
    <3>1. complete \in String
      BY <1>0, <2>1, AnyTypes DEF CompleteText, TextAgrees, TypeOK
    <3>2. FinishText(k, kind, complete) /\ Yield
      BY <1>4, <2>1 DEF TextDone
    <3>. HIDE DEF complete
    <3>. QED
      BY <1>0, <1>b, <2>1, <3>1, <3>2, FinishTextMirror
  <2>2. CASE ~TextAgrees(k, complete)
    BY <1>4, <1>a, <2>2 DEF TextDone
  <2>. QED
    BY <2>1, <2>2
<1>5. ASSUME NEW o \in Slot, NEW delta \in String, ArgumentsDelta(o, delta)
      PROVE  Inv'
  <2>1. /\ StartTool(o) /\ openBlocks' = OpenWithTool(o)
        /\ argumentParts' = [argumentParts EXCEPT ![o] = @ \o delta]
        /\ blocks' = AppendDelta(BlocksWithTool(o, toolItems[o]), ToolBlock(o), delta)
        /\ textParts' = textParts /\ Yield
    BY <1>5 DEF ArgumentsDelta
  <2>2. delta \in String /\ toolItems[o] \in Name \cup {NoName}
    BY <1>0, AnyTypes DEF TypeOK
  <2>3. /\ Counts(nextIndex', OpenWithTool(o), BlocksWithTool(o, toolItems[o]))
        /\ View(Keys, "text", textIndex', textParts, BlocksWithTool(o, toolItems[o]))
        /\ View(Slot, "tool_use", toolIndex', argumentParts, BlocksWithTool(o, toolItems[o]))
        /\ toolIndex'[o] = ToolBlock(o) /\ toolIndex'[o] # Absent
    BY <1>0, <2>1, <2>2, AfterStartTool
  <2>4. /\ Counts(nextIndex', openBlocks', blocks')
        /\ View(Keys, "text", textIndex', textParts', blocks')
        /\ View(Slot, "tool_use", toolIndex', argumentParts', blocks')
    BY <2>1, <2>2, <2>3, ExtendTool
  <2>5. Mirror'
    BY <2>4 DEF Mirror, TextView, ToolView
  <2>. QED
    BY <1>b, <2>1, <2>5
<1>6. ASSUME NEW o \in Slot, NEW arguments \in Body, ArgumentsDone(o, arguments)
      PROVE  Inv'
  <2>. DEFINE complete == CompleteArguments(o, arguments)
              suffix   == Suffix(complete, argumentParts[o])
              produced == BlocksWithTool(o, toolItems[o])
  <2>1. CASE ArgumentsAgree(o, complete)
    <3>1. /\ StartTool(o) /\ openBlocks' = OpenWithTool(o)
          /\ argumentParts' = [argumentParts EXCEPT ![o] = @ \o suffix]
          /\ blocks' = AppendDelta(produced, ToolBlock(o), suffix)
          /\ textParts' = textParts /\ Yield
      BY <1>6, <2>1 DEF ArgumentsDone
    <3>2. complete \in String /\ argumentParts[o] \in String
          /\ toolItems[o] \in Name \cup {NoName}
      BY <1>0, AnyTypes DEF TypeOK, CompleteArguments
    <3>. HIDE DEF complete
    <3>3. suffix \in String
      BY <3>2, SuffixType
    <3>. HIDE DEF suffix
    <3>4. /\ Counts(nextIndex', OpenWithTool(o), produced)
          /\ View(Keys, "text", textIndex', textParts, produced)
          /\ View(Slot, "tool_use", toolIndex', argumentParts, produced)
          /\ toolIndex'[o] = ToolBlock(o) /\ toolIndex'[o] # Absent
      BY <1>0, <3>1, <3>2, AfterStartTool
    <3>. HIDE DEF produced
    <3>5. /\ Counts(nextIndex', openBlocks', blocks')
          /\ View(Keys, "text", textIndex', textParts', blocks')
          /\ View(Slot, "tool_use", toolIndex', argumentParts', blocks')
      BY <3>1, <3>3, <3>4, ExtendTool
    <3>6. Mirror'
      BY <3>5 DEF Mirror, TextView, ToolView
    <3>. QED
      BY <1>b, <3>1, <3>6
  <2>2. CASE ~ArgumentsAgree(o, complete)
    BY <1>6, <1>a, <2>2 DEF ArgumentsDone
  <2>. QED
    BY <2>1, <2>2
<1>7. ASSUME NEW item \in Output, ItemDone(item) PROVE Inv'
  BY <1>0, <1>7 DEF Inv, ItemDone, WireMirrored, Mirror, TextView, ToolView,
                    state, indexVars, contentVars
<1>8. ASSUME NEW event \in TerminalEvent, Terminate(event) PROVE Inv'
  BY <1>0, <1>8 DEF Inv, Terminate, WireMirrored, Mirror, TextView, ToolView,
                    state, indexVars, contentVars
<1>9. CASE StreamFails
  BY <1>9, <1>a DEF StreamFails
<1>. QED
  BY <1>1, <1>2, <1>3, <1>4, <1>5, <1>6, <1>7, <1>8, <1>9 DEF AnyEvent

LEMMA HandleInv == Inv /\ Handle => Inv'
BY EventInv, HandleIsAny

LEMMA ProceedInv == Inv /\ Proceed => Inv'
<1>. SUFFICES ASSUME Inv, Proceed PROVE Inv'
  OBVIOUS
<1>0. TypeOK /\ Mirror /\ WireMirrored /\ TypeOK'
  BY ProceedType DEF Inv
<1>w. work # <<>> => Head(work) \in Entry
  BY <1>0 DEF TypeOK, Output
<1>a. ASSUME NEW delivered, Fail(delivered) PROVE Inv'
  BY <1>0, <1>a, FailMirror DEF Inv, Fail, WireMirrored
<1>b. ASSUME Mirror', Continue PROVE Inv'
  BY <1>0, <1>b DEF Inv, Continue, WireMirrored
<1>1. CASE ReconcileText
  <2>. DEFINE entry == Head(work)
              k     == <<entry.slot, entry.part>>
  <2>1. entry \in Entry /\ k \in Keys
    BY <1>w, <1>1 DEF ReconcileText, Reconcile, Entry, Keys
  <2>2. CASE TextAgrees(k, entry.body)
    <3>1. entry.body \in String
      BY <2>1, <2>2 DEF TextAgrees, Entry, Body, String
    <3>2. FinishText(k, entry.kind, entry.body) /\ Continue
      BY <1>1, <2>2 DEF ReconcileText
    <3>. QED
      BY <1>0, <1>b, <2>1, <2>2, <3>1, <3>2, FinishTextMirror
  <2>3. CASE ~TextAgrees(k, entry.body)
    BY <1>1, <1>a, <2>3 DEF ReconcileText
  <2>. QED
    BY <2>2, <2>3
<1>2. CASE ReconcileCall
  <2>. DEFINE o        == Head(work).slot
              complete == CompleteArguments(o, Head(work).body)
  <2>1. Head(work) \in Entry /\ o \in Slot
    BY <1>w, <1>2 DEF ReconcileCall, Reconcile, Entry
  <2>2. complete \in String
    BY <1>0, <2>1 DEF CompleteArguments, Entry, Body, String, TypeOK
  <2>3. \/ UNCHANGED state /\ Continue
        \/ /\ toolIndex[o] # Absent /\ CallAgrees(o, complete, openBlocks)
           /\ FinishCall(o, complete, openBlocks, blocks)
           /\ UNCHANGED <<indexVars, flagVars>>
           /\ Continue
        \/ Fail(wire)
    BY <1>2 DEF ReconcileCall
  <2>. HIDE DEF complete, o
  <2>4. CASE UNCHANGED state /\ Continue
    <3>1. Mirror'
      BY <1>0, <2>4 DEF Mirror, TextView, ToolView, state, indexVars, contentVars
    <3>. QED
      BY <1>b, <2>4, <3>1
  <2>5. CASE /\ toolIndex[o] # Absent /\ CallAgrees(o, complete, openBlocks)
             /\ FinishCall(o, complete, openBlocks, blocks)
             /\ UNCHANGED <<indexVars, flagVars>>
             /\ Continue
    <3>1. /\ nextIndex' = nextIndex /\ textIndex' = textIndex /\ toolIndex' = toolIndex
          /\ toolIndex'[o] = ToolBlock(o)
      BY <2>5 DEF indexVars, ToolBlock
    <3>2. /\ Counts(nextIndex', openBlocks, blocks)
          /\ View(Keys, "text", textIndex', textParts, blocks)
          /\ View(Slot, "tool_use", toolIndex', argumentParts, blocks)
      BY <1>0, <3>1 DEF Mirror, TextView, ToolView
    <3>3. Mirror'
      BY <1>0, <2>1, <2>2, <2>5, <3>1, <3>2, FinishCallMirror
    <3>. QED
      BY <1>b, <2>5, <3>3
  <2>6. CASE Fail(wire)
    BY <1>a, <2>6
  <2>. QED
    BY <2>3, <2>4, <2>5, <2>6
<1>3. CASE ReconcileTerminalCall
  <2>. DEFINE o        == Head(work).slot
              name     == Head(work).name
              complete == CompleteArguments(o, Head(work).body)
  <2>1. Head(work) \in Entry /\ o \in Slot /\ name \in Name \cup {NoName}
    BY <1>w, <1>3 DEF ReconcileTerminalCall, Reconcile, Entry
  <2>2. complete \in String
    BY <1>0, <2>1 DEF CompleteArguments, Entry, Body, String, TypeOK
  <2>3. \/ /\ CallAgrees(o, complete, OpenWithTool(o))
           /\ StartTool(o)
           /\ FinishCall(o, complete, OpenWithTool(o), BlocksWithTool(o, name))
           /\ Continue
        \/ Fail(wire)
    BY <1>3 DEF ReconcileTerminalCall
  <2>. HIDE DEF complete, o, name
  <2>4. CASE Fail(wire)
    BY <1>a, <2>4
  <2>5. CASE ~Fail(wire)
    <3>1. /\ Counts(nextIndex', OpenWithTool(o), BlocksWithTool(o, name))
          /\ View(Keys, "text", textIndex', textParts, BlocksWithTool(o, name))
          /\ View(Slot, "tool_use", toolIndex', argumentParts, BlocksWithTool(o, name))
          /\ toolIndex'[o] = ToolBlock(o) /\ toolIndex'[o] # Absent
      BY <1>0, <2>1, <2>3, <2>5, AfterStartTool
    <3>2. Mirror'
      BY <1>0, <2>1, <2>2, <2>3, <2>5, <3>1, FinishCallMirror
    <3>. QED
      BY <1>b, <2>3, <2>5, <3>2
  <2>. QED
    BY <2>4, <2>5
<1>4. CASE ReconcileReasoning
  <2>. DEFINE bs == WholeBlock(blocks, "reasoning", <<Head(work)>>)
  <2>1. Head(work) \in Entry
    BY <1>w, <1>4 DEF ReconcileReasoning, Reconcile
  <2>2. <<Head(work)>> \in Label /\ "reasoning" \in Kind
    BY <2>1 DEF Label, Output, Kind
  <2>3. Counts(nextIndex + 1, openBlocks, bs)
    BY <1>0, <2>2, CountsWhole DEF Mirror
  <2>4. DOMAIN blocks \subseteq DOMAIN bs /\ \A p \in DOMAIN blocks : bs[p] = blocks[p]
    BY <1>0 DEF TypeOK, WholeBlock
  <2>. HIDE DEF bs
  <2>5. TextView(bs) /\ ToolView(bs)
    BY <1>0, <2>4, ViewFrame DEF Mirror, TextView, ToolView
  <2>6. /\ blocks' = bs /\ nextIndex' = nextIndex + 1 /\ openBlocks' = openBlocks
        /\ textIndex' = textIndex /\ toolIndex' = toolIndex
        /\ textParts' = textParts /\ argumentParts' = argumentParts /\ Continue
    BY <1>4 DEF ReconcileReasoning, contentVars, bs
  <2>7. Mirror'
    BY <2>3, <2>5, <2>6 DEF Mirror, TextView, ToolView
  <2>. QED
    BY <1>b, <2>6, <2>7
<1>5. CASE SkipTerminalItem
  <2>1. Mirror'
    BY <1>0, <1>5 DEF SkipTerminalItem, Mirror, TextView, ToolView, state, indexVars, contentVars
  <2>. QED
    BY <1>b, <1>5, <2>1 DEF SkipTerminalItem
<1>6. CASE YieldItem
  BY <1>0, <1>6 DEF Inv, YieldItem, Yield, WireMirrored, Mirror, TextView, ToolView,
                    state, indexVars, contentVars
<1>7. CASE Finish
  <2>. DEFINE stopped == StopBlocks(blocks, openBlocks)
              carrier == WholeBlock(stopped, "carrier", terminal.output)
              carried == terminal.output # Null
  <2>1. \/ /\ phase' = "stopped" /\ openBlocks' = {} /\ wire' = blocks'
           /\ blocks' = IF carried THEN carrier ELSE stopped
           /\ nextIndex' = IF carried THEN nextIndex + 1 ELSE nextIndex
           /\ textIndex' = textIndex /\ toolIndex' = toolIndex
           /\ textParts' = textParts /\ argumentParts' = argumentParts
        \/ Fail(wire)
    BY <1>7 DEF Finish, contentVars
  <2>2. terminal # Null
    BY <1>7 DEF Finish
  <2>3. Counts(nextIndex, {}, stopped) /\ stopped \in Seq(Block)
    BY <1>0, CountsStopAll, StopBlocksType DEF Mirror, TypeOK
  <2>4. TextView(stopped) /\ ToolView(stopped)
    BY <1>0, ViewStopAll DEF Mirror, TextView, ToolView, TypeOK
  <2>. HIDE DEF stopped
  <2>5. ASSUME carried
        PROVE  Counts(nextIndex + 1, {}, carrier) /\ TextView(carrier) /\ ToolView(carrier)
    <3>1. terminal.output \in Label /\ "carrier" \in Kind
      BY <1>0, <2>2, <2>5 DEF TypeOK, TerminalEvent, Label, Kind
    <3>2. Counts(nextIndex + 1, {}, carrier)
      BY <2>3, <3>1, CountsWhole
    <3>3. /\ DOMAIN stopped \subseteq DOMAIN carrier
          /\ \A p \in DOMAIN stopped : carrier[p] = stopped[p]
      BY <2>3 DEF WholeBlock
    <3>. HIDE DEF carrier
    <3>4. TextView(carrier) /\ ToolView(carrier)
      BY <2>4, <3>3, ViewFrame DEF TextView, ToolView
    <3>. QED
      BY <3>2, <3>4
  <2>. HIDE DEF carrier, carried
  <2>6. CASE Fail(wire)
    BY <1>a, <2>6
  <2>7. CASE ~Fail(wire)
    <3>1. Mirror'
      BY <2>1, <2>3, <2>4, <2>5, <2>7 DEF Mirror, TextView, ToolView
    <3>. QED
      BY <1>0, <2>1, <2>7, <3>1 DEF Inv, WireMirrored
  <2>. QED
    BY <2>6, <2>7
<1>8. CASE CloseUpstream
  BY <1>0, <1>8 DEF Inv, CloseUpstream, WireMirrored, Mirror, TextView, ToolView,
                    state, indexVars, contentVars
<1>9. CASE RejectItem
  BY <1>a, <1>9 DEF RejectItem
<1>. QED
  BY <1>1, <1>2, <1>3, <1>4, <1>5, <1>6, <1>7, <1>8, <1>9 DEF Proceed

LEMMA NextInv == Inv /\ [Next]_vars => Inv'
<1>. SUFFICES ASSUME Inv, [Next]_vars PROVE Inv'
  OBVIOUS
<1>1. CASE Handle
  BY <1>1, HandleInv
<1>2. CASE Proceed
  BY <1>2, ProceedInv
<1>3. CASE HangUp
  BY <1>3 DEF Inv, TypeOK, HangUp, WireMirrored, Mirror, TextView, ToolView,
              state, indexVars, contentVars, flagVars, handlerVars
<1>4. CASE UNCHANGED vars
  BY <1>4 DEF Inv, TypeOK, WireMirrored, Mirror, TextView, ToolView,
              vars, state, indexVars, contentVars, flagVars, handlerVars
<1>. QED
  BY <1>1, <1>2, <1>3, <1>4 DEF Next

LEMMA SpecInv == Spec => []Inv
BY InitInv, NextInv, PTL DEF Spec

\* The translator's five views of one message agree in every reachable state:
\* next_block_index, open_blocks, the index tables and the remembered pieces
\* are exactly what the client has been told (_ResponsesStreamState).
THEOREM BookkeepingHolds == Spec => []Bookkeeping
<1>1. Inv => Bookkeeping
  BY MirrorIsBookkeeping DEF Inv, Bookkeeping
<1>. QED
  BY <1>1, SpecInv, PTL

\* message_stop is yielded only when every content block of the message was
\* stopped exactly once, whatever the gateway sent before (_ResponsesStreamState.finish).
THEOREM MessageStopSeals == Spec => []MessageStopSealsEveryBlock
<1>1. Inv => MessageStopSealsEveryBlock
  BY DEF Inv, Mirror, Counts, WireMirrored, MessageStopSealsEveryBlock
<1>. QED
  BY <1>1, SpecInv, PTL

-----------------------------------------------------------------------------
(* A message that extends another, as the client sees it.                  *)

LEMMA PrefixTransitive ==
    ASSUME NEW r \in String, NEW s \in String, NEW t \in String,
           Len(r) <= Len(s), r = SubSeq(s, 1, Len(r)),
           Len(s) <= Len(t), s = SubSeq(t, 1, Len(s))
    PROVE  Len(r) <= Len(t) /\ r = SubSeq(t, 1, Len(r))
<1>1. /\ Len(r) \in Nat /\ Len(s) \in Nat /\ Len(t) \in Nat
      /\ r \in Seq(Fragment) /\ s \in Seq(Fragment) /\ t \in Seq(Fragment)
  BY DEF String
<1>2. \A i \in 1..Len(r) : r[i] = s[i]
  BY <1>1
<1>3. \A i \in 1..Len(s) : s[i] = t[i]
  BY <1>1
<1>4. \A i \in 1..Len(r) : r[i] = t[i]
  BY <1>1, <1>2, <1>3
<1>5. SubSeq(t, 1, Len(r)) \in Seq(Fragment) /\ Len(SubSeq(t, 1, Len(r))) = Len(r)
  BY <1>1
<1>6. \A i \in 1..Len(r) : SubSeq(t, 1, Len(r))[i] = t[i]
  BY <1>1
<1>. QED
  BY <1>1, <1>4, <1>5, <1>6

LEMMA PrefixOfConcat ==
    ASSUME NEW s \in String, NEW d \in String
    PROVE  Len(s) <= Len(s \o d) /\ s = SubSeq(s \o d, 1, Len(s))
<1>1. /\ Len(s) \in Nat /\ Len(d) \in Nat /\ s \in Seq(Fragment) /\ d \in Seq(Fragment)
      /\ s \o d \in Seq(Fragment) /\ Len(s \o d) = Len(s) + Len(d)
      /\ \A i \in 1..Len(s) : (s \o d)[i] = s[i]
  BY DEF String
<1>2. PICK t \in Seq(Fragment) : t = s \o d
  BY <1>1
<1>3. /\ SubSeq(t, 1, Len(s)) \in Seq(Fragment) /\ Len(SubSeq(t, 1, Len(s))) = Len(s)
      /\ \A i \in 1..Len(s) : SubSeq(t, 1, Len(s))[i] = t[i]
  BY <1>1, <1>2
<1>. QED
  BY <1>1, <1>2, <1>3

LEMMA PrefixOfItself ==
    ASSUME NEW s \in String
    PROVE  Len(s) <= Len(s) /\ s = SubSeq(s, 1, Len(s))
BY DEF String

\* A block that gained no stop and no content, or lost nothing.
LEMMA EvolvesReflexive ==
    ASSUME NEW b \in Block, b.stops \in {0, 1}
    PROVE  Evolves(b, b)
BY PrefixOfItself DEF Evolves, Block

LEMMA EvolvesTransitive ==
    ASSUME NEW a \in Block, NEW b \in Block, NEW c \in Block, Evolves(a, b), Evolves(b, c)
    PROVE  Evolves(a, c)
<1>1. a.content \in String /\ b.content \in String /\ c.content \in String
  BY DEF Block
<1>2. Len(a.content) <= Len(c.content) /\ a.content = SubSeq(c.content, 1, Len(a.content))
  BY <1>1, PrefixTransitive DEF Evolves
<1>. QED
  BY <1>2 DEF Evolves

LEMMA ExtendsTransitive ==
    ASSUME NEW x \in Seq(Block), NEW y \in Seq(Block), NEW z \in Seq(Block),
           Extends(x, y), Extends(y, z)
    PROVE  Extends(x, z)
<1>1. /\ Len(x) \in Nat /\ Len(y) \in Nat /\ Len(z) \in Nat
      /\ Len(x) <= Len(y) /\ Len(y) <= Len(z)
  BY DEF Extends
<1>2. ASSUME NEW i \in 1..Len(x) PROVE Evolves(x[i], z[i])
  <2>1. i \in 1..Len(y) /\ i \in 1..Len(z)
    BY <1>1
  <2>2. x[i] \in Block /\ y[i] \in Block /\ z[i] \in Block
    BY <2>1
  <2>3. Evolves(x[i], y[i]) /\ Evolves(y[i], z[i])
    BY <2>1 DEF Extends
  <2>. QED
    BY <2>2, <2>3, EvolvesTransitive
<1>. QED
  BY <1>1, <1>2 DEF Extends

LEMMA CountsStops ==
    ASSUME NEW next, NEW open, NEW bs, Counts(next, open, bs)
    PROVE  /\ bs \in Seq(Block) /\ Len(bs) \in Nat
           /\ \A p \in 1..Len(bs) : bs[p] \in Block /\ bs[p].stops \in {0, 1}
BY DEF Counts

LEMMA ExtendsReflexive ==
    ASSUME NEW next, NEW open, NEW bs, Counts(next, open, bs)
    PROVE  Extends(bs, bs)
BY CountsStops, EvolvesReflexive DEF Extends

\* A block more.
LEMMA ExtendsByBlock ==
    ASSUME NEW next, NEW open, NEW bs, Counts(next, open, bs),
           NEW kind \in Kind, NEW label \in Label
    PROVE  /\ Extends(bs, StartBlock(bs, kind, label))
           /\ Extends(bs, WholeBlock(bs, kind, label))
<1>. DEFINE started1 == StartBlock(bs, kind, label)
            whole1   == WholeBlock(bs, kind, label)
<1>1. /\ bs \in Seq(Block) /\ Len(bs) \in Nat
      /\ \A p \in 1..Len(bs) : Evolves(bs[p], bs[p])
  BY CountsStops, EvolvesReflexive
<1>2. /\ Len(started1) = Len(bs) + 1 /\ \A p \in 1..Len(bs) : started1[p] = bs[p]
  BY <1>1 DEF StartBlock
<1>3. /\ Len(whole1) = Len(bs) + 1 /\ \A p \in 1..Len(bs) : whole1[p] = bs[p]
  BY <1>1 DEF WholeBlock
<1>. HIDE DEF started1, whole1
<1>4. Extends(bs, started1) /\ Extends(bs, whole1)
  BY <1>1, <1>2, <1>3 DEF Extends
<1>. QED
  BY <1>4 DEF started1, whole1

\* A delta for an open block.
LEMMA ExtendsByDelta ==
    ASSUME NEW next, NEW open, NEW bs, Counts(next, open, bs), NEW i \in open,
           NEW delta \in String
    PROVE  Extends(bs, AppendDelta(bs, i, delta))
<1>. DEFINE bs1 == AppendDelta(bs, i, delta)
<1>1. /\ bs \in Seq(Block) /\ Len(bs) \in Nat /\ i \in Nat /\ i + 1 \in 1..Len(bs)
      /\ \A p \in 1..Len(bs) : bs[p] \in Block /\ Evolves(bs[p], bs[p])
      /\ bs[i + 1].stops = 0
  BY CountsStops, EvolvesReflexive DEF Counts
<1>2. PICK b : b = bs[i + 1]
  OBVIOUS
<1>3. PICK c : c = b.content \o delta
  OBVIOUS
<1>4. bs1 = [bs EXCEPT ![i + 1] = [b EXCEPT !.content = c]]
  BY <1>2, <1>3 DEF AppendDelta
<1>5. Len(b.content) <= Len(c) /\ b.content = SubSeq(c, 1, Len(b.content))
  <2>1. b.content \in String
    BY <1>1, <1>2 DEF Block
  <2>. QED
    BY <1>3, <2>1, PrefixOfConcat
<1>6. Evolves(b, [b EXCEPT !.content = c])
  <2>1. b \in Block /\ b.stops = 0
    BY <1>1, <1>2
  <2>2. /\ [b EXCEPT !.content = c].kind = b.kind
        /\ [b EXCEPT !.content = c].label = b.label
        /\ [b EXCEPT !.content = c].stops = 0
        /\ [b EXCEPT !.content = c].content = c
    BY <2>1 DEF Block
  <2>. QED
    BY <1>5, <2>1, <2>2 DEF Evolves, Sealed
<1>. HIDE DEF bs1
<1>7. Len(bs1) = Len(bs) /\ \A p \in 1..Len(bs) : p # i + 1 => bs1[p] = bs[p]
  BY <1>1, <1>4
<1>8. bs1[i + 1] = [b EXCEPT !.content = c]
  BY <1>1, <1>4
<1>9. ASSUME NEW p \in 1..Len(bs) PROVE Evolves(bs[p], bs1[p])
  <2>1. CASE p = i + 1
    BY <1>2, <1>6, <1>8, <2>1
  <2>2. CASE p # i + 1
    BY <1>1, <1>7, <2>2
  <2>. QED
    BY <2>1, <2>2
<1>10. Extends(bs, bs1)
  BY <1>1, <1>7, <1>9 DEF Extends
<1>. QED
  BY <1>10 DEF bs1

\* The stop of an open block, and of all open blocks.
LEMMA ExtendsByStop ==
    ASSUME NEW next, NEW open, NEW bs, Counts(next, open, bs), NEW i \in open
    PROVE  Extends(bs, StopBlock(bs, i))
<1>. DEFINE bs1 == StopBlock(bs, i)
<1>1. /\ bs \in Seq(Block) /\ Len(bs) \in Nat /\ i \in Nat /\ i + 1 \in 1..Len(bs)
      /\ \A p \in 1..Len(bs) : bs[p] \in Block /\ Evolves(bs[p], bs[p])
      /\ bs[i + 1].stops = 0
  BY CountsStops, EvolvesReflexive DEF Counts
<1>2. /\ Len(bs1) = Len(bs)
      /\ \A p \in 1..Len(bs) : p # i + 1 => bs1[p] = bs[p]
      /\ bs1[i + 1] = [bs[i + 1] EXCEPT !.stops = @ + 1]
  BY <1>1 DEF StopBlock
<1>3. PICK b \in Block : b = bs[i + 1]
  BY <1>1
<1>4. Evolves(b, [b EXCEPT !.stops = 1])
  <2>1. /\ [b EXCEPT !.stops = 1].kind = b.kind
        /\ [b EXCEPT !.stops = 1].label = b.label
        /\ [b EXCEPT !.stops = 1].stops = 1
        /\ [b EXCEPT !.stops = 1].content = b.content
    BY <1>3 DEF Block
  <2>2. b.stops = 0 /\ b.content \in String
    BY <1>1, <1>3 DEF Block
  <2>. QED
    BY <2>1, <2>2, PrefixOfItself DEF Evolves, Sealed
<1>5. bs1[i + 1] = [b EXCEPT !.stops = 1]
  BY <1>1, <1>2, <1>3
<1>. HIDE DEF bs1
<1>6. ASSUME NEW p \in 1..Len(bs) PROVE Evolves(bs[p], bs1[p])
  BY <1>1, <1>2, <1>3, <1>4, <1>5
<1>7. Extends(bs, bs1)
  BY <1>1, <1>2, <1>6 DEF Extends
<1>. QED
  BY <1>7 DEF bs1

LEMMA BlockAt ==
    ASSUME NEW bs \in Seq(Block), NEW p \in 1..Len(bs)
    PROVE  bs[p] \in Block
OBVIOUS

LEMMA ExtendsByStops ==
    ASSUME NEW next, NEW open, NEW bs, Counts(next, open, bs)
    PROVE  Extends(bs, StopBlocks(bs, open))
<1>. DEFINE bs1 == StopBlocks(bs, open)
<1>1. /\ bs \in Seq(Block) /\ Len(bs) \in Nat
      /\ \A p \in 1..Len(bs) : bs[p] \in Block /\ Evolves(bs[p], bs[p])
      /\ \A p \in 1..Len(bs) : bs[p].stops = IF p - 1 \in open THEN 0 ELSE 1
  <2>1. \A p \in 1..Len(bs) : bs[p].stops = IF p - 1 \in open THEN 0 ELSE 1
    BY DEF Counts
  <2>. QED
    BY <2>1, CountsStops, EvolvesReflexive
<1>2. /\ bs1 \in Seq(Block) /\ Len(bs1) = Len(bs)
      /\ \A p \in 1..Len(bs) : /\ bs1[p].kind = bs[p].kind
                               /\ bs1[p].label = bs[p].label
                               /\ bs1[p].content = bs[p].content
                               /\ bs1[p].stops = 1
  <2>1. bs1 \in Seq(Block) /\ Len(bs1) = Len(bs)
    BY <1>1, StopBlocksType DEF StopBlocks
  <2>. QED
    BY <1>1, <2>1 DEF StopBlocks, Block
<1>. HIDE DEF bs1
<1>3. ASSUME NEW p \in 1..Len(bs) PROVE Evolves(bs[p], bs1[p])
  <2>1. bs[p] \in Block /\ bs1[p] \in Block /\ bs[p].content \in String
    <3>1. bs[p] \in Block
      BY <1>1
    <3>2. bs1[p] \in Block
      BY <1>1, <1>2, BlockAt
    <3>. QED
      BY <3>1, <3>2 DEF Block
  <2>2. CASE bs[p].stops = 1
    <3>1. bs1[p] = bs[p]
      BY <1>2, <2>1, <2>2, SMTT(30) DEF Block
    <3>. QED
      BY <1>1, <3>1
  <2>3. CASE bs[p].stops # 1
    BY <1>2, <2>1, <2>3, PrefixOfItself DEF Evolves, Sealed
  <2>. QED
    BY <2>2, <2>3
<1>4. Extends(bs, bs1)
  BY <1>1, <1>2, <1>3 DEF Extends
<1>. QED
  BY <1>4 DEF bs1

-----------------------------------------------------------------------------
(* The helpers of the handlers only extend the message.                    *)

LEMMA StartTextExtends ==
    ASSUME TypeOK, Mirror, NEW k \in Keys
    PROVE  Extends(blocks, BlocksWithText(k)) /\ BlocksWithText(k) \in Seq(Block)
<1>1. "text" \in Kind /\ Null \in Label
  BY DEF Kind, Label
<1>2. Counts(nextIndex, openBlocks, blocks)
  BY DEF Mirror
<1>. QED
  BY <1>1, <1>2, ExtendsByBlock, ExtendsReflexive, TextHelperTypes DEF BlocksWithText

LEMMA StartToolExtends ==
    ASSUME TypeOK, Mirror, NEW o \in Slot, NEW name \in Name \cup {NoName}
    PROVE  Extends(blocks, BlocksWithTool(o, name)) /\ BlocksWithTool(o, name) \in Seq(Block)
<1>1. "tool_use" \in Kind /\ name \in Label
  BY DEF Kind, Label
<1>2. Counts(nextIndex, openBlocks, blocks)
  BY DEF Mirror
<1>. QED
  BY <1>1, <1>2, ExtendsByBlock, ExtendsReflexive, ToolHelperTypes DEF BlocksWithTool

\* A delta for an open block, and the stop that may follow it.
LEMMA DeltaExtends ==
    ASSUME NEW base \in Seq(Block), NEW next, NEW open, NEW bs, Counts(next, open, bs),
           Extends(base, bs), NEW i \in open, NEW delta \in String
    PROVE  /\ Extends(base, AppendDelta(bs, i, delta))
           /\ Extends(base, StopBlock(AppendDelta(bs, i, delta), i))
<1>. DEFINE bs1 == AppendDelta(bs, i, delta)
<1>1. bs \in Seq(Block) /\ i \in Nat /\ i + 1 \in DOMAIN bs
  BY DEF Counts
<1>2. Counts(next, open, bs1) /\ Extends(bs, bs1)
  BY <1>1, CountsAppend, ExtendsByDelta
<1>. HIDE DEF bs1
<1>3. bs1 \in Seq(Block) /\ Extends(base, bs1)
  BY <1>1, <1>2, ExtendsTransitive DEF Counts
<1>4. StopBlock(bs1, i) \in Seq(Block) /\ Extends(bs1, StopBlock(bs1, i))
  BY <1>1, <1>2, <1>3, StopBlockType, ExtendsByStop
<1>5. Extends(base, StopBlock(bs1, i))
  BY <1>3, <1>4, ExtendsTransitive
<1>. QED
  BY <1>3, <1>5 DEF bs1

LEMMA FinishTextExtends ==
    ASSUME TypeOK, Mirror, NEW k \in Keys, NEW kind, NEW complete \in String,
           FinishText(k, kind, complete)
    PROVE  Extends(blocks, blocks')
<1>. DEFINE suffix == Suffix(complete, textParts[k])
<1>1. suffix \in String
  BY SuffixType DEF TypeOK
<1>2. /\ StartText(k)
      /\ blocks' = IF TextBlock(k) \in OpenWithText(k)
                   THEN StopBlock(AppendDelta(BlocksWithText(k), TextBlock(k), suffix),
                                  TextBlock(k))
                   ELSE blocks
  BY DEF FinishText
<1>3. blocks \in Seq(Block) /\ Extends(blocks, blocks) /\ Extends(blocks, BlocksWithText(k))
  BY ExtendsReflexive, StartTextExtends DEF Mirror, Counts
<1>4. Counts(nextIndex', OpenWithText(k), BlocksWithText(k))
  BY <1>2, AfterStartText
<1>. HIDE DEF suffix
<1>. QED
  BY <1>1, <1>2, <1>3, <1>4, DeltaExtends

LEMMA FinishCallExtends ==
    ASSUME TypeOK, NEW o \in Slot, NEW complete \in String, NEW next, NEW open, NEW produced,
           Counts(next, open, produced), NEW base \in Seq(Block), Extends(base, produced),
           FinishCall(o, complete, open, produced)
    PROVE  Extends(base, blocks')
<1>. DEFINE suffix == Suffix(complete, argumentParts[o])
<1>1. suffix \in String
  BY SuffixType DEF TypeOK
<1>2. blocks' = IF ToolBlock(o) \in open
                THEN StopBlock(AppendDelta(produced, ToolBlock(o), suffix), ToolBlock(o))
                ELSE produced
  BY DEF FinishCall
<1>. HIDE DEF suffix
<1>. QED
  BY <1>1, <1>2, DeltaExtends

-----------------------------------------------------------------------------
(* The steps of the client's stream.                                       *)

Live == phase \in {"reading", "reconciling"}

\* The strengthening: while the stream lives, what was yielded is an earlier
\* state of what was produced, and message_start came before any of it.
Delivered ==
    /\ Live => Extends(wire, wire) /\ Extends(wire, blocks)
    /\ wire # <<>> => started
    /\ phase = "reconciling" => started

LEMMA SameExtends ==
    ASSUME NEW x, NEW y
    PROVE  Client!Extends(x, y) <=> Extends(x, y)
BY DEF Extends, Evolves, Sealed, Client!Extends, Client!Evolves, Client!Sealed

\* Work that nobody sees yet: a stutter, or message_start alone.
LEMMA QuietStep ==
    ASSUME Inv, Inv', Delivered, Live, Live', wire' = wire, started',
           Extends(blocks, blocks')
    PROVE  [Client!Next]_(Client!vars) /\ Delivered'
<1>1. wire \in Seq(Block) /\ blocks \in Seq(Block) /\ blocks' \in Seq(Block)
  BY DEF Inv, TypeOK
<1>2. Extends(wire', blocks')
  BY <1>1, ExtendsTransitive DEF Delivered
<1>3. Delivered'
  BY <1>2 DEF Delivered
<1>4. CASE started
  <2>1. started' = started
    BY <1>4 DEF Inv, TypeOK
  <2>2. UNCHANGED Client!vars
    BY <2>1 DEF Live, Client!vars
  <2>. QED
    BY <1>3, <2>2
<1>5. CASE ~started
  <2>1. Extends(wire, wire')
    BY DEF Delivered
  <2>. QED
    BY <1>3, <1>5, <2>1, SameExtends DEF Live, Client!Next, Client!Deliver, Client!Write
<1>. QED
  BY <1>3, <1>4, <1>5

\* A handler yields what it produced.
LEMMA YieldStep ==
    ASSUME Inv, Inv', Delivered, Live, Yield, started', Extends(blocks, blocks')
    PROVE  [Client!Next]_(Client!vars) /\ Delivered'
<1>1. wire \in Seq(Block) /\ blocks \in Seq(Block) /\ blocks' \in Seq(Block)
  BY DEF Inv, TypeOK
<1>2. Extends(wire, wire')
  BY <1>1, ExtendsTransitive DEF Delivered, Yield
<1>3. Extends(wire', wire') /\ Extends(wire', blocks')
  BY ExtendsReflexive DEF Inv, Mirror, Yield
<1>4. Delivered'
  BY <1>3 DEF Delivered, Yield
<1>. QED
  BY <1>2, <1>4, SameExtends DEF Live, Yield, Client!Next, Client!Deliver, Client!Write

\* An error, after what the failing handler had yielded.
LEMMA FailStep ==
    ASSUME Inv, Delivered, Live, NEW delivered, Fail(delivered), Extends(wire, delivered),
           started => started', delivered # <<>> => started'
    PROVE  [Client!Next]_(Client!vars) /\ Delivered'
<1>1. Delivered'
  BY DEF Delivered, Fail, Live
<1>2. Client!Fail
  BY SameExtends DEF Live, Fail, Client!Fail, Client!Write
<1>. QED
  BY <1>1, <1>2 DEF Client!Next

LEMMA OpenCall ==
    ASSUME NEW o \in Slot, CallStillOpen(o)
    PROVE  ToolBlock(o) \in OpenWithTool(o)
BY DEF CallStillOpen, ToolBlock, OpenWithTool

\* Every event handler is a step of the client's stream.
LEMMA HandleStep ==
    ASSUME LateArguments = FALSE, Inv, Delivered, Handle
    PROVE  [Client!Next]_(Client!vars) /\ Delivered'
<1>0. TypeOK /\ Mirror /\ Inv'
  BY HandleInv DEF Inv
<1>1. /\ phase = "reading" /\ Live
      /\ wire = blocks /\ blocks \in Seq(Block) /\ Extends(blocks, blocks)
  <2>1. phase = "reading"
    BY DEF Handle, Created, ItemAdded, TextDelta, TextDone, ArgumentsDelta, ArgumentsDone,
           ItemDone, Terminate, StreamFails, Receive
  <2>. QED
    BY <1>0, <2>1, ExtendsReflexive DEF Live, Inv, WireMirrored, Mirror, TypeOK
<1>q. ASSUME UNCHANGED <<blocks, wire>>, started', phase' \in {"reading", "reconciling"}
      PROVE  [Client!Next]_(Client!vars) /\ Delivered'
  BY <1>0, <1>1, <1>q, QuietStep DEF Live
<1>y. ASSUME Yield, started', Extends(blocks, blocks')
      PROVE  [Client!Next]_(Client!vars) /\ Delivered'
  BY <1>0, <1>1, <1>y, YieldStep
<1>f. ASSUME NEW delivered, Fail(delivered), Extends(wire, delivered), started'
      PROVE  [Client!Next]_(Client!vars) /\ Delivered'
  BY <1>0, <1>1, <1>f, FailStep
<1>2. CASE Created
  BY <1>2, <1>q DEF Created, state
<1>3. ASSUME NEW o \in Slot, NEW name \in Name \cup {NoName}, ItemAdded(o, name)
      PROVE  [Client!Next]_(Client!vars) /\ Delivered'
  <2>1. started' /\ Yield /\ blocks' = BlocksWithTool(o, name)
    BY <1>3 DEF ItemAdded
  <2>. QED
    BY <1>0, <1>y, <2>1, StartToolExtends
<1>4. ASSUME NEW k \in Keys, NEW kind \in {"text", "refusal"}, NEW delta \in Deltas,
             TextDelta(k, kind, delta)
      PROVE  [Client!Next]_(Client!vars) /\ Delivered'
  <2>1. CASE TextBlock(k) \in OpenWithText(k)
    <3>1. /\ started' /\ Yield /\ StartText(k)
          /\ blocks' = AppendDelta(BlocksWithText(k), TextBlock(k), delta)
      BY <1>4, <2>1 DEF TextDelta
    <3>2. Counts(nextIndex', OpenWithText(k), BlocksWithText(k))
      BY <1>0, <3>1, AfterStartText
    <3>3. Extends(blocks, BlocksWithText(k)) /\ delta \in String
      BY <1>0, StartTextExtends, EventTypes
    <3>4. Extends(blocks, blocks')
      BY <1>1, <2>1, <3>1, <3>2, <3>3, DeltaExtends
    <3>. QED
      BY <1>y, <3>1, <3>4
  <2>2. CASE ~(TextBlock(k) \in OpenWithText(k))
    <3>1. Fail(wire) /\ started'
      BY <1>4, <2>2 DEF TextDelta
    <3>. QED
      BY <1>1, <1>f, <3>1
  <2>. QED
    BY <2>1, <2>2
<1>5. ASSUME NEW k \in Keys, NEW kind \in {"text", "refusal", "part"}, NEW body \in Bodies,
             TextDone(k, kind, body)
      PROVE  [Client!Next]_(Client!vars) /\ Delivered'
  <2>. DEFINE complete == CompleteText(k, kind, body)
  <2>1. CASE TextAgrees(k, complete)
    <3>1. complete \in String
      BY <1>0, <2>1, EventTypes DEF CompleteText, TextAgrees, TypeOK
    <3>2. FinishText(k, kind, complete) /\ Yield /\ started'
      BY <1>5, <2>1 DEF TextDone
    <3>. HIDE DEF complete
    <3>. QED
      BY <1>0, <1>y, <3>1, <3>2, FinishTextExtends
  <2>2. CASE ~TextAgrees(k, complete)
    <3>1. Fail(BlocksWithText(k)) /\ started'
      BY <1>5, <2>2 DEF TextDone
    <3>. QED
      BY <1>0, <1>1, <1>f, <3>1, StartTextExtends
  <2>. QED
    BY <2>1, <2>2
<1>6. ASSUME NEW o \in Slot, NEW delta \in Deltas, ArgumentsDelta(o, delta)
      PROVE  [Client!Next]_(Client!vars) /\ Delivered'
  <2>1. /\ started' /\ Yield /\ StartTool(o) /\ CallStillOpen(o)
        /\ blocks' = AppendDelta(BlocksWithTool(o, toolItems[o]), ToolBlock(o), delta)
    BY <1>6 DEF ArgumentsDelta
  <2>2. delta \in String /\ toolItems[o] \in Name \cup {NoName}
    BY <1>0, EventTypes DEF TypeOK
  <2>3. /\ Counts(nextIndex', OpenWithTool(o), BlocksWithTool(o, toolItems[o]))
        /\ Extends(blocks, BlocksWithTool(o, toolItems[o]))
    BY <1>0, <2>1, <2>2, AfterStartTool, StartToolExtends
  <2>4. Extends(blocks, blocks')
    BY <1>1, <2>1, <2>2, <2>3, OpenCall, DeltaExtends
  <2>. QED
    BY <1>y, <2>1, <2>4
<1>7. ASSUME NEW o \in Slot, NEW arguments \in Bodies, ArgumentsDone(o, arguments)
      PROVE  [Client!Next]_(Client!vars) /\ Delivered'
  <2>. DEFINE complete == CompleteArguments(o, arguments)
              suffix   == Suffix(complete, argumentParts[o])
              produced == BlocksWithTool(o, toolItems[o])
  <2>0. started' /\ CallStillOpen(o) /\ toolItems[o] \in Name \cup {NoName}
    BY <1>0, <1>7 DEF ArgumentsDone, TypeOK
  <2>1. Extends(blocks, produced)
    BY <1>0, <2>0, StartToolExtends
  <2>2. CASE ArgumentsAgree(o, complete)
    <3>1. /\ StartTool(o) /\ Yield
          /\ blocks' = AppendDelta(produced, ToolBlock(o), suffix)
      BY <1>7, <2>2 DEF ArgumentsDone
    <3>2. complete \in String /\ argumentParts[o] \in String
      BY <1>0, EventTypes DEF TypeOK, CompleteArguments
    <3>. HIDE DEF complete
    <3>3. suffix \in String
      BY <3>2, SuffixType
    <3>. HIDE DEF suffix
    <3>4. Counts(nextIndex', OpenWithTool(o), produced)
      BY <1>0, <2>0, <3>1, AfterStartTool
    <3>. HIDE DEF produced
    <3>5. Extends(blocks, blocks')
      BY <1>1, <2>0, <2>1, <3>1, <3>3, <3>4, OpenCall, DeltaExtends
    <3>. QED
      BY <1>y, <2>0, <3>1, <3>5
  <2>3. CASE ~ArgumentsAgree(o, complete)
    <3>1. Fail(produced)
      BY <1>7, <2>3 DEF ArgumentsDone
    <3>. HIDE DEF produced
    <3>. QED
      BY <1>1, <1>f, <2>0, <2>1, <3>1
  <2>. QED
    BY <2>2, <2>3
<1>8. ASSUME NEW item \in Items, ItemDone(item)
      PROVE  [Client!Next]_(Client!vars) /\ Delivered'
  BY <1>8, <1>q DEF ItemDone, state
<1>9. ASSUME NEW event \in Terminals, Terminate(event)
      PROVE  [Client!Next]_(Client!vars) /\ Delivered'
  BY <1>9, <1>q DEF Terminate, state
<1>10. CASE StreamFails
  <2>1. Fail(wire) /\ started' = started
    BY <1>10 DEF StreamFails
  <2>. QED
    BY <1>0, <1>1, <2>1, FailStep DEF Delivered
<1>. QED
  BY <1>2, <1>3, <1>4, <1>5, <1>6, <1>7, <1>8, <1>9, <1>10 DEF Handle

\* So is every step the translator takes on its own.
LEMMA ProceedStep ==
    ASSUME Inv, Delivered, Proceed
    PROVE  [Client!Next]_(Client!vars) /\ Delivered'
<1>0. TypeOK /\ Mirror /\ Inv'
  BY ProceedInv DEF Inv
<1>1. /\ wire \in Seq(Block) /\ blocks \in Seq(Block) /\ blocks' \in Seq(Block)
      /\ Extends(blocks, blocks)
      /\ work # <<>> => Head(work) \in Entry
  BY <1>0, ExtendsReflexive DEF Mirror, TypeOK, Output, Inv
<1>c. ASSUME phase = "reconciling", started' = started, Continue, Extends(blocks, blocks')
      PROVE  [Client!Next]_(Client!vars) /\ Delivered'
  BY <1>0, <1>c, QuietStep DEF Live, Continue, Delivered
<1>f. ASSUME phase = "reconciling", started' = started, Fail(wire)
      PROVE  [Client!Next]_(Client!vars) /\ Delivered'
  <2>1. Extends(wire, wire)
    BY <1>f DEF Live, Delivered
  <2>. QED
    BY <1>0, <1>f, <2>1, FailStep DEF Live, Delivered
<1>2. CASE ReconcileText
  <2>. DEFINE entry == Head(work)
              k     == <<entry.slot, entry.part>>
  <2>1. /\ entry \in Entry /\ k \in Keys
        /\ phase = "reconciling" /\ started' = started
    BY <1>1, <1>2 DEF ReconcileText, Reconcile, Entry, Keys
  <2>2. CASE TextAgrees(k, entry.body)
    <3>1. entry.body \in String
      BY <2>1, <2>2 DEF TextAgrees, Entry, Body, String
    <3>2. FinishText(k, entry.kind, entry.body) /\ Continue
      BY <1>2, <2>2 DEF ReconcileText
    <3>3. Extends(blocks, blocks')
      BY <1>0, <2>1, <3>1, <3>2, FinishTextExtends
    <3>. QED
      BY <1>c, <2>1, <3>2, <3>3
  <2>3. CASE ~TextAgrees(k, entry.body)
    BY <1>2, <1>f, <2>1, <2>3 DEF ReconcileText
  <2>. QED
    BY <2>2, <2>3
<1>3. CASE ReconcileCall
  <2>. DEFINE o        == Head(work).slot
              complete == CompleteArguments(o, Head(work).body)
  <2>1. /\ Head(work) \in Entry /\ o \in Slot
        /\ phase = "reconciling" /\ started' = started
    BY <1>1, <1>3 DEF ReconcileCall, Reconcile, Entry
  <2>2. complete \in String
    BY <1>0, <2>1 DEF CompleteArguments, Entry, Body, String, TypeOK
  <2>3. \/ UNCHANGED state /\ Continue
        \/ FinishCall(o, complete, openBlocks, blocks) /\ Continue
        \/ Fail(wire)
    BY <1>3 DEF ReconcileCall
  <2>. HIDE DEF complete, o
  <2>4. CASE UNCHANGED state /\ Continue
    BY <1>1, <1>c, <2>1, <2>4 DEF state
  <2>5. CASE FinishCall(o, complete, openBlocks, blocks) /\ Continue
    <3>1. Extends(blocks, blocks')
      BY <1>0, <1>1, <2>1, <2>2, <2>5, FinishCallExtends DEF Mirror
    <3>. QED
      BY <1>c, <2>1, <2>5, <3>1
  <2>6. CASE Fail(wire)
    BY <1>f, <2>1, <2>6
  <2>. QED
    BY <2>3, <2>4, <2>5, <2>6
<1>4. CASE ReconcileTerminalCall
  <2>. DEFINE o        == Head(work).slot
              name     == Head(work).name
              complete == CompleteArguments(o, Head(work).body)
  <2>1. /\ Head(work) \in Entry /\ o \in Slot /\ name \in Name \cup {NoName}
        /\ phase = "reconciling" /\ started' = started
    BY <1>1, <1>4 DEF ReconcileTerminalCall, Reconcile, Entry
  <2>2. complete \in String
    BY <1>0, <2>1 DEF CompleteArguments, Entry, Body, String, TypeOK
  <2>3. \/ /\ StartTool(o)
           /\ FinishCall(o, complete, OpenWithTool(o), BlocksWithTool(o, name))
           /\ Continue
        \/ Fail(wire)
    BY <1>4 DEF ReconcileTerminalCall
  <2>. HIDE DEF complete, o, name
  <2>4. CASE Fail(wire)
    BY <1>f, <2>1, <2>4
  <2>5. CASE ~Fail(wire)
    <3>1. /\ Counts(nextIndex', OpenWithTool(o), BlocksWithTool(o, name))
          /\ Extends(blocks, BlocksWithTool(o, name))
      BY <1>0, <2>1, <2>3, <2>5, AfterStartTool, StartToolExtends
    <3>2. Extends(blocks, blocks')
      BY <1>0, <1>1, <2>1, <2>2, <2>3, <2>5, <3>1, FinishCallExtends
    <3>. QED
      BY <1>c, <2>1, <2>3, <2>5, <3>2
  <2>. QED
    BY <2>4, <2>5
<1>5. CASE ReconcileReasoning
  <2>1. /\ Head(work) \in Entry /\ phase = "reconciling" /\ started' = started
        /\ blocks' = WholeBlock(blocks, "reasoning", <<Head(work)>>) /\ Continue
    BY <1>1, <1>5 DEF ReconcileReasoning, Reconcile
  <2>2. <<Head(work)>> \in Label /\ "reasoning" \in Kind
    BY <2>1 DEF Label, Output, Kind
  <2>3. Extends(blocks, blocks')
    BY <1>0, <2>1, <2>2, ExtendsByBlock DEF Mirror
  <2>. QED
    BY <1>c, <2>1, <2>3
<1>6. CASE SkipTerminalItem
  BY <1>1, <1>c, <1>6 DEF SkipTerminalItem, Reconcile, state
<1>7. CASE RejectItem
  BY <1>f, <1>7 DEF RejectItem, Reconcile
<1>8. CASE YieldItem
  <2>1. /\ phase = "reconciling" /\ Live /\ started' = started /\ started /\ Yield
        /\ blocks' = blocks
    BY <1>8 DEF YieldItem, Live, Delivered, state
  <2>. QED
    BY <1>0, <1>1, <2>1, YieldStep
<1>9. CASE Finish
  <2>. DEFINE stopped == StopBlocks(blocks, openBlocks)
              carrier == WholeBlock(stopped, "carrier", terminal.output)
              carried == terminal.output # Null
  <2>1. /\ phase = "reconciling" /\ started' = started /\ started /\ terminal # Null
        /\ Extends(wire, blocks)
    BY <1>9 DEF Finish, Delivered, Live
  <2>2. \/ /\ phase' = "stopped" /\ wire' = blocks'
           /\ blocks' = IF carried THEN carrier ELSE stopped
        \/ Fail(wire)
    BY <1>9 DEF Finish
  <2>3. CASE Fail(wire)
    BY <1>f, <2>1, <2>3
  <2>4. CASE ~Fail(wire)
    <3>1. /\ Counts(nextIndex, {}, stopped) /\ stopped \in Seq(Block)
          /\ Extends(blocks, stopped)
      BY <1>0, <1>1, CountsStopAll, ExtendsByStops, StopBlocksType DEF Mirror
    <3>. HIDE DEF stopped
    <3>2. ASSUME carried PROVE carrier \in Seq(Block) /\ Extends(stopped, carrier)
      <4>1. terminal.output \in Label /\ "carrier" \in Kind
        BY <1>0, <2>1, <3>2 DEF TypeOK, TerminalEvent, Label, Kind
      <4>. QED
        BY <3>1, <4>1, ExtendsByBlock, WholeBlockType
    <3>. HIDE DEF carrier, carried
    <3>3. Extends(wire, stopped)
      BY <1>1, <2>1, <3>1, ExtendsTransitive
    <3>4. Extends(wire, wire')
      BY <1>1, <2>2, <2>4, <3>1, <3>2, <3>3, ExtendsTransitive
    <3>5. \A i \in 1..Len(wire') : wire'[i].stops = 1
      BY <1>0, <2>2, <2>4 DEF Inv, Mirror, Counts
    <3>6. Client!Stop
      BY <2>1, <2>2, <2>4, <3>4, <3>5, SameExtends
         DEF Client!Stop, Client!Write, Client!Sealed
    <3>7. Delivered'
      BY <2>1, <2>2, <2>4 DEF Delivered, Live
    <3>. QED
      BY <3>6, <3>7 DEF Client!Next
  <2>. QED
    BY <2>3, <2>4
<1>10. CASE CloseUpstream
  BY <1>10 DEF CloseUpstream, Client!vars, Delivered, Live, state
<1>. QED
  BY <1>2, <1>3, <1>4, <1>5, <1>6, <1>7, <1>8, <1>9, <1>10 DEF Proceed

\* A client sees an Anthropic stream: blocks only grow until they are stopped,
\* nothing follows message_stop, an error or a hang-up, and message_stop needs
\* every block stopped, whatever responses_stream_to_anthropic is sent, as long
\* as no argument event follows the end of its call.
THEOREM ContractKept ==
    ASSUME LateArguments = FALSE
    PROVE  Spec => ClientContract
<1>1. Init => Client!Init /\ Delivered
  BY DEF Init, Client!Init, Delivered, Live, Extends
<1>2. Inv /\ Delivered /\ [Next]_vars => [Client!Next]_(Client!vars) /\ Delivered'
  <2>. SUFFICES ASSUME Inv, Delivered, [Next]_vars
                PROVE  [Client!Next]_(Client!vars) /\ Delivered'
    OBVIOUS
  <2>1. CASE HangUp
    BY <2>1 DEF HangUp, Client!Next, Client!HangUp, Delivered, Live
  <2>2. CASE UNCHANGED vars
    BY <2>2 DEF vars, state, Client!vars, Delivered, Live
  <2>. QED
    BY <2>1, <2>2, HandleStep, ProceedStep DEF Next
<1>. QED
  BY <1>1, <1>2, SpecInv, PTL DEF Spec, ClientContract, Client!Spec

-----------------------------------------------------------------------------
(* A block that was stopped stays what it is.                              *)

\* An entry of the terminal output was reconciled: its block was stopped and
\* the translator remembers exactly the entry's content for it.
Settled(entry) ==
    /\ IsText(entry) =>
          /\ textIndex[<<entry.slot, entry.part>>] # Absent
          /\ textIndex[<<entry.slot, entry.part>>] \notin openBlocks
          /\ textParts[<<entry.slot, entry.part>>] = entry.body
    /\ entry.kind = "call" =>
          /\ toolIndex[entry.slot] # Absent
          /\ toolIndex[entry.slot] \notin openBlocks
          /\ ParsesToObject(argumentParts[entry.slot])
          /\ entry.body \in {Null, argumentParts[entry.slot]}

\* A step that does nothing to parts whose block was stopped.
KeepsClosed ==
    /\ \A k \in Keys :
          textIndex[k] # Absent /\ textIndex[k] \notin openBlocks =>
             /\ textIndex'[k] = textIndex[k] /\ textParts'[k] = textParts[k]
             /\ textIndex[k] \notin openBlocks'
    /\ \A o \in Slot :
          toolIndex[o] # Absent /\ toolIndex[o] \notin openBlocks =>
             /\ toolIndex'[o] = toolIndex[o] /\ argumentParts'[o] = argumentParts[o]
             /\ toolIndex[o] \notin openBlocks'

LEMMA SettledStays ==
    ASSUME NEW entry \in Entry, Settled(entry), KeepsClosed
    PROVE  Settled(entry)'
<1>1. entry.slot \in Slot /\ <<entry.slot, entry.part>> \in Keys
  BY DEF Entry, Keys
<1>. QED
  BY <1>1 DEF Settled, KeepsClosed

\* A call that was counted was started.
CallsStarted == hasToolCall => \E o \in Slot : toolIndex[o] # Absent

LEMMA JoinSuffix ==
    ASSUME NEW complete \in String, NEW emitted \in String, StartsWith(complete, emitted)
    PROVE  emitted \o Suffix(complete, emitted) = complete
<1>1. /\ complete \in Seq(Fragment) /\ emitted \in Seq(Fragment)
      /\ Len(complete) \in Nat /\ Len(emitted) \in Nat /\ Len(emitted) <= Len(complete)
  BY DEF String, StartsWith
<1>2. PICK rest : rest = Suffix(complete, emitted)
  OBVIOUS
<1>3. /\ rest \in Seq(Fragment) /\ Len(rest) = Len(complete) - Len(emitted)
      /\ \A i \in 1..Len(rest) : rest[i] = complete[Len(emitted) + i]
  BY <1>1, <1>2 DEF Suffix
<1>4. \A i \in 1..Len(emitted) : emitted[i] = complete[i]
  BY <1>1 DEF StartsWith
<1>5. PICK joined : joined = emitted \o rest
  OBVIOUS
<1>6. /\ joined \in Seq(Fragment) /\ Len(joined) = Len(complete)
      /\ \A i \in 1..Len(emitted) : joined[i] = emitted[i]
      /\ \A i \in (Len(emitted) + 1)..Len(complete) : joined[i] = rest[i - Len(emitted)]
  BY <1>1, <1>3, <1>5
<1>7. \A i \in 1..Len(complete) : joined[i] = complete[i]
  <2>. SUFFICES ASSUME NEW i \in 1..Len(complete) PROVE joined[i] = complete[i]
    OBVIOUS
  <2>1. CASE i <= Len(emitted)
    BY <1>1, <1>4, <1>6, <2>1
  <2>2. CASE ~(i <= Len(emitted))
    <3>1. /\ i \in (Len(emitted) + 1)..Len(complete)
          /\ i - Len(emitted) \in 1..Len(rest)
          /\ Len(emitted) + (i - Len(emitted)) = i
      BY <1>1, <1>3, <2>2
    <3>. QED
      BY <1>3, <1>6, <3>1
  <2>. QED
    BY <2>1, <2>2
<1>8. joined = complete
  BY <1>1, <1>6, <1>7
<1>. QED
  BY <1>2, <1>5, <1>8

-----------------------------------------------------------------------------
(* What reconciling an entry leaves behind.                                *)

LEMMA FinishTextSettles ==
    ASSUME TypeOK, Mirror, NEW k \in Keys, NEW kind, NEW complete \in String,
           TextAgrees(k, complete), FinishText(k, kind, complete)
    PROVE  /\ KeepsClosed /\ toolIndex' = toolIndex
           /\ textIndex'[k] # Absent /\ textIndex'[k] \notin openBlocks'
           /\ textParts'[k] = complete
<1>1. /\ StartText(k)
      /\ textParts' = [textParts EXCEPT ![k] = @ \o Suffix(complete, textParts[k])]
      /\ openBlocks' = OpenWithText(k) \ {TextBlock(k)}
      /\ argumentParts' = argumentParts
  BY DEF FinishText
<1>2. textParts[k] \in String /\ textParts \in [Keys -> String]
  BY DEF TypeOK
<1>3. textParts[k] \o Suffix(complete, textParts[k]) = complete
  BY <1>2, JoinSuffix DEF TextAgrees
<1>4. textParts' = [textParts EXCEPT ![k] = complete]
  BY <1>1, <1>2, <1>3
<1>5. /\ textIndex' = [textIndex EXCEPT ![k] = TextBlock(k)] /\ toolIndex' = toolIndex
      /\ textIndex \in [Keys -> Nat \cup {Absent}] /\ nextIndex \in Nat
      /\ TextBlock(k) # Absent
  BY <1>1, AfterStartText DEF StartText, TypeOK
<1>6. openBlocks' \subseteq openBlocks /\ TextBlock(k) \notin openBlocks'
  BY <1>1 DEF OpenWithText, TextBlock
<1>7. ASSUME textIndex[k] # Absent, textIndex[k] \notin openBlocks
      PROVE  TextBlock(k) = textIndex[k] /\ complete = textParts[k]
  BY <1>7 DEF TextAgrees, OpenWithText, TextBlock
<1>8. KeepsClosed
  BY <1>1, <1>2, <1>4, <1>5, <1>6, <1>7 DEF KeepsClosed
<1>. QED
  BY <1>2, <1>4, <1>5, <1>6, <1>8

LEMMA FinishCallSettles ==
    ASSUME TypeOK, NEW o \in Slot, NEW complete \in String, NEW open, NEW produced,
           open \subseteq openBlocks \cup {ToolBlock(o)},
           toolIndex[o] # Absent => open = openBlocks,
           UNCHANGED textIndex, toolIndex' = [toolIndex EXCEPT ![o] = ToolBlock(o)],
           ToolBlock(o) # Absent,
           CallAgrees(o, complete, open), FinishCall(o, complete, open, produced)
    PROVE  /\ KeepsClosed
           /\ toolIndex'[o] # Absent /\ toolIndex'[o] \notin openBlocks'
           /\ argumentParts'[o] = complete
<1>1. /\ argumentParts' = [argumentParts EXCEPT ![o] = @ \o Suffix(complete, argumentParts[o])]
      /\ openBlocks' = open \ {ToolBlock(o)}
      /\ textParts' = textParts
  BY DEF FinishCall
<1>2. argumentParts[o] \in String /\ argumentParts \in [Slot -> String]
      /\ toolIndex \in [Slot -> Nat \cup {Absent}]
  BY DEF TypeOK
<1>3. argumentParts[o] \o Suffix(complete, argumentParts[o]) = complete
  BY <1>2, JoinSuffix DEF CallAgrees, ArgumentsAgree
<1>4. argumentParts' = [argumentParts EXCEPT ![o] = complete]
  BY <1>1, <1>2, <1>3
<1>5. openBlocks' \subseteq openBlocks /\ ToolBlock(o) \notin openBlocks'
  BY <1>1
<1>6. ASSUME toolIndex[o] # Absent, toolIndex[o] \notin openBlocks
      PROVE  ToolBlock(o) = toolIndex[o] /\ complete = argumentParts[o]
  BY <1>6 DEF CallAgrees, ToolBlock
<1>7. KeepsClosed
  BY <1>1, <1>2, <1>4, <1>5, <1>6 DEF KeepsClosed
<1>. QED
  BY <1>2, <1>4, <1>5, <1>7

LEMMA StartToolKeeps ==
    ASSUME TypeOK, NEW o \in Slot, StartTool(o)
    PROVE  /\ toolIndex' = [toolIndex EXCEPT ![o] = ToolBlock(o)] /\ textIndex' = textIndex
           /\ ToolBlock(o) # Absent
           /\ toolIndex'[o] # Absent
           /\ OpenWithTool(o) \subseteq openBlocks \cup {ToolBlock(o)}
           /\ toolIndex[o] # Absent => OpenWithTool(o) = openBlocks
<1>1. toolIndex \in [Slot -> Nat \cup {Absent}] /\ nextIndex \in Nat
  BY DEF TypeOK
<1>2. ToolBlock(o) # Absent
  BY <1>1 DEF ToolBlock, Absent
<1>3. toolIndex' = [toolIndex EXCEPT ![o] = ToolBlock(o)] /\ textIndex' = textIndex
  BY DEF StartTool
<1>. QED
  BY <1>1, <1>2, <1>3 DEF OpenWithTool, ToolBlock

\* A step of the terminal reconciliation settles the first entry of its work.
LEMMA TextSettles ==
    ASSUME TypeOK, Mirror, ReconcileText, phase' # "failed"
    PROVE  work # <<>> /\ Continue /\ KeepsClosed /\ (CallsStarted => CallsStarted')
           /\ \E entry \in Entry : entry = Head(work) /\ Settled(entry)'
<1>1. work # <<>> /\ Head(work) \in Entry
  BY DEF TypeOK, Output, ReconcileText, Reconcile
<1>2. PICK entry \in Entry : entry = Head(work)
  BY <1>1
<1>. DEFINE k == <<entry.slot, entry.part>>
<1>3. k \in Keys /\ entry.kind \in {"text", "refusal"}
  BY <1>2 DEF ReconcileText, Reconcile, Entry, Keys
<1>4. /\ TextAgrees(k, entry.body) /\ FinishText(k, entry.kind, entry.body) /\ Continue
      /\ hasToolCall' = hasToolCall
  BY <1>2 DEF ReconcileText, Fail
<1>5. entry.body \in String
  BY <1>4 DEF TextAgrees, Entry, Body, String
<1>. HIDE DEF k
<1>6. /\ KeepsClosed /\ toolIndex' = toolIndex
      /\ textIndex'[k] # Absent /\ textIndex'[k] \notin openBlocks'
      /\ textParts'[k] = entry.body
  BY <1>3, <1>4, <1>5, FinishTextSettles
<1>7. Settled(entry)'
  BY <1>3, <1>6 DEF Settled, IsText, k
<1>8. CallsStarted => CallsStarted'
  BY <1>4, <1>6 DEF CallsStarted
<1>. QED
  BY <1>1, <1>2, <1>4, <1>6, <1>7, <1>8

LEMMA CallSettles ==
    ASSUME TypeOK, Mirror, ReconcileTerminalCall, phase' # "failed"
    PROVE  work # <<>> /\ Continue /\ KeepsClosed /\ CallsStarted'
           /\ \E entry \in Entry : entry = Head(work) /\ Settled(entry)'
<1>1. work # <<>> /\ Head(work) \in Entry
  BY DEF TypeOK, Output, ReconcileTerminalCall, Reconcile
<1>2. PICK entry \in Entry : entry = Head(work)
  BY <1>1
<1>. DEFINE o        == entry.slot
            complete == CompleteArguments(o, entry.body)
<1>3. o \in Slot /\ entry.kind = "call" /\ entry.body \in String \cup {Null}
  BY <1>2 DEF ReconcileTerminalCall, Reconcile, Entry, Body, String
<1>4. /\ CallAgrees(o, complete, OpenWithTool(o)) /\ StartTool(o) /\ Continue
      /\ FinishCall(o, complete, OpenWithTool(o), BlocksWithTool(o, entry.name))
  BY <1>2 DEF ReconcileTerminalCall, Fail
<1>5. complete \in String /\ entry.body \in {Null, complete}
  BY <1>3 DEF CompleteArguments, TypeOK
<1>. HIDE DEF o, complete
<1>6. /\ toolIndex' = [toolIndex EXCEPT ![o] = ToolBlock(o)] /\ textIndex' = textIndex
      /\ ToolBlock(o) # Absent
      /\ OpenWithTool(o) \subseteq openBlocks \cup {ToolBlock(o)}
      /\ toolIndex[o] # Absent => OpenWithTool(o) = openBlocks
  BY <1>3, <1>4, StartToolKeeps
<1>7. /\ KeepsClosed
      /\ toolIndex'[o] # Absent /\ toolIndex'[o] \notin openBlocks'
      /\ argumentParts'[o] = complete
  BY <1>3, <1>4, <1>5, <1>6, FinishCallSettles
<1>8. Settled(entry)'
  <2>1. ParsesToObject(complete) /\ ~IsText(entry)
    BY <1>3, <1>4 DEF CallAgrees, ArgumentsAgree, IsText
  <2>. QED
    BY <1>3, <1>5, <1>7, <2>1 DEF Settled, o
<1>9. CallsStarted'
  BY <1>3, <1>7 DEF CallsStarted
<1>. QED
  BY <1>1, <1>2, <1>4, <1>7, <1>8, <1>9

LEMMA SkipSettles ==
    ASSUME TypeOK, SkipTerminalItem
    PROVE  work # <<>> /\ Continue /\ KeepsClosed /\ (CallsStarted => CallsStarted')
           /\ \E entry \in Entry : entry = Head(work) /\ Settled(entry)'
<1>1. work # <<>> /\ Head(work) \in Entry
  BY DEF TypeOK, Output, SkipTerminalItem, Reconcile
<1>2. PICK entry \in Entry : entry = Head(work)
  BY <1>1
<1>3. /\ Continue /\ entry.kind \in {"reasoning", "other"}
      /\ UNCHANGED <<textIndex, toolIndex, openBlocks, textParts, argumentParts, hasToolCall>>
  BY <1>2 DEF SkipTerminalItem, Reconcile, state, indexVars, contentVars, flagVars
<1>4. Settled(entry)'
  BY <1>3 DEF Settled, IsText
<1>. QED
  BY <1>1, <1>2, <1>3, <1>4 DEF KeepsClosed, CallsStarted

-----------------------------------------------------------------------------
(* The strengthening: a terminal handler has settled the output up to the  *)
(* work that is left, and a stopped one has no work left.                  *)

Progressed ==
    (phase \in {"reconciling", "stopped"} /\ terminal # Null /\ terminal.output # Null) =>
        \E n \in 0..Len(terminal.output) :
            /\ work = SubSeq(terminal.output, n + 1, Len(terminal.output))
            /\ \A i \in 1..n : Settled(terminal.output[i])

Reconciled ==
    /\ phase = "reading" => terminal = Null
    /\ Progressed
    /\ CallsStarted
    /\ phase = "stopped" =>
          /\ work = <<>> /\ terminal # Null
          /\ terminal.type = "completed" => HasVisibleOutput

\* One entry less to reconcile.
LEMMA ProgressStep ==
    ASSUME TypeOK, Progressed, phase = "reconciling", terminal # Null, Continue, KeepsClosed,
           work # <<>>,
           NEW entry \in Entry, entry = Head(work), Settled(entry)'
    PROVE  Progressed'
<1>1. PICK t : t = terminal
  OBVIOUS
<1>2. /\ terminal' = t /\ work' = Tail(work) /\ phase' = "reconciling"
      /\ t \in TerminalEvent
  BY <1>1 DEF Continue, TypeOK
<1>. SUFFICES ASSUME t.output # Null
              PROVE  \E n \in 0..Len(t.output) :
                        /\ work' = SubSeq(t.output, n + 1, Len(t.output))
                        /\ \A i \in 1..n : Settled(t.output[i])'
  BY <1>2 DEF Progressed
<1>3. PICK out \in Seq(Entry) : out = t.output
  BY <1>2 DEF TerminalEvent, Output
<1>4. PICK n \in 0..Len(out) : /\ work = SubSeq(out, n + 1, Len(out))
                               /\ \A i \in 1..n : Settled(out[i])
  BY <1>1, <1>3 DEF Progressed
<1>5. /\ n \in Nat /\ Len(out) \in Nat /\ n < Len(out)
      /\ entry = out[n + 1]
      /\ Tail(work) = SubSeq(out, n + 2, Len(out))
  BY <1>4
<1>6. \A i \in 1..n : Settled(out[i])'
  <2>. TAKE i \in 1..n
  <2>1. out[i] \in Entry /\ Settled(out[i])
    BY <1>4, <1>5
  <2>. QED
    BY <2>1, SettledStays
<1>7. \A i \in 1..(n + 1) : Settled(out[i])'
  <2>. TAKE i \in 1..(n + 1)
  <2>1. i \in 1..n \/ i = n + 1
    BY <1>5
  <2>. QED
    BY <1>5, <1>6, <2>1
<1>8. n + 1 \in 0..Len(out) /\ (n + 1) + 1 = n + 2
  BY <1>5
<1>. QED
  BY <1>2, <1>3, <1>5, <1>7, <1>8

LEMMA InitReconciled == Init => Reconciled
BY DEF Init, Reconciled, Progressed, CallsStarted

\* A step that changes none of the tables, and keeps what is being reconciled.
LEMMA QuietReconciled ==
    ASSUME Reconciled, UNCHANGED <<state, work, terminal>>, phase' = phase
    PROVE  Reconciled'
<1>1. /\ UNCHANGED <<textIndex, toolIndex, openBlocks, textParts, argumentParts, hasToolCall,
                     work, terminal>>
      /\ CallsStarted' /\ (HasVisibleOutput => HasVisibleOutput')
  BY DEF Reconciled, CallsStarted, HasVisibleOutput, state, indexVars, contentVars, flagVars
<1>2. Progressed'
  BY <1>1 DEF Reconciled, Progressed, Settled
<1>. QED
  BY <1>1, <1>2 DEF Reconciled

\* The steps that end in "failed" or in "hungup".
LEMMA LostReconciled ==
    ASSUME Reconciled, UNCHANGED state, phase' \in {"failed", "hungup"}
    PROVE  Reconciled'
BY DEF Reconciled, Progressed, CallsStarted, state, indexVars, flagVars

\* A handler that yields and reads on.
LEMMA ReadingReconciled ==
    ASSUME CallsStarted', phase' = "reading", terminal' = Null
    PROVE  Reconciled'
BY DEF Reconciled, Progressed

LEMMA HandleReconciled ==
    ASSUME Inv, Reconciled, Handle
    PROVE  Reconciled'
<1>0. TypeOK /\ Mirror
  BY DEF Inv
<1>1. phase = "reading" /\ terminal = Null /\ CallsStarted
  <2>1. phase = "reading"
    BY DEF Handle, Created, ItemAdded, TextDelta, TextDone, ArgumentsDelta, ArgumentsDone,
           ItemDone, Terminate, StreamFails, Receive
  <2>. QED
    BY <2>1 DEF Reconciled
<1>y. ASSUME Yield, CallsStarted' PROVE Reconciled'
  BY <1>1, <1>y, ReadingReconciled DEF Yield, handlerVars
<1>f. ASSUME NEW delivered, Fail(delivered) PROVE Reconciled'
  BY <1>f, LostReconciled DEF Fail
<1>t. ASSUME NEW o \in Slot, StartTool(o) PROVE CallsStarted'
  BY <1>0, <1>t, StartToolKeeps DEF CallsStarted
<1>x. ASSUME NEW k \in Keys, StartText(k), hasToolCall' = hasToolCall PROVE CallsStarted'
  BY <1>1, <1>x DEF CallsStarted, StartText
<1>2. CASE Created
  BY <1>2, QuietReconciled, <1>1 DEF Created, handlerVars
<1>3. ASSUME NEW o \in Slot, NEW name \in Name \cup {NoName}, ItemAdded(o, name)
      PROVE  Reconciled'
  BY <1>3, <1>t, <1>y DEF ItemAdded
<1>4. ASSUME NEW k \in Keys, NEW kind \in {"text", "refusal"}, NEW delta \in Deltas,
             TextDelta(k, kind, delta)
      PROVE  Reconciled'
  BY <1>4, <1>x, <1>y, <1>f DEF TextDelta
<1>5. ASSUME NEW k \in Keys, NEW kind \in {"text", "refusal", "part"}, NEW body \in Bodies,
             TextDone(k, kind, body)
      PROVE  Reconciled'
  <2>1. \/ StartText(k) /\ hasToolCall' = hasToolCall /\ Yield
        \/ Fail(BlocksWithText(k))
    BY <1>5 DEF TextDone, FinishText
  <2>. QED
    BY <1>x, <1>y, <1>f, <2>1
<1>6. ASSUME NEW o \in Slot, NEW delta \in Deltas, ArgumentsDelta(o, delta)
      PROVE  Reconciled'
  BY <1>6, <1>t, <1>y DEF ArgumentsDelta
<1>7. ASSUME NEW o \in Slot, NEW arguments \in Bodies, ArgumentsDone(o, arguments)
      PROVE  Reconciled'
  <2>1. \/ StartTool(o) /\ Yield
        \/ Fail(BlocksWithTool(o, toolItems[o]))
    BY <1>7 DEF ArgumentsDone
  <2>. QED
    BY <1>t, <1>y, <1>f, <2>1
<1>8. ASSUME NEW item \in Items, ItemDone(item)
      PROVE  Reconciled'
  BY <1>1, <1>8 DEF ItemDone, Reconciled, Progressed, CallsStarted, state, indexVars, flagVars
<1>9. ASSUME NEW event \in Terminals, Terminate(event)
      PROVE  Reconciled'
  <2>1. /\ phase' = "reconciling" /\ terminal' = event /\ CallsStarted'
        /\ work' = IF event.output = Null THEN <<>> ELSE event.output
    BY <1>1, <1>9 DEF Terminate, CallsStarted, state, indexVars, flagVars
  <2>2. ASSUME event.output # Null
        PROVE  \E n \in 0..Len(event.output) :
                  /\ work' = SubSeq(event.output, n + 1, Len(event.output))
                  /\ \A i \in 1..n : Settled(event.output[i])'
    <3>1. PICK out \in Seq(Entry) : out = event.output
      BY <2>2, EventTypes DEF Output
    <3>2. work' = out /\ out = SubSeq(out, 0 + 1, Len(out)) /\ Len(out) \in Nat
      BY <2>1, <2>2, <3>1
    <3>3. 0 \in 0..Len(out) /\ \A i \in 1..0 : FALSE
      BY <3>2
    <3>. QED
      BY <3>1, <3>2, <3>3
  <2>3. Progressed'
    BY <2>1, <2>2 DEF Progressed
  <2>. QED
    BY <2>1, <2>3 DEF Reconciled
<1>10. CASE StreamFails
  BY <1>10, <1>f DEF StreamFails
<1>. QED
  BY <1>2, <1>3, <1>4, <1>5, <1>6, <1>7, <1>8, <1>9, <1>10 DEF Handle

LEMMA ProceedReconciled ==
    ASSUME Inv, Reconciled, Proceed
    PROVE  Reconciled'
<1>0. TypeOK /\ Mirror /\ CallsStarted /\ Progressed
  BY DEF Inv, Reconciled
<1>f. ASSUME NEW delivered, Fail(delivered) PROVE Reconciled'
  BY <1>f, LostReconciled DEF Fail
<1>s. ASSUME phase = "reconciling", terminal # Null, Continue, KeepsClosed, CallsStarted',
             work # <<>>, \E entry \in Entry : entry = Head(work) /\ Settled(entry)'
      PROVE  Reconciled'
  <2>1. Progressed'
    BY <1>0, <1>s, ProgressStep
  <2>. QED
    BY <1>s, <2>1 DEF Reconciled, Continue
<1>i. ASSUME terminal = Null, Continue, CallsStarted' PROVE Reconciled'
  BY <1>i DEF Reconciled, Progressed, Continue
<1>1. CASE phase' = "failed"
  <2>1. ~Continue /\ ~Yield
    BY <1>1 DEF Continue, Yield
  <2>2. CASE ReconcileText
    BY <1>f, <2>1, <2>2 DEF ReconcileText
  <2>3. CASE ReconcileCall
    <3>1. Fail(wire)
      BY <2>1, <2>3 DEF ReconcileCall
    <3>. QED
      BY <1>f, <3>1
  <2>4. CASE ReconcileTerminalCall
    BY <1>f, <2>1, <2>4 DEF ReconcileTerminalCall
  <2>5. CASE RejectItem
    BY <1>f, <2>5 DEF RejectItem
  <2>6. CASE Finish
    BY <1>1, <1>f, <2>6 DEF Finish
  <2>7. CASE CloseUpstream
    BY <2>7, QuietReconciled DEF CloseUpstream, handlerVars
  <2>. QED
    BY <2>1, <2>2, <2>3, <2>4, <2>5, <2>6, <2>7
       DEF Proceed, ReconcileReasoning, SkipTerminalItem, YieldItem
<1>2. CASE phase' # "failed"
  <2>1. CASE ReconcileText
    <3>1. /\ phase = "reconciling" /\ work # <<>> /\ Continue /\ KeepsClosed /\ CallsStarted'
          /\ \E entry \in Entry : entry = Head(work) /\ Settled(entry)'
      BY <1>0, <1>2, <2>1, TextSettles DEF ReconcileText, Reconcile
    <3>. QED
      BY <1>i, <1>s, <3>1
  <2>2. CASE ReconcileCall
    <3>1. terminal = Null /\ Continue /\ hasToolCall' = hasToolCall /\ toolIndex' = toolIndex
      BY <1>2, <2>2 DEF ReconcileCall, Fail, state, indexVars, flagVars
    <3>. QED
      BY <1>0, <1>i, <3>1 DEF CallsStarted
  <2>3. CASE ReconcileTerminalCall
    <3>1. /\ phase = "reconciling" /\ terminal # Null
          /\ work # <<>> /\ Continue /\ KeepsClosed /\ CallsStarted'
          /\ \E entry \in Entry : entry = Head(work) /\ Settled(entry)'
      BY <1>0, <1>2, <2>3, CallSettles DEF ReconcileTerminalCall, Reconcile
    <3>. QED
      BY <1>s, <3>1
  <2>4. CASE ReconcileReasoning
    <3>1. terminal = Null /\ Continue /\ hasToolCall' = hasToolCall /\ toolIndex' = toolIndex
      BY <2>4 DEF ReconcileReasoning, flagVars
    <3>. QED
      BY <1>0, <1>i, <3>1 DEF CallsStarted
  <2>5. CASE SkipTerminalItem
    <3>1. /\ phase = "reconciling" /\ terminal # Null
          /\ work # <<>> /\ Continue /\ KeepsClosed /\ CallsStarted'
          /\ \E entry \in Entry : entry = Head(work) /\ Settled(entry)'
      BY <1>0, <2>5, SkipSettles DEF SkipTerminalItem, Reconcile
    <3>. QED
      BY <1>s, <3>1
  <2>6. CASE RejectItem
    BY <1>f, <2>6 DEF RejectItem
  <2>7. CASE YieldItem
    <3>1. terminal = Null /\ terminal' = terminal /\ phase' = "reading" /\ CallsStarted'
      BY <1>0, <2>7 DEF YieldItem, Yield, handlerVars, CallsStarted, state, indexVars, flagVars
    <3>. QED
      BY <3>1, ReadingReconciled
  <2>8. CASE Finish
    <3>1. /\ phase = "reconciling" /\ work = <<>> /\ terminal # Null
          /\ phase' = "stopped" /\ openBlocks' = {}
          /\ UNCHANGED <<textIndex, toolIndex, textParts, argumentParts, hasToolCall,
                         work, terminal>>
          /\ terminal.type = "completed" => HasVisibleOutput
      BY <1>2, <2>8 DEF Finish, Fail, contentVars, flagVars
    <3>2. \A entry : Settled(entry) => Settled(entry)'
      BY <3>1 DEF Settled
    <3>3. Progressed'
      BY <1>0, <3>1, <3>2 DEF Progressed
    <3>4. CallsStarted' /\ (HasVisibleOutput => HasVisibleOutput')
      BY <1>0, <3>1 DEF CallsStarted, HasVisibleOutput
    <3>. QED
      BY <3>1, <3>3, <3>4 DEF Reconciled
  <2>9. CASE CloseUpstream
    BY <2>9, QuietReconciled DEF CloseUpstream, handlerVars
  <2>. QED
    BY <2>1, <2>2, <2>3, <2>4, <2>5, <2>6, <2>7, <2>8, <2>9 DEF Proceed
<1>. QED
  BY <1>1, <1>2

LEMMA SpecReconciled == Spec => [](Inv /\ Reconciled)
<1>1. Inv /\ Reconciled /\ [Next]_vars => Reconciled'
  <2>. SUFFICES ASSUME Inv, Reconciled, [Next]_vars PROVE Reconciled'
    OBVIOUS
  <2>1. CASE HangUp
    BY <2>1, LostReconciled DEF HangUp
  <2>2. CASE UNCHANGED vars
    BY <2>2, QuietReconciled DEF vars, handlerVars
  <2>. QED
    BY <2>1, <2>2, HandleReconciled, ProceedReconciled DEF Next
<1>. QED
  BY <1>1, InitInv, NextInv, InitReconciled, PTL DEF Spec

-----------------------------------------------------------------------------
(* What the client has been shown.                                         *)

LEMMA AllSettled ==
    ASSUME Inv, Reconciled, Stopped
    PROVE  /\ wire = blocks /\ terminal.output \in Seq(Entry)
           /\ \A i \in DOMAIN terminal.output : Settled(terminal.output[i])
<1>1. wire = blocks
  BY DEF Inv, WireMirrored, Stopped
<1>2. PICK out \in Seq(Entry) : out = terminal.output
  BY DEF Inv, TypeOK, Stopped, TerminalEvent, Output, Reconciled
<1>3. PICK n \in 0..Len(out) : /\ <<>> = SubSeq(out, n + 1, Len(out))
                               /\ \A i \in 1..n : Settled(out[i])
  BY <1>2 DEF Reconciled, Progressed, Stopped
<1>4. n = Len(out)
  <2>1. Len(out) \in Nat /\ n \in Nat /\ n <= Len(out)
    BY <1>2, <1>3
  <2>2. ASSUME n < Len(out) PROVE FALSE
    <3>1. PICK rest : rest = SubSeq(out, n + 1, Len(out))
      OBVIOUS
    <3>2. Len(rest) = Len(out) - n
      BY <1>2, <2>1, <2>2, <3>1
    <3>3. rest = <<>>
      BY <1>3, <3>1
    <3>4. Len(rest) = 0
      BY <3>3
    <3>. QED
      BY <2>1, <2>2, <3>2, <3>4
  <2>. QED
    BY <2>1, <2>2
<1>5. DOMAIN out = 1..Len(out)
  BY <1>2
<1>. QED
  BY <1>1, <1>2, <1>3, <1>4, <1>5

\* The text the client shows at message_stop is the text of the terminal output,
\* however its pieces arrived (reconcile_terminal_output, _responses_text_done_events).
THEOREM FinalText == Spec => []FinalTextDelivered
<1>1. Inv /\ Reconciled => FinalTextDelivered
  <2>. SUFFICES ASSUME Inv, Reconciled, Stopped,
                       NEW i \in DOMAIN terminal.output, IsText(terminal.output[i])
                PROVE  \E p \in DOMAIN wire :
                          /\ p = textIndex[<<terminal.output[i].slot,
                                             terminal.output[i].part>>] + 1
                          /\ wire[p].kind = "text"
                          /\ wire[p].content = terminal.output[i].body
    BY DEF FinalTextDelivered
  <2>1. wire = blocks /\ terminal.output[i] \in Entry /\ Settled(terminal.output[i])
    BY AllSettled
  <2>2. PICK k \in Keys : k = <<terminal.output[i].slot, terminal.output[i].part>>
    BY <2>1 DEF Entry, Keys
  <2>3. textIndex[k] # Absent /\ textParts[k] = terminal.output[i].body
    BY <2>1, <2>2 DEF Settled
  <2>4. /\ textIndex[k] + 1 \in DOMAIN blocks
        /\ blocks[textIndex[k] + 1].kind = "text"
        /\ blocks[textIndex[k] + 1].content = textParts[k]
    BY <2>3 DEF Inv, Mirror, TextView, View
  <2>. QED
    BY <2>1, <2>2, <2>3, <2>4
<1>. QED
  BY <1>1, SpecReconciled, PTL

\* So are the arguments of its function calls, which are an object or empty
\* (_responses_function_argument_suffix).
THEOREM FinalArguments == Spec => []FinalArgumentsDelivered
<1>1. Inv /\ Reconciled => FinalArgumentsDelivered
  <2>. SUFFICES ASSUME Inv, Reconciled, Stopped,
                       NEW i \in DOMAIN terminal.output, terminal.output[i].kind = "call"
                PROVE  \E p \in DOMAIN wire :
                          /\ p = toolIndex[terminal.output[i].slot] + 1
                          /\ wire[p].kind = "tool_use" /\ ParsesToObject(wire[p].content)
                          /\ terminal.output[i].body \in {Null, wire[p].content}
    BY DEF FinalArgumentsDelivered
  <2>1. wire = blocks /\ terminal.output[i] \in Entry /\ Settled(terminal.output[i])
    BY AllSettled
  <2>2. PICK o \in Slot : o = terminal.output[i].slot
    BY <2>1 DEF Entry
  <2>3. /\ toolIndex[o] # Absent /\ ParsesToObject(argumentParts[o])
        /\ terminal.output[i].body \in {Null, argumentParts[o]}
    BY <2>1, <2>2 DEF Settled
  <2>4. /\ toolIndex[o] + 1 \in DOMAIN blocks
        /\ blocks[toolIndex[o] + 1].kind = "tool_use"
        /\ blocks[toolIndex[o] + 1].content = argumentParts[o]
    BY <2>3 DEF Inv, Mirror, ToolView, View
  <2>. QED
    BY <2>1, <2>2, <2>3, <2>4
<1>. QED
  BY <1>1, SpecReconciled, PTL

\* A completed response that ends in message_stop showed text or a call: the
\* tables has_visible_output looks at agree with the message.
THEOREM OutputShown == Spec => []CompletedShowsOutput
<1>1. Inv /\ Reconciled => CompletedShowsOutput
  <2>. SUFFICES ASSUME Inv, Reconciled, phase = "stopped", terminal.type = "completed"
                PROVE  \E p \in DOMAIN wire :
                          \/ wire[p].kind = "tool_use"
                          \/ wire[p].kind = "text" /\ wire[p].content # <<>>
    BY DEF CompletedShowsOutput
  <2>1. wire = blocks /\ HasVisibleOutput /\ CallsStarted
    BY DEF Inv, WireMirrored, Reconciled
  <2>2. CASE hasToolCall
    <3>1. PICK o \in Slot : toolIndex[o] # Absent
      BY <2>1, <2>2 DEF CallsStarted
    <3>2. /\ toolIndex[o] + 1 \in DOMAIN blocks
          /\ blocks[toolIndex[o] + 1].kind = "tool_use"
      BY <3>1 DEF Inv, Mirror, ToolView, View
    <3>. QED
      BY <2>1, <3>2
  <2>3. CASE ~hasToolCall
    <3>1. PICK k \in Keys : textParts[k] # <<>>
      BY <2>1, <2>3 DEF HasVisibleOutput, Keys
    <3>2. /\ textIndex[k] + 1 \in DOMAIN blocks
          /\ blocks[textIndex[k] + 1].kind = "text"
          /\ blocks[textIndex[k] + 1].content = textParts[k]
      BY <3>1 DEF Inv, Mirror, TextView, View
    <3>. QED
      BY <2>1, <3>1, <3>2
  <2>. QED
    BY <2>2, <2>3
<1>. QED
  BY <1>1, SpecReconciled, PTL
=================================================================================
