---------------------------- MODULE ChatStream_proof ----------------------------
(***************************************************************************)
(* Theorems about the Chat translator, for any set of tool indexes, any    *)
(* alphabet of strings and every gateway.                                  *)
(***************************************************************************)
EXTENDS ChatStream, TLAPS

-----------------------------------------------------------------------------
(* Strings.                                                                *)

LEMMA ConcatType ==
    ASSUME NEW s \in Piece, NEW t \in Piece
    PROVE  s \o t \in Piece
BY DEF Piece

LEMMA PrefixOfConcat ==
    ASSUME NEW s \in Piece, NEW d \in Piece
    PROVE  Len(s) <= Len(s \o d) /\ s = SubSeq(s \o d, 1, Len(s))
<1>1. /\ Len(s) \in Nat /\ Len(d) \in Nat /\ s \in Seq(Fragment) /\ d \in Seq(Fragment)
      /\ s \o d \in Seq(Fragment) /\ Len(s \o d) = Len(s) + Len(d)
      /\ \A i \in 1..Len(s) : (s \o d)[i] = s[i]
  BY DEF Piece
<1>2. PICK t \in Seq(Fragment) : t = s \o d
  BY <1>1
<1>3. /\ SubSeq(t, 1, Len(s)) \in Seq(Fragment) /\ Len(SubSeq(t, 1, Len(s))) = Len(s)
      /\ \A i \in 1..Len(s) : SubSeq(t, 1, Len(s))[i] = t[i]
  BY <1>1, <1>2
<1>. QED
  BY <1>1, <1>2, <1>3

\* What is left of a string after a prefix of it that was sent.
LEMMA RestOfString ==
    ASSUME NEW s \in Piece, NEW t \in Piece
    PROVE  /\ SubSeq(s, 1, Len(s)) = s
           /\ SubSeq(s, Len(s) + 1, Len(s)) = <<>>
           /\ SubSeq(s \o t, Len(s) + 1, Len(s \o t)) = t
           /\ s \o <<>> = s /\ <<>> \o s = s /\ <<>> \in Piece
<1>1. SubSeq(s, 1, Len(s)) = s /\ SubSeq(s, Len(s) + 1, Len(s)) = <<>>
  BY DEF Piece
<1>2. s \o <<>> = s /\ <<>> \o s = s /\ <<>> \in Piece
  BY DEF Piece
<1>3. PICK u \in Seq(Fragment) : u = s \o t
  BY ConcatType DEF Piece
<1>4. /\ Len(u) = Len(s) + Len(t) /\ Len(s) \in Nat /\ Len(t) \in Nat
      /\ \A i \in 1..Len(t) : u[Len(s) + i] = t[i]
  BY <1>3 DEF Piece
<1>5. PICK v : v = SubSeq(u, Len(s) + 1, Len(u))
  OBVIOUS
<1>6. /\ v \in Seq(Fragment) /\ Len(v) = Len(t)
      /\ \A i \in 1..Len(t) : v[i] = u[Len(s) + i]
  BY <1>4, <1>5
<1>7. v = t
  BY <1>4, <1>6 DEF Piece
<1>. QED
  BY <1>1, <1>2, <1>3, <1>5, <1>7

-----------------------------------------------------------------------------
(* The block operators.                                                    *)

LEMMA BlockAt ==
    ASSUME NEW bs \in Seq(Block), NEW p \in 1..Len(bs)
    PROVE  /\ bs[p] \in Block /\ bs[p].kind \in Kind /\ bs[p].label \in Label
           /\ bs[p].content \in Piece /\ bs[p].stops \in Nat
<1>1. bs[p] \in Block
  OBVIOUS
<1>. QED
  BY <1>1 DEF Block, String, Piece

LEMMA StartFacts ==
    ASSUME NEW bs \in Seq(Block), NEW kind \in Kind, NEW label \in Label
    PROVE  LET bs1 == StartBlock(bs, kind, label)
           IN  /\ bs1 \in Seq(Block) /\ Len(bs1) = Len(bs) + 1
               /\ \A p \in 1..Len(bs) : bs1[p] = bs[p]
               /\ bs1[Len(bs) + 1].kind = kind /\ bs1[Len(bs) + 1].label = label
               /\ bs1[Len(bs) + 1].stops = 0 /\ bs1[Len(bs) + 1].content = <<>>
<1>1. PICK b : b = [kind |-> kind, label |-> label, content |-> <<>>, stops |-> 0]
  OBVIOUS
<1>2. b \in Block /\ b.kind = kind /\ b.label = label /\ b.stops = 0 /\ b.content = <<>>
  BY <1>1 DEF Block, String
<1>3. StartBlock(bs, kind, label) = Append(bs, b)
  BY <1>1 DEF StartBlock
<1>. QED
  BY <1>2, <1>3

LEMMA AppendFacts ==
    ASSUME NEW bs \in Seq(Block), NEW i \in Nat, i + 1 \in 1..Len(bs), NEW delta \in Piece
    PROVE  LET bs1 == AppendDelta(bs, i, delta)
           IN  /\ bs1 \in Seq(Block) /\ Len(bs1) = Len(bs)
               /\ \A p \in 1..Len(bs) : p # i + 1 => bs1[p] = bs[p]
               /\ bs1[i + 1].kind = bs[i + 1].kind /\ bs1[i + 1].label = bs[i + 1].label
               /\ bs1[i + 1].stops = bs[i + 1].stops
               /\ bs1[i + 1].content = bs[i + 1].content \o delta
<1>1. bs[i + 1] \in Block /\ bs[i + 1].content \in Piece
  BY BlockAt
<1>2. PICK b : b = bs[i + 1]
  OBVIOUS
<1>3. PICK c : c = b.content \o delta
  OBVIOUS
<1>4. c \in Piece
  BY <1>1, <1>2, <1>3, ConcatType
<1>5. PICK b1 : b1 = [b EXCEPT !.content = c]
  OBVIOUS
<1>6. /\ b1 \in Block /\ b1.kind = b.kind /\ b1.label = b.label /\ b1.stops = b.stops
      /\ b1.content = c
  BY <1>1, <1>2, <1>4, <1>5 DEF Block, String, Piece
<1>7. AppendDelta(bs, i, delta) = [bs EXCEPT ![i + 1] = b1]
  BY <1>2, <1>3, <1>5 DEF AppendDelta
<1>8. PICK bs1 : bs1 = [bs EXCEPT ![i + 1] = b1]
  OBVIOUS
<1>9. /\ bs1 \in Seq(Block) /\ Len(bs1) = Len(bs)
      /\ \A p \in 1..Len(bs) : p # i + 1 => bs1[p] = bs[p]
      /\ bs1[i + 1] = b1
  BY <1>6, <1>8
<1>. QED
  BY <1>2, <1>3, <1>6, <1>7, <1>8, <1>9

\* A new block with its first delta.
LEMMA OpenFacts ==
    ASSUME NEW bs \in Seq(Block), NEW kind \in Kind, NEW label \in Label, NEW delta \in Piece
    PROVE  LET bs1 == AppendDelta(StartBlock(bs, kind, label), Len(bs), delta)
           IN  /\ bs1 \in Seq(Block) /\ Len(bs1) = Len(bs) + 1
               /\ \A p \in 1..Len(bs) : bs1[p] = bs[p]
               /\ bs1[Len(bs) + 1].kind = kind /\ bs1[Len(bs) + 1].label = label
               /\ bs1[Len(bs) + 1].stops = 0 /\ bs1[Len(bs) + 1].content = delta
<1>1. PICK open : open = StartBlock(bs, kind, label)
  OBVIOUS
<1>2. /\ open \in Seq(Block) /\ Len(open) = Len(bs) + 1
      /\ \A p \in 1..Len(bs) : open[p] = bs[p]
      /\ open[Len(bs) + 1].kind = kind /\ open[Len(bs) + 1].label = label
      /\ open[Len(bs) + 1].stops = 0 /\ open[Len(bs) + 1].content = <<>>
  BY <1>1, StartFacts
<1>3. PICK i \in Nat : i = Len(bs)
  OBVIOUS
<1>4. i + 1 \in 1..Len(open)
  BY <1>2, <1>3
<1>5. PICK bs1 : bs1 = AppendDelta(open, i, delta)
  OBVIOUS
<1>6. /\ bs1 \in Seq(Block) /\ Len(bs1) = Len(open)
      /\ \A p \in 1..Len(open) : p # i + 1 => bs1[p] = open[p]
      /\ bs1[i + 1].kind = open[i + 1].kind /\ bs1[i + 1].label = open[i + 1].label
      /\ bs1[i + 1].stops = open[i + 1].stops
      /\ bs1[i + 1].content = open[i + 1].content \o delta
  BY <1>2, <1>4, <1>5, AppendFacts
<1>7. <<>> \o delta = delta
  BY RestOfString
<1>8. /\ bs1 \in Seq(Block) /\ Len(bs1) = Len(bs) + 1
      /\ \A p \in 1..Len(bs) : bs1[p] = bs[p]
      /\ bs1[Len(bs) + 1].kind = kind /\ bs1[Len(bs) + 1].label = label
      /\ bs1[Len(bs) + 1].stops = 0 /\ bs1[Len(bs) + 1].content = delta
  BY <1>2, <1>3, <1>6, <1>7
<1>9. AppendDelta(StartBlock(bs, kind, label), Len(bs), delta) = bs1
  BY <1>1, <1>3, <1>5
<1>. QED
  BY <1>8, <1>9

LEMMA StopFacts ==
    ASSUME NEW bs \in Seq(Block), NEW i \in Nat, i + 1 \in 1..Len(bs)
    PROVE  LET bs1 == StopBlock(bs, i)
           IN  /\ bs1 \in Seq(Block) /\ Len(bs1) = Len(bs)
               /\ \A p \in 1..Len(bs) : p # i + 1 => bs1[p] = bs[p]
               /\ bs1[i + 1].kind = bs[i + 1].kind /\ bs1[i + 1].label = bs[i + 1].label
               /\ bs1[i + 1].stops = bs[i + 1].stops + 1
               /\ bs1[i + 1].content = bs[i + 1].content
<1>1. bs[i + 1] \in Block /\ bs[i + 1].stops \in Nat
  BY BlockAt
<1>2. PICK b : b = bs[i + 1]
  OBVIOUS
<1>3. PICK b1 : b1 = [b EXCEPT !.stops = b.stops + 1]
  OBVIOUS
<1>4. /\ b1 \in Block /\ b1.kind = b.kind /\ b1.label = b.label /\ b1.content = b.content
      /\ b1.stops = b.stops + 1
  BY <1>1, <1>2, <1>3 DEF Block
<1>5. StopBlock(bs, i) = [bs EXCEPT ![i + 1] = b1]
  BY <1>2, <1>3 DEF StopBlock
<1>6. PICK bs1 : bs1 = [bs EXCEPT ![i + 1] = b1]
  OBVIOUS
<1>7. /\ bs1 \in Seq(Block) /\ Len(bs1) = Len(bs)
      /\ \A p \in 1..Len(bs) : p # i + 1 => bs1[p] = bs[p]
      /\ bs1[i + 1] = b1
  BY <1>4, <1>6
<1>. QED
  BY <1>2, <1>4, <1>5, <1>6, <1>7

-----------------------------------------------------------------------------
(* The message: only its last block may be open, and a tool block that was *)
(* stopped holds a JSON object.                                            *)

SoundBlock(b) ==
    /\ b.stops \in {0, 1}
    /\ (b.kind = "tool_use" /\ b.stops = 1) => ParsesToObject(b.content)

Sound(bs) ==
    /\ bs \in Seq(Block)
    /\ \A p \in 1..Len(bs) : SoundBlock(bs[p]) /\ (bs[p].stops = 0 => p = Len(bs))

\* A block after some step, as the client sees it.
Grew(old, new) ==
    \/ new = old
    \/ /\ old.stops = 0 /\ new.kind = old.kind /\ new.label = old.label
       /\ \E d \in Piece : new.content = old.content \o d

LEMMA GrewEvolves ==
    ASSUME NEW old \in Block, NEW new \in Block, SoundBlock(old), SoundBlock(new), Grew(old, new)
    PROVE  Evolves(old, new)
<1>0. old.content \in Piece
  BY DEF Block, String, Piece
<1>1. CASE new = old
  <2>1. Len(old.content) <= Len(old.content) /\ old.content = SubSeq(old.content, 1, Len(old.content))
    BY <1>0, RestOfString DEF Piece
  <2>. QED
    BY <1>1, <2>1 DEF Evolves, SoundBlock
<1>2. CASE new # old
  <2>1. PICK d \in Piece : new.content = old.content \o d
    BY <1>2 DEF Grew
  <2>2. Len(old.content) <= Len(new.content)
        /\ old.content = SubSeq(new.content, 1, Len(old.content))
    BY <1>0, <2>1, PrefixOfConcat
  <2>. QED
    BY <1>2, <2>2 DEF Evolves, SoundBlock, Grew, Sealed
<1>. QED
  BY <1>1, <1>2

\* A step that touches the last block only, or stops it and adds another.
LEMMA MessageGrows ==
    ASSUME NEW old, Sound(old), NEW new \in Seq(Block),
           Len(new) \in {Len(old), Len(old) + 1},
           \A p \in 1..Len(old) : p < Len(old) => new[p] = old[p],
           Len(old) > 0 => /\ Grew(old[Len(old)], new[Len(old)])
                           /\ SoundBlock(new[Len(old)])
                           /\ Len(new) > Len(old) => new[Len(old)].stops = 1,
           Len(new) > Len(old) => SoundBlock(new[Len(new)])
    PROVE  Sound(new) /\ Extends(old, new)
<1>0. /\ old \in Seq(Block) /\ Len(old) \in Nat /\ Len(new) \in Nat
      /\ \A p \in 1..Len(old) : SoundBlock(old[p]) /\ (old[p].stops = 0 => p = Len(old))
  BY DEF Sound
<1>1. ASSUME NEW p \in 1..Len(old)
      PROVE  /\ Grew(old[p], new[p]) /\ SoundBlock(new[p])
             /\ new[p].stops = 0 => p = Len(new)
  <2>1. CASE p < Len(old)
    BY <1>0, <2>1 DEF Grew
  <2>2. CASE p = Len(old)
    BY <1>0, <2>2
  <2>. QED
    BY <1>0, <2>1, <2>2
<1>2. ASSUME NEW p \in 1..Len(new), p \notin 1..Len(old)
      PROVE  p = Len(new) /\ SoundBlock(new[p])
  BY <1>0, <1>2
<1>3. Sound(new)
  BY <1>1, <1>2 DEF Sound
<1>4. ASSUME NEW p \in 1..Len(old) PROVE Evolves(old[p], new[p])
  <2>1. old[p] \in Block /\ new[p] \in Block
    BY <1>0, BlockAt
  <2>. QED
    BY <1>0, <1>1, <2>1, GrewEvolves
<1>. QED
  BY <1>0, <1>3, <1>4 DEF Extends

LEMMA MessageStays ==
    ASSUME NEW bs, Sound(bs)
    PROVE  Extends(bs, bs)
<1>1. ASSUME NEW p \in 1..Len(bs) PROVE Evolves(bs[p], bs[p])
  BY BlockAt, GrewEvolves DEF Sound, Grew
<1>. QED
  BY <1>1 DEF Sound, Extends

-----------------------------------------------------------------------------
(* The invariant.                                                          *)

Active == phase \in {"reading", "working", "closing"}

\* The last block of the message has no stop yet.
AnyOpen == Len(wire) > 0 /\ wire[Len(wire)].stops = 0

\* The live call has a block that is not stopped: until emit_terminal came to it.
LiveOpen == liveBlock # None /\ (phase = "closing" => liveIndex \in remaining)

TextAtEnd ==
    textIndex # None => /\ liveBlock = None
                        /\ AnyOpen /\ textIndex = Len(wire) - 1
                        /\ wire[Len(wire)].kind = "text"

\* The client has every argument piece of the live call.
LiveAtEnd ==
    IF liveBlock = None THEN liveIndex = None /\ liveCount = 0
    ELSE /\ streamLive
         /\ liveIndex \in DOMAIN tools /\ tools[liveIndex].name # <<>>
         /\ Len(wire) > 0 /\ liveBlock = Len(wire) - 1
         /\ wire[Len(wire)].kind = "tool_use"
         /\ wire[Len(wire)].content = tools[liveIndex].arguments
         /\ liveCount = Len(tools[liveIndex].arguments)

\* The strengthening: the translator's indexes point at the last block, which is
\* the only one that can be open, and only for the text or the live call.
Cursor ==
    /\ Sound(wire) /\ nextIndex = Len(wire)
    /\ TextAtEnd /\ LiveAtEnd
    /\ Active => (AnyOpen <=> (textIndex # None \/ LiveOpen))

Progress ==
    /\ phase \in {"working", "closing"} \/ Len(wire) > 0 => started
    /\ remaining \subseteq DOMAIN tools

Inv == TypeOK /\ Cursor /\ Progress

LEMMA InitInv == Init => Inv
<1>. SUFFICES ASSUME Init PROVE Inv
  OBVIOUS
<1>1. /\ wire = <<>> /\ wire \in Seq(Block) /\ Len(wire) = 0
      /\ <<>> \in Piece /\ <<>> \in Seq(Chunk) /\ <<>> \in Seq([text : Piece] \cup CallDelta)
  BY DEF Init, Piece
<1>2. TypeOK
  BY <1>1 DEF Init, TypeOK
<1>3. Cursor
  BY <1>1 DEF Init, Cursor, Sound, TextAtEnd, LiveAtEnd, AnyOpen, LiveOpen
<1>4. Progress
  BY <1>1 DEF Init, Progress
<1>. QED
  BY <1>2, <1>3, <1>4 DEF Inv

\* What is said and what is called in a chunk.
LEMMA WorkItem ==
    ASSUME NEW e \in [text : Piece] \cup CallDelta
    PROVE  IF "text" \in DOMAIN e THEN e.text \in Piece ELSE e \in CallDelta
<1>1. CASE e \in [text : Piece]
  <2>1. DOMAIN e = {"text"} /\ e.text \in Piece
    BY <1>1
  <2>. QED
    BY <2>1
<1>2. CASE e \in CallDelta
  <2>1. DOMAIN e = {"index", "id", "name", "arguments"}
    BY <1>2 DEF CallDelta
  <2>. QED
    BY <1>2, <2>1
<1>. QED
  BY <1>1, <1>2

LEMMA HeadOfWork ==
    ASSUME Inv, work # <<>>
    PROVE  /\ Tail(work) \in Seq([text : Piece] \cup CallDelta)
           /\ "text" \in DOMAIN Head(work) => Head(work).text \in Piece
           /\ "text" \notin DOMAIN Head(work) => Head(work) \in CallDelta
<1>1. /\ Head(work) \in [text : Piece] \cup CallDelta
      /\ Tail(work) \in Seq([text : Piece] \cup CallDelta)
  BY DEF Inv, TypeOK
<1>. QED
  BY <1>1, WorkItem

\* Nothing was produced: the phase, what is left of the chunk and what was heard.
LEMMA QuietInv ==
    ASSUME Inv, TypeOK', UNCHANGED <<toolVars, blockVars>>, started => started',
           phase' \in {"working", "closing"} => started',
           Active' => Active,
           remaining' \subseteq DOMAIN tools,
           Active' => (LiveOpen' <=> LiveOpen)
    PROVE  Inv' /\ Extends(wire, wire')
<1>1. /\ wire' = wire /\ textIndex' = textIndex /\ liveBlock' = liveBlock
      /\ UNCHANGED <<tools, nextIndex, liveIndex, liveCount, streamLive>>
  BY DEF toolVars, blockVars
<1>2. Cursor'
  BY <1>1 DEF Inv, Cursor, Sound, TextAtEnd, LiveAtEnd, AnyOpen
<1>3. Progress'
  BY <1>1 DEF Inv, Progress
<1>. QED
  BY <1>1, <1>2, <1>3, MessageStays DEF Inv, Cursor

LEMMA FailInv ==
    ASSUME Inv, Fail
    PROVE  Inv' /\ Extends(wire, wire')
<1>1. TypeOK'
  BY DEF Inv, TypeOK, Fail, toolVars, flagVars, blockVars
<1>. QED
  BY <1>1, QuietInv DEF Fail, Inv, Progress, Active

-----------------------------------------------------------------------------
(* Reading.                                                                *)

LEMMA SaidType ==
    ASSUME NEW text \in Piece
    PROVE  Said(text) \in Seq([text : Piece] \cup CallDelta)
<1>1. [text |-> text] \in [text : Piece] \cup CallDelta
  OBVIOUS
<1>2. \A S : <<>> \in Seq(S) /\ \A e \in S : <<e>> \in Seq(S)
  OBVIOUS
<1>. QED
  BY <1>1, <1>2 DEF Said

LEMMA ReadInv ==
    ASSUME Inv, NEW chunk \in Chunks, ReadChunk(chunk)
    PROVE  Inv' /\ Extends(wire, wire')
<1>1. chunk \in Chunk
  BY ChatAssumption
<1>2. /\ chunk.content \in Piece /\ Refused(chunk) \in Piece
      /\ chunk.calls \in Seq([text : Piece] \cup CallDelta)
      /\ chunk.finish \in FinishReason \cup {Null}
  <2>1. chunk.calls \in Seq(CallDelta) /\ chunk.content \in Piece
        /\ chunk.refusal \in Piece \cup {Null} /\ chunk.finish \in FinishReason \cup {Null}
    BY <1>1 DEF Chunk
  <2>2. <<>> \in Piece
    BY DEF Piece
  <2>. QED
    BY <2>1, <2>2 DEF Refused
<1>3. Said(chunk.content) \in Seq([text : Piece] \cup CallDelta)
      /\ Said(Refused(chunk)) \in Seq([text : Piece] \cup CallDelta)
  BY <1>2, SaidType
<1>4. \A S : \A s1, s2 \in Seq(S) : s1 \o s2 \in Seq(S)
  OBVIOUS
<1>5. Texts(chunk) \o chunk.calls \in Seq([text : Piece] \cup CallDelta)
  BY <1>2, <1>3, <1>4 DEF Texts
<1>6. refusalParts \o Refused(chunk) \in Piece
  BY <1>2, ConcatType DEF Inv, TypeOK
<1>7. Append(read, chunk) \in Seq(Chunk)
  BY <1>1 DEF Inv, TypeOK
<1>8. /\ read' = Append(read, chunk) /\ started' = TRUE
      /\ finishReason' \in {chunk.finish, finishReason}
      /\ hasRefusal' \in BOOLEAN
      /\ refusalParts' = refusalParts \o Refused(chunk)
      /\ work' = Texts(chunk) \o chunk.calls
      /\ phase = "reading" /\ phase' = "working"
      /\ UNCHANGED <<closed, toolVars, blockVars, remaining, ending>>
  BY DEF ReadChunk
<1>9. TypeOK'
  BY <1>2, <1>5, <1>6, <1>7, <1>8 DEF Inv, TypeOK, toolVars, blockVars
<1>10. LiveOpen' <=> LiveOpen
  BY <1>8 DEF LiveOpen, toolVars
<1>. QED
  BY <1>8, <1>9, <1>10, QuietInv DEF Inv, Progress, Active

LEMMA ReadUsageInv ==
    ASSUME Inv, ReadUsage
    PROVE  Inv' /\ Extends(wire, wire')
<1>1. TypeOK'
  BY DEF Inv, TypeOK, ReadUsage, toolVars, flagVars, blockVars
<1>2. LiveOpen' <=> LiveOpen
  BY DEF LiveOpen, ReadUsage, toolVars
<1>. QED
  BY <1>1, <1>2, QuietInv DEF ReadUsage, Inv, Progress, Active

LEMMA EndOfStreamInv ==
    ASSUME Inv, EndOfStream
    PROVE  Inv' /\ Extends(wire, wire')
<1>1. TypeOK'
  BY DEF Inv, TypeOK, EndOfStream, toolVars, flagVars, blockVars
<1>2. LiveOpen' <=> LiveOpen
  BY DEF LiveOpen, EndOfStream, toolVars, Inv, Cursor, LiveAtEnd
<1>. QED
  BY <1>1, <1>2, QuietInv DEF EndOfStream, Inv, Progress, Active

LEMMA ChunkDoneInv ==
    ASSUME Inv, ChunkDone
    PROVE  Inv' /\ Extends(wire, wire')
<1>1. TypeOK'
  BY DEF Inv, TypeOK, ChunkDone, toolVars, flagVars, blockVars
<1>2. LiveOpen' <=> LiveOpen
  BY DEF LiveOpen, ChunkDone, toolVars
<1>. QED
  BY <1>1, <1>2, QuietInv DEF ChunkDone, Inv, Progress, Active

-----------------------------------------------------------------------------
(* Texts.                                                                  *)

\* Text goes to the open text block, or to a new one.
LEMMA TextWire ==
    ASSUME Inv, Active, liveBlock = None, NEW text \in Piece,
           wire' = AppendDelta(IF textIndex = None THEN StartBlock(wire, "text", Null) ELSE wire,
                               IF textIndex = None THEN nextIndex ELSE textIndex, text)
    PROVE  /\ Sound(wire') /\ Extends(wire, wire')
           /\ Len(wire') = IF textIndex = None THEN Len(wire) + 1 ELSE Len(wire)
           /\ Len(wire') > 0 /\ wire'[Len(wire')].stops = 0 /\ wire'[Len(wire')].kind = "text"
<1>0. Sound(wire) /\ wire \in Seq(Block) /\ Len(wire) \in Nat /\ nextIndex = Len(wire)
  BY DEF Inv, Cursor, Sound
<1>1. CASE textIndex = None
  <2>1. "text" \in Kind /\ Null \in Label
    BY DEF Kind, Label
  <2>2. wire' = AppendDelta(StartBlock(wire, "text", Null), Len(wire), text)
    BY <1>0, <1>1
  <2>5. /\ wire' \in Seq(Block) /\ Len(wire') = Len(wire) + 1
        /\ \A p \in 1..Len(wire) : wire'[p] = wire[p]
        /\ wire'[Len(wire) + 1].kind = "text" /\ wire'[Len(wire) + 1].stops = 0
    BY <1>0, <2>1, <2>2, OpenFacts
  <2>6. Len(wire) > 0 => SoundBlock(wire[Len(wire)]) /\ wire[Len(wire)].stops = 1
    <3>1. ~AnyOpen
      BY <1>1 DEF Inv, Cursor, LiveOpen
    <3>. QED
      BY <1>0, <3>1 DEF AnyOpen, Sound, SoundBlock
  <2>7. SoundBlock(wire'[Len(wire')])
    BY <2>5 DEF SoundBlock
  <2>8. Sound(wire') /\ Extends(wire, wire')
    BY <1>0, <2>5, <2>6, <2>7, MessageGrows DEF Grew
  <2>. QED
    BY <1>0, <1>1, <2>5, <2>8
<1>2. CASE textIndex # None
  <2>1. /\ textIndex = Len(wire) - 1 /\ Len(wire) > 0 /\ wire[Len(wire)].kind = "text"
        /\ wire[Len(wire)].stops = 0
    BY <1>2 DEF Inv, Cursor, TextAtEnd, AnyOpen
  <2>2. textIndex \in Nat /\ textIndex + 1 = Len(wire) /\ textIndex + 1 \in 1..Len(wire)
    BY <1>0, <2>1
  <2>3. wire' = AppendDelta(wire, textIndex, text)
    BY <1>2
  <2>4. /\ wire' \in Seq(Block) /\ Len(wire') = Len(wire)
        /\ \A p \in 1..Len(wire) : p # Len(wire) => wire'[p] = wire[p]
        /\ wire'[Len(wire)].kind = "text" /\ wire'[Len(wire)].label = wire[Len(wire)].label
        /\ wire'[Len(wire)].stops = 0
        /\ wire'[Len(wire)].content = wire[Len(wire)].content \o text
    <3>1. /\ wire' \in Seq(Block) /\ Len(wire') = Len(wire)
          /\ \A p \in 1..Len(wire) : p # textIndex + 1 => wire'[p] = wire[p]
          /\ wire'[textIndex + 1].kind = wire[textIndex + 1].kind
          /\ wire'[textIndex + 1].label = wire[textIndex + 1].label
          /\ wire'[textIndex + 1].stops = wire[textIndex + 1].stops
          /\ wire'[textIndex + 1].content = wire[textIndex + 1].content \o text
      BY <1>0, <2>2, <2>3, AppendFacts, SMTT(30)
    <3>. QED
      BY <2>1, <2>2, <3>1
  <2>5. SoundBlock(wire'[Len(wire)]) /\ Grew(wire[Len(wire)], wire'[Len(wire)])
    BY <2>1, <2>4 DEF SoundBlock, Grew
  <2>6. Sound(wire') /\ Extends(wire, wire')
    BY <1>0, <2>4, <2>5, MessageGrows
  <2>. QED
    BY <1>2, <2>1, <2>4, <2>6
<1>. QED
  BY <1>1, <1>2

LEMMA EmitTextInv ==
    ASSUME Inv, EmitText
    PROVE  Inv' /\ Extends(wire, wire')
<1>. DEFINE isNew == textIndex = None
<1>0. /\ phase = "working" /\ Active /\ work # <<>> /\ liveBlock = None
      /\ Head(work).text \in Piece
      /\ Tail(work) \in Seq([text : Piece] \cup CallDelta)
      /\ UNCHANGED <<phase, closed, read, started, remaining, ending, flagVars, toolVars>>
      /\ work' = Tail(work)
  BY HeadOfWork DEF EmitText, Working, Active
<1>1. /\ wire' = AppendDelta(IF isNew THEN StartBlock(wire, "text", Null) ELSE wire,
                             IF isNew THEN nextIndex ELSE textIndex, Head(work).text)
      /\ textIndex' = IF isNew THEN nextIndex ELSE textIndex
      /\ nextIndex' = IF isNew THEN nextIndex + 1 ELSE nextIndex
  BY DEF EmitText
<1>2. /\ Sound(wire') /\ Extends(wire, wire')
      /\ Len(wire') = IF isNew THEN Len(wire) + 1 ELSE Len(wire)
      /\ Len(wire') > 0 /\ wire'[Len(wire')].stops = 0 /\ wire'[Len(wire')].kind = "text"
  BY <1>0, <1>1, TextWire
<1>3. /\ nextIndex' = Len(wire') /\ textIndex' = Len(wire') - 1
      /\ nextIndex' \in Nat /\ textIndex' \in Nat
  <2>1. /\ nextIndex = Len(wire) /\ Len(wire) \in Nat
        /\ ~isNew => textIndex = Len(wire) - 1 /\ Len(wire) > 0
    BY DEF Inv, Cursor, Sound, TextAtEnd, AnyOpen
  <2>. QED
    BY <1>1, <1>2, <2>1
<1>4. TypeOK'
  BY <1>0, <1>2, <1>3 DEF Inv, TypeOK, flagVars, toolVars, Sound
<1>5. UNCHANGED <<liveBlock, liveIndex, liveCount>> /\ liveBlock' = None
  BY <1>0 DEF toolVars
<1>6. TextAtEnd' /\ LiveAtEnd' /\ AnyOpen' /\ textIndex' # None
  BY <1>0, <1>2, <1>3, <1>5 DEF TextAtEnd, LiveAtEnd, AnyOpen, Inv, Cursor, None
<1>7. Progress'
  BY <1>0 DEF Inv, Progress, toolVars
<1>. QED
  BY <1>2, <1>3, <1>4, <1>6, <1>7 DEF Inv, Cursor

-----------------------------------------------------------------------------
(* Tool-call deltas.                                                       *)

Call == [id : Id \cup {NoId}, name : Piece, arguments : Piece]

\* A delta adds to its call and leaves the others alone.
LEMMA RecordedCalls ==
    ASSUME Inv, NEW delta \in CallDelta
    PROVE  LET calls == Recorded(delta)
               i     == delta.index
           IN  /\ i \in Index /\ DOMAIN calls = DOMAIN tools \cup {i}
               /\ \A j \in DOMAIN calls : calls[j] \in Call
               /\ \A j \in DOMAIN tools : j # i => calls[j] = tools[j]
               /\ i \in DOMAIN tools =>
                     /\ calls[i].name = tools[i].name \o delta.name
                     /\ calls[i].arguments = tools[i].arguments \o delta.arguments
<1>. DEFINE i    == delta.index
            call == IF i \in DOMAIN tools THEN tools[i] ELSE NewCall
<1>0. /\ delta.index \in Index /\ delta.id \in Id \cup {NoId}
      /\ delta.name \in Piece /\ delta.arguments \in Piece
  BY DEF CallDelta
<1>1. \A j \in DOMAIN tools : tools[j] \in Call
  BY DEF Inv, TypeOK, Call
<1>2. call \in Call
  <2>1. NewCall \in Call
    BY DEF NewCall, Call, Piece
  <2>. QED
    BY <1>1, <2>1
<1>3. PICK c : c = call
  OBVIOUS
<1>4. Recorded(delta) =
        [j \in DOMAIN tools \cup {i} |-> IF j = i THEN Merged(c, delta) ELSE tools[j]]
  BY <1>3 DEF Recorded
<1>5. c.id \in Id \cup {NoId} /\ c.name \in Piece /\ c.arguments \in Piece
  BY <1>2, <1>3 DEF Call
<1>6. /\ c.name \o delta.name \in Piece /\ c.arguments \o delta.arguments \in Piece
  BY <1>0, <1>5, ConcatType
<1>7. /\ Merged(c, delta) \in Call
      /\ Merged(c, delta).name = c.name \o delta.name
      /\ Merged(c, delta).arguments = c.arguments \o delta.arguments
  BY <1>0, <1>5, <1>6 DEF Merged, Call
<1>8. i \in DOMAIN tools => c = tools[i]
  BY <1>3
<1>. HIDE DEF call
<1>. QED
  BY <1>0, <1>1, <1>4, <1>7, <1>8

LEMMA NonemptyConcat ==
    ASSUME NEW s \in Piece, NEW t \in Piece, s # <<>>
    PROVE  s \o t # <<>>
<1>1. Len(s) \in Nat /\ Len(s) # 0 /\ Len(t) \in Nat /\ Len(s \o t) = Len(s) + Len(t)
  BY DEF Piece
<1>. QED
  BY <1>1

LEMMA LabelType ==
    ASSUME NEW call \in Call
    PROVE  [id |-> call.id, name |-> call.name] \in Label
BY DEF Call, Label, Identity

\* A tool block is started at the end of a message without an open block.
LEMMA ToolStarts ==
    ASSUME NEW bs, Sound(bs), Len(bs) > 0 => bs[Len(bs)].stops = 1,
           NEW label \in Label, NEW arguments \in Piece
    PROVE  LET bs1 == AppendDelta(StartBlock(bs, "tool_use", label), Len(bs), arguments)
           IN  /\ bs1 \in Seq(Block) /\ Sound(bs1) /\ Extends(bs, bs1)
               /\ Len(bs1) = Len(bs) + 1 /\ Len(bs) \in Nat
               /\ \A p \in 1..Len(bs) : bs1[p] = bs[p]
               /\ bs1[Len(bs) + 1].kind = "tool_use" /\ bs1[Len(bs) + 1].stops = 0
               /\ bs1[Len(bs) + 1].content = arguments
<1>0. bs \in Seq(Block) /\ Len(bs) \in Nat /\ "tool_use" \in Kind
  BY DEF Sound, Kind
<1>1. PICK bs1 : bs1 = AppendDelta(StartBlock(bs, "tool_use", label), Len(bs), arguments)
  OBVIOUS
<1>2. /\ bs1 \in Seq(Block) /\ Len(bs1) = Len(bs) + 1
      /\ \A p \in 1..Len(bs) : bs1[p] = bs[p]
      /\ bs1[Len(bs) + 1].kind = "tool_use" /\ bs1[Len(bs) + 1].stops = 0
      /\ bs1[Len(bs) + 1].content = arguments
  BY <1>0, <1>1, OpenFacts
<1>3. Len(bs) > 0 => SoundBlock(bs[Len(bs)])
  BY <1>0 DEF Sound
<1>4. SoundBlock(bs1[Len(bs1)])
  BY <1>2 DEF SoundBlock
<1>5. Sound(bs1) /\ Extends(bs, bs1)
  BY <1>0, <1>2, <1>3, <1>4, MessageGrows DEF Grew
<1>. QED
  BY <1>0, <1>1, <1>2, <1>5

\* The message without an open text block.
LEMMA TextCloses ==
    ASSUME Inv, Active, liveBlock = None
    PROVE  LET closing == TextClosed
           IN  /\ closing \in Seq(Block) /\ Sound(closing) /\ Extends(wire, closing)
               /\ Len(closing) = Len(wire)
               /\ \A p \in 1..Len(wire) : p < Len(wire) => closing[p] = wire[p]
               /\ Len(wire) > 0 => /\ closing[Len(wire)].stops = 1
                                   /\ Grew(wire[Len(wire)], closing[Len(wire)])
                                   /\ SoundBlock(closing[Len(wire)])
<1>0. Sound(wire) /\ wire \in Seq(Block) /\ Len(wire) \in Nat
  BY DEF Inv, Cursor, Sound
<1>1. CASE textIndex = None
  <2>1. TextClosed = wire
    BY <1>1 DEF TextClosed
  <2>2. Len(wire) > 0 => SoundBlock(wire[Len(wire)]) /\ wire[Len(wire)].stops = 1
    <3>1. ~AnyOpen
      BY <1>1 DEF Inv, Cursor, LiveOpen
    <3>. QED
      BY <1>0, <3>1 DEF AnyOpen, Sound, SoundBlock
  <2>. QED
    BY <1>0, <2>1, <2>2, MessageStays DEF Grew
<1>2. CASE textIndex # None
  <2>1. /\ textIndex = Len(wire) - 1 /\ Len(wire) > 0 /\ wire[Len(wire)].kind = "text"
        /\ wire[Len(wire)].stops = 0 /\ wire[Len(wire)].content \in Piece
    BY <1>0, <1>2, BlockAt DEF Inv, Cursor, TextAtEnd, AnyOpen
  <2>2. textIndex \in Nat /\ textIndex + 1 = Len(wire) /\ textIndex + 1 \in 1..Len(wire)
    BY <1>0, <2>1
  <2>3. PICK closing : closing = StopBlock(wire, textIndex)
    OBVIOUS
  <2>4. /\ closing \in Seq(Block) /\ Len(closing) = Len(wire)
        /\ \A p \in 1..Len(wire) : p # textIndex + 1 => closing[p] = wire[p]
        /\ closing[textIndex + 1].kind = wire[textIndex + 1].kind
        /\ closing[textIndex + 1].label = wire[textIndex + 1].label
        /\ closing[textIndex + 1].stops = wire[textIndex + 1].stops + 1
        /\ closing[textIndex + 1].content = wire[textIndex + 1].content
    BY <1>0, <2>2, <2>3, StopFacts
  <2>5. /\ closing[Len(wire)].stops = 1 /\ SoundBlock(closing[Len(wire)])
        /\ closing[Len(wire)].kind = wire[Len(wire)].kind
        /\ closing[Len(wire)].label = wire[Len(wire)].label
        /\ closing[Len(wire)].content = wire[Len(wire)].content \o <<>>
        /\ <<>> \in Piece
    <3>1. /\ closing[Len(wire)].stops = 1
          /\ closing[Len(wire)].kind = wire[Len(wire)].kind
          /\ closing[Len(wire)].label = wire[Len(wire)].label
          /\ closing[Len(wire)].content = wire[Len(wire)].content
      BY <2>1, <2>2, <2>4
    <3>2. SoundBlock(closing[Len(wire)])
      BY <2>1, <3>1 DEF SoundBlock
    <3>3. wire[Len(wire)].content = wire[Len(wire)].content \o <<>> /\ <<>> \in Piece
      BY <2>1, RestOfString
    <3>. QED
      BY <3>1, <3>2, <3>3
  <2>6. Grew(wire[Len(wire)], closing[Len(wire)])
    BY <2>1, <2>5 DEF Grew
  <2>7. \A p \in 1..Len(wire) : p < Len(wire) => closing[p] = wire[p]
    BY <1>0, <2>2, <2>4
  <2>8. Sound(closing) /\ Extends(wire, closing)
    BY <1>0, <2>4, <2>5, <2>6, <2>7, MessageGrows
  <2>9. TextClosed = closing
    BY <1>2, <2>3 DEF TextClosed
  <2>. QED
    BY <2>4, <2>5, <2>6, <2>7, <2>8, <2>9
<1>. QED
  BY <1>1, <1>2

\* A tool block in the place of the text block.
LEMMA ToolAfterText ==
    ASSUME Inv, Active, liveBlock = None, NEW label \in Label, NEW arguments \in Piece
    PROVE  LET bs1 == AppendDelta(StartBlock(TextClosed, "tool_use", label), nextIndex, arguments)
           IN  /\ bs1 \in Seq(Block) /\ Sound(bs1) /\ Extends(wire, bs1)
               /\ Len(bs1) = Len(wire) + 1
               /\ bs1[Len(bs1)].kind = "tool_use" /\ bs1[Len(bs1)].stops = 0
               /\ bs1[Len(bs1)].content = arguments
<1>0. Sound(wire) /\ Len(wire) \in Nat /\ nextIndex = Len(wire)
  BY DEF Inv, Cursor, Sound
<1>1. PICK closing : closing = TextClosed
  OBVIOUS
<1>2. /\ closing \in Seq(Block) /\ Sound(closing) /\ Len(closing) = Len(wire)
      /\ \A p \in 1..Len(wire) : p < Len(wire) => closing[p] = wire[p]
      /\ Len(wire) > 0 => /\ closing[Len(wire)].stops = 1
                          /\ Grew(wire[Len(wire)], closing[Len(wire)])
                          /\ SoundBlock(closing[Len(wire)])
  BY <1>1, TextCloses
<1>3. PICK bs1 : bs1 = AppendDelta(StartBlock(closing, "tool_use", label), Len(closing), arguments)
  OBVIOUS
<1>4. /\ bs1 \in Seq(Block) /\ Sound(bs1) /\ Len(bs1) = Len(closing) + 1
      /\ \A p \in 1..Len(closing) : bs1[p] = closing[p]
      /\ bs1[Len(closing) + 1].kind = "tool_use" /\ bs1[Len(closing) + 1].stops = 0
      /\ bs1[Len(closing) + 1].content = arguments
  BY <1>2, <1>3, ToolStarts
<1>5. SoundBlock(bs1[Len(bs1)])
  BY <1>4 DEF SoundBlock
<1>6. Extends(wire, bs1)
  BY <1>0, <1>2, <1>4, <1>5, MessageGrows
<1>7. AppendDelta(StartBlock(TextClosed, "tool_use", label), nextIndex, arguments) = bs1
  BY <1>0, <1>1, <1>2, <1>3
<1>. QED
  BY <1>0, <1>2, <1>4, <1>6, <1>7

\* The open block at the end gets a delta.
LEMMA LastGrows ==
    ASSUME NEW bs, Sound(bs), Len(bs) > 0, bs[Len(bs)].stops = 0, NEW delta \in Piece
    PROVE  LET bs1 == AppendDelta(bs, Len(bs) - 1, delta)
           IN  /\ bs1 \in Seq(Block) /\ Sound(bs1) /\ Extends(bs, bs1) /\ Len(bs1) = Len(bs)
               /\ \A p \in 1..Len(bs) : p < Len(bs) => bs1[p] = bs[p]
               /\ bs1[Len(bs)].kind = bs[Len(bs)].kind /\ bs1[Len(bs)].label = bs[Len(bs)].label
               /\ bs1[Len(bs)].stops = 0
               /\ bs1[Len(bs)].content = bs[Len(bs)].content \o delta
<1>a. bs \in Seq(Block) /\ Len(bs) \in Nat
  BY DEF Sound
<1>b. PICK i : i = Len(bs) - 1
  OBVIOUS
<1>0. bs \in Seq(Block) /\ i \in Nat /\ i + 1 = Len(bs) /\ i + 1 \in 1..Len(bs)
  BY <1>a, <1>b
<1>1. PICK bs1 : bs1 = AppendDelta(bs, i, delta)
  OBVIOUS
<1>2. /\ bs1 \in Seq(Block) /\ Len(bs1) = Len(bs)
      /\ \A p \in 1..Len(bs) : p # i + 1 => bs1[p] = bs[p]
      /\ bs1[i + 1].kind = bs[i + 1].kind /\ bs1[i + 1].label = bs[i + 1].label
      /\ bs1[i + 1].stops = bs[i + 1].stops
      /\ bs1[i + 1].content = bs[i + 1].content \o delta
  BY <1>0, <1>1, AppendFacts
<1>3. /\ \A p \in 1..Len(bs) : p < Len(bs) => bs1[p] = bs[p]
      /\ bs1[Len(bs)].kind = bs[Len(bs)].kind /\ bs1[Len(bs)].label = bs[Len(bs)].label
      /\ bs1[Len(bs)].stops = 0
      /\ bs1[Len(bs)].content = bs[Len(bs)].content \o delta
  <2>1. \A p \in 1..Len(bs) : p < Len(bs) => bs1[p] = bs[p]
    BY <1>0, <1>2
  <2>2. bs1[i + 1] = bs1[Len(bs)] /\ bs[i + 1] = bs[Len(bs)]
    BY <1>0
  <2>. QED
    BY <1>2, <2>1, <2>2
<1>4. Grew(bs[Len(bs)], bs1[Len(bs)]) /\ SoundBlock(bs1[Len(bs)])
  BY <1>3 DEF Grew, SoundBlock
<1>5. Sound(bs1) /\ Extends(bs, bs1)
  BY <1>0, <1>2, <1>3, <1>4, MessageGrows
<1>. QED
  BY <1>b, <1>1, <1>2, <1>3, <1>5

\* A live call is announced when its name is known and brought up to date.
LEMMA EmitLiveInv ==
    ASSUME Inv, phase = "working", streamLive, streamLive' = streamLive,
           NEW delta \in CallDelta, tools' = Recorded(delta),
           ~LiveConflict(delta.index), EmitLive(delta.index, tools')
    PROVE  /\ Sound(wire') /\ Extends(wire, wire')
           /\ nextIndex' = Len(wire') /\ nextIndex' \in Nat
           /\ TextAtEnd' /\ LiveAtEnd'
           /\ AnyOpen' <=> (textIndex' # None \/ liveBlock' # None)
           /\ textIndex' \in Nat \cup {None}
           /\ liveIndex' \in Nat \cup {None} /\ liveBlock' \in Nat \cup {None}
           /\ liveCount' \in Nat
           /\ Len(wire) > 0 => Len(wire') > 0
<1>. DEFINE i == delta.index
<1>0. /\ TypeOK /\ Cursor /\ Active /\ Len(wire) \in Nat /\ Sound(wire)
      /\ nextIndex = Len(wire)
  BY DEF Inv, Active, Cursor, Sound
<1>1. /\ i \in Index /\ i \in Nat /\ DOMAIN tools' = DOMAIN tools \cup {i}
      /\ tools'[i] \in Call
      /\ i \in DOMAIN tools => /\ tools'[i].name = tools[i].name \o delta.name
                               /\ tools'[i].arguments = tools[i].arguments \o delta.arguments
  BY RecordedCalls, ChatAssumption
<1>2. tools'[i].arguments \in Piece /\ Len(tools'[i].arguments) \in Nat
  BY <1>1 DEF Call, Piece
<1>3. liveBlock # None => /\ liveIndex = i /\ i \in DOMAIN tools
                          /\ tools[i].arguments \in Piece /\ delta.arguments \in Piece
                          /\ tools'[i].name # <<>>
  <2>. SUFFICES ASSUME liveBlock # None
                PROVE  /\ liveIndex = i /\ i \in DOMAIN tools
                       /\ tools[i].arguments \in Piece /\ delta.arguments \in Piece
                       /\ tools'[i].name # <<>>
    OBVIOUS
  <2>1. liveIndex \in DOMAIN tools /\ liveIndex \in Nat /\ tools[liveIndex].name # <<>>
    BY <1>0, ChatAssumption DEF Cursor, LiveAtEnd, TypeOK
  <2>2. liveIndex = i
    BY <2>1 DEF LiveConflict, None
  <2>3. /\ tools[i].name \in Piece /\ tools[i].arguments \in Piece
        /\ delta.name \in Piece /\ delta.arguments \in Piece
    BY <1>0, <2>1, <2>2 DEF TypeOK, CallDelta
  <2>. QED
    BY <1>1, <2>1, <2>2, <2>3, NonemptyConcat
<1>4. CASE ~Announceable(tools'[i])
  <2>1. liveBlock = None
    BY <1>3, <1>4 DEF Announceable
  <2>2. UNCHANGED <<liveIndex, liveBlock, liveCount, nextIndex, textIndex, wire>>
    BY <1>4 DEF EmitLive, blockVars
  <2>3. Extends(wire, wire') /\ Sound(wire')
    BY <1>0, <2>2, MessageStays
  <2>4. TextAtEnd' /\ LiveAtEnd' /\ (AnyOpen' <=> AnyOpen)
    BY <1>0, <2>1, <2>2 DEF Cursor, TextAtEnd, LiveAtEnd, AnyOpen
  <2>. QED
    BY <1>0, <2>1, <2>2, <2>3, <2>4 DEF Cursor, TypeOK, LiveOpen
<1>5. CASE Announceable(tools'[i]) /\ liveBlock = None
  <2>. DEFINE label == [id |-> tools'[i].id, name |-> tools'[i].name]
  <2>1. liveCount = 0 /\ Unsent(tools'[i], liveCount) = tools'[i].arguments
    <3>1. liveCount = 0
      BY <1>0, <1>5 DEF Cursor, LiveAtEnd
    <3>2. SubSeq(tools'[i].arguments, 1, Len(tools'[i].arguments)) = tools'[i].arguments
      BY <1>2, RestOfString
    <3>. QED
      BY <3>1, <3>2 DEF Unsent
  <2>2. label \in Label
    BY <1>1, LabelType
  <2>3. /\ liveIndex' = i /\ liveBlock' = nextIndex /\ textIndex' = None
        /\ nextIndex' = nextIndex + 1 /\ liveCount' = Len(tools'[i].arguments)
        /\ wire' = AppendDelta(StartBlock(TextClosed, "tool_use", label), nextIndex,
                               Unsent(tools'[i], liveCount))
    BY <1>5 DEF EmitLive
  <2>4. wire' = AppendDelta(StartBlock(TextClosed, "tool_use", label), nextIndex,
                            tools'[i].arguments)
    BY <2>1, <2>3
  <2>. HIDE DEF label
  <2>5. /\ Sound(wire') /\ Extends(wire, wire') /\ Len(wire') = Len(wire) + 1
        /\ wire'[Len(wire')].kind = "tool_use" /\ wire'[Len(wire')].stops = 0
        /\ wire'[Len(wire')].content = tools'[i].arguments
    BY <1>0, <1>2, <1>5, <2>2, <2>4, ToolAfterText
  <2>6. LiveAtEnd' /\ liveBlock' # None
    BY <1>0, <1>1, <1>5, <2>3, <2>5, SMTT(30) DEF LiveAtEnd, Announceable, None
  <2>7. TextAtEnd' /\ AnyOpen'
    BY <1>0, <2>3, <2>5 DEF TextAtEnd, AnyOpen
  <2>. QED
    BY <1>0, <1>1, <1>2, <2>3, <2>5, <2>6, <2>7, SMTT(30)
<1>6. CASE Announceable(tools'[i]) /\ liveBlock # None
  <2>1. /\ textIndex = None /\ liveBlock = Len(wire) - 1 /\ Len(wire) > 0
        /\ wire[Len(wire)].kind = "tool_use" /\ wire[Len(wire)].stops = 0
        /\ wire[Len(wire)].content = tools[i].arguments
        /\ liveCount = Len(tools[i].arguments)
    <3>1. textIndex = None /\ LiveOpen
      BY <1>6 DEF Inv, Cursor, TextAtEnd, LiveOpen
    <3>2. AnyOpen
      BY <1>0, <3>1 DEF Cursor
    <3>. QED
      BY <1>0, <1>3, <1>6, <3>1, <3>2 DEF Cursor, LiveAtEnd, AnyOpen
  <2>2. Unsent(tools'[i], liveCount) = delta.arguments
    <3>1. SubSeq(tools[i].arguments \o delta.arguments, Len(tools[i].arguments) + 1,
                 Len(tools[i].arguments \o delta.arguments)) = delta.arguments
      BY <1>3, <1>6, RestOfString
    <3>. QED
      BY <1>1, <1>3, <1>6, <2>1, <3>1 DEF Unsent
  <2>3. /\ liveIndex' = i /\ liveBlock' = liveBlock /\ textIndex' = None
        /\ nextIndex' = nextIndex /\ liveCount' = Len(tools'[i].arguments)
        /\ wire' = AppendDelta(TextClosed, liveBlock, Unsent(tools'[i], liveCount))
    BY <1>6 DEF EmitLive
  <2>4. wire' = AppendDelta(wire, Len(wire) - 1, delta.arguments)
    BY <2>1, <2>2, <2>3 DEF TextClosed
  <2>5. /\ Sound(wire') /\ Extends(wire, wire') /\ Len(wire') = Len(wire)
        /\ wire'[Len(wire)].kind = "tool_use" /\ wire'[Len(wire)].stops = 0
        /\ wire'[Len(wire)].content = tools'[i].arguments
    <3>1. delta.arguments \in Piece
      BY <1>3, <1>6
    <3>2. /\ Sound(wire') /\ Extends(wire, wire') /\ Len(wire') = Len(wire)
          /\ wire'[Len(wire)].kind = wire[Len(wire)].kind /\ wire'[Len(wire)].stops = 0
          /\ wire'[Len(wire)].content = wire[Len(wire)].content \o delta.arguments
      BY <1>0, <2>1, <2>4, <3>1, LastGrows
    <3>. QED
      BY <1>1, <1>3, <1>6, <2>1, <3>2
  <2>6. LiveAtEnd' /\ liveBlock' # None
    BY <1>0, <1>1, <1>6, <2>1, <2>3, <2>5 DEF LiveAtEnd, Announceable
  <2>7. TextAtEnd' /\ AnyOpen'
    BY <1>0, <2>1, <2>3, <2>5 DEF TextAtEnd, AnyOpen
  <2>. QED
    BY <1>0, <1>1, <1>2, <2>1, <2>3, <2>5, <2>6, <2>7 DEF TypeOK
<1>. QED
  BY <1>4, <1>5, <1>6

LEMMA RecordCallInv ==
    ASSUME Inv, RecordCall
    PROVE  Inv' /\ Extends(wire, wire')
<1>. DEFINE delta == Head(work)
            i     == delta.index
<1>0. /\ phase = "working" /\ Active /\ work # <<>> /\ delta \in CallDelta
      /\ Tail(work) \in Seq([text : Piece] \cup CallDelta)
      /\ UNCHANGED <<closed, read, started, remaining, ending, flagVars, streamLive>>
      /\ tools' = Recorded(delta)
  BY HeadOfWork DEF RecordCall, Working, Active
<1>. HIDE DEF delta
<1>1. /\ i \in Index /\ DOMAIN tools' = DOMAIN tools \cup {i}
      /\ \A j \in DOMAIN tools' : tools'[j] \in Call
      /\ \A j \in DOMAIN tools : j # i => tools'[j] = tools[j]
  BY <1>0, RecordedCalls
<1>2. Progress'
  <2>1. started' /\ remaining' \subseteq DOMAIN tools'
    BY <1>0, <1>1 DEF Inv, Progress
  <2>. QED
    BY <2>1 DEF Progress
<1>3. CASE streamLive /\ LiveConflict(i)
  <2>1. /\ phase' = "failed"
        /\ UNCHANGED <<liveIndex, liveBlock, liveCount, nextIndex, textIndex, wire, work>>
    BY <1>3 DEF RecordCall, delta, blockVars
  <2>2. TypeOK'
    BY <1>0, <1>1, <2>1 DEF Inv, TypeOK, Call, flagVars
  <2>3. LiveAtEnd' /\ TextAtEnd'
    BY <1>0, <1>1, <1>3, <2>1
       DEF Inv, Cursor, LiveAtEnd, TextAtEnd, AnyOpen, LiveConflict
  <2>4. Cursor'
    BY <2>1, <2>3 DEF Inv, Cursor, Active, Sound
  <2>5. Extends(wire, wire')
    BY <2>1, MessageStays DEF Inv, Cursor
  <2>. QED
    BY <1>2, <2>2, <2>4, <2>5 DEF Inv
<1>4. CASE streamLive /\ ~LiveConflict(i)
  <2>1. EmitLive(i, tools') /\ work' = Tail(work) /\ phase' = phase
    BY <1>4 DEF RecordCall, delta
  <2>2. /\ Sound(wire') /\ Extends(wire, wire')
        /\ nextIndex' = Len(wire') /\ nextIndex' \in Nat
        /\ TextAtEnd' /\ LiveAtEnd'
        /\ AnyOpen' <=> (textIndex' # None \/ liveBlock' # None)
        /\ textIndex' \in Nat \cup {None}
        /\ liveIndex' \in Nat \cup {None} /\ liveBlock' \in Nat \cup {None}
        /\ liveCount' \in Nat
    BY <1>0, <1>4, <2>1, EmitLiveInv
  <2>3. TypeOK'
    BY <1>0, <1>1, <2>1, <2>2 DEF Inv, TypeOK, Call, flagVars, Sound
  <2>4. Cursor'
    BY <1>0, <2>1, <2>2 DEF Cursor, LiveOpen
  <2>. QED
    BY <1>2, <2>2, <2>3, <2>4 DEF Inv
<1>5. CASE ~streamLive
  <2>1. /\ UNCHANGED <<liveIndex, liveBlock, liveCount, nextIndex, textIndex, wire>>
        /\ work' = Tail(work) /\ phase' = phase
    BY <1>5 DEF RecordCall, blockVars
  <2>2. TypeOK'
    BY <1>0, <1>1, <2>1 DEF Inv, TypeOK, Call, flagVars
  <2>3. liveBlock = None
    BY <1>5 DEF Inv, Cursor, LiveAtEnd
  <2>4. Cursor'
    BY <1>0, <2>1, <2>3
       DEF Inv, Cursor, LiveAtEnd, TextAtEnd, AnyOpen, Active, LiveOpen, Sound
  <2>5. Extends(wire, wire')
    BY <2>1, MessageStays DEF Inv, Cursor
  <2>. QED
    BY <1>2, <2>2, <2>4, <2>5 DEF Inv
<1>. QED
  BY <1>3, <1>4, <1>5

-----------------------------------------------------------------------------
(* The end of the stream.                                                  *)

LEMMA CloseTextInv ==
    ASSUME Inv, CloseText
    PROVE  Inv' /\ Extends(wire, wire')
<1>0. /\ phase = "closing" /\ Active /\ liveBlock = None /\ textIndex' = None
      /\ wire' = TextClosed /\ Len(wire) \in Nat
      /\ UNCHANGED <<phase, closed, read, started, flagVars, toolVars, nextIndex, work, remaining,
                     ending>>
  BY DEF CloseText, Active, Inv, Cursor, TextAtEnd, Sound
<1>1. /\ wire' \in Seq(Block) /\ Sound(wire') /\ Extends(wire, wire') /\ Len(wire') = Len(wire)
      /\ Len(wire) > 0 => wire'[Len(wire)].stops = 1
  BY <1>0, TextCloses
<1>2. TypeOK'
  BY <1>0, <1>1 DEF Inv, TypeOK, flagVars, toolVars
<1>3. ~AnyOpen' /\ TextAtEnd' /\ LiveAtEnd' /\ ~LiveOpen'
  BY <1>0, <1>1 DEF AnyOpen, TextAtEnd, LiveAtEnd, LiveOpen, toolVars, Inv, Cursor
<1>4. Cursor'
  BY <1>0, <1>1, <1>3 DEF Inv, Cursor
<1>5. Progress'
  BY <1>0, <1>1 DEF Inv, Progress, toolVars
<1>. QED
  BY <1>1, <1>2, <1>4, <1>5 DEF Inv

\* A tool block is stopped when its arguments are an object.
LEMMA LastStops ==
    ASSUME NEW bs, Sound(bs), Len(bs) > 0, bs[Len(bs)].stops = 0,
           ParsesToObject(bs[Len(bs)].content)
    PROVE  LET bs1 == StopBlock(bs, Len(bs) - 1)
           IN  /\ bs1 \in Seq(Block) /\ Sound(bs1) /\ Extends(bs, bs1) /\ Len(bs1) = Len(bs)
               /\ \A p \in 1..Len(bs) : p < Len(bs) => bs1[p] = bs[p]
               /\ bs1[Len(bs)].kind = bs[Len(bs)].kind /\ bs1[Len(bs)].label = bs[Len(bs)].label
               /\ bs1[Len(bs)].stops = 1
               /\ bs1[Len(bs)].content = bs[Len(bs)].content
<1>a. bs \in Seq(Block) /\ Len(bs) \in Nat
  BY DEF Sound
<1>b. PICK i : i = Len(bs) - 1
  OBVIOUS
<1>0. i \in Nat /\ i + 1 = Len(bs) /\ i + 1 \in 1..Len(bs)
  BY <1>a, <1>b
<1>1. PICK bs1 : bs1 = StopBlock(bs, i)
  OBVIOUS
<1>2. /\ bs1 \in Seq(Block) /\ Len(bs1) = Len(bs)
      /\ \A p \in 1..Len(bs) : p # i + 1 => bs1[p] = bs[p]
      /\ bs1[i + 1].kind = bs[i + 1].kind /\ bs1[i + 1].label = bs[i + 1].label
      /\ bs1[i + 1].stops = bs[i + 1].stops + 1
      /\ bs1[i + 1].content = bs[i + 1].content
  BY <1>a, <1>0, <1>1, StopFacts
<1>3. /\ \A p \in 1..Len(bs) : p < Len(bs) => bs1[p] = bs[p]
      /\ bs1[Len(bs)].kind = bs[Len(bs)].kind /\ bs1[Len(bs)].label = bs[Len(bs)].label
      /\ bs1[Len(bs)].stops = 1
      /\ bs1[Len(bs)].content = bs[Len(bs)].content
  <2>1. \A p \in 1..Len(bs) : p < Len(bs) => bs1[p] = bs[p]
    BY <1>a, <1>0, <1>2
  <2>2. bs1[i + 1] = bs1[Len(bs)] /\ bs[i + 1] = bs[Len(bs)]
    BY <1>0
  <2>. QED
    BY <1>2, <2>1, <2>2
<1>4. Grew(bs[Len(bs)], bs1[Len(bs)]) /\ SoundBlock(bs1[Len(bs)])
  <2>1. bs[Len(bs)].content \in Piece
    BY <1>a, BlockAt
  <2>2. <<>> \in Piece /\ bs[Len(bs)].content \o <<>> = bs[Len(bs)].content
    BY <2>1, RestOfString
  <2>. QED
    BY <1>3, <2>2 DEF Grew, SoundBlock
<1>5. Sound(bs1) /\ Extends(bs, bs1)
  BY <1>a, <1>2, <1>3, <1>4, MessageGrows
<1>. QED
  BY <1>b, <1>1, <1>2, <1>3, <1>5

\* A call that was not live is sent in one piece, start to stop.
LEMMA WholeCallWire ==
    ASSUME Inv, phase = "closing", textIndex = None, liveBlock = None,
           NEW i \in DOMAIN tools, ParsesToObject(tools[i].arguments), NEW label \in Label
    PROVE  LET bs1 == StopBlock(AppendDelta(StartBlock(wire, "tool_use", label), nextIndex,
                                            tools[i].arguments), nextIndex)
           IN  /\ bs1 \in Seq(Block) /\ Sound(bs1) /\ Extends(wire, bs1)
               /\ Len(bs1) = Len(wire) + 1
               /\ bs1[Len(bs1)].kind = "tool_use" /\ bs1[Len(bs1)].stops = 1
               /\ bs1[Len(bs1)].content = tools[i].arguments
<1>0. /\ Sound(wire) /\ wire \in Seq(Block) /\ Len(wire) \in Nat /\ nextIndex = Len(wire)
      /\ tools[i].arguments \in Piece
  BY DEF Inv, Cursor, Sound, TypeOK
<1>1. Len(wire) > 0 => wire[Len(wire)].stops = 1 /\ SoundBlock(wire[Len(wire)])
  <2>1. ~AnyOpen
    BY DEF Inv, Cursor, LiveOpen, Active
  <2>. QED
    BY <1>0, <2>1 DEF AnyOpen, Sound, SoundBlock
<1>2. PICK open : open = AppendDelta(StartBlock(wire, "tool_use", label), Len(wire),
                                     tools[i].arguments)
  OBVIOUS
<1>3. /\ open \in Seq(Block) /\ Sound(open) /\ Len(open) = Len(wire) + 1
      /\ \A p \in 1..Len(wire) : open[p] = wire[p]
      /\ open[Len(wire) + 1].kind = "tool_use" /\ open[Len(wire) + 1].stops = 0
      /\ open[Len(wire) + 1].content = tools[i].arguments
  BY <1>0, <1>1, <1>2, ToolStarts
<1>4. PICK bs1 : bs1 = StopBlock(open, Len(open) - 1)
  OBVIOUS
<1>5. /\ open[Len(open)].kind = "tool_use" /\ open[Len(open)].stops = 0
      /\ open[Len(open)].content = tools[i].arguments /\ Len(open) > 0
  BY <1>0, <1>3
<1>6. /\ bs1 \in Seq(Block) /\ Sound(bs1) /\ Len(bs1) = Len(open)
      /\ \A p \in 1..Len(open) : p < Len(open) => bs1[p] = open[p]
      /\ bs1[Len(open)].kind = "tool_use" /\ bs1[Len(open)].stops = 1
      /\ bs1[Len(open)].content = tools[i].arguments
  BY <1>3, <1>4, <1>5, LastStops
<1>7. SoundBlock(bs1[Len(bs1)])
  BY <1>5, <1>6 DEF SoundBlock
<1>8. \A p \in 1..Len(wire) : bs1[p] = wire[p]
  BY <1>0, <1>3, <1>6
<1>9. Extends(wire, bs1)
  <2>1. bs1 \in Seq(Block) /\ Len(bs1) = Len(wire) + 1
    BY <1>3, <1>6
  <2>2. Len(wire) > 0 => /\ bs1[Len(wire)] = wire[Len(wire)]
                         /\ Grew(wire[Len(wire)], bs1[Len(wire)])
                         /\ SoundBlock(bs1[Len(wire)]) /\ bs1[Len(wire)].stops = 1
    BY <1>0, <1>1, <1>8 DEF Grew
  <2>. QED
    BY <1>0, <1>7, <1>8, <2>1, <2>2, MessageGrows
<1>10. StopBlock(AppendDelta(StartBlock(wire, "tool_use", label), nextIndex,
                             tools[i].arguments), nextIndex) = bs1
  BY <1>0, <1>2, <1>3, <1>4
<1>. QED
  BY <1>3, <1>6, <1>9, <1>10

LEMMA FinishCallInv ==
    ASSUME Inv, NEW i \in Index, FinishCall(i)
    PROVE  Inv' /\ Extends(wire, wire')
<1>. DEFINE label == [id |-> tools[i].id, name |-> tools[i].name]
            args  == tools[i].arguments
<1>0. /\ phase = "closing" /\ Active /\ textIndex = None /\ i \in remaining
      /\ ~CallRejected(i) /\ remaining' = remaining \ {i} /\ i \in Nat /\ i # None
      /\ Sound(wire) /\ Len(wire) \in Nat /\ nextIndex = Len(wire)
      /\ UNCHANGED <<phase, closed, read, started, flagVars, streamLive, tools, textIndex, work,
                     ending>>
  BY ChatAssumption DEF FinishCall, Closing, Active, Inv, Cursor, Sound, None
<1>1. /\ i \in DOMAIN tools /\ tools[i] \in Call /\ args \in Piece /\ Len(args) \in Nat
      /\ label \in Label
  <2>1. i \in DOMAIN tools
    BY <1>0 DEF Inv, Progress
  <2>2. tools[i] \in Call
    BY <2>1 DEF Inv, TypeOK, Call
  <2>. QED
    BY <2>1, <2>2, LabelType DEF Call, Piece
<1>2. /\ Unsent(tools[i], 0) = args /\ ParsesToObject(args)
  <2>1. SubSeq(args, 1, Len(args)) = args
    BY <1>1, RestOfString
  <2>2. Unsent(tools[i], 0) = args
    BY <2>1 DEF Unsent
  <2>. QED
    BY <1>0, <2>2 DEF CallRejected
<1>. HIDE DEF label
<1>3. Progress'
  BY <1>0 DEF Inv, Progress
<1>4. CASE liveBlock = None
  <2>0. liveCount = 0 /\ liveIndex = None
    BY <1>4 DEF Inv, Cursor, LiveAtEnd
  <2>1. /\ wire' = StopBlock(AppendDelta(StartBlock(wire, "tool_use", label), nextIndex,
                                         Unsent(tools[i], 0)), nextIndex)
        /\ nextIndex' = nextIndex + 1
        /\ IF streamLive
           THEN liveIndex' = i /\ liveBlock' = nextIndex /\ liveCount' = Len(args)
           ELSE UNCHANGED <<liveIndex, liveBlock, liveCount>>
    BY <1>4, <2>0 DEF FinishCall, label
  <2>2. wire' = StopBlock(AppendDelta(StartBlock(wire, "tool_use", label), nextIndex,
                                      tools[i].arguments), nextIndex)
    BY <1>2, <2>1
  <2>3. /\ Sound(wire') /\ Extends(wire, wire') /\ Len(wire') = Len(wire) + 1
        /\ wire'[Len(wire')].kind = "tool_use" /\ wire'[Len(wire')].stops = 1
        /\ wire'[Len(wire')].content = args
    BY <1>0, <1>1, <1>2, <1>4, <2>2, WholeCallWire
  <2>4. ~AnyOpen'
    BY <2>3 DEF AnyOpen
  <2>5. ~LiveOpen'
    BY <1>0, <1>4, <2>1 DEF LiveOpen
  <2>6. streamLive => tools[i].name # <<>>
    BY <1>0, <1>4 DEF CallRejected, Announceable
  <2>7. LiveAtEnd'
    BY <1>0, <1>1, <1>4, <2>0, <2>1, <2>3, <2>6 DEF LiveAtEnd, None
  <2>8. TextAtEnd'
    BY <1>0 DEF TextAtEnd
  <2>9. Cursor'
    BY <1>0, <2>1, <2>3, <2>4, <2>5, <2>7, <2>8 DEF Cursor
  <2>10. TypeOK'
    BY <1>0, <1>1, <2>1, <2>3 DEF Inv, TypeOK, flagVars, Sound
  <2>. QED
    BY <1>3, <2>3, <2>9, <2>10 DEF Inv
<1>5. CASE liveBlock # None
  <2>1. /\ streamLive /\ liveIndex \in DOMAIN tools /\ liveBlock = Len(wire) - 1 /\ Len(wire) > 0
        /\ wire[Len(wire)].kind = "tool_use"
        /\ wire[Len(wire)].content = tools[liveIndex].arguments
        /\ liveCount = Len(tools[liveIndex].arguments) /\ tools[liveIndex].name # <<>>
    BY <1>5 DEF Inv, Cursor, LiveAtEnd
  <2>2. liveIndex = i
    <3>1. liveIndex \in Nat
      BY <2>1, ChatAssumption DEF Inv, TypeOK
    <3>. QED
      BY <1>0, <2>1, <3>1 DEF CallRejected, LiveConflict, None
  <2>3. wire[Len(wire)].stops = 0
    <3>1. LiveOpen
      BY <1>0, <1>5, <2>2 DEF LiveOpen
    <3>. QED
      BY <1>0, <3>1 DEF Inv, Cursor, AnyOpen
  <2>4. /\ wire' = StopBlock(AppendDelta(wire, liveBlock, Unsent(tools[i], liveCount)), liveBlock)
        /\ nextIndex' = nextIndex /\ liveIndex' = i /\ liveBlock' = liveBlock
        /\ liveCount' = Len(args)
    BY <1>5, <2>1 DEF FinishCall
  <2>5. Unsent(tools[i], liveCount) = <<>> /\ args \o <<>> = args /\ <<>> \in Piece
    BY <1>1, <2>1, <2>2, RestOfString DEF Unsent
  <2>6. PICK open : open = AppendDelta(wire, Len(wire) - 1, <<>>)
    OBVIOUS
  <2>7. /\ open \in Seq(Block) /\ Sound(open) /\ Len(open) = Len(wire)
        /\ \A p \in 1..Len(wire) : p < Len(wire) => open[p] = wire[p]
        /\ open[Len(wire)].kind = wire[Len(wire)].kind
        /\ open[Len(wire)].label = wire[Len(wire)].label
        /\ open[Len(wire)].stops = 0
        /\ open[Len(wire)].content = wire[Len(wire)].content \o <<>>
    BY <1>0, <2>1, <2>3, <2>5, <2>6, LastGrows, ZenonT(60)
  <2>8. open[Len(open)].content = args /\ ParsesToObject(open[Len(open)].content)
    BY <1>2, <2>1, <2>2, <2>5, <2>7
  <2>9. wire' = StopBlock(open, Len(open) - 1)
    BY <2>1, <2>4, <2>5, <2>6, <2>7
  <2>10. /\ wire' \in Seq(Block) /\ Sound(wire') /\ Len(wire') = Len(open)
         /\ \A p \in 1..Len(open) : p < Len(open) => wire'[p] = open[p]
         /\ wire'[Len(open)].kind = open[Len(open)].kind
         /\ wire'[Len(open)].label = open[Len(open)].label
         /\ wire'[Len(open)].stops = 1
         /\ wire'[Len(open)].content = open[Len(open)].content
    BY <2>1, <2>7, <2>8, <2>9, LastStops
  <2>11. /\ wire' \in Seq(Block) /\ Len(wire') = Len(wire)
         /\ \A p \in 1..Len(wire) : p < Len(wire) => wire'[p] = wire[p]
         /\ wire'[Len(wire)].kind = "tool_use"
         /\ wire'[Len(wire)].label = wire[Len(wire)].label
         /\ wire'[Len(wire)].stops = 1 /\ wire'[Len(wire)].content = args
    BY <1>0, <2>1, <2>7, <2>8, <2>10
  <2>12. Grew(wire[Len(wire)], wire'[Len(wire)]) /\ SoundBlock(wire'[Len(wire)])
    BY <1>2, <2>1, <2>2, <2>3, <2>5, <2>11 DEF Grew, SoundBlock
  <2>13. Extends(wire, wire')
    BY <1>0, <2>11, <2>12, MessageGrows
  <2>14. ~AnyOpen' /\ ~LiveOpen' /\ TextAtEnd'
    BY <1>0, <2>4, <2>11 DEF AnyOpen, LiveOpen, TextAtEnd
  <2>15. LiveAtEnd'
    BY <1>0, <1>5, <2>1, <2>2, <2>4, <2>11 DEF LiveAtEnd
  <2>16. Cursor'
    BY <1>0, <2>4, <2>10, <2>11, <2>14, <2>15 DEF Cursor
  <2>17. TypeOK'
    BY <1>0, <1>1, <2>4, <2>11 DEF Inv, TypeOK, flagVars
  <2>. QED
    BY <1>3, <2>13, <2>16, <2>17 DEF Inv
<1>. QED
  BY <1>4, <1>5

LEMMA ConcludeInv ==
    ASSUME Inv, Conclude
    PROVE  Inv' /\ Extends(wire, wire')
<1>1. CASE StopReason(finishReason) = Null
  <2>1. Fail
    BY <1>1 DEF Conclude
  <2>. QED
    BY <2>1, FailInv
<1>2. CASE StopReason(finishReason) # Null
  <2>. DEFINE reason == IF hasRefusal /\ DOMAIN tools = {} THEN "refusal"
                        ELSE StopReason(finishReason)
  <2>1. /\ ending' = [stop_reason |-> reason, explanation |-> Explanation(reason, refusalParts)]
        /\ phase = "closing" /\ phase' = "stopped"
        /\ UNCHANGED <<closed, read, started, flagVars, toolVars, blockVars, work, remaining>>
    BY <1>2 DEF Conclude
  <2>2. reason \in {"end_turn", "max_tokens", "tool_use", "refusal"}
    <3>1. finishReason \in {"stop", "length", "tool_calls", "content_filter"}
      BY <1>2 DEF StopReason
    <3>. QED
      BY <3>1 DEF StopReason
  <2>3. Explanation(reason, refusalParts) \in Piece \cup {Null}
    BY DEF Inv, TypeOK, Explanation
  <2>. HIDE DEF reason
  <2>4. TypeOK'
    BY <2>1, <2>2, <2>3 DEF Inv, TypeOK, flagVars, toolVars, blockVars
  <2>. QED
    BY <2>1, <2>4, QuietInv DEF Inv, Progress, Active
<1>. QED
  BY <1>1, <1>2

LEMMA LeaveInv ==
    ASSUME Inv, HangUp \/ CloseUpstream
    PROVE  Inv' /\ Extends(wire, wire')
<1>1. TypeOK'
  BY DEF Inv, TypeOK, HangUp, CloseUpstream, toolVars, flagVars, blockVars
<1>2. /\ ~Active' /\ remaining' \subseteq DOMAIN tools /\ started' = started
      /\ UNCHANGED <<toolVars, blockVars>> /\ phase' \notin {"working", "closing"}
  BY DEF HangUp, CloseUpstream, Active, Inv, Progress
<1>. QED
  BY <1>1, <1>2, QuietInv

LEMMA NextInv ==
    ASSUME Inv, [Next]_vars
    PROVE  Inv' /\ Extends(wire, wire')
<1>1. CASE UNCHANGED vars
  <2>1. TypeOK' /\ UNCHANGED <<toolVars, blockVars, phase, remaining, started>>
    BY <1>1 DEF vars, Inv, TypeOK, toolVars, flagVars, blockVars
  <2>2. (LiveOpen' <=> LiveOpen) /\ (Active' => Active)
    BY <2>1 DEF LiveOpen, Active, toolVars
  <2>. QED
    BY <2>1, <2>2, QuietInv DEF Inv, Progress
<1>2. CASE StreamFails \/ TextAfterCall
  BY <1>2, FailInv DEF StreamFails, TextAfterCall
<1>3. ASSUME NEW i \in Index, RejectCall(i) PROVE Inv' /\ Extends(wire, wire')
  BY <1>3, FailInv DEF RejectCall
<1>. QED
  BY <1>1, <1>2, <1>3, ReadInv, ReadUsageInv, EndOfStreamInv, ChunkDoneInv, EmitTextInv,
     RecordCallInv, CloseTextInv, FinishCallInv, ConcludeInv, LeaveInv
     DEF Next, Upstream, Proceed

LEMMA SpecInv == Spec => []Inv
<1>1. Inv /\ [Next]_vars => Inv'
  BY NextInv
<1>. QED
  BY <1>1, InitInv, PTL DEF Spec

-----------------------------------------------------------------------------
(* The theorems.                                                           *)

\* The variables of the Chat translator keep their types.
THEOREM TypeCorrect == Spec => []TypeOK
<1>1. Inv => TypeOK
  BY DEF Inv
<1>. QED
  BY <1>1, SpecInv, PTL

\* next_content_index counts the blocks, and text_index and live_anthropic_index
\* point at the one block that is not stopped.
THEOREM IndexesAgree == Spec => []Bookkeeping
<1>1. Inv => Bookkeeping
  <2>. SUFFICES ASSUME Inv PROVE Bookkeeping
    OBVIOUS
  <2>0. /\ wire \in Seq(Block) /\ Len(wire) \in Nat /\ nextIndex = Len(wire)
        /\ DOMAIN wire = 1..Len(wire)
        /\ \A p \in 1..Len(wire) : wire[p].stops = 0 => p = Len(wire)
    BY DEF Inv, Cursor, Sound
  <2>1. None \in {textIndex, liveBlock}
    BY DEF Inv, Cursor, TextAtEnd
  <2>2. ASSUME phase \in {"reading", "working"}
        PROVE  {p - 1 : p \in {q \in DOMAIN wire : wire[q].stops = 0}} =
                   {textIndex, liveBlock} \ {None}
    <3>1. AnyOpen <=> (textIndex # None \/ liveBlock # None)
      BY <2>2 DEF Inv, Cursor, Active, LiveOpen
    <3>2. CASE AnyOpen
      <4>1. {q \in DOMAIN wire : wire[q].stops = 0} = {Len(wire)}
        BY <2>0, <3>2 DEF AnyOpen
      <4>2. {p - 1 : p \in {q \in DOMAIN wire : wire[q].stops = 0}} = {Len(wire) - 1}
        BY <4>1
      <4>3. {textIndex, liveBlock} \ {None} = {Len(wire) - 1}
        BY <2>0, <2>1, <3>1, <3>2 DEF Inv, Cursor, TextAtEnd, LiveAtEnd, AnyOpen, None
      <4>. QED
        BY <4>2, <4>3
    <3>3. CASE ~AnyOpen
      <4>1. {q \in DOMAIN wire : wire[q].stops = 0} = {}
        BY <2>0, <3>3 DEF AnyOpen
      <4>2. textIndex = None /\ liveBlock = None
        BY <3>1, <3>3
      <4>3. {p - 1 : p \in {q \in DOMAIN wire : wire[q].stops = 0}} = {}
        BY <4>1
      <4>. QED
        BY <4>2, <4>3
    <3>. QED
      BY <3>2, <3>3
  <2>. QED
    BY <2>0, <2>1, <2>2 DEF Bookkeeping
<1>. QED
  BY <1>1, SpecInv, PTL

\* A block is only started when every block before it was stopped, live calls
\* included.
THEOREM BlocksInOrder == Spec => []OneBlockOpen
<1>1. Inv => OneBlockOpen
  BY DEF Inv, Cursor, Sound, OneBlockOpen
<1>. QED
  BY <1>1, SpecInv, PTL

\* A tool block that was stopped holds the arguments of its call, which parse to
\* an object: nothing is stopped unparsed, and nothing is appended afterwards.
THEOREM StoppedToolsParse == Spec => []StoppedToolsAreObjects
<1>1. Inv => StoppedToolsAreObjects
  BY DEF Inv, Cursor, Sound, SoundBlock, StoppedToolsAreObjects, Sealed
<1>. QED
  BY <1>1, SpecInv, PTL

LEMMA SameExtends ==
    ASSUME NEW x, NEW y
    PROVE  Client!Extends(x, y) <=> Extends(x, y)
BY DEF Client!Extends, Extends, Client!Evolves, Evolves, Client!Sealed, Sealed

\* Whatever the gateway sends, the client sees an Anthropic stream: blocks only
\* grow until they are stopped, nothing follows message_stop, an error or a
\* hang-up, and message_stop needs every block stopped.
THEOREM ContractKept == Spec => ClientContract
<1>1. Init => Client!Init
  BY DEF Init, Client!Init
<1>2. Inv /\ [Next]_vars => [Client!Next]_(Client!vars)
  <2>. SUFFICES ASSUME Inv, [Next]_vars PROVE [Client!Next]_(Client!vars)
    OBVIOUS
  <2>0. Inv' /\ Extends(wire, wire') /\ (wire' # <<>> => started')
    <3>1. Inv' /\ Extends(wire, wire')
      BY NextInv
    <3>2. wire' # <<>> => Len(wire') > 0
      BY <3>1 DEF Inv, Cursor, Sound
    <3>. QED
      BY <3>1, <3>2 DEF Inv, Progress
  <2>1. CASE UNCHANGED <<phase, started, wire>>
    BY <2>1 DEF Client!vars
  <2>2. CASE Conclude
    <3>1. CASE Fail
      BY <2>0, <3>1, <2>2, SameExtends
         DEF Fail, Conclude, Client!Next, Client!Fail, Client!Write
    <3>2. CASE ~Fail
      <4>1. /\ phase = "closing" /\ phase' = "stopped" /\ textIndex = None /\ remaining = {}
            /\ started' = started /\ wire' = wire
        BY <2>2, <3>2 DEF Conclude, blockVars
      <4>2. started /\ ~AnyOpen
        BY <4>1 DEF Inv, Progress, Cursor, Active, LiveOpen
      <4>3. \A p \in 1..Len(wire) : wire[p].stops = 1
        BY <4>2 DEF Inv, Cursor, Sound, SoundBlock, AnyOpen
      <4>. QED
        BY <2>0, <4>1, <4>2, <4>3, SameExtends
           DEF Client!Next, Client!Stop, Client!Write, Client!Sealed
    <3>. QED
      BY <3>1, <3>2
  <2>3. CASE HangUp
    BY <2>3 DEF HangUp, blockVars, Client!Next, Client!HangUp
  <2>4. CASE CloseUpstream
    BY <2>1, <2>4 DEF CloseUpstream, blockVars
  <2>5. CASE Active /\ phase' = "failed" /\ started' = started
    BY <2>0, <2>5, SameExtends DEF Active, Client!Next, Client!Fail, Client!Write
  <2>6. CASE Active /\ Active' /\ (started => started')
    BY <2>0, <2>6, SameExtends DEF Active, Client!Next, Client!Deliver, Client!Write
  <2>7. StreamFails \/ TextAfterCall \/ (\E i \in Index : RejectCall(i))
          => Active /\ phase' = "failed" /\ started' = started
    BY DEF StreamFails, TextAfterCall, RejectCall, Closing, Fail, Active
  <2>8. Upstream /\ ~StreamFails => Active /\ Active' /\ (started => started')
    BY DEF Upstream, ReadChunk, ReadUsage, EndOfStream, Active
  <2>9. EmitText \/ ChunkDone \/ CloseText \/ (\E i \in Index : FinishCall(i))
          => Active /\ Active' /\ started' = started
    BY DEF EmitText, Working, ChunkDone, CloseText, FinishCall, Closing, Active
  <2>10. RecordCall => /\ Active /\ started' = started
                       /\ phase' = "failed" \/ Active'
    BY DEF RecordCall, Working, Active
  <2>11. CASE UNCHANGED vars
    BY <2>1, <2>11 DEF vars, blockVars
  <2>. QED
    BY <2>2, <2>3, <2>4, <2>5, <2>6, <2>7, <2>8, <2>9, <2>10, <2>11 DEF Next, Proceed
<1>. QED
  BY <1>1, <1>2, SpecInv, PTL DEF Spec, ClientContract, Client!Spec
================================================================================
