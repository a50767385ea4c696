--------------------------- MODULE ChatContent_proof ---------------------------
(***************************************************************************)
(* Theorems about what the Chat translator delivers: the text, the calls,  *)
(* their identities and the ending, for every gateway.  The invariant of   *)
(* ChatStream_proof says where the translator's indexes point; the one     *)
(* here says that what was heard of the gateway is what the client or the  *)
(* record of a call has, followed by what is left of the chunk.            *)
(***************************************************************************)
EXTENDS ChatStream_proof, SequenceFacts

Alive == phase \in {"reading", "working", "closing", "stopped"}

-----------------------------------------------------------------------------
(* The items of a chunk.                                                   *)

Item == [text : Piece] \cup CallDelta
Field == {"text", "arguments", "name"}

\* The part of a text or of a delta that is about the text, or about a field of
\* call i.
IsAbout(item, field, i) ==
    IF field = "text" THEN "text" \in DOMAIN item
    ELSE "text" \notin DOMAIN item /\ item.index = i
PartOf(item, field, i) == IF IsAbout(item, field, i) THEN item[field] ELSE <<>>
Parts(items, field, i) == [k \in DOMAIN items |-> PartOf(items[k], field, i)]
Left(field, i) == FlattenSeq(Parts(work, field, i))

LEMMA EmptyPiece == <<>> \in Piece /\ \A s \in Piece : s \o <<>> = s /\ <<>> \o s = s
BY RestOfString DEF Piece

LEMMA PartType ==
    ASSUME NEW item \in Item, NEW field \in Field, NEW i
    PROVE  PartOf(item, field, i) \in Piece
<1>1. CASE "text" \in DOMAIN item
  <2>1. item.text \in Piece
    BY <1>1, WorkItem DEF Item
  <2>. QED
    BY <1>1, <2>1, EmptyPiece DEF PartOf, IsAbout
<1>2. CASE "text" \notin DOMAIN item
  <2>1. item \in CallDelta
    BY <1>2, WorkItem DEF Item
  <2>2. item.arguments \in Piece /\ item.name \in Piece
    BY <2>1 DEF CallDelta
  <2>. QED
    BY <1>2, <2>2, EmptyPiece DEF PartOf, IsAbout, Field
<1>. QED
  BY <1>1, <1>2

LEMMA PartsType ==
    ASSUME NEW items \in Seq(Item), NEW field \in Field, NEW i
    PROVE  /\ Parts(items, field, i) \in Seq(Seq(Fragment))
           /\ Len(Parts(items, field, i)) = Len(items)
           /\ \A k \in 1..Len(items) :
                 Parts(items, field, i)[k] = PartOf(items[k], field, i)
<1>1. \A k \in 1..Len(items) : PartOf(items[k], field, i) \in Seq(Fragment)
  BY PartType DEF Piece
<1>. QED
  BY <1>1 DEF Parts

LEMMA LeftType ==
    ASSUME NEW items \in Seq(Item), NEW field \in Field, NEW i
    PROVE  FlattenSeq(Parts(items, field, i)) \in Piece
BY PartsType, FlattenType DEF Piece

\* The first item of what is left.
LEMMA PartsHead ==
    ASSUME NEW items \in Seq(Item), items # <<>>, NEW field \in Field, NEW i
    PROVE  Splits(FlattenSeq(Parts(items, field, i)), PartOf(Head(items), field, i),
                  FlattenSeq(Parts(Tail(items), field, i)))
<1>1. /\ Tail(items) \in Seq(Item) /\ Len(items) = Len(Tail(items)) + 1
      /\ Head(items) = items[1]
      /\ \A k \in 1..Len(Tail(items)) : Tail(items)[k] = items[k + 1]
  OBVIOUS
<1>2. PICK rest \in Seq(Item) : rest = Tail(items)
  BY <1>1
<1>3. PICK ss \in Seq(Seq(Fragment)) :
         /\ ss = Parts(items, field, i) /\ Len(ss) = Len(items)
         /\ \A k \in 1..Len(items) : ss[k] = PartOf(items[k], field, i)
  BY PartsType
<1>4. PICK tt \in Seq(Seq(Fragment)) :
         /\ tt = Parts(rest, field, i) /\ Len(tt) = Len(rest)
         /\ \A k \in 1..Len(rest) : tt[k] = PartOf(rest[k], field, i)
  BY PartsType
<1>5. /\ Len(rest) \in Nat /\ Len(items) = Len(rest) + 1 /\ items[1] = Head(items)
      /\ \A k \in 1..Len(rest) : rest[k] = items[k + 1] /\ k + 1 \in 1..Len(items)
  BY <1>1, <1>2
<1>6. Len(ss) = Len(tt) + 1 /\ ss[1] = PartOf(Head(items), field, i)
  <2>1. 1 \in 1..Len(items)
    BY <1>5
  <2>. QED
    BY <1>3, <1>4, <1>5, <2>1
<1>7. ss # <<>>
  BY <1>4, <1>5, <1>6
<1>8. \A k \in 1..Len(tt) : tt[k] = ss[k + 1]
  BY <1>3, <1>4, <1>5
<1>9. Splits(FlattenSeq(ss), ss[1], FlattenSeq(tt))
  BY <1>6, <1>7, <1>8, FlattenRest
<1>. QED
  BY <1>2, <1>3, <1>4, <1>6, <1>9

LEMMA PartsConcat ==
    ASSUME NEW items \in Seq(Item), NEW rest \in Seq(Item), NEW field \in Field, NEW i
    PROVE  Splits(FlattenSeq(Parts(items \o rest, field, i)),
                  FlattenSeq(Parts(items, field, i)), FlattenSeq(Parts(rest, field, i)))
<1>1. PICK all \in Seq(Item) :
         /\ all = items \o rest /\ Len(all) = Len(items) + Len(rest)
         /\ \A k \in 1..Len(items) : all[k] = items[k] /\ k \in 1..Len(all)
         /\ \A k \in 1..Len(rest) : all[Len(items) + k] = rest[k]
                                    /\ Len(items) + k \in 1..Len(all)
  <2>1. /\ items \o rest \in Seq(Item) /\ Len(items \o rest) = Len(items) + Len(rest)
        /\ \A k \in 1..Len(items) : (items \o rest)[k] = items[k]
        /\ \A k \in 1..Len(rest) : (items \o rest)[Len(items) + k] = rest[k]
    OBVIOUS
  <2>2. PICK all : all = items \o rest
    OBVIOUS
  <2>3. /\ \A k \in 1..Len(items) : k \in 1..Len(all)
        /\ \A k \in 1..Len(rest) : Len(items) + k \in 1..Len(all)
    BY <2>1, <2>2
  <2>. QED
    BY <2>1, <2>2, <2>3
<1>2. PICK ss \in Seq(Seq(Fragment)) :
         /\ ss = Parts(items, field, i) /\ Len(ss) = Len(items)
         /\ \A k \in 1..Len(items) : ss[k] = PartOf(items[k], field, i)
  BY PartsType
<1>3. PICK tt \in Seq(Seq(Fragment)) :
         /\ tt = Parts(rest, field, i) /\ Len(tt) = Len(rest)
         /\ \A k \in 1..Len(rest) : tt[k] = PartOf(rest[k], field, i)
  BY PartsType
<1>4. PICK rr \in Seq(Seq(Fragment)) :
         /\ rr = Parts(all, field, i) /\ Len(rr) = Len(all)
         /\ \A k \in 1..Len(all) : rr[k] = PartOf(all[k], field, i)
  BY PartsType
<1>5. Len(rr) = Len(ss) + Len(tt) /\ \A k \in 1..Len(ss) : rr[k] = ss[k]
  BY <1>1, <1>2, <1>3, <1>4
<1>6. \A k \in 1..Len(tt) : rr[Len(ss) + k] = tt[k]
  <2>. TAKE k \in 1..Len(tt)
  <2>1. k \in 1..Len(rest) /\ Len(items) + k \in 1..Len(all)
    BY <1>1, <1>3
  <2>2. rr[Len(items) + k] = PartOf(all[Len(items) + k], field, i)
    BY <1>4, <2>1
  <2>. QED
    BY <1>1, <1>2, <1>3, <2>1, <2>2
<1>7. Splits(FlattenSeq(rr), FlattenSeq(ss), FlattenSeq(tt))
  BY <1>5, <1>6, FlattenSplit
<1>. QED
  BY <1>1, <1>2, <1>3, <1>4, <1>7

\* Items that are not about a field.
LEMMA PartsNothing ==
    ASSUME NEW items \in Seq(Item), NEW field \in Field, NEW i,
           \A k \in 1..Len(items) : ~IsAbout(items[k], field, i)
    PROVE  FlattenSeq(Parts(items, field, i)) = <<>>
<1>1. PICK ss \in Seq(Seq(Fragment)) :
         /\ ss = Parts(items, field, i) /\ Len(ss) = Len(items)
         /\ \A k \in 1..Len(items) : ss[k] = PartOf(items[k], field, i)
  BY PartsType
<1>2. \A k \in 1..Len(ss) : ss[k] = <<>>
  BY <1>1 DEF PartOf
<1>. QED
  BY <1>1, <1>2, FlattenNothing

-----------------------------------------------------------------------------
(* A chunk.                                                                *)

LEMMA ChunkType ==
    ASSUME NEW chunk \in Chunk
    PROVE  /\ chunk.content \in Piece /\ Refused(chunk) \in Piece
           /\ chunk.content \o Refused(chunk) \in Piece
           /\ chunk.calls \in Seq(CallDelta) /\ chunk.calls \in Seq(Item)
           /\ Said(chunk.content) \in Seq(Item) /\ Said(Refused(chunk)) \in Seq(Item)
           /\ Texts(chunk) \in Seq(Item)
<1>1. /\ chunk.content \in Piece /\ chunk.calls \in Seq(CallDelta)
      /\ chunk.refusal \in Piece \cup {Null}
  BY DEF Chunk
<1>2. Refused(chunk) \in Piece
  BY <1>1, EmptyPiece DEF Refused
<1>3. chunk.calls \in Seq(Item)
  BY <1>1 DEF Item
<1>4. Said(chunk.content) \in Seq(Item) /\ Said(Refused(chunk)) \in Seq(Item)
  BY <1>1, <1>2, SaidType DEF Item
<1>5. \A S : \A s1, s2 \in Seq(S) : s1 \o s2 \in Seq(S)
  OBVIOUS
<1>. QED
  BY <1>1, <1>2, <1>3, <1>4, <1>5, ConcatType DEF Texts

\* A text to say.
LEMMA SaidParts ==
    ASSUME NEW text \in Piece, NEW i
    PROVE  /\ FlattenSeq(Parts(Said(text), "text", i)) = text
           /\ \A k \in 1..Len(Said(text)) : "text" \in DOMAIN Said(text)[k]
<1>1. CASE text = <<>>
  <2>1. Said(text) = <<>> /\ Len(Said(text)) = 0
    BY <1>1 DEF Said
  <2>2. FlattenSeq(Parts(<<>>, "text", i)) = <<>>
    <3>1. Parts(<<>>, "text", i) = <<>>
      BY DEF Parts
    <3>. QED
      BY <3>1, FlattenEmpty
  <2>. QED
    BY <1>1, <2>1, <2>2
<1>2. CASE text # <<>>
  <2>1. PICK item : item = [text |-> text]
    OBVIOUS
  <2>2. DOMAIN item = {"text"} /\ item["text"] = text /\ item \in Item
    BY <2>1 DEF Item
  <2>3. PICK items \in Seq(Item) : items = <<item>>
    <3>1. <<item>> \in Seq(Item)
      BY <2>2
    <3>. QED
      BY <3>1
  <2>4. Said(text) = items /\ Len(items) = 1 /\ items[1] = item
    BY <1>2, <2>1, <2>3 DEF Said
  <2>5. PICK ss \in Seq(Seq(Fragment)) :
           /\ ss = Parts(items, "text", i) /\ Len(ss) = Len(items)
           /\ \A k \in 1..Len(items) : ss[k] = PartOf(items[k], "text", i)
    BY PartsType DEF Field
  <2>6. ss[1] = text /\ Len(ss) = 1
    BY <2>2, <2>4, <2>5 DEF PartOf, IsAbout
  <2>7. FlattenSeq(ss) = text
    BY <2>6, FlattenOne
  <2>. QED
    BY <2>2, <2>4, <2>5, <2>7
<1>. QED
  BY <1>1, <1>2

\* The calls of a chunk have no text.
LEMMA CallParts ==
    ASSUME NEW calls \in Seq(CallDelta), NEW i
    PROVE  /\ FlattenSeq(Parts(calls, "text", i)) = <<>>
           /\ FlattenSeq(Parts(calls, "arguments", i)) = ArgumentsIn(calls, i)
           /\ FlattenSeq(Parts(calls, "name", i)) = NameIn(calls, i)
<1>1. calls \in Seq(Item) /\ DOMAIN calls = 1..Len(calls)
  BY DEF Item
<1>2. \A k \in 1..Len(calls) :
         DOMAIN calls[k] = {"index", "id", "name", "arguments"}
  <2>1. \A call \in CallDelta : DOMAIN call = {"index", "id", "name", "arguments"}
    BY DEF CallDelta
  <2>2. \A k \in 1..Len(calls) : calls[k] \in CallDelta
    OBVIOUS
  <2>. QED
    BY <2>1, <2>2
<1>3. FlattenSeq(Parts(calls, "text", i)) = <<>>
  <2>1. \A k \in 1..Len(calls) : ~IsAbout(calls[k], "text", i)
    BY <1>2 DEF IsAbout
  <2>. QED
    BY <1>1, <2>1, PartsNothing DEF Field
<1>4. \A k \in DOMAIN calls :
         /\ PartOf(calls[k], "arguments", i) =
                IF calls[k].index = i THEN calls[k].arguments ELSE <<>>
         /\ PartOf(calls[k], "name", i) = IF calls[k].index = i THEN calls[k].name ELSE <<>>
  BY <1>1, <1>2 DEF PartOf, IsAbout
<1>. QED
  BY <1>3, <1>4 DEF Parts, ArgumentsIn, NameIn

LEMMA PartsOfChunk ==
    ASSUME NEW chunk \in Chunk, NEW i
    PROVE  LET items == Texts(chunk) \o chunk.calls
           IN  /\ items \in Seq(Item)
               /\ FlattenSeq(Parts(items, "text", i)) = chunk.content \o Refused(chunk)
               /\ FlattenSeq(Parts(items, "arguments", i)) = ArgumentsIn(chunk.calls, i)
               /\ FlattenSeq(Parts(items, "name", i)) = NameIn(chunk.calls, i)
<1>0. /\ chunk.content \in Piece /\ Refused(chunk) \in Piece
      /\ chunk.content \o Refused(chunk) \in Piece
      /\ chunk.calls \in Seq(CallDelta) /\ chunk.calls \in Seq(Item)
      /\ Said(chunk.content) \in Seq(Item) /\ Said(Refused(chunk)) \in Seq(Item)
      /\ Texts(chunk) \in Seq(Item)
  BY ChunkType
<1>1. PICK said \in Seq(Item) : said = Said(chunk.content)
  BY <1>0
<1>2. PICK refused \in Seq(Item) : refused = Said(Refused(chunk))
  BY <1>0
<1>3. PICK texts \in Seq(Item) : texts = said \o refused
  BY <1>0, <1>1, <1>2 DEF Texts
<1>4. PICK calls \in Seq(Item) : calls = chunk.calls
  BY <1>0
<1>5. Texts(chunk) \o chunk.calls = texts \o calls /\ texts \o calls \in Seq(Item)
  <2>1. texts \o calls \in Seq(Item)
    BY ConcatProperties
  <2>. QED
    BY <1>1, <1>2, <1>3, <1>4, <2>1 DEF Texts
<1>6. /\ FlattenSeq(Parts(said, "text", i)) = chunk.content
      /\ FlattenSeq(Parts(refused, "text", i)) = Refused(chunk)
      /\ \A k \in 1..Len(said) : "text" \in DOMAIN said[k]
      /\ \A k \in 1..Len(refused) : "text" \in DOMAIN refused[k]
  BY <1>0, <1>1, <1>2, SaidParts
<1>7. FlattenSeq(Parts(texts \o calls, "text", i)) = chunk.content \o Refused(chunk)
  <2>1. Splits(FlattenSeq(Parts(said \o refused, "text", i)),
               FlattenSeq(Parts(said, "text", i)), FlattenSeq(Parts(refused, "text", i)))
    BY PartsConcat DEF Field
  <2>2. Splits(FlattenSeq(Parts(texts \o calls, "text", i)),
               FlattenSeq(Parts(texts, "text", i)), FlattenSeq(Parts(calls, "text", i)))
    BY PartsConcat DEF Field
  <2>3. FlattenSeq(Parts(calls, "text", i)) = <<>>
    BY <1>0, <1>4, CallParts
  <2>4. FlattenSeq(Parts(texts, "text", i)) = chunk.content \o Refused(chunk)
    BY <1>3, <1>6, <2>1 DEF Splits
  <2>5. (chunk.content \o Refused(chunk)) \o <<>> = chunk.content \o Refused(chunk)
    BY <1>0, EmptyPiece
  <2>. QED
    BY <2>2, <2>3, <2>4, <2>5 DEF Splits
<1>8. ASSUME NEW field \in {"arguments", "name"}
      PROVE  FlattenSeq(Parts(texts \o calls, field, i)) = FlattenSeq(Parts(calls, field, i))
  <2>1. field \in Field /\ field # "text"
    BY DEF Field
  <2>2. \A k \in 1..Len(said) : ~IsAbout(said[k], field, i)
    BY <1>6, <2>1 DEF IsAbout
  <2>3. \A k \in 1..Len(refused) : ~IsAbout(refused[k], field, i)
    BY <1>6, <2>1 DEF IsAbout
  <2>4. FlattenSeq(Parts(said, field, i)) = <<>>
    BY <2>1, <2>2, PartsNothing
  <2>5. FlattenSeq(Parts(refused, field, i)) = <<>>
    BY <2>1, <2>3, PartsNothing
  <2>6. Splits(FlattenSeq(Parts(said \o refused, field, i)),
               FlattenSeq(Parts(said, field, i)), FlattenSeq(Parts(refused, field, i)))
    BY <2>1, PartsConcat
  <2>7. Splits(FlattenSeq(Parts(texts \o calls, field, i)),
               FlattenSeq(Parts(texts, field, i)), FlattenSeq(Parts(calls, field, i)))
    BY <2>1, PartsConcat
  <2>8. FlattenSeq(Parts(calls, field, i)) \in Piece
    BY <2>1, LeftType
  <2>. QED
    BY <1>3, <2>4, <2>5, <2>6, <2>7, <2>8, EmptyPiece DEF Splits
<1>9. /\ FlattenSeq(Parts(calls, "arguments", i)) = ArgumentsIn(chunk.calls, i)
      /\ FlattenSeq(Parts(calls, "name", i)) = NameIn(chunk.calls, i)
  BY <1>0, <1>4, CallParts
<1>. QED
  BY <1>5, <1>7, <1>8, <1>9

-----------------------------------------------------------------------------
(* What was heard.                                                         *)

TextsHeard(chunks) == [n \in DOMAIN chunks |-> chunks[n].content \o Refused(chunks[n])]
RefusalsHeard(chunks) == [n \in DOMAIN chunks |-> Refused(chunks[n])]
ArgumentsHeard(chunks, i) == [n \in DOMAIN chunks |-> ArgumentsIn(chunks[n].calls, i)]
NamesHeard(chunks, i) == [n \in DOMAIN chunks |-> NameIn(chunks[n].calls, i)]

LEMMA InType ==
    ASSUME NEW chunk \in Chunk, NEW i
    PROVE  ArgumentsIn(chunk.calls, i) \in Piece /\ NameIn(chunk.calls, i) \in Piece
<1>1. chunk.calls \in Seq(CallDelta) /\ chunk.calls \in Seq(Item)
  BY ChunkType
<1>2. /\ FlattenSeq(Parts(chunk.calls, "arguments", i)) \in Piece
      /\ FlattenSeq(Parts(chunk.calls, "name", i)) \in Piece
  BY <1>1, LeftType DEF Field
<1>. QED
  BY <1>1, <1>2, CallParts

LEMMA HeardType ==
    ASSUME NEW chunks \in Seq(Chunk), NEW i
    PROVE  /\ TextsHeard(chunks) \in Seq(Seq(Fragment))
           /\ RefusalsHeard(chunks) \in Seq(Seq(Fragment))
           /\ ArgumentsHeard(chunks, i) \in Seq(Seq(Fragment))
           /\ NamesHeard(chunks, i) \in Seq(Seq(Fragment))
           /\ Len(TextsHeard(chunks)) = Len(chunks) /\ Len(RefusalsHeard(chunks)) = Len(chunks)
           /\ Len(ArgumentsHeard(chunks, i)) = Len(chunks)
           /\ Len(NamesHeard(chunks, i)) = Len(chunks)
<1>0. DOMAIN chunks = 1..Len(chunks) /\ \A n \in 1..Len(chunks) : chunks[n] \in Chunk
  OBVIOUS
<1>1. \A n \in 1..Len(chunks) : chunks[n].content \o Refused(chunks[n]) \in Seq(Fragment)
  BY <1>0, ChunkType DEF Piece
<1>2. \A n \in 1..Len(chunks) : Refused(chunks[n]) \in Seq(Fragment)
  BY <1>0, ChunkType DEF Piece
<1>3. \A n \in 1..Len(chunks) : ArgumentsIn(chunks[n].calls, i) \in Seq(Fragment)
  BY <1>0, InType DEF Piece
<1>4. \A n \in 1..Len(chunks) : NameIn(chunks[n].calls, i) \in Seq(Fragment)
  BY <1>0, InType DEF Piece
<1>5. TextsHeard(chunks) \in Seq(Seq(Fragment)) /\ Len(TextsHeard(chunks)) = Len(chunks)
  BY <1>0, <1>1 DEF TextsHeard
<1>6. RefusalsHeard(chunks) \in Seq(Seq(Fragment)) /\ Len(RefusalsHeard(chunks)) = Len(chunks)
  BY <1>0, <1>2 DEF RefusalsHeard
<1>7. /\ ArgumentsHeard(chunks, i) \in Seq(Seq(Fragment))
      /\ Len(ArgumentsHeard(chunks, i)) = Len(chunks)
  BY <1>0, <1>3 DEF ArgumentsHeard
<1>8. NamesHeard(chunks, i) \in Seq(Seq(Fragment)) /\ Len(NamesHeard(chunks, i)) = Len(chunks)
  BY <1>0, <1>4 DEF NamesHeard
<1>. QED
  BY <1>5, <1>6, <1>7, <1>8

LEMMA HeardPieces ==
    ASSUME Inv, NEW i
    PROVE  /\ HeardText = FlattenSeq(TextsHeard(read)) /\ HeardText \in Piece
           /\ HeardRefusal = FlattenSeq(RefusalsHeard(read)) /\ HeardRefusal \in Piece
           /\ ArgumentsOf(i) = FlattenSeq(ArgumentsHeard(read, i)) /\ ArgumentsOf(i) \in Piece
           /\ NameOf(i) = FlattenSeq(NamesHeard(read, i)) /\ NameOf(i) \in Piece
<1>1. read \in Seq(Chunk)
  BY DEF Inv, TypeOK
<1>2. /\ HeardText = FlattenSeq(TextsHeard(read))
      /\ HeardRefusal = FlattenSeq(RefusalsHeard(read))
      /\ ArgumentsOf(i) = FlattenSeq(ArgumentsHeard(read, i))
      /\ NameOf(i) = FlattenSeq(NamesHeard(read, i))
  BY DEF HeardText, TextsHeard, HeardRefusal, RefusalsHeard, ArgumentsOf, ArgumentsHeard,
         NameOf, NamesHeard
<1>. QED
  BY <1>1, <1>2, HeardType, FlattenType DEF Piece

\* Another chunk is heard.
LEMMA HeardMore ==
    ASSUME Inv, NEW chunk \in Chunk, read' = Append(read, chunk), NEW i
    PROVE  /\ Splits(HeardText', HeardText, chunk.content \o Refused(chunk))
           /\ Splits(HeardRefusal', HeardRefusal, Refused(chunk))
           /\ Splits(ArgumentsOf(i)', ArgumentsOf(i), ArgumentsIn(chunk.calls, i))
           /\ Splits(NameOf(i)', NameOf(i), NameIn(chunk.calls, i))
<1>0. read \in Seq(Chunk)
  BY DEF Inv, TypeOK
<1>1. PICK more \in Seq(Chunk) :
         /\ more = Append(read, chunk) /\ Len(more) = Len(read) + 1
         /\ more[Len(read) + 1] = chunk /\ \A n \in 1..Len(read) : more[n] = read[n]
  <2>1. /\ Append(read, chunk) \in Seq(Chunk) /\ Len(Append(read, chunk)) = Len(read) + 1
        /\ Append(read, chunk)[Len(read) + 1] = chunk
        /\ \A n \in 1..Len(read) : Append(read, chunk)[n] = read[n]
    BY <1>0
  <2>. QED
    BY <2>1
<1>2. /\ DOMAIN more = 1..Len(more) /\ DOMAIN read = 1..Len(read) /\ Len(read) \in Nat
      /\ Len(read) + 1 \in 1..Len(more) /\ \A n \in 1..Len(read) : n \in 1..Len(more)
  BY <1>0, <1>1
<1>3. Splits(FlattenSeq(TextsHeard(more)), FlattenSeq(TextsHeard(read)),
             chunk.content \o Refused(chunk))
  <2>1. /\ TextsHeard(more)[Len(read) + 1] = chunk.content \o Refused(chunk)
        /\ \A n \in 1..Len(read) : TextsHeard(more)[n] = TextsHeard(read)[n]
    BY <1>1, <1>2 DEF TextsHeard
  <2>2. PICK tt \in Seq(Seq(Fragment)) : tt = TextsHeard(more) /\ Len(tt) = Len(more)
    BY HeardType
  <2>3. PICK ss \in Seq(Seq(Fragment)) : ss = TextsHeard(read) /\ Len(ss) = Len(read)
    BY <1>0, HeardType
  <2>4. chunk.content \o Refused(chunk) \in Seq(Fragment)
    BY ChunkType DEF Piece
  <2>5. PICK t \in Seq(Fragment) : t = chunk.content \o Refused(chunk)
    BY <2>4
  <2>. QED
    BY <1>1, <2>1, <2>2, <2>3, <2>5, FlattenMore
<1>4. Splits(FlattenSeq(RefusalsHeard(more)), FlattenSeq(RefusalsHeard(read)), Refused(chunk))
  <2>1. /\ RefusalsHeard(more)[Len(read) + 1] = Refused(chunk)
        /\ \A n \in 1..Len(read) : RefusalsHeard(more)[n] = RefusalsHeard(read)[n]
    BY <1>1, <1>2 DEF RefusalsHeard
  <2>2. PICK tt \in Seq(Seq(Fragment)) : tt = RefusalsHeard(more) /\ Len(tt) = Len(more)
    BY HeardType
  <2>3. PICK ss \in Seq(Seq(Fragment)) : ss = RefusalsHeard(read) /\ Len(ss) = Len(read)
    BY <1>0, HeardType
  <2>4. Refused(chunk) \in Seq(Fragment)
    BY ChunkType DEF Piece
  <2>5. PICK t \in Seq(Fragment) : t = Refused(chunk)
    BY <2>4
  <2>. QED
    BY <1>1, <2>1, <2>2, <2>3, <2>5, FlattenMore
<1>5. Splits(FlattenSeq(ArgumentsHeard(more, i)), FlattenSeq(ArgumentsHeard(read, i)),
             ArgumentsIn(chunk.calls, i))
  <2>1. /\ ArgumentsHeard(more, i)[Len(read) + 1] = ArgumentsIn(chunk.calls, i)
        /\ \A n \in 1..Len(read) : ArgumentsHeard(more, i)[n] = ArgumentsHeard(read, i)[n]
    BY <1>1, <1>2 DEF ArgumentsHeard
  <2>2. PICK tt \in Seq(Seq(Fragment)) : tt = ArgumentsHeard(more, i) /\ Len(tt) = Len(more)
    BY HeardType
  <2>3. PICK ss \in Seq(Seq(Fragment)) : ss = ArgumentsHeard(read, i) /\ Len(ss) = Len(read)
    BY <1>0, HeardType
  <2>4. ArgumentsIn(chunk.calls, i) \in Seq(Fragment)
    BY InType DEF Piece
  <2>5. PICK t \in Seq(Fragment) : t = ArgumentsIn(chunk.calls, i)
    BY <2>4
  <2>. QED
    BY <1>1, <2>1, <2>2, <2>3, <2>5, FlattenMore
<1>6. Splits(FlattenSeq(NamesHeard(more, i)), FlattenSeq(NamesHeard(read, i)),
             NameIn(chunk.calls, i))
  <2>1. /\ NamesHeard(more, i)[Len(read) + 1] = NameIn(chunk.calls, i)
        /\ \A n \in 1..Len(read) : NamesHeard(more, i)[n] = NamesHeard(read, i)[n]
    BY <1>1, <1>2 DEF NamesHeard
  <2>2. PICK tt \in Seq(Seq(Fragment)) : tt = NamesHeard(more, i) /\ Len(tt) = Len(more)
    BY HeardType
  <2>3. PICK ss \in Seq(Seq(Fragment)) : ss = NamesHeard(read, i) /\ Len(ss) = Len(read)
    BY <1>0, HeardType
  <2>4. NameIn(chunk.calls, i) \in Seq(Fragment)
    BY InType DEF Piece
  <2>5. PICK t \in Seq(Fragment) : t = NameIn(chunk.calls, i)
    BY <2>4
  <2>. QED
    BY <1>1, <2>1, <2>2, <2>3, <2>5, FlattenMore
<1>7. /\ HeardText' = FlattenSeq(TextsHeard(more))
      /\ HeardRefusal' = FlattenSeq(RefusalsHeard(more))
      /\ ArgumentsOf(i)' = FlattenSeq(ArgumentsHeard(more, i))
      /\ NameOf(i)' = FlattenSeq(NamesHeard(more, i))
  BY <1>1 DEF HeardText, TextsHeard, HeardRefusal, RefusalsHeard, ArgumentsOf, ArgumentsHeard,
              NameOf, NamesHeard
<1>. QED
  BY <1>3, <1>4, <1>5, <1>6, <1>7, HeardPieces

-----------------------------------------------------------------------------
(* The text on the wire.                                                   *)

TextOf(b) == IF b.kind = "text" THEN b.content ELSE <<>>
BlockTexts(bs) == [p \in DOMAIN bs |-> TextOf(bs[p])]

LEMMA BlockTextsType ==
    ASSUME NEW bs \in Seq(Block)
    PROVE  /\ BlockTexts(bs) \in Seq(Seq(Fragment)) /\ Len(BlockTexts(bs)) = Len(bs)
           /\ \A p \in 1..Len(bs) : BlockTexts(bs)[p] = TextOf(bs[p])
           /\ FlattenSeq(BlockTexts(bs)) \in Piece
<1>1. \A p \in 1..Len(bs) : TextOf(bs[p]) \in Seq(Fragment)
  <2>. TAKE p \in 1..Len(bs)
  <2>1. bs[p].content \in Piece
    BY BlockAt
  <2>. QED
    BY <2>1, EmptyPiece DEF Piece, TextOf
<1>2. /\ BlockTexts(bs) \in Seq(Seq(Fragment)) /\ Len(BlockTexts(bs)) = Len(bs)
      /\ \A p \in 1..Len(bs) : BlockTexts(bs)[p] = TextOf(bs[p])
  BY <1>1 DEF BlockTexts
<1>. QED
  BY <1>2, FlattenType DEF Piece

LEMMA ShownTextType ==
    ASSUME Inv
    PROVE  ShownText = FlattenSeq(BlockTexts(wire)) /\ ShownText \in Piece
<1>1. ShownText = FlattenSeq(BlockTexts(wire))
  BY DEF ShownText, BlockTexts, TextOf
<1>. QED
  BY <1>1, BlockTextsType DEF Inv, TypeOK

LEMMA TextsStay ==
    ASSUME NEW bs \in Seq(Block), NEW bs1 \in Seq(Block), Len(bs1) = Len(bs),
           \A p \in 1..Len(bs) : TextOf(bs1[p]) = TextOf(bs[p])
    PROVE  FlattenSeq(BlockTexts(bs1)) = FlattenSeq(BlockTexts(bs))
<1>1. DOMAIN bs = 1..Len(bs) /\ DOMAIN bs1 = 1..Len(bs)
  OBVIOUS
<1>2. BlockTexts(bs1) = BlockTexts(bs)
  BY <1>1 DEF BlockTexts
<1>. QED
  BY <1>2

LEMMA TextsMore ==
    ASSUME NEW bs \in Seq(Block), NEW bs1 \in Seq(Block), Len(bs1) = Len(bs) + 1,
           \A p \in 1..Len(bs) : TextOf(bs1[p]) = TextOf(bs[p])
    PROVE  Splits(FlattenSeq(BlockTexts(bs1)), FlattenSeq(BlockTexts(bs)),
                  TextOf(bs1[Len(bs) + 1]))
<1>1. PICK ss \in Seq(Seq(Fragment)) :
         /\ ss = BlockTexts(bs) /\ Len(ss) = Len(bs)
         /\ \A p \in 1..Len(bs) : ss[p] = TextOf(bs[p])
  BY BlockTextsType
<1>2. PICK tt \in Seq(Seq(Fragment)) :
         /\ tt = BlockTexts(bs1) /\ Len(tt) = Len(bs1)
         /\ \A p \in 1..Len(bs1) : tt[p] = TextOf(bs1[p])
  BY BlockTextsType
<1>3. /\ Len(bs) + 1 \in 1..Len(bs1) /\ Len(bs) + 1 \in 1..Len(tt)
      /\ \A p \in 1..Len(bs) : p \in 1..Len(bs1)
  BY <1>2
<1>4. PICK t \in Seq(Fragment) : t = TextOf(bs1[Len(bs) + 1]) /\ tt[Len(bs) + 1] = t
  BY <1>2, <1>3
<1>5. /\ Len(tt) = Len(ss) + 1 /\ tt[Len(ss) + 1] = t
      /\ \A p \in 1..Len(ss) : tt[p] = ss[p]
  BY <1>1, <1>2, <1>3, <1>4
<1>6. Splits(FlattenSeq(tt), FlattenSeq(ss), t)
  BY <1>5, FlattenMore
<1>. QED
  BY <1>1, <1>2, <1>4, <1>6

LEMMA TextsLonger ==
    ASSUME NEW bs \in Seq(Block), NEW bs1 \in Seq(Block), NEW t \in Piece,
           Len(bs1) = Len(bs), Len(bs) > 0,
           \A p \in 1..Len(bs) : p < Len(bs) => bs1[p] = bs[p],
           TextOf(bs1[Len(bs)]) = TextOf(bs[Len(bs)]) \o t
    PROVE  Splits(FlattenSeq(BlockTexts(bs1)), FlattenSeq(BlockTexts(bs)), t)
<1>1. PICK ss \in Seq(Seq(Fragment)) :
         /\ ss = BlockTexts(bs) /\ Len(ss) = Len(bs)
         /\ \A p \in 1..Len(bs) : ss[p] = TextOf(bs[p])
  BY BlockTextsType
<1>2. PICK tt \in Seq(Seq(Fragment)) :
         /\ tt = BlockTexts(bs1) /\ Len(tt) = Len(bs1)
         /\ \A p \in 1..Len(bs1) : tt[p] = TextOf(bs1[p])
  BY BlockTextsType
<1>3. Len(bs) \in 1..Len(bs)
  OBVIOUS
<1>4. /\ Len(ss) > 0 /\ Len(tt) = Len(ss)
      /\ \A p \in 1..Len(ss) : p < Len(ss) => tt[p] = ss[p]
  BY <1>1, <1>2
<1>5. tt[Len(ss)] = ss[Len(ss)] \o t
  BY <1>1, <1>2, <1>3
<1>6. t \in Seq(Fragment)
  BY DEF Piece
<1>7. Splits(FlattenSeq(tt), FlattenSeq(ss), t)
  BY <1>4, <1>5, <1>6, FlattenLonger
<1>. QED
  BY <1>1, <1>2, <1>7

-----------------------------------------------------------------------------
(* What the actions do to the wire.                                        *)

\* Blocks before the last do not change, and the last keeps its kind and label.
LEMMA BlocksKept ==
    ASSUME Inv, Inv', Extends(wire, wire')
    PROVE  /\ Len(wire) \in Nat /\ Len(wire') \in Nat /\ Len(wire) <= Len(wire')
           /\ DOMAIN wire = 1..Len(wire) /\ DOMAIN wire' = 1..Len(wire')
           /\ \A p \in 1..Len(wire) :
                 /\ wire'[p].kind = wire[p].kind /\ wire'[p].label = wire[p].label
                 /\ p < Len(wire) \/ wire[p].stops = 1 => wire'[p] = wire[p]
<1>1. /\ wire \in Seq(Block) /\ wire' \in Seq(Block)
      /\ \A p \in 1..Len(wire) : SoundBlock(wire[p]) /\ (wire[p].stops = 0 => p = Len(wire))
  BY DEF Inv, Cursor, Sound
<1>2. Len(wire) <= Len(wire') /\ \A p \in 1..Len(wire) : Evolves(wire[p], wire'[p])
  BY DEF Extends
<1>3. ASSUME NEW p \in 1..Len(wire)
      PROVE  /\ wire'[p].kind = wire[p].kind /\ wire'[p].label = wire[p].label
             /\ p < Len(wire) \/ wire[p].stops = 1 => wire'[p] = wire[p]
  <2>1. /\ wire'[p].kind = wire[p].kind /\ wire'[p].label = wire[p].label
        /\ wire[p].stops = 1 => wire'[p] = wire[p]
    BY <1>2 DEF Evolves, Sealed
  <2>2. p < Len(wire) => wire[p].stops = 1
    BY <1>1 DEF SoundBlock
  <2>. QED
    BY <2>1, <2>2
<1>. QED
  BY <1>1, <1>2, <1>3

\* When no text block is open, the text does not change before the new blocks.
LEMMA TextsKept ==
    ASSUME Inv, Inv', Extends(wire, wire'), Active, textIndex = None
    PROVE  \A p \in 1..Len(wire) : TextOf(wire'[p]) = TextOf(wire[p])
<1>1. ASSUME NEW p \in 1..Len(wire), ~(p < Len(wire) \/ wire[p].stops = 1)
      PROVE  wire[p].kind # "text"
  <2>1. p = Len(wire) /\ wire[Len(wire)].stops = 0 /\ Len(wire) > 0
    BY <1>1, BlocksKept DEF Inv, Cursor, Sound, SoundBlock
  <2>2. liveBlock # None
    BY <2>1 DEF Inv, Cursor, AnyOpen, LiveOpen
  <2>. QED
    BY <2>1, <2>2 DEF Inv, Cursor, LiveAtEnd
<1>. QED
  BY <1>1, BlocksKept DEF TextOf

LEMMA ClosedTextBlocks ==
    ASSUME Inv
    PROVE  /\ TextClosed \in Seq(Block) /\ Len(TextClosed) = Len(wire)
           /\ \A p \in 1..Len(wire) : /\ TextClosed[p].kind = wire[p].kind
                                      /\ TextClosed[p].label = wire[p].label
                                      /\ TextClosed[p].content = wire[p].content
<1>0. wire \in Seq(Block) /\ Len(wire) \in Nat
  BY DEF Inv, Cursor, Sound
<1>1. CASE textIndex = None
  BY <1>0, <1>1 DEF TextClosed
<1>2. CASE textIndex # None
  <2>1. textIndex \in Nat /\ textIndex + 1 \in 1..Len(wire)
    BY <1>0, <1>2 DEF Inv, TypeOK, Cursor, TextAtEnd, AnyOpen
  <2>2. PICK closing : closing = StopBlock(wire, textIndex)
    OBVIOUS
  <2>3. /\ closing \in Seq(Block) /\ Len(closing) = Len(wire)
        /\ \A p \in 1..Len(wire) : p # textIndex + 1 => closing[p] = wire[p]
        /\ closing[textIndex + 1].kind = wire[textIndex + 1].kind
        /\ closing[textIndex + 1].label = wire[textIndex + 1].label
        /\ closing[textIndex + 1].content = wire[textIndex + 1].content
    BY <1>0, <2>1, <2>2, StopFacts
  <2>4. TextClosed = closing
    BY <1>2, <2>2 DEF TextClosed
  <2>. QED
    BY <2>3, <2>4
<1>. QED
  BY <1>1, <1>2

\* A text is appended to what the client has, and no tool block is touched.
LEMMA EmitTextWire ==
    ASSUME Inv, EmitText
    PROVE  /\ Splits(ShownText', ShownText, Head(work).text)
           /\ ToolBlocks' = ToolBlocks
           /\ \A p \in ToolBlocks : wire'[p] = wire[p]
<1>0. /\ phase = "working" /\ Active /\ work # <<>> /\ liveBlock = None
      /\ Head(work).text \in Piece /\ wire \in Seq(Block) /\ Len(wire) \in Nat
      /\ nextIndex = Len(wire) /\ Inv' /\ Extends(wire, wire') /\ wire' \in Seq(Block)
  BY HeadOfWork, EmitTextInv DEF EmitText, Working, Active, Inv, Cursor, Sound
<1>1. PICK t \in Piece : t = Head(work).text
  BY <1>0
<1>2. wire' = AppendDelta(IF textIndex = None THEN StartBlock(wire, "text", Null) ELSE wire,
                          IF textIndex = None THEN nextIndex ELSE textIndex, t)
  BY <1>1 DEF EmitText
<1>3. CASE textIndex = None
  <2>1. "text" \in Kind /\ Null \in Label
    BY DEF Kind, Label
  <2>2. wire' = AppendDelta(StartBlock(wire, "text", Null), Len(wire), t)
    BY <1>0, <1>2, <1>3
  <2>3. /\ Len(wire') = Len(wire) + 1
        /\ \A p \in 1..Len(wire) : wire'[p] = wire[p]
        /\ wire'[Len(wire) + 1].kind = "text" /\ wire'[Len(wire) + 1].content = t
    BY <1>0, <2>1, <2>2, OpenFacts
  <2>4. TextOf(wire'[Len(wire) + 1]) = t
    BY <2>3 DEF TextOf
  <2>5. Splits(FlattenSeq(BlockTexts(wire')), FlattenSeq(BlockTexts(wire)), t)
    BY <1>0, <2>3, <2>4, TextsMore
  <2>6. ToolBlocks' = ToolBlocks /\ \A p \in ToolBlocks : wire'[p] = wire[p]
    BY <1>0, <2>3, BlocksKept DEF ToolBlocks
  <2>. QED
    BY <1>1, <2>5, <2>6 DEF ShownText, BlockTexts, TextOf
<1>4. CASE textIndex # None
  <2>1. /\ textIndex = Len(wire) - 1 /\ Len(wire) > 0 /\ wire[Len(wire)].kind = "text"
    BY <1>4 DEF Inv, Cursor, TextAtEnd, AnyOpen
  <2>2. textIndex \in Nat /\ textIndex + 1 = Len(wire) /\ textIndex + 1 \in 1..Len(wire)
    BY <1>0, <2>1
  <2>3. wire' = AppendDelta(wire, textIndex, t)
    BY <1>2, <1>4
  <2>4. /\ Len(wire') = Len(wire)
        /\ \A p \in 1..Len(wire) : p # textIndex + 1 => wire'[p] = wire[p]
        /\ wire'[textIndex + 1].kind = wire[textIndex + 1].kind
        /\ wire'[textIndex + 1].content = wire[textIndex + 1].content \o t
    <3>1. PICK i \in Nat : i = textIndex /\ i + 1 = Len(wire) /\ i + 1 \in 1..Len(wire)
      BY <2>2
    <3>2. PICK bs : bs = AppendDelta(wire, i, t)
      OBVIOUS
    <3>3. /\ Len(bs) = Len(wire)
          /\ \A p \in 1..Len(wire) : p # i + 1 => bs[p] = wire[p]
          /\ bs[i + 1].kind = wire[i + 1].kind
          /\ bs[i + 1].content = wire[i + 1].content \o t
      <4>1. wire \in Seq(Block) /\ i + 1 \in 1..Len(wire)
        BY <1>0, <3>1
      <4>. QED
        BY <3>2, <4>1, AppendFacts
    <3>4. wire' = bs
      BY <2>3, <3>1, <3>2
    <3>. QED
      BY <3>1, <3>3, <3>4
  <2>5. /\ \A p \in 1..Len(wire) : p < Len(wire) => wire'[p] = wire[p]
        /\ TextOf(wire'[Len(wire)]) = TextOf(wire[Len(wire)]) \o t
        /\ wire'[Len(wire)].kind = "text"
    <3>1. \A p \in 1..Len(wire) : p < Len(wire) => wire'[p] = wire[p]
      BY <2>2, <2>4
    <3>2. /\ wire'[Len(wire)].kind = "text"
          /\ wire'[Len(wire)].content = wire[Len(wire)].content \o t
      BY <2>1, <2>2, <2>4
    <3>. QED
      BY <2>1, <3>1, <3>2 DEF TextOf
  <2>6. Splits(FlattenSeq(BlockTexts(wire')), FlattenSeq(BlockTexts(wire)), t)
    BY <1>0, <2>1, <2>4, <2>5, TextsLonger
  <2>7. ToolBlocks' = ToolBlocks /\ \A p \in ToolBlocks : wire'[p] = wire[p]
    <3>1. /\ DOMAIN wire = 1..Len(wire) /\ DOMAIN wire' = 1..Len(wire)
          /\ \A p \in 1..Len(wire) : wire'[p].kind = wire[p].kind
          /\ \A p \in 1..Len(wire) : wire[p].kind = "tool_use" => wire'[p] = wire[p]
      BY <1>0, <2>1, <2>4, <2>5, BlocksKept
    <3>. QED
      BY <3>1 DEF ToolBlocks
  <2>. QED
    BY <1>1, <2>6, <2>7 DEF ShownText, BlockTexts, TextOf
<1>. QED
  BY <1>3, <1>4

\* No text is added by a step that touches tool blocks only.
LEMMA ShownKept ==
    ASSUME Inv, Inv', Len(wire') \in {Len(wire), Len(wire) + 1},
           \A p \in 1..Len(wire) : TextOf(wire'[p]) = TextOf(wire[p]),
           Len(wire') = Len(wire) + 1 => wire'[Len(wire) + 1].kind = "tool_use"
    PROVE  ShownText' = ShownText
<1>0. wire \in Seq(Block) /\ wire' \in Seq(Block)
  BY DEF Inv, TypeOK
<1>1. ShownText = FlattenSeq(BlockTexts(wire)) /\ FlattenSeq(BlockTexts(wire)) \in Piece
  BY <1>0, BlockTextsType DEF ShownText, BlockTexts, TextOf
<1>2. ShownText' = FlattenSeq(BlockTexts(wire'))
  BY DEF ShownText, BlockTexts, TextOf
<1>3. CASE Len(wire') = Len(wire)
  BY <1>0, <1>1, <1>2, <1>3, TextsStay
<1>4. CASE Len(wire') = Len(wire) + 1
  <2>1. TextOf(wire'[Len(wire) + 1]) = <<>>
    BY <1>4 DEF TextOf
  <2>2. Splits(FlattenSeq(BlockTexts(wire')), FlattenSeq(BlockTexts(wire)),
               TextOf(wire'[Len(wire) + 1]))
    BY <1>0, <1>4, TextsMore
  <2>. QED
    BY <1>1, <1>2, <2>1, <2>2, EmptyPiece DEF Splits
<1>. QED
  BY <1>3, <1>4

\* The tool blocks after a step that adds a tool block, or no block.
LEMMA ToolsKept ==
    ASSUME Inv, Inv', Extends(wire, wire'), Len(wire') \in {Len(wire), Len(wire) + 1},
           Len(wire') = Len(wire) + 1 => wire'[Len(wire) + 1].kind = "tool_use"
    PROVE  ToolBlocks' = IF Len(wire') = Len(wire) THEN ToolBlocks
                         ELSE ToolBlocks \cup {Len(wire) + 1}
<1>1. /\ Len(wire) \in Nat /\ DOMAIN wire = 1..Len(wire) /\ DOMAIN wire' = 1..Len(wire')
      /\ \A p \in 1..Len(wire) : wire'[p].kind = wire[p].kind
  BY BlocksKept
<1>2. CASE Len(wire') = Len(wire)
  BY <1>1, <1>2 DEF ToolBlocks
<1>3. CASE Len(wire') = Len(wire) + 1
  <2>1. DOMAIN wire' = DOMAIN wire \cup {Len(wire) + 1} /\ Len(wire') # Len(wire)
    <3>1. \A n \in Nat : 1..(n + 1) = 1..n \cup {n + 1} /\ n + 1 # n
      OBVIOUS
    <3>. QED
      BY <1>1, <1>3, <3>1
  <2>. QED
    BY <1>1, <1>3, <2>1 DEF ToolBlocks
<1>. QED
  BY <1>2, <1>3

\* A delta of a call, unless it is refused: in live mode a call is announced as
\* soon as it has a name, and its later deltas go to its block.
LEMMA RecordWire ==
    ASSUME Inv, RecordCall, phase' # "failed"
    PROVE  LET i == Head(work).index
           IN  /\ ShownText' = ShownText
               /\ \/ /\ UNCHANGED <<wire, liveIndex, liveBlock>>
                     /\ streamLive => liveBlock = None /\ tools'[i].name = <<>>
                  \/ /\ streamLive /\ liveBlock = None /\ tools'[i].name # <<>>
                     /\ liveIndex' = i /\ liveBlock' = Len(wire)
                     /\ ToolBlocks' = ToolBlocks \cup {Len(wire) + 1}
                     /\ wire'[Len(wire) + 1].label = [id |-> tools'[i].id, name |-> tools'[i].name]
                  \/ /\ streamLive /\ liveBlock # None
                     /\ UNCHANGED <<liveIndex, liveBlock>> /\ liveIndex = i
                     /\ ToolBlocks' = ToolBlocks
                     /\ wire'[liveBlock + 1].label = wire[liveBlock + 1].label
<1>. DEFINE i == Head(work).index
<1>0. /\ Inv' /\ Extends(wire, wire') /\ Active /\ tools' = Recorded(Head(work))
      /\ Head(work) \in CallDelta /\ wire \in Seq(Block) /\ wire' \in Seq(Block)
      /\ Len(wire) \in Nat /\ nextIndex = Len(wire)
  BY RecordCallInv, HeadOfWork DEF RecordCall, Working, Active, Inv, Cursor, Sound
<1>1. /\ i \in Index /\ i \in Nat /\ i \in DOMAIN tools' /\ tools'[i] \in Call
      /\ tools'[i].arguments \in Piece
  BY <1>0, RecordedCalls, ChatAssumption DEF Call
<1>2. CASE ~streamLive
  BY <1>2 DEF RecordCall, ShownText, blockVars
<1>3. ASSUME streamLive PROVE ~LiveConflict(i) /\ EmitLive(i, tools')
  BY <1>3 DEF RecordCall
<1>4. liveBlock # None => liveIndex = i /\ tools'[i].name # <<>>
  <2>. SUFFICES ASSUME liveBlock # None PROVE liveIndex = i /\ tools'[i].name # <<>>
    OBVIOUS
  <2>1. streamLive /\ liveIndex \in DOMAIN tools /\ tools[liveIndex].name # <<>>
    BY DEF Inv, Cursor, LiveAtEnd
  <2>2. liveIndex = i
    BY <1>3, <2>1, ChatAssumption DEF LiveConflict, Inv, TypeOK, None
  <2>3. tools[i].name \in Piece /\ Head(work).name \in Piece
    BY <1>0, <2>1, <2>2 DEF Inv, TypeOK, CallDelta
  <2>4. tools'[i].name = tools[i].name \o Head(work).name
    BY <1>0, <2>1, <2>2, RecordedCalls
  <2>. QED
    BY <2>1, <2>2, <2>3, <2>4, NonemptyConcat
<1>5. CASE streamLive /\ tools'[i].name = <<>>
  BY <1>3, <1>4, <1>5 DEF EmitLive, Announceable, ShownText, blockVars
<1>6. CASE streamLive /\ tools'[i].name # <<>> /\ liveBlock = None
  <2>1. PICK label : label = [id |-> tools'[i].id, name |-> tools'[i].name]
    OBVIOUS
  <2>2. label \in Label /\ "tool_use" \in Kind
    BY <1>1, <2>1, LabelType DEF Kind
  <2>3. PICK rest : rest = Unsent(tools'[i], liveCount)
    OBVIOUS
  <2>4. rest \in Piece
    <3>1. liveCount = 0
      BY <1>6 DEF Inv, Cursor, LiveAtEnd
    <3>2. SubSeq(tools'[i].arguments, 1, Len(tools'[i].arguments)) = tools'[i].arguments
      BY <1>1, RestOfString
    <3>3. rest = SubSeq(tools'[i].arguments, 1, Len(tools'[i].arguments))
      BY <2>3, <3>1 DEF Unsent
    <3>. QED
      BY <1>1, <3>2, <3>3
  <2>5. /\ liveIndex' = i /\ liveBlock' = Len(wire)
        /\ wire' = AppendDelta(StartBlock(TextClosed, "tool_use", label), Len(wire), rest)
    BY <1>0, <1>3, <1>6, <2>1, <2>3 DEF EmitLive, Announceable
  <2>6. PICK closing : closing = TextClosed
    OBVIOUS
  <2>7. /\ closing \in Seq(Block) /\ Len(closing) = Len(wire)
        /\ \A p \in 1..Len(wire) : /\ closing[p].kind = wire[p].kind
                                   /\ closing[p].content = wire[p].content
    BY <2>6, ClosedTextBlocks
  <2>8. wire' = AppendDelta(StartBlock(closing, "tool_use", label), Len(closing), rest)
    BY <2>5, <2>6, <2>7
  <2>9. /\ Len(wire') = Len(closing) + 1
        /\ \A p \in 1..Len(closing) : wire'[p] = closing[p]
        /\ wire'[Len(closing) + 1].kind = "tool_use"
        /\ wire'[Len(closing) + 1].label = label
    BY <2>2, <2>4, <2>7, <2>8, OpenFacts
  <2>10. /\ Len(wire') = Len(wire) + 1
         /\ wire'[Len(wire) + 1].kind = "tool_use" /\ wire'[Len(wire) + 1].label = label
         /\ \A p \in 1..Len(wire) : TextOf(wire'[p]) = TextOf(wire[p])
    BY <1>0, <2>7, <2>9 DEF TextOf
  <2>11. ShownText' = ShownText
    BY <1>0, <2>10, ShownKept
  <2>12. ToolBlocks' = ToolBlocks \cup {Len(wire) + 1}
    BY <1>0, <2>10, ToolsKept
  <2>. QED
    BY <1>6, <2>1, <2>5, <2>10, <2>11, <2>12
<1>7. CASE streamLive /\ tools'[i].name # <<>> /\ liveBlock # None
  <2>1. /\ textIndex = None /\ liveBlock = Len(wire) - 1 /\ Len(wire) > 0
    BY <1>7 DEF Inv, Cursor, TextAtEnd, LiveAtEnd
  <2>2. liveBlock \in Nat /\ liveBlock + 1 = Len(wire) /\ liveBlock + 1 \in 1..Len(wire)
    BY <1>0, <2>1
  <2>3. PICK rest : rest = Unsent(tools'[i], liveCount)
    OBVIOUS
  <2>4. rest \in Piece
    <3>1. liveCount \in Nat /\ Len(tools'[i].arguments) \in Nat
      BY <1>1 DEF Inv, TypeOK, Piece
    <3>2. \A s \in Seq(Fragment) : \A m \in Nat : SubSeq(s, m + 1, Len(s)) \in Seq(Fragment)
      OBVIOUS
    <3>3. SubSeq(tools'[i].arguments, liveCount + 1, Len(tools'[i].arguments)) \in Seq(Fragment)
      BY <1>1, <3>1, <3>2 DEF Piece
    <3>. QED
      BY <2>3, <3>3 DEF Unsent, Piece
  <2>5. /\ UNCHANGED liveBlock /\ liveIndex' = i
        /\ wire' = AppendDelta(wire, liveBlock, rest)
    BY <1>3, <1>7, <2>1, <2>3 DEF EmitLive, Announceable, TextClosed
  <2>6. Len(wire') = Len(wire)
    BY <1>0, <2>2, <2>4, <2>5, AppendFacts
  <2>7. \A p \in 1..Len(wire) : TextOf(wire'[p]) = TextOf(wire[p])
    BY <1>0, <2>1, TextsKept
  <2>8. ShownText' = ShownText
    BY <1>0, <2>6, <2>7, ShownKept
  <2>9. ToolBlocks' = ToolBlocks
    BY <1>0, <2>6, ToolsKept
  <2>10. wire'[liveBlock + 1].label = wire[liveBlock + 1].label
    BY <1>0, <2>2, BlocksKept
  <2>. QED
    BY <1>4, <1>7, <2>5, <2>8, <2>9, <2>10
<1>. QED
  BY <1>2, <1>5, <1>6, <1>7

LEMMA CloseTextWire ==
    ASSUME Inv, CloseText
    PROVE  /\ ShownText' = ShownText /\ ToolBlocks' = ToolBlocks
           /\ \A p \in ToolBlocks : wire'[p] = wire[p]
<1>0. /\ Inv' /\ Extends(wire, wire') /\ wire' = TextClosed /\ textIndex # None
  BY CloseTextInv DEF CloseText
<1>1. /\ Len(wire') = Len(wire) /\ Len(wire) \in Nat
      /\ \A p \in 1..Len(wire) : /\ wire'[p].kind = wire[p].kind
                                 /\ wire'[p].content = wire[p].content
  BY <1>0, ClosedTextBlocks, BlocksKept
<1>2. \A p \in 1..Len(wire) : TextOf(wire'[p]) = TextOf(wire[p])
  BY <1>1 DEF TextOf
<1>3. ShownText' = ShownText /\ ToolBlocks' = ToolBlocks
  BY <1>0, <1>1, <1>2, ShownKept, ToolsKept
<1>4. Len(wire) > 0 /\ wire[Len(wire)].kind = "text"
  BY <1>0 DEF Inv, Cursor, TextAtEnd, AnyOpen
<1>5. \A p \in ToolBlocks : p \in 1..Len(wire) /\ wire[p].kind = "tool_use"
  BY BlocksKept, <1>0 DEF ToolBlocks
<1>6. \A p \in ToolBlocks : p < Len(wire)
  BY <1>1, <1>4, <1>5
<1>. QED
  BY <1>0, <1>3, <1>5, <1>6, BlocksKept

\* One call is finished: a live one has its block already, a buffered one gets
\* a block with its identity and all its arguments.
LEMMA FinishWire ==
    ASSUME Inv, NEW i \in Index, FinishCall(i)
    PROVE  /\ ShownText' = ShownText /\ i \in DOMAIN tools
           /\ \/ /\ streamLive /\ liveBlock # None
                 /\ liveIndex = i /\ UNCHANGED <<liveIndex, liveBlock>>
                 /\ ToolBlocks' = ToolBlocks
                 /\ wire'[liveBlock + 1].label = wire[liveBlock + 1].label
              \/ /\ liveBlock = None
                 /\ IF streamLive THEN liveIndex' = i /\ liveBlock' = Len(wire) /\ tools[i].name # <<>>
                    ELSE UNCHANGED <<liveIndex, liveBlock>>
                 /\ ToolBlocks' = ToolBlocks \cup {Len(wire) + 1}
                 /\ \A p \in ToolBlocks : wire'[p] = wire[p] /\ p < Len(wire) + 1
                 /\ wire'[Len(wire) + 1].label = [id |-> tools[i].id, name |-> tools[i].name]
                 /\ wire'[Len(wire) + 1].content = tools[i].arguments
<1>0. /\ Inv' /\ Extends(wire, wire') /\ Active /\ textIndex = None /\ i \in remaining
      /\ phase = "closing" /\ ~CallRejected(i) /\ i \in DOMAIN tools
      /\ wire \in Seq(Block) /\ wire' \in Seq(Block)
      /\ Len(wire) \in Nat /\ nextIndex = Len(wire) /\ i \in Nat
  BY FinishCallInv, ChatAssumption
     DEF FinishCall, Closing, Active, Inv, Cursor, Sound, Progress
<1>1. tools[i] \in Call /\ tools[i].arguments \in Piece
  BY <1>0 DEF Inv, TypeOK, Call
<1>2. \A p \in 1..Len(wire) : TextOf(wire'[p]) = TextOf(wire[p])
  BY <1>0, TextsKept
<1>3. CASE liveBlock # None
  <2>1. /\ streamLive /\ liveIndex \in DOMAIN tools /\ liveBlock = Len(wire) - 1 /\ Len(wire) > 0
    BY <1>3 DEF Inv, Cursor, LiveAtEnd
  <2>2. liveIndex = i
    BY <1>0, <2>1, ChatAssumption DEF CallRejected, LiveConflict, Inv, TypeOK, None
  <2>3. liveBlock \in Nat /\ liveBlock + 1 = Len(wire) /\ liveBlock + 1 \in 1..Len(wire)
    BY <1>0, <2>1
  <2>4. UNCHANGED liveBlock /\ liveIndex' = i /\ nextIndex' = nextIndex
    BY <1>3, <2>1 DEF FinishCall
  <2>5. Len(wire') = Len(wire)
    BY <1>0, <2>4 DEF Inv, Cursor
  <2>6. ShownText' = ShownText
    BY <1>0, <1>2, <2>5, ShownKept
  <2>7. ToolBlocks' = ToolBlocks
    BY <1>0, <2>5, ToolsKept
  <2>8. wire'[liveBlock + 1].label = wire[liveBlock + 1].label
    BY <1>0, <2>3, BlocksKept
  <2>. QED
    BY <1>0, <1>3, <2>1, <2>2, <2>4, <2>6, <2>7, <2>8
<1>4. CASE liveBlock = None
  <2>1. PICK label : label = [id |-> tools[i].id, name |-> tools[i].name]
    OBVIOUS
  <2>2. label \in Label /\ "tool_use" \in Kind
    BY <1>1, <2>1, LabelType DEF Kind
  <2>3. PICK rest : rest = tools[i].arguments
    OBVIOUS
  <2>4. rest \in Piece /\ Unsent(tools[i], 0) = rest
    <3>1. SubSeq(tools[i].arguments, 1, Len(tools[i].arguments)) = tools[i].arguments
      BY <1>1, RestOfString
    <3>. QED
      BY <1>1, <2>3, <3>1 DEF Unsent
  <2>5. liveCount = 0
    BY <1>4 DEF Inv, Cursor, LiveAtEnd
  <2>6. /\ wire' = StopBlock(AppendDelta(StartBlock(wire, "tool_use", label), Len(wire), rest),
                             Len(wire))
        /\ IF streamLive THEN liveIndex' = i /\ liveBlock' = Len(wire)
           ELSE UNCHANGED <<liveIndex, liveBlock>>
        /\ nextIndex' = nextIndex + 1
    BY <1>0, <1>4, <2>1, <2>4, <2>5 DEF FinishCall
  <2>7. streamLive => tools[i].name # <<>>
    BY <1>0, <1>4 DEF CallRejected, Announceable
  <2>8. PICK open : open = AppendDelta(StartBlock(wire, "tool_use", label), Len(wire), rest)
    OBVIOUS
  <2>9. /\ open \in Seq(Block) /\ Len(open) = Len(wire) + 1
        /\ \A p \in 1..Len(wire) : open[p] = wire[p]
        /\ open[Len(wire) + 1].kind = "tool_use" /\ open[Len(wire) + 1].label = label
        /\ open[Len(wire) + 1].content = rest
    BY <1>0, <2>2, <2>4, <2>8, OpenFacts
  <2>10. Len(wire) + 1 \in 1..Len(open)
    BY <1>0, <2>9
  <2>11. wire' = StopBlock(open, Len(wire))
    BY <2>6, <2>8
  <2>12. /\ Len(wire') = Len(open)
         /\ \A p \in 1..Len(open) : p # Len(wire) + 1 => wire'[p] = open[p]
         /\ wire'[Len(wire) + 1].kind = open[Len(wire) + 1].kind
         /\ wire'[Len(wire) + 1].label = open[Len(wire) + 1].label
         /\ wire'[Len(wire) + 1].content = open[Len(wire) + 1].content
    BY <1>0, <2>9, <2>10, <2>11, StopFacts
  <2>13. /\ Len(wire') = Len(wire) + 1
         /\ wire'[Len(wire) + 1].kind = "tool_use" /\ wire'[Len(wire) + 1].label = label
         /\ wire'[Len(wire) + 1].content = rest
    BY <2>9, <2>12
  <2>14. ShownText' = ShownText
    BY <1>0, <1>2, <2>13, ShownKept
  <2>15. ToolBlocks' = ToolBlocks \cup {Len(wire) + 1}
    BY <1>0, <2>13, ToolsKept
  <2>16. \A p \in ToolBlocks : p \in 1..Len(wire)
    BY <1>0, BlocksKept DEF ToolBlocks
  <2>17. \A p \in 1..Len(wire) : wire'[p] = wire[p] /\ p < Len(wire) + 1
    BY <1>0, <2>9, <2>12
  <2>. QED
    BY <1>0, <1>4, <2>1, <2>3, <2>6, <2>7, <2>13, <2>14, <2>15, <2>16, <2>17
<1>. QED
  BY <1>3, <1>4

-----------------------------------------------------------------------------
(* The invariant.                                                          *)

\* What is recorded of call i.
Known(i) == IF i \in DOMAIN tools THEN tools[i] ELSE NewCall
LeftDeltas == {item \in Range(work) : "text" \notin DOMAIN item}

WorkInv == phase # "working" => work = <<>>

\* What was heard is what the client, or the record of a call, has, followed by
\* what is left of the chunk.
TextInv == Splits(HeardText, ShownText, Left("text", 0))
PiecesInv ==
    \A i \in Index : /\ Splits(ArgumentsOf(i), Known(i).arguments, Left("arguments", i))
                     /\ Splits(NameOf(i), Known(i).name, Left("name", i))
IdsInv ==
    /\ LeftDeltas \subseteq HeardDeltas
    /\ HeardCalls = DOMAIN tools \cup {d.index : d \in LeftDeltas}
    /\ \A i \in DOMAIN tools : tools[i].id \in IdsOf(i) \cup {NoId}
    /\ \A d \in HeardDeltas : d.id # NoId =>
          \/ d.index \in DOMAIN tools /\ tools[d.index].id # NoId
          \/ d \in LeftDeltas

\* The flags say what they are named for: the last reason given, if any was.
FlagsInv ==
    /\ refusalParts = HeardRefusal
    /\ hasRefusal <=> \E n \in DOMAIN read : read[n].refusal # Null
    /\ \/ finishReason = Null /\ \A n \in DOMAIN read : read[n].finish = Null
       \/ \E n \in DOMAIN read :
             /\ read[n].finish = finishReason /\ finishReason # Null
             /\ \A m \in DOMAIN read : m > n => read[m].finish = Null
EndInv ==
    phase = "stopped" =>
        /\ remaining = {} /\ StopReason(finishReason) # Null
        /\ ending.stop_reason = IF hasRefusal /\ DOMAIN tools = {} THEN "refusal"
                                ELSE StopReason(finishReason)
        /\ ending.explanation = Explanation(ending.stop_reason, refusalParts)

\* The calls emit_terminal is done with.
AtEnd == phase \in {"closing", "stopped"}
Finished == DOMAIN tools \ remaining

\* There is one tool block at most when calls are sent live: no other call has a
\* name, and what the block was announced with is still a part of the record.
LiveInv ==
    streamLive =>
        /\ ToolBlocks = IF liveBlock = None THEN {} ELSE {liveBlock + 1}
        /\ \A i \in DOMAIN tools : tools[i].name # <<>> => i = liveIndex
        /\ liveBlock # None =>
              LET label == wire[liveBlock + 1].label
              IN  /\ label.name # <<>> /\ label.name \in Piece
                  /\ \E rest \in Piece : Splits(tools[liveIndex].name, label.name, rest)
                  /\ label.id \in IdsOf(liveIndex) \cup {NoId}
        /\ AtEnd => Finished \subseteq {liveIndex}

\* Otherwise the tool blocks are the finished calls, in their order.
Filed(call) ==
    /\ \A p, q \in ToolBlocks : p < q => call[p] < call[q]
    /\ {call[p] : p \in ToolBlocks} = Finished
    /\ \A p \in ToolBlocks :
          /\ wire[p].content = tools[call[p]].arguments
          /\ wire[p].label = [id |-> tools[call[p]].id, name |-> tools[call[p]].name]
BufferedInv ==
    ~streamLive =>
        /\ ~AtEnd => ToolBlocks = {}
        /\ AtEnd => /\ \A i \in Finished, j \in remaining : i < j
                    /\ \E call \in [ToolBlocks -> Finished] : Filed(call)

Heard == TextInv /\ PiecesInv /\ IdsInv /\ FlagsInv
Content == Alive => WorkInv /\ Heard /\ EndInv /\ LiveInv /\ BufferedInv

\* Nothing is heard, recorded or sent.
LEMMA HeardStays ==
    ASSUME Heard, UNCHANGED <<read, work, tools, wire, flagVars>>
    PROVE  Heard'
<1>0. UNCHANGED <<read, work, tools, wire, finishReason, hasRefusal, refusalParts>>
  BY DEF flagVars
<1>1. /\ HeardText' = HeardText /\ HeardRefusal' = HeardRefusal /\ HeardDeltas' = HeardDeltas
      /\ ShownText' = ShownText /\ LeftDeltas' = LeftDeltas
  BY <1>0 DEF HeardText, HeardRefusal, HeardDeltas, ShownText, LeftDeltas
<1>2. HeardCalls' = HeardCalls
  BY <1>1 DEF HeardCalls
<1>3. TextInv'
  BY <1>0, <1>1 DEF Heard, TextInv, Left
<1>4. PiecesInv'
  BY <1>0 DEF Heard, PiecesInv, Left, Known, ArgumentsOf, NameOf
<1>5. IdsInv'
  BY <1>0, <1>1, <1>2 DEF Heard, IdsInv, IdsOf
<1>6. FlagsInv'
  BY <1>0, <1>1 DEF Heard, FlagsInv
<1>. QED
  BY <1>3, <1>4, <1>5, <1>6 DEF Heard

LEMMA InitContent == Init => Content
<1>. SUFFICES ASSUME Init PROVE Content
  OBVIOUS
<1>0. /\ read = <<>> /\ work = <<>> /\ wire = <<>> /\ tools = [i \in {} |-> Null]
      /\ phase = "reading" /\ liveIndex = None /\ liveBlock = None /\ remaining = {}
      /\ finishReason = Null /\ hasRefusal = FALSE /\ refusalParts = <<>>
      /\ DOMAIN tools = {} /\ DOMAIN read = {} /\ DOMAIN work = {} /\ DOMAIN wire = {}
  BY DEF Init
<1>1. /\ HeardText = <<>> /\ HeardRefusal = <<>> /\ HeardDeltas = {} /\ ShownText = <<>>
      /\ \A field, i : Left(field, i) = <<>>
      /\ \A i : ArgumentsOf(i) = <<>> /\ NameOf(i) = <<>>
  <2>1. \A f : DOMAIN f = {} /\ (f = [n \in {} |-> f[n]]) => FlattenSeq(f) = <<>>
    <3>1. \A f : DOMAIN f = {} /\ (f = [n \in {} |-> f[n]]) => f = <<>>
      OBVIOUS
    <3>. QED
      BY <3>1, FlattenEmpty
  <2>. QED
    BY <1>0, <2>1 DEF HeardText, HeardRefusal, HeardDeltas, ShownText, Left, Parts, ArgumentsOf,
                      NameOf
<1>2. TextInv /\ PiecesInv
  <2>1. Splits(<<>>, <<>>, <<>>)
    BY EmptyPiece DEF Splits
  <2>2. \A i : Known(i).arguments = <<>> /\ Known(i).name = <<>>
    BY <1>0 DEF Known, NewCall
  <2>. QED
    BY <1>1, <2>1, <2>2 DEF TextInv, PiecesInv
<1>3. IdsInv
  BY <1>0, <1>1 DEF IdsInv, HeardCalls, LeftDeltas, Range
<1>4. FlagsInv /\ WorkInv /\ EndInv
  BY <1>0, <1>1 DEF FlagsInv, WorkInv, EndInv
<1>5. LiveInv /\ BufferedInv
  BY <1>0 DEF LiveInv, BufferedInv, ToolBlocks, AtEnd
<1>. QED
  BY <1>2, <1>3, <1>4, <1>5 DEF Content, Heard

-----------------------------------------------------------------------------
(* A chunk is read.                                                        *)

LEMMA ElementsOf ==
    ASSUME NEW S, NEW s \in Seq(S), NEW x
    PROVE  x \in Range(s) <=> \E k \in 1..Len(s) : x = s[k]
BY DEF Range

LEMMA RangeOfTail ==
    ASSUME NEW S, NEW s \in Seq(S), s # <<>>
    PROVE  Range(s) = {Head(s)} \cup Range(Tail(s)) /\ Range(Tail(s)) \subseteq S
<1>0. Tail(s) \in Seq(S)
  OBVIOUS
<1>1. PICK t \in Seq(S) : t = Tail(s)
  BY <1>0
<1>2. /\ Len(s) = Len(t) + 1 /\ Len(t) \in Nat /\ Head(s) = s[1]
      /\ \A k \in 1..Len(t) : t[k] = s[k + 1] /\ k + 1 \in 1..Len(s)
      /\ 1 \in 1..Len(s)
  BY <1>1
<1>3. \A k \in 1..Len(s) : k = 1 \/ (k - 1 \in 1..Len(t) /\ (k - 1) + 1 = k)
  BY <1>2
<1>4. \A k \in 1..Len(s) : k = 1 \/ s[k] = t[k - 1]
  BY <1>2, <1>3
<1>5. ASSUME NEW x \in Range(s) PROVE x = Head(s) \/ x \in Range(t)
  <2>1. PICK k \in 1..Len(s) : x = s[k]
    BY ElementsOf
  <2>2. CASE k = 1
    BY <1>2, <2>1, <2>2
  <2>3. CASE k # 1
    BY <1>3, <1>4, <2>1, <2>3, ElementsOf
  <2>. QED
    BY <2>2, <2>3
<1>6. \A x : x = Head(s) \/ x \in Range(t) => x \in Range(s)
  BY <1>2, ElementsOf
<1>7. Range(t) \subseteq S
  BY DEF Range
<1>. QED
  BY <1>1, <1>5, <1>6, <1>7

\* The deltas of a chunk are heard, and left to be dealt with.
LEMMA DeltasOfChunk ==
    ASSUME Inv, NEW chunk \in Chunk, read' = Append(read, chunk),
           work' = Texts(chunk) \o chunk.calls
    PROVE  /\ HeardDeltas' = HeardDeltas \cup Range(chunk.calls)
           /\ LeftDeltas' = Range(chunk.calls)
           /\ Range(chunk.calls) \subseteq CallDelta
<1>0. /\ read \in Seq(Chunk) /\ chunk.calls \in Seq(CallDelta) /\ chunk.calls \in Seq(Item)
      /\ Texts(chunk) \in Seq(Item) /\ chunk.content \in Piece /\ Refused(chunk) \in Piece
      /\ Said(chunk.content) \in Seq(Item) /\ Said(Refused(chunk)) \in Seq(Item)
  BY ChunkType DEF Inv, TypeOK
<1>1. Range(chunk.calls) \subseteq CallDelta
  BY <1>0 DEF Range
<1>2. HeardDeltas' = HeardDeltas \cup Range(chunk.calls)
  <2>1. PICK more : more = Append(read, chunk)
    OBVIOUS
  <2>2. /\ DOMAIN more = 1..(Len(read) + 1) /\ DOMAIN read = 1..Len(read) /\ Len(read) \in Nat
        /\ more[Len(read) + 1] = chunk /\ \A n \in 1..Len(read) : more[n] = read[n]
    BY <1>0, <2>1
  <2>3. DOMAIN more = DOMAIN read \cup {Len(read) + 1}
    BY <2>2
  <2>4. HeardDeltas' = UNION {Range(more[n].calls) : n \in DOMAIN more}
    BY <2>1 DEF HeardDeltas
  <2>5. \A n \in DOMAIN read : more[n].calls = read[n].calls
    BY <2>2
  <2>6. \A d : d \in HeardDeltas' <=> \E n \in DOMAIN more : d \in Range(more[n].calls)
    BY <2>4
  <2>7. \A d : d \in HeardDeltas <=> \E n \in DOMAIN read : d \in Range(read[n].calls)
    BY DEF HeardDeltas
  <2>8. \A d : (\E n \in DOMAIN more : d \in Range(more[n].calls)) <=>
                  (\E n \in DOMAIN read : d \in Range(read[n].calls)) \/ d \in Range(chunk.calls)
    BY <2>2, <2>3, <2>5
  <2>. QED
    BY <2>6, <2>7, <2>8
<1>3. Range(Texts(chunk) \o chunk.calls) = Range(Texts(chunk)) \cup Range(chunk.calls)
  BY <1>0, RangeConcatenation
<1>4. Range(Texts(chunk)) = Range(Said(chunk.content)) \cup Range(Said(Refused(chunk)))
  BY <1>0, RangeConcatenation DEF Texts
<1>5. \A x \in Range(Texts(chunk)) : "text" \in DOMAIN x
  <2>1. \A text \in Piece : \A x \in Range(Said(text)) : "text" \in DOMAIN x
    <3>. SUFFICES ASSUME NEW text \in Piece, NEW x \in Range(Said(text))
                  PROVE  "text" \in DOMAIN x
      OBVIOUS
    <3>1. \A k \in 1..Len(Said(text)) : "text" \in DOMAIN Said(text)[k]
      BY SaidParts
    <3>2. Said(text) \in Seq(Item)
      BY SaidType DEF Item
    <3>. QED
      BY <3>1, <3>2, ElementsOf
  <2>. QED
    BY <1>0, <1>4, <2>1
<1>6. \A x \in Range(chunk.calls) : "text" \notin DOMAIN x
  <2>1. \A call \in CallDelta : DOMAIN call = {"index", "id", "name", "arguments"}
    BY DEF CallDelta
  <2>. QED
    BY <1>1, <2>1
<1>7. LeftDeltas' = {item \in Range(Texts(chunk)) \cup Range(chunk.calls) : "text" \notin DOMAIN item}
  BY <1>3 DEF LeftDeltas
<1>8. LeftDeltas' = Range(chunk.calls)
  BY <1>5, <1>6, <1>7
<1>. QED
  BY <1>1, <1>2, <1>8

LEMMA NothingLeft ==
    ASSUME work = <<>>
    PROVE  LeftDeltas = {} /\ \A field, i : Left(field, i) = <<>>
<1>1. Range(work) = {}
  BY DEF Range
<1>2. \A field, i : Parts(work, field, i) = <<>>
  BY DEF Parts
<1>. QED
  BY <1>1, <1>2, FlattenEmpty DEF LeftDeltas, Left

\* The identities heard of a call.
LEMMA IdsGrow ==
    ASSUME HeardDeltas \subseteq HeardDeltas'
    PROVE  \A i : IdsOf(i) \subseteq IdsOf(i)'
BY DEF IdsOf

LEMMA KnownType ==
    ASSUME Inv, NEW i
    PROVE  /\ Known(i) \in Call
           /\ Known(i).arguments \in Piece /\ Known(i).name \in Piece
<1>1. NewCall \in Call
  BY EmptyPiece DEF NewCall, Call
<1>2. Known(i) \in Call
  BY <1>1 DEF Known, Inv, TypeOK, Call
<1>. QED
  BY <1>2 DEF Call

LEMMA ReadContent ==
    ASSUME Inv, Content, NEW chunk \in Chunks, ReadChunk(chunk)
    PROVE  Content'
<1>0. /\ chunk \in Chunk /\ read' = Append(read, chunk) /\ work' = Texts(chunk) \o chunk.calls
      /\ phase = "reading" /\ phase' = "working" /\ Alive /\ work = <<>>
      /\ UNCHANGED <<tools, wire, streamLive, liveIndex, liveBlock, remaining, ending>>
      /\ finishReason' = IF chunk.finish # Null THEN chunk.finish ELSE finishReason
      /\ hasRefusal' = (hasRefusal \/ chunk.refusal # Null)
      /\ refusalParts' = refusalParts \o Refused(chunk)
      /\ read \in Seq(Chunk)
  BY ChatAssumption DEF ReadChunk, Alive, Content, WorkInv, toolVars, blockVars, Inv, TypeOK
<1>1. /\ TextInv /\ PiecesInv /\ IdsInv /\ FlagsInv /\ LiveInv /\ BufferedInv
  BY <1>0 DEF Content, Heard
<1>2. LeftDeltas = {} /\ \A field, i : Left(field, i) = <<>>
  BY <1>0, NothingLeft
<1>3. /\ HeardDeltas' = HeardDeltas \cup Range(chunk.calls) /\ LeftDeltas' = Range(chunk.calls)
  BY <1>0, DeltasOfChunk
<1>4. \A i : /\ Left("text", i)' = chunk.content \o Refused(chunk)
             /\ Left("arguments", i)' = ArgumentsIn(chunk.calls, i)
             /\ Left("name", i)' = NameIn(chunk.calls, i)
  BY <1>0, PartsOfChunk DEF Left
<1>5. TextInv'
  <2>1. Splits(HeardText', HeardText, chunk.content \o Refused(chunk))
    BY <1>0, HeardMore
  <2>2. Splits(HeardText, ShownText, <<>>)
    BY <1>1, <1>2 DEF TextInv
  <2>3. ShownText \in Seq(Fragment) /\ chunk.content \o Refused(chunk) \in Seq(Fragment)
    BY <1>0, ShownTextType, ChunkType DEF Piece
  <2>4. Splits(HeardText', ShownText, chunk.content \o Refused(chunk))
    BY <2>1, <2>2, <2>3, PieceComes
  <2>5. ShownText' = ShownText
    BY <1>0 DEF ShownText
  <2>. QED
    BY <1>4, <2>4, <2>5 DEF TextInv
<1>6. PiecesInv'
  <2>. SUFFICES ASSUME NEW i \in Index
                PROVE  /\ Splits(ArgumentsOf(i)', Known(i)'.arguments, Left("arguments", i)')
                       /\ Splits(NameOf(i)', Known(i)'.name, Left("name", i)')
    BY DEF PiecesInv
  <2>1. /\ Splits(ArgumentsOf(i)', ArgumentsOf(i), ArgumentsIn(chunk.calls, i))
        /\ Splits(NameOf(i)', NameOf(i), NameIn(chunk.calls, i))
    BY <1>0, HeardMore
  <2>2. /\ Splits(ArgumentsOf(i), Known(i).arguments, <<>>)
        /\ Splits(NameOf(i), Known(i).name, <<>>)
    BY <1>1, <1>2 DEF PiecesInv
  <2>3. /\ Known(i).arguments \in Seq(Fragment) /\ Known(i).name \in Seq(Fragment)
        /\ ArgumentsIn(chunk.calls, i) \in Seq(Fragment) /\ NameIn(chunk.calls, i) \in Seq(Fragment)
    BY <1>0, KnownType, InType DEF Piece
  <2>4. Splits(ArgumentsOf(i)', Known(i).arguments, ArgumentsIn(chunk.calls, i))
    BY <2>1, <2>2, <2>3, PieceComes
  <2>5. Splits(NameOf(i)', Known(i).name, NameIn(chunk.calls, i))
    BY <2>1, <2>2, <2>3, PieceComes
  <2>6. Known(i)' = Known(i)
    BY <1>0 DEF Known
  <2>. QED
    BY <1>4, <2>4, <2>5, <2>6
<1>7. IdsInv'
  <2>1. HeardCalls' = DOMAIN tools' \cup {d.index : d \in LeftDeltas'}
    BY <1>0, <1>1, <1>2, <1>3 DEF IdsInv, HeardCalls
  <2>2. \A i \in DOMAIN tools' : tools'[i].id \in IdsOf(i)' \cup {NoId}
    BY <1>0, <1>1, <1>3, IdsGrow DEF IdsInv
  <2>3. \A d \in HeardDeltas' : d.id # NoId =>
          \/ d.index \in DOMAIN tools' /\ tools'[d.index].id # NoId
          \/ d \in LeftDeltas'
    BY <1>0, <1>1, <1>2, <1>3 DEF IdsInv
  <2>. QED
    BY <1>3, <2>1, <2>2, <2>3 DEF IdsInv
<1>8. FlagsInv'
  <2>1. PICK more : more = Append(read, chunk)
    OBVIOUS
  <2>2. /\ DOMAIN more = 1..(Len(read) + 1) /\ DOMAIN read = 1..Len(read) /\ Len(read) \in Nat
        /\ more[Len(read) + 1] = chunk /\ \A n \in 1..Len(read) : more[n] = read[n]
    BY <1>0, <2>1
  <2>3. DOMAIN more = DOMAIN read \cup {Len(read) + 1} /\ \A n \in DOMAIN read : n < Len(read) + 1
    BY <2>2
  <2>4. refusalParts' = HeardRefusal'
    <3>1. Splits(HeardRefusal', HeardRefusal, Refused(chunk))
      BY <1>0, HeardMore
    <3>. QED
      BY <1>0, <1>1, <3>1 DEF FlagsInv, Splits
  <2>5. hasRefusal' <=> \E n \in DOMAIN read' : read'[n].refusal # Null
    BY <1>0, <1>1, <2>1, <2>2, <2>3 DEF FlagsInv
  <2>6. CASE chunk.finish # Null
    <3>1. \A m \in DOMAIN more : ~(m > Len(read) + 1)
      BY <2>2
    <3>2. /\ Len(read) + 1 \in DOMAIN more /\ more[Len(read) + 1].finish = finishReason'
          /\ finishReason' # Null
      BY <1>0, <2>2, <2>3, <2>6
    <3>. QED
      BY <1>0, <2>1, <2>4, <2>5, <3>1, <3>2 DEF FlagsInv
  <2>7. CASE chunk.finish = Null
    <3>1. finishReason' = finishReason /\ more[Len(read) + 1].finish = Null
      BY <1>0, <2>2, <2>7
    <3>2. CASE finishReason = Null /\ \A n \in DOMAIN read : read[n].finish = Null
      BY <1>0, <2>1, <2>2, <2>3, <2>4, <2>5, <3>1, <3>2 DEF FlagsInv
    <3>3. CASE \E n \in DOMAIN read :
                  /\ read[n].finish = finishReason /\ finishReason # Null
                  /\ \A m \in DOMAIN read : m > n => read[m].finish = Null
      <4>1. PICK n \in DOMAIN read :
                  /\ read[n].finish = finishReason /\ finishReason # Null
                  /\ \A m \in DOMAIN read : m > n => read[m].finish = Null
        BY <3>3
      <4>2. /\ n \in DOMAIN more /\ more[n].finish = finishReason'
            /\ \A m \in DOMAIN more : m > n => more[m].finish = Null
        BY <2>2, <2>3, <3>1, <4>1
      <4>. QED
        BY <1>0, <2>1, <2>4, <2>5, <3>1, <4>1, <4>2 DEF FlagsInv
    <3>. QED
      BY <1>1, <3>2, <3>3 DEF FlagsInv
  <2>. QED
    BY <2>6, <2>7
<1>9. WorkInv' /\ EndInv'
  BY <1>0 DEF WorkInv, EndInv
<1>10. LiveInv'
  <2>1. ToolBlocks' = ToolBlocks /\ ~AtEnd'
    BY <1>0 DEF ToolBlocks, AtEnd
  <2>2. \A i : IdsOf(i) \subseteq IdsOf(i)'
    BY <1>3, IdsGrow
  <2>. QED
    BY <1>0, <1>1, <2>1, <2>2 DEF LiveInv
<1>11. BufferedInv'
  BY <1>0, <1>1 DEF BufferedInv, AtEnd, ToolBlocks
<1>. QED
  BY <1>5, <1>6, <1>7, <1>8, <1>9, <1>10, <1>11 DEF Content, Heard

-----------------------------------------------------------------------------
(* The pieces of a chunk.                                                  *)

LEMMA WorkType ==
    ASSUME Inv, work # <<>>, work' = Tail(work)
    PROVE  /\ work \in Seq(Item) /\ work' \in Seq(Item) /\ Head(work) \in Item
           /\ \A field \in Field : \A i :
                 /\ Left(field, i) \in Piece /\ Left(field, i)' \in Piece
                 /\ PartOf(Head(work), field, i) \in Piece
                 /\ Splits(Left(field, i), PartOf(Head(work), field, i), Left(field, i)')
<1>1. work \in Seq(Item)
  BY DEF Inv, TypeOK, Item
<1>2. work' \in Seq(Item) /\ Head(work) \in Item
  BY <1>1
<1>3. ASSUME NEW field \in Field, NEW i
      PROVE  /\ Left(field, i) \in Piece /\ Left(field, i)' \in Piece
             /\ PartOf(Head(work), field, i) \in Piece
             /\ Splits(Left(field, i), PartOf(Head(work), field, i), Left(field, i)')
  <2>1. Left(field, i) = FlattenSeq(Parts(work, field, i))
    BY DEF Left
  <2>2. Left(field, i)' = FlattenSeq(Parts(work', field, i))
    BY DEF Left
  <2>3. FlattenSeq(Parts(work, field, i)) \in Piece
    BY <1>1, LeftType
  <2>4. FlattenSeq(Parts(work', field, i)) \in Piece
    BY <1>2, LeftType
  <2>5. PartOf(Head(work), field, i) \in Piece
    BY <1>2, PartType
  <2>6. Splits(FlattenSeq(Parts(work, field, i)), PartOf(Head(work), field, i),
               FlattenSeq(Parts(Tail(work), field, i)))
    BY <1>1, PartsHead
  <2>. QED
    BY <2>1, <2>2, <2>3, <2>4, <2>5, <2>6
<1>. QED
  BY <1>1, <1>2, <1>3

LEMMA LeftDeltasHead ==
    ASSUME Inv, work # <<>>, work' = Tail(work)
    PROVE  LeftDeltas = IF "text" \in DOMAIN Head(work) THEN LeftDeltas'
                        ELSE {Head(work)} \cup LeftDeltas'
<1>1. work \in Seq(Item)
  BY DEF Inv, TypeOK, Item
<1>2. Range(work) = {Head(work)} \cup Range(work')
  BY <1>1, RangeOfTail
<1>. QED
  BY <1>2 DEF LeftDeltas

\* What was heard does not change while a chunk is dealt with.
LEMMA HeardSame ==
    ASSUME UNCHANGED read
    PROVE  /\ HeardText' = HeardText /\ HeardRefusal' = HeardRefusal
           /\ HeardDeltas' = HeardDeltas /\ HeardCalls' = HeardCalls
           /\ \A i : /\ ArgumentsOf(i)' = ArgumentsOf(i) /\ NameOf(i)' = NameOf(i)
                     /\ IdsOf(i)' = IdsOf(i)
BY DEF HeardText, HeardRefusal, HeardDeltas, HeardCalls, ArgumentsOf, NameOf, IdsOf

LEMMA EmitContent ==
    ASSUME Inv, Content, EmitText
    PROVE  Content'
<1>0. /\ phase = "working" /\ phase' = "working" /\ Alive /\ work # <<>> /\ work' = Tail(work)
      /\ "text" \in DOMAIN Head(work) /\ liveBlock = None /\ Head(work).text \in Piece
      /\ UNCHANGED <<read, tools, streamLive, liveIndex, liveBlock, remaining, ending,
                     finishReason, hasRefusal, refusalParts>>
  BY HeadOfWork DEF EmitText, Working, Alive, toolVars, flagVars
<1>1. /\ TextInv /\ PiecesInv /\ IdsInv /\ FlagsInv /\ LiveInv /\ BufferedInv
  BY <1>0 DEF Content, Heard
<1>2. /\ Splits(ShownText', ShownText, Head(work).text)
      /\ ToolBlocks' = ToolBlocks /\ \A p \in ToolBlocks : wire'[p] = wire[p]
  BY EmitTextWire
<1>3. \A field \in Field : \A i :
         /\ Left(field, i) \in Piece /\ Left(field, i)' \in Piece
         /\ Splits(Left(field, i), PartOf(Head(work), field, i), Left(field, i)')
  BY <1>0, WorkType
<1>4. \A i : /\ PartOf(Head(work), "text", i) = Head(work).text
             /\ PartOf(Head(work), "arguments", i) = <<>> /\ PartOf(Head(work), "name", i) = <<>>
  BY <1>0 DEF PartOf, IsAbout
<1>5. TextInv'
  <2>1. /\ Splits(HeardText, ShownText, Left("text", 0))
        /\ Splits(Left("text", 0), Head(work).text, Left("text", 0)')
    BY <1>1, <1>3, <1>4 DEF TextInv, Field
  <2>2. /\ ShownText \in Seq(Fragment) /\ Head(work).text \in Seq(Fragment)
        /\ Left("text", 0)' \in Seq(Fragment)
    BY <1>0, <1>3, ShownTextType DEF Piece, Field
  <2>3. Splits(HeardText, ShownText', Left("text", 0)')
    BY <1>2, <2>1, <2>2, PieceMoves
  <2>. QED
    BY <1>0, <2>3, HeardSame DEF TextInv
<1>6. PiecesInv'
  <2>. SUFFICES ASSUME NEW i \in Index
                PROVE  /\ Splits(ArgumentsOf(i)', Known(i)'.arguments, Left("arguments", i)')
                       /\ Splits(NameOf(i)', Known(i)'.name, Left("name", i)')
    BY DEF PiecesInv
  <2>1. /\ Splits(Left("arguments", i), <<>>, Left("arguments", i)')
        /\ Splits(Left("name", i), <<>>, Left("name", i)')
        /\ Left("arguments", i)' \in Seq(Fragment) /\ Left("name", i)' \in Seq(Fragment)
    BY <1>3, <1>4 DEF Field, Piece
  <2>2. /\ Splits(ArgumentsOf(i), Known(i).arguments, Left("arguments", i))
        /\ Splits(NameOf(i), Known(i).name, Left("name", i))
    BY <1>1 DEF PiecesInv
  <2>3. Known(i).arguments \in Seq(Fragment) /\ Known(i).name \in Seq(Fragment)
    BY KnownType DEF Piece
  <2>4. Splits(ArgumentsOf(i), Known(i).arguments, Left("arguments", i)')
    BY <2>1, <2>2, <2>3, PieceStays
  <2>5. Splits(NameOf(i), Known(i).name, Left("name", i)')
    BY <2>1, <2>2, <2>3, PieceStays
  <2>6. Known(i)' = Known(i)
    BY <1>0 DEF Known
  <2>. QED
    BY <1>0, <2>4, <2>5, <2>6, HeardSame
<1>7. LeftDeltas' = LeftDeltas
  BY <1>0, LeftDeltasHead
<1>8. IdsInv'
  BY <1>0, <1>1, <1>7, HeardSame DEF IdsInv
<1>9. FlagsInv' /\ WorkInv' /\ EndInv'
  BY <1>0, <1>1, HeardSame DEF FlagsInv, WorkInv, EndInv
<1>10. ~AtEnd /\ ~AtEnd' /\ ~(liveBlock # None)
  BY <1>0 DEF AtEnd
<1>11. LiveInv'
  BY <1>0, <1>1, <1>2, <1>10 DEF LiveInv
<1>12. BufferedInv'
  BY <1>0, <1>1, <1>2, <1>10 DEF BufferedInv
<1>. QED
  BY <1>5, <1>6, <1>8, <1>9, <1>11, <1>12 DEF Content, Heard

\* What a delta adds to its call.
LEMMA KnownMore ==
    ASSUME Inv, NEW delta \in CallDelta, tools' = Recorded(delta)
    PROVE  /\ delta.index \in Index /\ DOMAIN tools' = DOMAIN tools \cup {delta.index}
           /\ \A j : j # delta.index => Known(j)' = Known(j)
           /\ \A j \in DOMAIN tools : j # delta.index => tools'[j] = tools[j]
           /\ tools'[delta.index].name = Known(delta.index).name \o delta.name
           /\ tools'[delta.index].arguments = Known(delta.index).arguments \o delta.arguments
           /\ tools'[delta.index].id = IF delta.id = NoId THEN Known(delta.index).id ELSE delta.id
           /\ Known(delta.index)' = tools'[delta.index]
<1>1. delta.index \in Index
  BY DEF CallDelta
<1>2. tools' = [j \in DOMAIN tools \cup {delta.index} |->
                  IF j = delta.index THEN Merged(Known(delta.index), delta) ELSE tools[j]]
  BY DEF Recorded, Known
<1>3. /\ DOMAIN tools' = DOMAIN tools \cup {delta.index}
      /\ tools'[delta.index] = Merged(Known(delta.index), delta)
      /\ \A j \in DOMAIN tools : j # delta.index => tools'[j] = tools[j]
  BY <1>2
<1>4. \A j : j # delta.index => Known(j)' = Known(j)
  BY <1>3 DEF Known
<1>5. Known(delta.index)' = tools'[delta.index]
  BY <1>3 DEF Known
<1>6. PICK call : call = Known(delta.index)
  OBVIOUS
<1>7. /\ Merged(call, delta).name = call.name \o delta.name
      /\ Merged(call, delta).arguments = call.arguments \o delta.arguments
      /\ Merged(call, delta).id = IF delta.id = NoId THEN call.id ELSE delta.id
  BY DEF Merged
<1>8. /\ tools'[delta.index].name = Known(delta.index).name \o delta.name
      /\ tools'[delta.index].arguments = Known(delta.index).arguments \o delta.arguments
      /\ tools'[delta.index].id = IF delta.id = NoId THEN Known(delta.index).id ELSE delta.id
  BY <1>3, <1>6, <1>7
<1>. QED
  BY <1>1, <1>3, <1>4, <1>5, <1>8

LEMMA SplitsMore ==
    ASSUME NEW s \in Piece, NEW t \in Piece, NEW r \in Piece, NEW all, NEW more,
           Splits(all, s, r), Splits(more, all, t)
    PROVE  \E rest \in Piece : Splits(more, s, rest)
<1>1. r \o t \in Piece
  BY ConcatType
<1>2. (s \o r) \o t = s \o (r \o t)
  BY DEF Piece
<1>. QED
  BY <1>1, <1>2 DEF Splits

LEMMA RecordContent ==
    ASSUME Inv, Content, RecordCall, phase' # "failed"
    PROVE  Content'
<1>a. PICK delta \in CallDelta : delta = Head(work)
  BY HeadOfWork DEF RecordCall, Working
<1>b. PICK i \in Index : i = delta.index
  BY DEF CallDelta
<1>0. /\ phase = "working" /\ phase' = "working" /\ Alive /\ work # <<>> /\ work' = Tail(work)
      /\ "text" \notin DOMAIN delta /\ delta \in CallDelta /\ tools' = Recorded(delta)
      /\ UNCHANGED <<read, streamLive, remaining, ending, finishReason, hasRefusal, refusalParts>>
      /\ Inv'
  BY <1>a, RecordCallInv DEF RecordCall, Working, Alive, flagVars
<1>1. /\ TextInv /\ PiecesInv /\ IdsInv /\ FlagsInv /\ LiveInv /\ BufferedInv
  BY <1>0 DEF Content, Heard
<1>2. /\ ShownText' = ShownText
      /\ \/ /\ UNCHANGED <<wire, liveIndex, liveBlock>>
            /\ streamLive => liveBlock = None /\ tools'[i].name = <<>>
         \/ /\ streamLive /\ liveBlock = None /\ tools'[i].name # <<>>
            /\ liveIndex' = i /\ liveBlock' = Len(wire)
            /\ ToolBlocks' = ToolBlocks \cup {Len(wire) + 1}
            /\ wire'[Len(wire) + 1].label = [id |-> tools'[i].id, name |-> tools'[i].name]
         \/ /\ streamLive /\ liveBlock # None
            /\ UNCHANGED <<liveIndex, liveBlock>> /\ liveIndex = i
            /\ ToolBlocks' = ToolBlocks
            /\ wire'[liveBlock + 1].label = wire[liveBlock + 1].label
  BY <1>0, <1>a, <1>b, RecordWire
<1>3. \A field \in Field : \A j :
         /\ Left(field, j) \in Piece /\ Left(field, j)' \in Piece
         /\ PartOf(delta, field, j) \in Piece
         /\ Splits(Left(field, j), PartOf(delta, field, j), Left(field, j)')
  BY <1>0, <1>a, WorkType
<1>4. LeftDeltas = {delta} \cup LeftDeltas'
  BY <1>0, <1>a, LeftDeltasHead
<1>5. /\ i \in Index /\ DOMAIN tools' = DOMAIN tools \cup {i}
      /\ \A j : j # i => Known(j)' = Known(j)
      /\ \A j \in DOMAIN tools : j # i => tools'[j] = tools[j]
      /\ tools'[i].name = Known(i).name \o delta.name
      /\ tools'[i].arguments = Known(i).arguments \o delta.arguments
      /\ tools'[i].id = IF delta.id = NoId THEN Known(i).id ELSE delta.id
      /\ Known(i)' = tools'[i]
  BY <1>0, <1>b, KnownMore
<1>6. /\ delta.name \in Piece /\ delta.arguments \in Piece /\ delta.id \in Id \cup {NoId}
  BY <1>0 DEF CallDelta
<1>7. \A j : /\ PartOf(delta, "text", j) = <<>>
             /\ PartOf(delta, "arguments", j) = IF j = i THEN delta.arguments ELSE <<>>
             /\ PartOf(delta, "name", j) = IF j = i THEN delta.name ELSE <<>>
  BY <1>0, <1>b DEF PartOf, IsAbout
<1>8. TextInv'
  <2>1. /\ Splits(HeardText, ShownText, Left("text", 0))
        /\ Splits(Left("text", 0), <<>>, Left("text", 0)')
    BY <1>1, <1>3, <1>7 DEF TextInv, Field
  <2>2. ShownText \in Seq(Fragment) /\ Left("text", 0)' \in Seq(Fragment)
    BY <1>3, ShownTextType DEF Piece, Field
  <2>3. Splits(HeardText, ShownText, Left("text", 0)')
    BY <2>1, <2>2, PieceStays
  <2>. QED
    BY <1>0, <1>2, <2>3, HeardSame DEF TextInv
<1>9. PiecesInv'
  <2>. SUFFICES ASSUME NEW j \in Index
                PROVE  /\ Splits(ArgumentsOf(j)', Known(j)'.arguments, Left("arguments", j)')
                       /\ Splits(NameOf(j)', Known(j)'.name, Left("name", j)')
    BY DEF PiecesInv
  <2>1. /\ Splits(ArgumentsOf(j), Known(j).arguments, Left("arguments", j))
        /\ Splits(NameOf(j), Known(j).name, Left("name", j))
    BY <1>1 DEF PiecesInv
  <2>2. /\ Known(j).arguments \in Seq(Fragment) /\ Known(j).name \in Seq(Fragment)
        /\ Left("arguments", j)' \in Seq(Fragment) /\ Left("name", j)' \in Seq(Fragment)
        /\ delta.name \in Seq(Fragment) /\ delta.arguments \in Seq(Fragment)
    BY <1>3, <1>6, KnownType DEF Piece, Field
  <2>3. CASE j = i
    <3>1. /\ Splits(Left("arguments", j), delta.arguments, Left("arguments", j)')
          /\ Splits(Left("name", j), delta.name, Left("name", j)')
      BY <1>3, <1>7, <2>3 DEF Field
    <3>2. /\ Splits(Known(j)'.arguments, Known(j).arguments, delta.arguments)
          /\ Splits(Known(j)'.name, Known(j).name, delta.name)
      BY <1>5, <2>3 DEF Splits
    <3>3. Splits(ArgumentsOf(j), Known(j)'.arguments, Left("arguments", j)')
      BY <2>1, <2>2, <3>1, <3>2, PieceMoves
    <3>4. Splits(NameOf(j), Known(j)'.name, Left("name", j)')
      BY <2>1, <2>2, <3>1, <3>2, PieceMoves
    <3>. QED
      BY <1>0, <3>3, <3>4, HeardSame
  <2>4. CASE j # i
    <3>1. /\ Splits(Left("arguments", j), <<>>, Left("arguments", j)')
          /\ Splits(Left("name", j), <<>>, Left("name", j)')
      BY <1>3, <1>7, <2>4 DEF Field
    <3>2. Splits(ArgumentsOf(j), Known(j).arguments, Left("arguments", j)')
      BY <2>1, <2>2, <3>1, PieceStays
    <3>3. Splits(NameOf(j), Known(j).name, Left("name", j)')
      BY <2>1, <2>2, <3>1, PieceStays
    <3>. QED
      BY <1>0, <1>5, <2>4, <3>2, <3>3, HeardSame
  <2>. QED
    BY <2>3, <2>4
<1>10. /\ delta \in HeardDeltas /\ (delta.id # NoId => delta.id \in IdsOf(i))
       /\ i \in DOMAIN tools' /\ tools'[i].id \in IdsOf(i) \cup {NoId}
  <2>1. delta \in HeardDeltas
    BY <1>1, <1>4 DEF IdsInv
  <2>2. delta.id # NoId => delta.id \in IdsOf(i)
    BY <1>b, <2>1 DEF IdsOf
  <2>3. Known(i).id \in IdsOf(i) \cup {NoId}
    BY <1>1 DEF IdsInv, Known, NewCall
  <2>. QED
    BY <1>5, <2>1, <2>2, <2>3
<1>11. IdsInv'
  <2>1. LeftDeltas' \subseteq HeardDeltas /\ HeardCalls = DOMAIN tools' \cup {d.index : d \in LeftDeltas'}
    BY <1>b, <1>1, <1>4, <1>5 DEF IdsInv
  <2>2. \A j \in DOMAIN tools' : tools'[j].id \in IdsOf(j) \cup {NoId}
    BY <1>1, <1>5, <1>10 DEF IdsInv
  <2>3. ASSUME NEW d \in HeardDeltas, d.id # NoId
        PROVE  \/ d.index \in DOMAIN tools' /\ tools'[d.index].id # NoId
               \/ d \in LeftDeltas'
    <3>1. CASE d = delta
      BY <1>b, <1>5, <2>3, <3>1
    <3>2. CASE d \in LeftDeltas /\ d # delta
      BY <1>4, <3>2
    <3>3. CASE d.index \in DOMAIN tools /\ tools[d.index].id # NoId
      <4>1. CASE d.index = i
        <5>1. Known(i).id # NoId
          BY <3>3, <4>1 DEF Known
        <5>. QED
          BY <1>5, <4>1, <5>1
      <4>2. CASE d.index # i
        BY <1>5, <3>3, <4>2
      <4>. QED
        BY <4>1, <4>2
    <3>. QED
      BY <1>1, <2>3, <3>1, <3>2, <3>3 DEF IdsInv
  <2>. QED
    BY <1>0, <2>1, <2>2, <2>3, HeardSame DEF IdsInv
<1>12. FlagsInv' /\ WorkInv' /\ EndInv'
  BY <1>0, <1>1, HeardSame DEF FlagsInv, WorkInv, EndInv
<1>13. ~AtEnd /\ ~AtEnd'
  BY <1>0 DEF AtEnd
<1>14. BufferedInv'
  BY <1>0, <1>1, <1>2, <1>13 DEF BufferedInv, ToolBlocks
<1>15. ASSUME ~streamLive PROVE LiveInv'
  BY <1>0, <1>15 DEF LiveInv
<1>16. ASSUME streamLive PROVE LiveInv'
  <2>1. /\ ToolBlocks = IF liveBlock = None THEN {} ELSE {liveBlock + 1}
        /\ \A j \in DOMAIN tools : tools[j].name # <<>> => j = liveIndex
        /\ liveBlock # None =>
              LET label == wire[liveBlock + 1].label
              IN  /\ label.name # <<>> /\ label.name \in Piece
                  /\ \E rest \in Piece : Splits(tools[liveIndex].name, label.name, rest)
                  /\ label.id \in IdsOf(liveIndex) \cup {NoId}
    BY <1>1, <1>16 DEF LiveInv
  <2>2. /\ liveBlock = None => liveIndex = None
        /\ liveBlock # None => liveIndex \in DOMAIN tools
        /\ Len(wire) \in Nat /\ Len(wire) # None
    BY DEF Inv, Cursor, LiveAtEnd, Sound, None
  <2>3. CASE UNCHANGED <<wire, liveIndex, liveBlock>> /\ liveBlock = None /\ tools'[i].name = <<>>
    <3>1. ToolBlocks' = {}
      BY <2>1, <2>3 DEF ToolBlocks
    <3>2. \A j \in DOMAIN tools' : tools'[j].name = <<>> \/ j = liveIndex
      BY <1>5, <2>1, <2>3
    <3>. QED
      BY <1>13, <2>3, <3>1, <3>2 DEF LiveInv
  <2>4. CASE /\ liveBlock = None /\ tools'[i].name # <<>>
             /\ liveIndex' = i /\ liveBlock' = Len(wire)
             /\ ToolBlocks' = ToolBlocks \cup {Len(wire) + 1}
             /\ wire'[Len(wire) + 1].label = [id |-> tools'[i].id, name |-> tools'[i].name]
    <3>1. ToolBlocks' = {liveBlock' + 1} /\ liveBlock' # None
      BY <2>1, <2>2, <2>4
    <3>2. \A j \in DOMAIN tools : j # i => tools[j].name = <<>>
      <4>1. None \notin DOMAIN tools
        BY ChatAssumption DEF Inv, TypeOK, None
      <4>. QED
        BY <2>1, <2>2, <2>4, <4>1
    <3>3. \A j \in DOMAIN tools' : tools'[j].name # <<>> => j = i
      BY <1>5, <3>2
    <3>4. /\ wire'[liveBlock' + 1].label.name = tools'[i].name
          /\ wire'[liveBlock' + 1].label.id = tools'[i].id
      BY <2>4
    <3>5. tools'[i].name \in Piece
      BY <1>0, <1>10 DEF Inv, TypeOK
    <3>6. \E rest \in Piece : Splits(tools'[i].name, tools'[i].name, rest)
      BY <3>5, EmptyPiece DEF Splits
    <3>7. IdsOf(i)' = IdsOf(i)
      BY <1>0, HeardSame
    <3>. QED
      BY <1>10, <1>13, <2>4, <3>1, <3>3, <3>4, <3>5, <3>6, <3>7 DEF LiveInv
  <2>5. CASE /\ liveBlock # None
             /\ UNCHANGED <<liveIndex, liveBlock>> /\ liveIndex = i
             /\ ToolBlocks' = ToolBlocks
             /\ wire'[liveBlock + 1].label = wire[liveBlock + 1].label
    <3>1. PICK label : label = wire[liveBlock + 1].label
      OBVIOUS
    <3>2. /\ label.name # <<>> /\ label.name \in Piece
          /\ \E rest \in Piece : Splits(tools[i].name, label.name, rest)
          /\ label.id \in IdsOf(i) \cup {NoId}
      BY <2>1, <2>5, <3>1
    <3>3. PICK rest \in Piece : Splits(tools[i].name, label.name, rest)
      BY <3>2
    <3>4. Splits(tools'[i].name, tools[i].name, delta.name)
      BY <1>5, <2>2, <2>5 DEF Splits, Known
    <3>5. \E more \in Piece : Splits(tools'[i].name, label.name, more)
      BY <1>6, <3>2, <3>3, <3>4, SplitsMore
    <3>6. \A j \in DOMAIN tools' : tools'[j].name # <<>> => j = liveIndex
      BY <1>5, <2>1, <2>5
    <3>7. IdsOf(i)' = IdsOf(i)
      BY <1>0, HeardSame
    <3>8. wire'[liveBlock' + 1].label = label /\ liveIndex' = i
      BY <2>5, <3>1
    <3>9. ToolBlocks' = {liveBlock' + 1} /\ liveBlock' # None
      BY <2>1, <2>5
    <3>10. liveIndex' = liveIndex
      BY <2>5
    <3>. QED
      BY <1>13, <3>2, <3>5, <3>6, <3>7, <3>8, <3>9, <3>10 DEF LiveInv
  <2>. QED
    BY <1>2, <1>16, <2>3, <2>4, <2>5
<1>. QED
  BY <1>8, <1>9, <1>11, <1>12, <1>14, <1>15, <1>16 DEF Content, Heard

-----------------------------------------------------------------------------
(* The end of the stream.                                                  *)

\* The wire is extended while nothing is heard or recorded.
LEMMA HeardKept ==
    ASSUME Heard, UNCHANGED <<read, work, tools, flagVars>>, ShownText' = ShownText
    PROVE  Heard'
<1>0. UNCHANGED <<read, work, tools, finishReason, hasRefusal, refusalParts>>
  BY DEF flagVars
<1>1. LeftDeltas' = LeftDeltas
  BY <1>0 DEF LeftDeltas
<1>2. TextInv'
  BY <1>0, HeardSame DEF Heard, TextInv, Left
<1>3. PiecesInv'
  BY <1>0, HeardSame DEF Heard, PiecesInv, Left, Known
<1>4. IdsInv'
  BY <1>0, <1>1, HeardSame DEF Heard, IdsInv
<1>5. FlagsInv'
  BY <1>0, HeardSame DEF Heard, FlagsInv
<1>. QED
  BY <1>2, <1>3, <1>4, <1>5 DEF Heard

LEMMA CloseTextContent ==
    ASSUME Inv, Content, CloseText
    PROVE  Content'
<1>0. /\ phase = "closing" /\ phase' = "closing" /\ Alive
      /\ UNCHANGED <<read, tools, streamLive, liveIndex, liveBlock, remaining, ending, work,
                     finishReason, hasRefusal, refusalParts, flagVars>>
  BY DEF CloseText, Alive, toolVars, flagVars
<1>1. /\ Heard /\ LiveInv /\ BufferedInv /\ WorkInv
  BY <1>0 DEF Content
<1>2. /\ ShownText' = ShownText /\ ToolBlocks' = ToolBlocks
      /\ \A p \in ToolBlocks : wire'[p] = wire[p]
  BY CloseTextWire
<1>3. Heard' /\ WorkInv' /\ EndInv'
  BY <1>0, <1>1, <1>2, HeardKept DEF WorkInv, EndInv
<1>4. Finished' = Finished /\ AtEnd /\ AtEnd'
  BY <1>0 DEF Finished, AtEnd
<1>5. LiveInv'
  <2>1. liveBlock = None
    BY DEF CloseText, Inv, Cursor, TextAtEnd
  <2>. QED
    BY <1>0, <1>1, <1>2, <1>4, <2>1 DEF LiveInv
<1>6. BufferedInv'
  <2>1. \A call \in [ToolBlocks -> Finished] : Filed(call) => Filed(call)'
    BY <1>0, <1>2, <1>4 DEF Filed
  <2>. QED
    BY <1>0, <1>1, <1>2, <1>4, <2>1 DEF BufferedInv
<1>. QED
  BY <1>3, <1>5, <1>6 DEF Content

LEMMA FinishContent ==
    ASSUME Inv, Content, NEW i \in Index, FinishCall(i)
    PROVE  Content'
<1>0. /\ phase = "closing" /\ phase' = "closing" /\ Alive
      /\ i \in remaining /\ remaining' = remaining \ {i} /\ \A j \in remaining : i <= j
      /\ UNCHANGED <<read, tools, streamLive, ending, work,
                     finishReason, hasRefusal, refusalParts, flagVars>>
  BY DEF FinishCall, Closing, Alive, flagVars
<1>1. /\ Heard /\ LiveInv /\ BufferedInv /\ WorkInv
  BY <1>0 DEF Content
<1>2. /\ ShownText' = ShownText /\ i \in DOMAIN tools
      /\ \/ /\ streamLive /\ liveBlock # None
            /\ liveIndex = i /\ UNCHANGED <<liveIndex, liveBlock>>
            /\ ToolBlocks' = ToolBlocks
            /\ wire'[liveBlock + 1].label = wire[liveBlock + 1].label
         \/ /\ liveBlock = None
            /\ IF streamLive THEN liveIndex' = i /\ liveBlock' = Len(wire) /\ tools[i].name # <<>>
               ELSE UNCHANGED <<liveIndex, liveBlock>>
            /\ ToolBlocks' = ToolBlocks \cup {Len(wire) + 1}
            /\ \A p \in ToolBlocks : wire'[p] = wire[p] /\ p < Len(wire) + 1
            /\ wire'[Len(wire) + 1].label = [id |-> tools[i].id, name |-> tools[i].name]
            /\ wire'[Len(wire) + 1].content = tools[i].arguments
  BY FinishWire
<1>3. Heard' /\ WorkInv' /\ EndInv'
  BY <1>0, <1>1, <1>2, HeardKept DEF WorkInv, EndInv
<1>4. Finished' = Finished \cup {i} /\ AtEnd /\ AtEnd' /\ i \notin Finished
  BY <1>0, <1>2 DEF Finished, AtEnd
<1>5. /\ liveBlock = None => liveIndex = None
      /\ liveBlock # None => streamLive
      /\ Len(wire) \in Nat /\ Len(wire) # None
      /\ None \notin DOMAIN tools /\ DOMAIN tools \subseteq Index /\ Index \subseteq Nat
      /\ remaining \subseteq DOMAIN tools
  BY ChatAssumption DEF Inv, Cursor, LiveAtEnd, Sound, None, TypeOK, Progress
<1>6. \A j : IdsOf(j)' = IdsOf(j)
  BY <1>0, HeardSame
<1>7. ASSUME streamLive PROVE LiveInv'
  <2>1. /\ ToolBlocks = IF liveBlock = None THEN {} ELSE {liveBlock + 1}
        /\ \A j \in DOMAIN tools : tools[j].name # <<>> => j = liveIndex
        /\ liveBlock # None =>
              LET label == wire[liveBlock + 1].label
              IN  /\ label.name # <<>> /\ label.name \in Piece
                  /\ \E rest \in Piece : Splits(tools[liveIndex].name, label.name, rest)
                  /\ label.id \in IdsOf(liveIndex) \cup {NoId}
        /\ Finished \subseteq {liveIndex}
    BY <1>1, <1>4, <1>7 DEF LiveInv
  <2>2. CASE liveBlock # None
    <3>1. /\ liveIndex = i /\ UNCHANGED <<liveIndex, liveBlock, tools>>
          /\ ToolBlocks' = ToolBlocks
          /\ wire'[liveBlock + 1].label = wire[liveBlock + 1].label
      BY <1>0, <1>2, <2>2
    <3>2. Finished' \subseteq {liveIndex}
      BY <1>4, <2>1, <3>1
    <3>. QED
      BY <1>6, <2>1, <2>2, <3>1, <3>2 DEF LiveInv
  <2>3. CASE liveBlock = None
    <3>1. /\ liveIndex' = i /\ liveBlock' = Len(wire) /\ tools[i].name # <<>>
          /\ ToolBlocks' = ToolBlocks \cup {Len(wire) + 1}
          /\ wire'[Len(wire) + 1].label = [id |-> tools[i].id, name |-> tools[i].name]
      BY <1>2, <1>7, <2>3
    <3>2. FALSE
      BY <1>2, <1>5, <2>1, <2>3, <3>1
    <3>. QED
      BY <3>2
  <2>. QED
    BY <2>2, <2>3
<1>8. ASSUME ~streamLive PROVE BufferedInv'
  <2>1. \A f \in Finished, j \in remaining : f < j
    BY <1>1, <1>4, <1>8 DEF BufferedInv
  <2>2. PICK call \in [ToolBlocks -> Finished] : Filed(call)
    BY <1>1, <1>4, <1>8 DEF BufferedInv
  <2>3. /\ ToolBlocks' = ToolBlocks \cup {Len(wire) + 1}
        /\ \A p \in ToolBlocks : wire'[p] = wire[p] /\ p < Len(wire) + 1
        /\ wire'[Len(wire) + 1].label = [id |-> tools[i].id, name |-> tools[i].name]
        /\ wire'[Len(wire) + 1].content = tools[i].arguments
    BY <1>2, <1>5, <1>8
  <2>4. /\ \A p, q \in ToolBlocks : p < q => call[p] < call[q]
        /\ {call[p] : p \in ToolBlocks} = Finished
        /\ \A p \in ToolBlocks :
              /\ wire[p].content = tools[call[p]].arguments
              /\ wire[p].label = [id |-> tools[call[p]].id, name |-> tools[call[p]].name]
    BY <2>2 DEF Filed
  <2>5. \A f \in Finished', j \in remaining' : f < j
    <3>. SUFFICES ASSUME NEW f \in Finished', NEW j \in remaining' PROVE f < j
      OBVIOUS
    <3>1. j \in remaining /\ j # i /\ j \in Nat /\ i \in Nat /\ i <= j
      BY <1>0, <1>5
    <3>2. CASE f = i
      BY <3>1, <3>2
    <3>3. CASE f \in Finished
      BY <2>1, <3>1, <3>3
    <3>. QED
      BY <1>4, <3>2, <3>3
  <2>6. PICK last \in Nat : last = Len(wire) + 1
    BY <1>5
  <2>7. PICK more : more = [p \in ToolBlocks \cup {last} |-> IF p = last THEN i ELSE call[p]]
    OBVIOUS
  <2>8. \A p \in ToolBlocks : p # last /\ p \in Nat /\ ~(last < p)
    <3>1. ToolBlocks \subseteq Nat
      BY BlocksKept, FinishCallInv DEF ToolBlocks
    <3>. QED
      BY <2>3, <2>6, <3>1
  <2>9. /\ more[last] = i /\ \A p \in ToolBlocks : more[p] = call[p] /\ call[p] \in Finished
    BY <2>7, <2>8
  <2>10. more \in [ToolBlocks' -> Finished']
    BY <1>4, <2>3, <2>6, <2>7, <2>9
  <2>11. ASSUME NEW p \in ToolBlocks', NEW q \in ToolBlocks', p < q PROVE more[p] < more[q]
    <3>1. CASE q = last
      <4>1. p \in ToolBlocks
        BY <2>3, <2>6, <2>11, <3>1
      <4>. QED
        BY <1>0, <2>1, <2>9, <3>1, <4>1
    <3>2. CASE q # last
      <4>1. q \in ToolBlocks /\ p \in ToolBlocks
        BY <2>3, <2>6, <2>8, <2>11, <3>2
      <4>. QED
        BY <2>4, <2>9, <2>11, <4>1
    <3>. QED
      BY <3>1, <3>2
  <2>12. {more[p] : p \in ToolBlocks'} = Finished'
    <3>1. {more[p] : p \in ToolBlocks'} = {more[p] : p \in ToolBlocks} \cup {more[last]}
      BY <2>3, <2>6
    <3>2. {more[p] : p \in ToolBlocks} = {call[p] : p \in ToolBlocks}
      BY <2>9
    <3>. QED
      BY <1>4, <2>4, <2>9, <3>1, <3>2
  <2>13. ASSUME NEW p \in ToolBlocks'
         PROVE  /\ wire'[p].content = tools'[more[p]].arguments
                /\ wire'[p].label = [id |-> tools'[more[p]].id, name |-> tools'[more[p]].name]
    <3>1. CASE p = last
      BY <1>0, <2>3, <2>6, <2>9, <3>1
    <3>2. CASE p \in ToolBlocks
      BY <1>0, <2>3, <2>4, <2>9, <3>2
    <3>. QED
      BY <2>3, <2>6, <3>1, <3>2
  <2>14. Filed(more)'
    BY <2>11, <2>12, <2>13 DEF Filed
  <2>. QED
    BY <1>4, <2>5, <2>10, <2>14 DEF BufferedInv
<1>9. ~streamLive => LiveInv'
  BY <1>0 DEF LiveInv
<1>10. streamLive => BufferedInv'
  BY <1>0 DEF BufferedInv
<1>. QED
  BY <1>3, <1>7, <1>8, <1>9, <1>10 DEF Content

LEMMA ConcludeContent ==
    ASSUME Inv, Content, Conclude, Alive'
    PROVE  Content'
<1>0. StopReason(finishReason) # Null
  BY DEF Conclude, Fail, Alive
<1>1. /\ phase = "closing" /\ phase' = "stopped" /\ Alive /\ remaining = {}
      /\ UNCHANGED <<read, tools, streamLive, liveIndex, liveBlock, remaining, work, wire,
                     finishReason, hasRefusal, refusalParts, flagVars>>
  BY <1>0 DEF Conclude, Alive, toolVars, flagVars, blockVars
<1>2. PICK reason : reason = IF hasRefusal /\ DOMAIN tools = {} THEN "refusal"
                             ELSE StopReason(finishReason)
  OBVIOUS
<1>3. ending' = [stop_reason |-> reason, explanation |-> Explanation(reason, refusalParts)]
  BY <1>0, <1>2 DEF Conclude
<1>4. ending'.stop_reason = reason /\ ending'.explanation = Explanation(reason, refusalParts)
  BY <1>3
<1>5. EndInv'
  BY <1>0, <1>1, <1>2, <1>4 DEF EndInv
<1>6. /\ Heard /\ LiveInv /\ BufferedInv /\ WorkInv
  BY <1>1 DEF Content
<1>7. Heard' /\ WorkInv'
  BY <1>1, <1>6, HeardStays DEF WorkInv
<1>8. /\ Finished' = Finished /\ AtEnd /\ AtEnd' /\ ToolBlocks' = ToolBlocks
      /\ \A j : IdsOf(j)' = IdsOf(j)
  BY <1>1, HeardSame DEF Finished, AtEnd, ToolBlocks
<1>9. LiveInv'
  BY <1>1, <1>6, <1>8 DEF LiveInv
<1>10. BufferedInv'
  <2>1. \A call \in [ToolBlocks -> Finished] : Filed(call) => Filed(call)'
    BY <1>1, <1>8 DEF Filed
  <2>. QED
    BY <1>1, <1>6, <1>8, <2>1 DEF BufferedInv
<1>. QED
  BY <1>5, <1>7, <1>9, <1>10 DEF Content

LEMMA EndOfStreamContent ==
    ASSUME Inv, Content, EndOfStream
    PROVE  Content'
<1>1. /\ phase = "reading" /\ phase' = "closing" /\ Alive /\ remaining' = DOMAIN tools
      /\ UNCHANGED <<read, tools, streamLive, liveIndex, liveBlock, work, wire,
                     finishReason, hasRefusal, refusalParts, flagVars>>
  BY DEF EndOfStream, Alive, toolVars, flagVars, blockVars
<1>2. /\ Heard /\ LiveInv /\ BufferedInv /\ WorkInv
  BY <1>1 DEF Content
<1>3. Heard' /\ WorkInv' /\ EndInv'
  BY <1>1, <1>2, HeardStays DEF WorkInv, EndInv
<1>4. /\ Finished' = {} /\ ~AtEnd /\ ToolBlocks' = ToolBlocks
      /\ \A j : IdsOf(j)' = IdsOf(j)
  BY <1>1, HeardSame DEF Finished, AtEnd, ToolBlocks
<1>5. LiveInv'
  BY <1>1, <1>2, <1>4 DEF LiveInv
<1>6. ASSUME ~streamLive PROVE BufferedInv'
  <2>1. ToolBlocks' = {}
    BY <1>2, <1>4, <1>6 DEF BufferedInv
  <2>2. PICK call : call = [p \in {} |-> 0]
    OBVIOUS
  <2>3. call \in [ToolBlocks' -> Finished'] /\ Filed(call)'
    BY <1>4, <2>1, <2>2 DEF Filed
  <2>. QED
    BY <1>1, <1>4, <2>1, <2>3 DEF BufferedInv
<1>7. streamLive => BufferedInv'
  BY <1>1 DEF BufferedInv
<1>. QED
  BY <1>3, <1>5, <1>6, <1>7 DEF Content

\* Nothing changes that Content is about.
LEMMA QuietContent ==
    ASSUME Content, Alive' => Alive, AtEnd' <=> AtEnd,
           phase' # phase => phase' = "reading",
           phase = "working" => work = <<>> \/ phase' = "working",
           UNCHANGED <<read, work, flagVars, toolVars, wire, remaining, ending>>
    PROVE  Content'
<1>. SUFFICES ASSUME Alive' PROVE Content'
  BY DEF Content
<1>1. UNCHANGED <<read, tools, streamLive, liveIndex, liveBlock, work, wire, remaining, ending,
                  finishReason, hasRefusal, refusalParts>>
  BY DEF toolVars, flagVars
<1>2. /\ Heard /\ LiveInv /\ BufferedInv /\ WorkInv /\ EndInv
  BY DEF Content
<1>3. Heard' /\ WorkInv' /\ EndInv'
  BY <1>1, <1>2, HeardStays DEF WorkInv, EndInv, AtEnd
<1>4. /\ Finished' = Finished /\ ToolBlocks' = ToolBlocks /\ \A j : IdsOf(j)' = IdsOf(j)
  BY <1>1, HeardSame DEF Finished, ToolBlocks
<1>5. LiveInv'
  BY <1>1, <1>2, <1>4 DEF LiveInv
<1>6. BufferedInv'
  <2>1. \A call \in [ToolBlocks -> Finished] : Filed(call) => Filed(call)'
    BY <1>1, <1>4 DEF Filed
  <2>. QED
    BY <1>1, <1>2, <1>4, <2>1 DEF BufferedInv
<1>. QED
  BY <1>3, <1>5, <1>6 DEF Content

LEMMA NextContent ==
    ASSUME Inv, Content, [Next]_vars
    PROVE  Content'
<1>. SUFFICES ASSUME Alive' PROVE Content'
  BY DEF Content
<1>1. CASE UNCHANGED vars
  BY <1>1, QuietContent DEF vars, Alive, AtEnd, blockVars
<1>2. CASE ReadUsage \/ ChunkDone \/ CloseUpstream
  BY <1>2, QuietContent DEF ReadUsage, ChunkDone, CloseUpstream, Alive, AtEnd, blockVars
<1>3. CASE StreamFails \/ TextAfterCall \/ HangUp \/ \E i \in Index : RejectCall(i)
  BY <1>3 DEF StreamFails, TextAfterCall, HangUp, RejectCall, Fail, Alive
<1>4. CASE RecordCall
  <2>1. phase' # "failed"
    BY DEF Alive
  <2>. QED
    BY <1>4, <2>1, RecordContent
<1>5. CASE \E i \in Index : FinishCall(i)
  BY <1>5, FinishContent
<1>6. CASE \E chunk \in Chunks : ReadChunk(chunk)
  BY <1>6, ReadContent
<1>. QED
  BY <1>1, <1>2, <1>3, <1>4, <1>5, <1>6, EmitContent, CloseTextContent, ConcludeContent,
     EndOfStreamContent DEF Next, Upstream, Proceed

LEMMA SpecContent == Spec => [](Inv /\ Content)
<1>1. Init => Inv /\ Content
  BY InitInv, InitContent
<1>2. (Inv /\ Content) /\ [Next]_vars => (Inv /\ Content)'
  BY NextInv, NextContent
<1>. QED
  BY <1>1, <1>2, PTL DEF Spec

-----------------------------------------------------------------------------
(* Theorems.                                                               *)

LEMMA AllHeard ==
    ASSUME Inv, Content, phase \in {"reading", "stopped"}
    PROVE  /\ HeardText = ShownText
           /\ \A i \in Index : /\ ArgumentsOf(i) = Known(i).arguments
                               /\ NameOf(i) = Known(i).name
           /\ HeardCalls = DOMAIN tools
           /\ \A i \in DOMAIN tools :
                 /\ i \in Index /\ Known(i) = tools[i]
                 /\ tools[i].id \in IdsOf(i) \cup {NoId}
                 /\ tools[i].id = NoId => IdsOf(i) = {}
<1>0. Alive /\ work = <<>>
  BY DEF Alive, Content, WorkInv
<1>1. TextInv /\ PiecesInv /\ IdsInv
  BY <1>0 DEF Content, Heard
<1>2. LeftDeltas = {} /\ \A field, i : Left(field, i) = <<>>
  BY <1>0, NothingLeft
<1>3. HeardText = ShownText
  BY <1>1, <1>2, ShownTextType, EmptyPiece DEF TextInv, Splits
<1>4. ASSUME NEW i \in Index
      PROVE  ArgumentsOf(i) = Known(i).arguments /\ NameOf(i) = Known(i).name
  <2>1. /\ Splits(ArgumentsOf(i), Known(i).arguments, <<>>)
        /\ Splits(NameOf(i), Known(i).name, <<>>)
    BY <1>1, <1>2 DEF PiecesInv
  <2>. QED
    BY <2>1, KnownType, EmptyPiece DEF Splits
<1>5. HeardCalls = DOMAIN tools
  BY <1>1, <1>2 DEF IdsInv
<1>6. ASSUME NEW i \in DOMAIN tools, tools[i].id = NoId PROVE IdsOf(i) = {}
  BY <1>1, <1>2, <1>6 DEF IdsInv, IdsOf
<1>7. \A i \in DOMAIN tools :
         /\ i \in Index /\ Known(i) = tools[i] /\ tools[i].id \in IdsOf(i) \cup {NoId}
  BY <1>1 DEF IdsInv, Inv, TypeOK, Known
<1>. QED
  BY <1>3, <1>4, <1>5, <1>6, <1>7

\* The client has every text and refusal of a message that ended, in order and
\* nothing else, whatever tool deltas arrived in between.
THEOREM TextArrives == Spec => []TextDelivered
<1>1. Inv /\ Content => TextDelivered
  BY AllHeard DEF TextDelivered
<1>. QED
  BY <1>1, SpecContent, PTL

\* A live call is the only one.
LEMMA LiveCall ==
    ASSUME Inv, Content, phase = "stopped", streamLive
    PROVE  \/ ToolBlocks = {} /\ DOMAIN tools = {}
           \/ /\ ToolBlocks = {liveBlock + 1} /\ DOMAIN tools = {liveIndex}
              /\ liveBlock + 1 = Len(wire) /\ liveIndex \in Nat
              /\ wire[Len(wire)].content = tools[liveIndex].arguments
              /\ LET label == wire[liveBlock + 1].label
                 IN  /\ label.name # <<>> /\ label.name \in Piece
                     /\ \E rest \in Piece : Splits(tools[liveIndex].name, label.name, rest)
                     /\ label.id \in IdsOf(liveIndex) \cup {NoId}
<1>1. LiveInv /\ remaining = {} /\ AtEnd
  BY DEF Content, Alive, EndInv, AtEnd
<1>2. DOMAIN tools \subseteq {liveIndex} /\ DOMAIN tools \subseteq Nat /\ None \notin Nat
  BY <1>1, ChatAssumption DEF LiveInv, Finished, Inv, TypeOK, None
<1>3. CASE liveBlock = None
  <2>1. liveIndex = None
    BY <1>3 DEF Inv, Cursor, LiveAtEnd
  <2>. QED
    BY <1>1, <1>2, <1>3, <2>1 DEF LiveInv
<1>4. CASE liveBlock # None
  <2>1. /\ liveIndex \in DOMAIN tools /\ liveBlock = Len(wire) - 1 /\ Len(wire) \in Nat
        /\ wire[Len(wire)].content = tools[liveIndex].arguments
    BY <1>4 DEF Inv, Cursor, LiveAtEnd, Sound
  <2>2. liveBlock + 1 = Len(wire)
    BY <2>1
  <2>3. DOMAIN tools = {liveIndex} /\ liveIndex \in Nat
    BY <1>2, <2>1
  <2>. QED
    BY <1>1, <1>4, <2>1, <2>2, <2>3 DEF LiveInv
<1>. QED
  BY <1>3, <1>4

\* Otherwise the tool blocks are the calls.
LEMMA BufferedCalls ==
    ASSUME Inv, Content, phase = "stopped", ~streamLive
    PROVE  \E call \in [ToolBlocks -> DOMAIN tools] :
              /\ \A p, q \in ToolBlocks : p < q => call[p] < call[q]
              /\ {call[p] : p \in ToolBlocks} = DOMAIN tools
              /\ \A p \in ToolBlocks :
                    /\ wire[p].content = tools[call[p]].arguments
                    /\ wire[p].label = [id |-> tools[call[p]].id, name |-> tools[call[p]].name]
<1>1. BufferedInv /\ remaining = {} /\ AtEnd
  BY DEF Content, Alive, EndInv, AtEnd
<1>2. Finished = DOMAIN tools
  BY <1>1 DEF Finished
<1>. QED
  BY <1>1, <1>2 DEF BufferedInv, Filed

\* Every call becomes one tool block, in the order of the indexes, with all its
\* argument pieces in the order they arrived, in both modes.
THEOREM CallsArrive == Spec => []CallsDelivered
<1>1. ASSUME Inv, Content, phase = "stopped"
      PROVE  \E call \in [ToolBlocks -> HeardCalls] :
                /\ InCallOrder(call)
                /\ \A p \in ToolBlocks : wire[p].content = ArgumentsOf(call[p])
  <2>1. /\ HeardCalls = DOMAIN tools
        /\ \A i \in DOMAIN tools : ArgumentsOf(i) = tools[i].arguments
    BY <1>1, AllHeard
  <2>2. CASE ~streamLive
    <3>1. PICK call \in [ToolBlocks -> DOMAIN tools] :
              /\ \A p, q \in ToolBlocks : p < q => call[p] < call[q]
              /\ {call[p] : p \in ToolBlocks} = DOMAIN tools
              /\ \A p \in ToolBlocks : wire[p].content = tools[call[p]].arguments
      BY <1>1, <2>2, BufferedCalls
    <3>2. InCallOrder(call)
      BY <2>1, <3>1 DEF InCallOrder
    <3>. QED
      BY <2>1, <3>1, <3>2
  <2>3. CASE streamLive
    <3>1. PICK call : call = [p \in ToolBlocks |-> liveIndex]
      OBVIOUS
    <3>2. CASE ToolBlocks = {} /\ DOMAIN tools = {}
      <4>1. call \in [ToolBlocks -> HeardCalls]
        BY <2>1, <3>1, <3>2
      <4>2. InCallOrder(call)
        BY <2>1, <3>2 DEF InCallOrder
      <4>. QED
        BY <3>2, <4>1, <4>2
    <3>3. CASE /\ ToolBlocks = {liveBlock + 1} /\ DOMAIN tools = {liveIndex}
               /\ liveBlock + 1 = Len(wire)
               /\ wire[Len(wire)].content = tools[liveIndex].arguments
      <4>1. call \in [ToolBlocks -> HeardCalls] /\ call[Len(wire)] = liveIndex
        BY <2>1, <3>1, <3>3
      <4>2. Len(wire) \in Nat /\ ToolBlocks = {Len(wire)}
        BY <1>1, <3>3 DEF Inv, TypeOK
      <4>3. InCallOrder(call)
        BY <2>1, <3>3, <4>1, <4>2 DEF InCallOrder
      <4>. QED
        BY <2>1, <3>3, <4>1, <4>2, <4>3
    <3>. QED
      BY <1>1, <2>3, <3>2, <3>3, LiveCall
  <2>. QED
    BY <2>2, <2>3
<1>2. Inv /\ Content => CallsDelivered
  BY <1>1 DEF CallsDelivered
<1>. QED
  BY <1>2, SpecContent, PTL

LEMMA BeginsIsPrefix ==
    ASSUME NEW s \in Piece, NEW t, \E rest \in Piece : Splits(t, s, rest)
    PROVE  IsPrefix(s, t)
<1>1. PICK rest \in Piece : t = s \o rest
  BY DEF Splits
<1>2. Len(s) <= Len(t) /\ s = SubSeq(t, 1, Len(s))
  BY <1>1, PrefixOfConcat
<1>3. SubSeq(s, 1, Len(s)) = s
  BY RestOfString
<1>. QED
  BY <1>2, <1>3 DEF IsPrefix

\* A buffered call keeps its whole name and an id the gateway gave; a live one is
\* announced with the beginning of its name, and an id it was given or none.
THEOREM IdentitiesArrive == Spec => []IdentitiesDelivered
<1>1. ASSUME Inv, Content, phase = "stopped"
      PROVE  \E call \in [ToolBlocks -> HeardCalls] :
                /\ InCallOrder(call)
                /\ \A p \in ToolBlocks :
                      IF streamLive
                      THEN /\ wire[p].label.name # <<>>
                           /\ IsPrefix(wire[p].label.name, NameOf(call[p]))
                           /\ wire[p].label.id \in IdsOf(call[p]) \cup {NoId}
                      ELSE /\ wire[p].label.name = NameOf(call[p])
                           /\ IF IdsOf(call[p]) = {} THEN wire[p].label.id = NoId
                              ELSE wire[p].label.id \in IdsOf(call[p])
  <2>1. /\ HeardCalls = DOMAIN tools
        /\ \A i \in DOMAIN tools : /\ NameOf(i) = tools[i].name
                                   /\ tools[i].id \in IdsOf(i) \cup {NoId}
                                   /\ tools[i].id = NoId => IdsOf(i) = {}
    BY <1>1, AllHeard
  <2>2. CASE ~streamLive
    <3>1. PICK call \in [ToolBlocks -> DOMAIN tools] :
              /\ \A p, q \in ToolBlocks : p < q => call[p] < call[q]
              /\ {call[p] : p \in ToolBlocks} = DOMAIN tools
              /\ \A p \in ToolBlocks :
                    wire[p].label = [id |-> tools[call[p]].id, name |-> tools[call[p]].name]
      BY <1>1, <2>2, BufferedCalls
    <3>2. InCallOrder(call)
      BY <2>1, <3>1 DEF InCallOrder
    <3>3. ASSUME NEW p \in ToolBlocks
          PROVE  /\ wire[p].label.name = NameOf(call[p])
                 /\ IF IdsOf(call[p]) = {} THEN wire[p].label.id = NoId
                    ELSE wire[p].label.id \in IdsOf(call[p])
      <4>1. call[p] \in DOMAIN tools
        BY <3>1
      <4>2. PICK i \in DOMAIN tools : i = call[p]
        BY <4>1
      <4>3. wire[p].label = [id |-> tools[i].id, name |-> tools[i].name]
        BY <3>1, <4>2
      <4>4. wire[p].label.id = tools[i].id /\ wire[p].label.name = tools[i].name
        BY <4>3
      <4>. QED
        BY <2>1, <4>2, <4>4
    <3>. QED
      BY <2>1, <2>2, <3>1, <3>2, <3>3
  <2>3. CASE streamLive
    <3>1. PICK call : call = [p \in ToolBlocks |-> liveIndex]
      OBVIOUS
    <3>2. CASE ToolBlocks = {} /\ DOMAIN tools = {}
      <4>1. call \in [ToolBlocks -> HeardCalls]
        BY <2>1, <3>1, <3>2
      <4>2. InCallOrder(call)
        BY <2>1, <3>2 DEF InCallOrder
      <4>. QED
        BY <3>2, <4>1, <4>2
    <3>3. CASE /\ ToolBlocks = {liveBlock + 1} /\ DOMAIN tools = {liveIndex}
               /\ LET label == wire[liveBlock + 1].label
                  IN  /\ label.name # <<>> /\ label.name \in Piece
                      /\ \E rest \in Piece : Splits(tools[liveIndex].name, label.name, rest)
                      /\ label.id \in IdsOf(liveIndex) \cup {NoId}
      <4>1. PICK last : last = liveBlock + 1
        OBVIOUS
      <4>2. PICK label : label = wire[last].label
        OBVIOUS
      <4>3. /\ label.name # <<>> /\ label.name \in Piece
            /\ \E rest \in Piece : Splits(tools[liveIndex].name, label.name, rest)
            /\ label.id \in IdsOf(liveIndex) \cup {NoId}
            /\ ToolBlocks = {last} /\ DOMAIN tools = {liveIndex}
        BY <3>3, <4>1, <4>2
      <4>4. call \in [ToolBlocks -> HeardCalls] /\ call[last] = liveIndex
        BY <2>1, <3>1, <4>3
      <4>5. last \in Nat
        <5>1. DOMAIN wire \subseteq Nat /\ ToolBlocks \subseteq DOMAIN wire
          BY <1>1 DEF ToolBlocks, Inv, TypeOK
        <5>. QED
          BY <4>3, <5>1
      <4>6. InCallOrder(call)
        BY <2>1, <4>3, <4>4, <4>5 DEF InCallOrder
      <4>7. IsPrefix(label.name, NameOf(liveIndex))
        <5>1. NameOf(liveIndex) = tools[liveIndex].name
          BY <2>1, <4>3
        <5>2. IsPrefix(label.name, tools[liveIndex].name)
          BY <4>3, BeginsIsPrefix
        <5>. QED
          BY <5>1, <5>2
      <4>. QED
        BY <2>3, <4>2, <4>3, <4>4, <4>6, <4>7
    <3>. QED
      BY <1>1, <2>3, <3>2, <3>3, LiveCall
  <2>. QED
    BY <2>2, <2>3
<1>2. Inv /\ Content => IdentitiesDelivered
  BY <1>1 DEF IdentitiesDelivered
<1>. QED
  BY <1>2, SpecContent, PTL

\* Between two chunks the client has every argument piece of a named call, when
\* the request ruled out parallel calls.
THEOREM ArgumentsArriveLive == Spec => []ArgumentsStreamLive
<1>1. ASSUME Inv, Content, streamLive, phase = "reading", NEW i \in HeardCalls, NameOf(i) # <<>>
      PROVE  \E p \in ToolBlocks : wire[p].content = ArgumentsOf(i)
  <2>1. /\ i \in DOMAIN tools /\ NameOf(i) = tools[i].name
        /\ ArgumentsOf(i) = tools[i].arguments
    BY <1>1, AllHeard
  <2>2. LiveInv /\ i \in Nat /\ None \notin Nat
    <3>1. LiveInv
      BY <1>1 DEF Content, Alive
    <3>2. DOMAIN tools \subseteq Index
      BY <1>1 DEF Inv, TypeOK
    <3>3. i \in Nat
      BY <2>1, <3>2, ChatAssumption
    <3>4. None \notin Nat
      BY DEF None
    <3>. QED
      BY <3>1, <3>3, <3>4
  <2>3. i = liveIndex /\ liveIndex # None
    BY <1>1, <2>1, <2>2 DEF LiveInv
  <2>4. liveBlock # None
    BY <1>1, <2>3 DEF Inv, Cursor, LiveAtEnd
  <2>5. /\ wire[Len(wire)].content = tools[i].arguments /\ Len(wire) \in Nat
        /\ liveBlock = Len(wire) - 1
    BY <1>1, <2>3, <2>4 DEF Inv, Cursor, LiveAtEnd, Sound
  <2>6. Len(wire) \in ToolBlocks
    <3>1. liveBlock + 1 = Len(wire)
      BY <2>5
    <3>. QED
      BY <1>1, <2>2, <2>4, <3>1 DEF LiveInv
  <2>. QED
    BY <2>1, <2>5, <2>6
<1>2. Inv /\ Content => ArgumentsStreamLive
  BY <1>1 DEF ArgumentsStreamLive
<1>. QED
  BY <1>2, SpecContent, PTL

\* A message ends only with a reason the gateway gave, the last one, unless it
\* refused and called nothing; and a refusal is explained with all of its text.
THEOREM EndingTrue == Spec => []EndingHonest
<1>1. ASSUME Inv, Content, phase = "stopped"
      PROVE  LET finished == {n \in DOMAIN read : read[n].finish # Null}
             IN  /\ finished # {}
                 /\ IF HeardCalls = {} /\ \E n \in DOMAIN read : read[n].refusal # Null
                    THEN ending.stop_reason = "refusal"
                    ELSE ending.stop_reason = StopReason(read[Max(finished)].finish)
                 /\ (ending.stop_reason = "refusal" /\ HeardRefusal # <<>>) =>
                         ending.explanation = HeardRefusal
  <2>. DEFINE finished == {n \in DOMAIN read : read[n].finish # Null}
  <2>1. FlagsInv /\ EndInv /\ HeardCalls = DOMAIN tools
    BY <1>1, AllHeard DEF Content, Heard, Alive
  <2>2. finishReason # Null
    BY <1>1, <2>1, ChatAssumption DEF EndInv, StopReason, FinishReason
  <2>3. PICK n \in DOMAIN read :
             /\ read[n].finish = finishReason
             /\ \A m \in DOMAIN read : m > n => read[m].finish = Null
    BY <2>1, <2>2 DEF FlagsInv
  <2>4. DOMAIN read \subseteq Nat
    BY <1>1 DEF Inv, TypeOK
  <2>5. n \in finished /\ finished \subseteq Nat /\ \A m \in finished : n >= m
    BY <2>2, <2>3, <2>4
  <2>. HIDE DEF finished
  <2>6. Max(finished) = n
    <3>1. \A x \in finished : (\A m \in finished : x >= m) => x = n
      BY <2>5
    <3>. QED
      BY <2>5, <3>1 DEF Max
  <2>7. /\ ending.stop_reason = IF hasRefusal /\ DOMAIN tools = {} THEN "refusal"
                                ELSE StopReason(finishReason)
        /\ ending.explanation = Explanation(ending.stop_reason, refusalParts)
        /\ refusalParts = HeardRefusal
        /\ hasRefusal <=> \E m \in DOMAIN read : read[m].refusal # Null
    BY <1>1, <2>1 DEF EndInv, FlagsInv
  <2>8. (ending.stop_reason = "refusal" /\ HeardRefusal # <<>>) =>
             ending.explanation = HeardRefusal
    BY <2>7 DEF Explanation
  <2>9. finished # {}
    BY <2>5
  <2>10. IF HeardCalls = {} /\ \E m \in DOMAIN read : read[m].refusal # Null
         THEN ending.stop_reason = "refusal"
         ELSE ending.stop_reason = StopReason(read[Max(finished)].finish)
    BY <2>1, <2>3, <2>6, <2>7
  <2>. QED
    BY <2>8, <2>9, <2>10 DEF finished
<1>2. Inv /\ Content => EndingHonest
  BY <1>1 DEF EndingHonest
<1>. QED
  BY <1>2, SpecContent, PTL
================================================================================
