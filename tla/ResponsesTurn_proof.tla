------------------------- MODULE ResponsesTurn_proof -------------------------
(***************************************************************************)
(* The five invariants of ResponsesTurn, for every answer of every         *)
(* gateway that conforms to the Responses API.                             *)
(***************************************************************************)
EXTENDS ResponsesTurn, ResponsesStream_proof, SequenceFacts

\* The pieces an element is selected into.
PiecesOf(s, X) == [i \in DOMAIN s |-> IF s[i] \in X THEN <<s[i]>> ELSE <<>>]

\* Selecting is gathering the pieces.
LEMMA PiecesType ==
    ASSUME NEW S, NEW s \in Seq(S), NEW X
    PROVE  /\ PiecesOf(s, X) \in Seq(Seq(S)) /\ Len(PiecesOf(s, X)) = Len(s)
           /\ \A i \in 1..Len(s) : PiecesOf(s, X)[i] = IF s[i] \in X THEN <<s[i]>> ELSE <<>>
           /\ Selected(s, X) = FlattenSeq(PiecesOf(s, X))
<1>1. PICK n \in Nat : n = Len(s) /\ DOMAIN s = 1..n /\ \A i \in 1..n : s[i] \in S
  OBVIOUS
<1>2. PiecesOf(s, X) = [i \in 1..n |-> IF s[i] \in X THEN <<s[i]>> ELSE <<>>]
  BY <1>1 DEF PiecesOf
<1>3. \A i \in 1..n : (IF s[i] \in X THEN <<s[i]>> ELSE <<>>) \in Seq(S)
  BY <1>1
<1>4. PiecesOf(s, X) \in Seq(Seq(S)) /\ Len(PiecesOf(s, X)) = n
  BY <1>2, <1>3
<1>. QED
  BY <1>1, <1>2, <1>4 DEF Selected, PiecesOf

\* What is selected from a sequence is one over the same elements.
LEMMA SelectedType ==
    ASSUME NEW S, NEW s \in Seq(S), NEW X
    PROVE  Selected(s, X) \in Seq(S)
BY PiecesType, FlattenType

\* A sequence whose elements are all selected stays as it is.
LEMMA SelectedAll ==
    ASSUME NEW S, NEW s \in Seq(S), NEW X, \A i \in 1..Len(s) : s[i] \in X
    PROVE  Selected(s, X) = s
<1>1. PICK p : p = PiecesOf(s, X)
  OBVIOUS
<1>2. p \in Seq(Seq(S)) /\ Len(p) = Len(s) /\ (\A i \in 1..Len(s) : p[i] = <<s[i]>>) /\ Selected(s, X) = FlattenSeq(p)
  BY <1>1, PiecesType
<1>. QED
  BY <1>2, FlattenSingles

\* No element is in the set.
LEMMA SelectedNone ==
    ASSUME NEW S, NEW s \in Seq(S), NEW X, \A i \in 1..Len(s) : s[i] \notin X
    PROVE  Selected(s, X) = <<>>
<1>1. PICK p : p = PiecesOf(s, X)
  OBVIOUS
<1>2. p \in Seq(Seq(S)) /\ Len(p) = Len(s) /\ Selected(s, X) = FlattenSeq(p)
  BY <1>1, PiecesType
<1>3. \A i \in 1..Len(s) : p[i] = IF s[i] \in X THEN <<s[i]>> ELSE <<>>
  BY <1>1, PiecesType
<1>4. \A i \in 1..Len(p) : p[i] = <<>>
  BY <1>2, <1>3
<1>. QED
  BY <1>2, <1>4, FlattenNothing

\* s is a followed by b: so is what is selected.
LEMMA SelectedSplit ==
    ASSUME NEW S, NEW s \in Seq(S), NEW a \in Seq(S), NEW b \in Seq(S), NEW X,
           Splits(s, a, b)
    PROVE  Splits(Selected(s, X), Selected(a, X), Selected(b, X))
<1>1. PICK m \in Nat : m = Len(a)
  OBVIOUS
<1>2. PICK n \in Nat : n = Len(b)
  OBVIOUS
<1>3. Len(s) = m + n /\ (\A i \in 1..m : s[i] = a[i]) /\ (\A i \in 1..n : s[m + i] = b[i])
  BY <1>1, <1>2, ElementsOfSplit
<1>4. PICK p : p = PiecesOf(s, X)
  OBVIOUS
<1>5. PICK q : q = PiecesOf(a, X)
  OBVIOUS
<1>6. PICK r : r = PiecesOf(b, X)
  OBVIOUS
<1>7. /\ p \in Seq(Seq(S)) /\ Len(p) = m + n /\ Selected(s, X) = FlattenSeq(p)
      /\ q \in Seq(Seq(S)) /\ Len(q) = m /\ Selected(a, X) = FlattenSeq(q)
      /\ r \in Seq(Seq(S)) /\ Len(r) = n /\ Selected(b, X) = FlattenSeq(r)
  <2>1. p \in Seq(Seq(S)) /\ Len(p) = Len(s) /\ Selected(s, X) = FlattenSeq(p)
    BY <1>4, PiecesType
  <2>2. q \in Seq(Seq(S)) /\ Len(q) = Len(a) /\ Selected(a, X) = FlattenSeq(q)
    BY <1>5, PiecesType
  <2>3. r \in Seq(Seq(S)) /\ Len(r) = Len(b) /\ Selected(b, X) = FlattenSeq(r)
    BY <1>6, PiecesType
  <2>. QED
    BY <1>1, <1>2, <1>3, <2>1, <2>2, <2>3
<1>8. \A i \in 1..(m + n) : p[i] = IF s[i] \in X THEN <<s[i]>> ELSE <<>>
  <2>1. \A i \in 1..Len(s) : p[i] = IF s[i] \in X THEN <<s[i]>> ELSE <<>>
    BY <1>4, PiecesType
  <2>. QED
    BY <1>3, <2>1
<1>9. \A i \in 1..m : q[i] = IF a[i] \in X THEN <<a[i]>> ELSE <<>>
  <2>1. \A i \in 1..Len(a) : q[i] = IF a[i] \in X THEN <<a[i]>> ELSE <<>>
    BY <1>5, PiecesType
  <2>. QED
    BY <1>1, <2>1
<1>10. \A i \in 1..n : r[i] = IF b[i] \in X THEN <<b[i]>> ELSE <<>>
  <2>1. \A i \in 1..Len(b) : r[i] = IF b[i] \in X THEN <<b[i]>> ELSE <<>>
    BY <1>6, PiecesType
  <2>. QED
    BY <1>2, <2>1
<1>11. ASSUME NEW i \in 1..m PROVE p[i] = q[i]
  <2>1. i \in 1..(m + n) /\ s[i] = a[i]
    BY <1>3
  <2>. QED
    BY <1>8, <1>9, <2>1
<1>12. ASSUME NEW i \in 1..n PROVE p[m + i] = r[i]
  <2>1. m + i \in 1..(m + n) /\ s[m + i] = b[i]
    BY <1>3
  <2>. QED
    BY <1>8, <1>10, <2>1
<1>13. Splits(FlattenSeq(p), FlattenSeq(q), FlattenSeq(r))
  <2>1. /\ Len(p) = Len(q) + Len(r)
        /\ \A i \in 1..Len(q) : p[i] = q[i]
        /\ \A i \in 1..Len(r) : p[Len(q) + i] = r[i]
    BY <1>7, <1>11, <1>12
  <2>. QED
    BY <1>7, <2>1, FlattenSplit
<1>. QED
  BY <1>7, <1>13

\* s is a, then b, its part from m to n, then c; d is what follows a.
IsCut(s, m, n, a, b, c, d) ==
    /\ Splits(s, a, d) /\ Splits(d, b, c) /\ b = SubSeq(s, m, n)
    /\ Len(a) = m - 1 /\ \A i \in 1..(m - 1) : a[i] = s[i]
    /\ Len(b) = (n - m) + 1 /\ \A i \in 1..((n - m) + 1) : b[i] = s[(m - 1) + i]
    /\ Len(c) = Len(s) - n /\ \A i \in 1..(Len(s) - n) : c[i] = s[n + i]

\* A run of a sequence is what is left between its first and its last part.
LEMMA CutInThree ==
    ASSUME NEW S, NEW s \in Seq(S), NEW m \in 1..Len(s), NEW n \in m..Len(s)
    PROVE  \E a, b, c, d \in Seq(S) : IsCut(s, m, n, a, b, c, d)
<1>0. PICK l \in Nat : l = Len(s)
  OBVIOUS
<1>1. m \in Nat /\ n \in Nat /\ m <= n /\ n <= l /\ 1 <= m
  BY <1>0
<1>2. PICK a : a = SubSeq(s, 1, m - 1)
  OBVIOUS
<1>3. PICK b : b = SubSeq(s, m, n)
  OBVIOUS
<1>4. PICK c : c = SubSeq(s, n + 1, l)
  OBVIOUS
<1>5. PICK d : d = SubSeq(s, m, l)
  OBVIOUS
<1>6. a \in Seq(S) /\ Len(a) = m - 1 /\ \A i \in 1..(m - 1) : a[i] = s[i]
  BY <1>0, <1>1, <1>2
<1>7. b \in Seq(S) /\ Len(b) = (n - m) + 1 /\ \A i \in 1..((n - m) + 1) : b[i] = s[(m - 1) + i]
  BY <1>0, <1>1, <1>3
<1>8. c \in Seq(S) /\ Len(c) = l - n /\ \A i \in 1..(l - n) : c[i] = s[n + i]
  BY <1>0, <1>1, <1>4
<1>9. d \in Seq(S) /\ Len(d) = (l - m) + 1 /\ \A i \in 1..((l - m) + 1) : d[i] = s[(m - 1) + i]
  BY <1>0, <1>1, <1>5
<1>10. Splits(s, a, d)
  <2>1. Len(s) = Len(a) + Len(d)
    BY <1>0, <1>1, <1>6, <1>9
  <2>2. \A i \in 1..Len(a) : s[i] = a[i]
    BY <1>6
  <2>3. \A i \in 1..Len(d) : s[Len(a) + i] = d[i]
    BY <1>6, <1>9
  <2>. QED
    BY <1>6, <1>7, <1>8, <1>9, <2>1, <2>2, <2>3, ConcatElements
<1>11. Splits(d, b, c)
  <2>1. Len(d) = Len(b) + Len(c)
    BY <1>0, <1>1, <1>7, <1>8, <1>9
  <2>2. ASSUME NEW i \in 1..Len(b) PROVE d[i] = b[i]
    <3>1. i \in 1..((n - m) + 1) /\ i \in 1..((l - m) + 1)
      BY <1>1, <1>7
    <3>. QED
      BY <1>7, <1>9, <3>1
  <2>3. ASSUME NEW i \in 1..Len(c) PROVE d[Len(b) + i] = c[i]
    <3>1. /\ i \in 1..(l - n) /\ Len(b) + i \in 1..((l - m) + 1)
          /\ (m - 1) + (Len(b) + i) = n + i
      BY <1>1, <1>7, <1>8
    <3>. QED
      BY <1>8, <1>9, <3>1
  <2>. QED
    BY <1>6, <1>7, <1>8, <1>9, <2>1, <2>2, <2>3, ConcatElements
<1>12. IsCut(s, m, n, a, b, c, d)
  BY <1>0, <1>3, <1>6, <1>7, <1>8, <1>10, <1>11 DEF IsCut
<1>. QED
  BY <1>6, <1>7, <1>8, <1>9, <1>12

\* The elements in the set are the ones from m to n.
LEMMA SelectedRun ==
    ASSUME NEW S, NEW s \in Seq(S), NEW X, NEW m \in 1..Len(s), NEW n \in m..Len(s),
           \A i \in 1..Len(s) : s[i] \in X <=> i \in m..n
    PROVE  Selected(s, X) = SubSeq(s, m, n)
<1>0. PICK l \in Nat : l = Len(s)
  OBVIOUS
<1>1. m \in Nat /\ n \in Nat /\ m <= n /\ n <= l /\ 1 <= m
  BY <1>0
<1>2. PICK a, b, c, d \in Seq(S) : IsCut(s, m, n, a, b, c, d)
  BY CutInThree
<1>3. ASSUME NEW i \in 1..Len(a) PROVE a[i] \notin X
  <2>1. i \in 1..(m - 1) /\ i \in 1..Len(s) /\ i \notin m..n
    BY <1>0, <1>1, <1>2 DEF IsCut
  <2>. QED
    BY <1>2, <2>1 DEF IsCut
<1>4. ASSUME NEW i \in 1..Len(b) PROVE b[i] \in X
  <2>1. /\ i \in 1..((n - m) + 1) /\ (m - 1) + i \in 1..Len(s) /\ (m - 1) + i \in m..n
    BY <1>0, <1>1, <1>2 DEF IsCut
  <2>. QED
    BY <1>2, <2>1 DEF IsCut
<1>5. ASSUME NEW i \in 1..Len(c) PROVE c[i] \notin X
  <2>1. /\ i \in 1..(Len(s) - n) /\ n + i \in 1..Len(s) /\ n + i \notin m..n
    BY <1>0, <1>1, <1>2 DEF IsCut
  <2>. QED
    BY <1>2, <2>1 DEF IsCut
<1>6. Selected(a, X) = <<>> /\ Selected(b, X) = b /\ Selected(c, X) = <<>>
  BY <1>3, <1>4, <1>5, SelectedNone, SelectedAll
<1>7. Splits(Selected(s, X), Selected(a, X), Selected(d, X))
  BY <1>2, SelectedSplit DEF IsCut
<1>8. Splits(Selected(d, X), Selected(b, X), Selected(c, X))
  BY <1>2, SelectedSplit DEF IsCut
<1>9. Selected(d, X) = b
  BY <1>6, <1>8 DEF Splits
<1>10. Selected(s, X) = b
  BY <1>6, <1>7, <1>9 DEF Splits
<1>. QED
  BY <1>2, <1>10 DEF IsCut

-----------------------------------------------------------------------------
(* What a handler does to the block of one part or call: `Placed` is about *)
(* any message that differs from `blocks` in its i-th block only, which    *)
(* may be one more.                                                        *)

\* A block, and a message with it in its i-th place.
Shape(kind, label, content, stops) ==
    [kind |-> kind, label |-> label, content |-> content, stops |-> stops]

Placed(bs, i, block) ==
    /\ bs \in Seq(Block) /\ blocks \in Seq(Block)
    /\ i \in 1..(Len(blocks) + 1)
    /\ Len(bs) = IF i = Len(blocks) + 1 THEN i ELSE Len(blocks)
    /\ bs[i] = block
    /\ \A p \in 1..Len(blocks) : p # i => bs[p] = blocks[p]

\* The i-th block is the next one, still empty, or it was started and has the
\* given content and stops; `index` is what the translator's table says.
Found(index, i, kind, label, content, stops) ==
    \/ index = Absent /\ i = Len(blocks) + 1 /\ content = <<>> /\ stops = 0
    \/ /\ index = i - 1 /\ i \in 1..Len(blocks)
       /\ blocks[i] = Shape(kind, label, content, stops)

\* It is a block.
LEMMA ShapeType ==
    ASSUME NEW kind \in Kind, NEW label \in Label, NEW content \in String, NEW stops \in Nat
    PROVE  Shape(kind, label, content, stops) \in Block
BY DEF Shape, Block

\* A block that is started or written whole is the next one.
LEMMA PlacedNew ==
    ASSUME blocks \in Seq(Block), NEW kind \in Kind, NEW label \in Label
    PROVE  /\ Placed(StartBlock(blocks, kind, label), Len(blocks) + 1, Shape(kind, label, <<>>, 0))
           /\ Placed(WholeBlock(blocks, kind, label), Len(blocks) + 1, Shape(kind, label, <<>>, 1))
<1>1. PICK n \in Nat : n = Len(blocks)
  OBVIOUS
<1>2. PICK bs : bs = StartBlock(blocks, kind, label)
  OBVIOUS
<1>3. PICK cs : cs = WholeBlock(blocks, kind, label)
  OBVIOUS
<1>4. bs \in Seq(Block) /\ cs \in Seq(Block)
  BY <1>2, <1>3, StartBlockType, WholeBlockType
<1>5. /\ Len(bs) = n + 1 /\ bs[n + 1] = Shape(kind, label, <<>>, 0)
      /\ \A p \in 1..n : bs[p] = blocks[p]
  BY <1>1, <1>2 DEF StartBlock, Shape
<1>6. /\ Len(cs) = n + 1 /\ cs[n + 1] = Shape(kind, label, <<>>, 1)
      /\ \A p \in 1..n : cs[p] = blocks[p]
  BY <1>1, <1>3 DEF WholeBlock, Shape
<1>7. Placed(bs, n + 1, Shape(kind, label, <<>>, 0))
  BY <1>1, <1>4, <1>5 DEF Placed
<1>8. Placed(cs, n + 1, Shape(kind, label, <<>>, 1))
  BY <1>1, <1>4, <1>6 DEF Placed
<1>. QED
  BY <1>1, <1>2, <1>3, <1>7, <1>8

\* A block is in its place in the message as it is.
LEMMA PlacedSame ==
    ASSUME blocks \in Seq(Block), NEW i \in 1..Len(blocks), NEW block, blocks[i] = block
    PROVE  Placed(blocks, i, block)
BY DEF Placed

\* A delta extends the block in its place.
LEMMA PlacedDelta ==
    ASSUME NEW bs, NEW i, NEW kind \in Kind, NEW label \in Label, NEW content \in String,
           NEW stops \in Nat, NEW delta \in String,
           Placed(bs, i, Shape(kind, label, content, stops))
    PROVE  Placed(AppendDelta(bs, i - 1, delta), i, Shape(kind, label, content \o delta, stops))
<1>1. /\ bs \in Seq(Block) /\ i \in 1..Len(bs) /\ i - 1 \in Nat /\ (i - 1) + 1 = i
      /\ Len(blocks) \in Nat /\ Len(blocks) <= Len(bs)
  BY DEF Placed
<1>2. PICK cs : cs = AppendDelta(bs, i - 1, delta)
  OBVIOUS
<1>3. PICK j \in Nat : j = i - 1
  BY <1>1
<1>4. /\ cs \in Seq(Block) /\ Len(cs) = Len(bs)
      /\ \A p \in DOMAIN bs : p # i => cs[p] = bs[p]
  <2>1. j + 1 = i /\ j + 1 \in DOMAIN bs /\ cs = AppendDelta(bs, j, delta)
    BY <1>1, <1>2, <1>3
  <2>2. /\ AppendDelta(bs, j, delta) \in Seq(Block) /\ Len(AppendDelta(bs, j, delta)) = Len(bs)
        /\ \A p \in DOMAIN bs : p # j + 1 => AppendDelta(bs, j, delta)[p] = bs[p]
    BY <1>1, <2>1, AppendDeltaFacts
  <2>. QED
    BY <2>1, <2>2
<1>5. bs[i] = Shape(kind, label, content, stops)
  BY DEF Placed
<1>6. cs[i] = Shape(kind, label, content \o delta, stops)
  <2>1. PICK c : c = content \o delta
    OBVIOUS
  <2>2. bs[i].content \o delta = c
    BY <1>5, <2>1 DEF Shape
  <2>3. cs = [bs EXCEPT ![i].content = c]
    <3>1. cs = [bs EXCEPT ![(i - 1) + 1].content = @ \o delta] /\ (i - 1) + 1 = i
      BY <1>1, <1>2 DEF AppendDelta
    <3>2. cs = [bs EXCEPT ![i].content = bs[i].content \o delta]
      BY <3>1
    <3>. QED
      BY <2>2, <3>2
  <2>4. cs[i] = [bs[i] EXCEPT !.content = c]
    BY <1>1, <2>3
  <2>5. cs[i] = Shape(kind, label, c, stops)
    BY <1>5, <2>4 DEF Shape
  <2>. QED
    BY <2>1, <2>5
<1>7. \A p \in 1..Len(blocks) : p # i => cs[p] = blocks[p]
  BY <1>1, <1>4 DEF Placed
<1>8. Placed(cs, i, Shape(kind, label, content \o delta, stops))
  BY <1>4, <1>6, <1>7 DEF Placed
<1>. QED
  BY <1>2, <1>8

\* Stopping closes the block in its place.
LEMMA PlacedStop ==
    ASSUME NEW bs, NEW i, NEW kind \in Kind, NEW label \in Label, NEW content \in String,
           Placed(bs, i, Shape(kind, label, content, 0))
    PROVE  Placed(StopBlock(bs, i - 1), i, Shape(kind, label, content, 1))
<1>1. /\ bs \in Seq(Block) /\ i \in 1..Len(bs) /\ i - 1 \in Nat /\ (i - 1) + 1 = i
      /\ Len(blocks) \in Nat /\ Len(blocks) <= Len(bs)
  BY DEF Placed
<1>2. PICK cs : cs = StopBlock(bs, i - 1)
  OBVIOUS
<1>3. PICK j \in Nat : j = i - 1
  BY <1>1
<1>4. /\ cs \in Seq(Block) /\ Len(cs) = Len(bs)
      /\ \A p \in DOMAIN bs : p # i => cs[p] = bs[p]
  BY <1>1, <1>2, <1>3, StopBlockFacts
<1>5. cs[i] = [bs[i] EXCEPT !.stops = @ + 1]
  BY <1>1, <1>2 DEF StopBlock
<1>6. cs[i] = Shape(kind, label, content, 1)
  BY <1>5 DEF Placed, Shape
<1>7. \A p \in 1..Len(blocks) : p # i => cs[p] = blocks[p]
  BY <1>1, <1>4 DEF Placed
<1>8. Placed(cs, i, Shape(kind, label, content, 1))
  BY <1>4, <1>6, <1>7 DEF Placed
<1>. QED
  BY <1>2, <1>8

\* The tables about a text part whose block was found.
TextStands(k, i, content, stops) ==
    /\ TextBlock(k) = i - 1
    /\ TextBlock(k) \in OpenWithText(k) <=> stops = 0
    /\ textParts[k] = content
    /\ Placed(BlocksWithText(k), i, Shape("text", Null, content, stops))

\* The table of text blocks leads to it.
LEMMA TextFound ==
    ASSUME TypeOK, Mirror, NEW k \in Keys, NEW i \in Nat, NEW content, NEW stops \in {0, 1},
           Found(textIndex[k], i, "text", Null, content, stops)
    PROVE  TextStands(k, i, content, stops)
<1>1. /\ blocks \in Seq(Block) /\ nextIndex = Len(blocks) /\ Len(blocks) \in Nat
      /\ openBlocks \subseteq 0..(Len(blocks) - 1)
      /\ \A p \in 1..Len(blocks) : blocks[p].stops = IF p - 1 \in openBlocks THEN 0 ELSE 1
  BY DEF Mirror, Counts
<1>2. "text" \in Kind /\ Null \in Label
  BY DEF Kind, Label
<1>3. CASE textIndex[k] = Absent
  <2>1. i = Len(blocks) + 1 /\ content = <<>> /\ stops = 0
    <3>1. ~(textIndex[k] = i - 1 /\ i \in 1..Len(blocks))
      BY <1>1, <1>3 DEF Absent
    <3>. QED
      BY <3>1 DEF Found
  <2>2. TextBlock(k) = i - 1 /\ TextBlock(k) \in OpenWithText(k)
    BY <1>1, <1>3, <2>1 DEF TextBlock, OpenWithText
  <2>3. textParts[k] = <<>>
    BY <1>3 DEF Mirror, TextView, View
  <2>4. BlocksWithText(k) = StartBlock(blocks, "text", Null)
    BY <1>3 DEF BlocksWithText
  <2>5. Placed(BlocksWithText(k), i, Shape("text", Null, <<>>, 0))
    BY <1>1, <1>2, <2>1, <2>4, PlacedNew
  <2>. QED
    BY <2>1, <2>2, <2>3, <2>5 DEF TextStands
<1>4. CASE textIndex[k] # Absent
  <2>1. /\ textIndex[k] = i - 1 /\ i \in 1..Len(blocks)
        /\ blocks[i] = Shape("text", Null, content, stops)
    BY <1>4 DEF Found
  <2>2. TextBlock(k) = i - 1 /\ OpenWithText(k) = openBlocks /\ BlocksWithText(k) = blocks
    BY <1>4, <2>1 DEF TextBlock, OpenWithText, BlocksWithText
  <2>3. i - 1 \in openBlocks <=> stops = 0
    <3>1. blocks[i].stops = stops
      BY <2>1 DEF Shape
    <3>. QED
      BY <1>1, <2>1, <3>1
  <2>4. textParts[k] = content
    <3>1. blocks[textIndex[k] + 1].content = textParts[k] /\ textIndex[k] + 1 = i
      BY <1>4, <2>1 DEF Mirror, TextView, View
    <3>. QED
      BY <2>1, <3>1 DEF Shape
  <2>5. Placed(blocks, i, Shape("text", Null, content, stops))
    BY <1>1, <2>1, PlacedSame
  <2>. QED
    BY <2>2, <2>3, <2>4, <2>5 DEF TextStands
<1>. QED
  BY <1>3, <1>4

\* The same about a call.
ToolStands(o, name, i, content, stops) ==
    /\ ToolBlock(o) = i - 1
    /\ ToolBlock(o) \in OpenWithTool(o) <=> stops = 0
    /\ argumentParts[o] = content
    /\ Placed(BlocksWithTool(o, name), i, Shape("tool_use", name, content, stops))

\* The table of tool blocks leads to it.
LEMMA ToolFound ==
    ASSUME TypeOK, Mirror, NEW o \in Slot, NEW name \in Name \cup {NoName}, NEW i \in Nat,
           NEW content, NEW stops \in {0, 1},
           Found(toolIndex[o], i, "tool_use", name, content, stops)
    PROVE  ToolStands(o, name, i, content, stops)
<1>1. /\ blocks \in Seq(Block) /\ nextIndex = Len(blocks) /\ Len(blocks) \in Nat
      /\ openBlocks \subseteq 0..(Len(blocks) - 1)
      /\ \A p \in 1..Len(blocks) : blocks[p].stops = IF p - 1 \in openBlocks THEN 0 ELSE 1
  BY DEF Mirror, Counts
<1>2. "tool_use" \in Kind /\ name \in Label
  BY DEF Kind, Label
<1>3. CASE toolIndex[o] = Absent
  <2>1. i = Len(blocks) + 1 /\ content = <<>> /\ stops = 0
    <3>1. ~(toolIndex[o] = i - 1 /\ i \in 1..Len(blocks))
      BY <1>1, <1>3 DEF Absent
    <3>. QED
      BY <3>1 DEF Found
  <2>2. ToolBlock(o) = i - 1 /\ ToolBlock(o) \in OpenWithTool(o)
    BY <1>1, <1>3, <2>1 DEF ToolBlock, OpenWithTool
  <2>3. argumentParts[o] = <<>>
    BY <1>3 DEF Mirror, ToolView, View
  <2>4. BlocksWithTool(o, name) = StartBlock(blocks, "tool_use", name)
    BY <1>3 DEF BlocksWithTool
  <2>5. Placed(BlocksWithTool(o, name), i, Shape("tool_use", name, <<>>, 0))
    BY <1>1, <1>2, <2>1, <2>4, PlacedNew
  <2>. QED
    BY <2>1, <2>2, <2>3, <2>5 DEF ToolStands
<1>4. CASE toolIndex[o] # Absent
  <2>1. /\ toolIndex[o] = i - 1 /\ i \in 1..Len(blocks)
        /\ blocks[i] = Shape("tool_use", name, content, stops)
    BY <1>4 DEF Found
  <2>2. ToolBlock(o) = i - 1 /\ OpenWithTool(o) = openBlocks /\ BlocksWithTool(o, name) = blocks
    BY <1>4, <2>1 DEF ToolBlock, OpenWithTool, BlocksWithTool
  <2>3. i - 1 \in openBlocks <=> stops = 0
    <3>1. blocks[i].stops = stops
      BY <2>1 DEF Shape
    <3>. QED
      BY <1>1, <2>1, <3>1
  <2>4. argumentParts[o] = content
    <3>1. blocks[toolIndex[o] + 1].content = argumentParts[o] /\ toolIndex[o] + 1 = i
      BY <1>4, <2>1 DEF Mirror, ToolView, View
    <3>. QED
      BY <2>1, <3>1 DEF Shape
  <2>5. Placed(blocks, i, Shape("tool_use", name, content, stops))
    BY <1>1, <2>1, PlacedSame
  <2>. QED
    BY <2>2, <2>3, <2>4, <2>5 DEF ToolStands
<1>. QED
  BY <1>3, <1>4

-----------------------------------------------------------------------------
(* The handlers of an event, when they find what they expect: none of them *)
(* reports an error, and only the block of the event's part or call        *)
(* changes.                                                                *)

\* A text or refusal delta extends the block of its part.
LEMMA TextDeltaDoes ==
    ASSUME TypeOK, Mirror, NEW k \in Keys, NEW kind \in {"text", "refusal"}, NEW delta \in String,
           NEW i \in Nat, NEW content \in String,
           Found(textIndex[k], i, "text", Null, content, 0), TextDelta(k, kind, delta)
    PROVE  /\ Placed(blocks', i, Shape("text", Null, content \o delta, 0))
           /\ textIndex' = [textIndex EXCEPT ![k] = i - 1] /\ toolIndex' = toolIndex
           /\ hasToolCall' = hasToolCall /\ (hasRefusal' <=> hasRefusal \/ kind = "refusal")
           /\ Yield
<1>1. TextStands(k, i, content, 0)
  BY TextFound
<1>2. TextBlock(k) = i - 1 /\ TextBlock(k) \in OpenWithText(k)
  BY <1>1 DEF TextStands
<1>3. /\ StartText(k) /\ blocks' = AppendDelta(BlocksWithText(k), i - 1, delta)
      /\ hasRefusal' = (hasRefusal \/ kind = "refusal") /\ hasToolCall' = hasToolCall /\ Yield
  BY <1>2 DEF TextDelta
<1>4. "text" \in Kind /\ Null \in Label
  BY DEF Kind, Label
<1>5. Placed(BlocksWithText(k), i, Shape("text", Null, content, 0))
  BY <1>1 DEF TextStands
<1>6. Placed(blocks', i, Shape("text", Null, content \o delta, 0))
  BY <1>3, <1>4, <1>5, PlacedDelta
<1>7. textIndex' = [textIndex EXCEPT ![k] = i - 1] /\ toolIndex' = toolIndex
  BY <1>2, <1>3 DEF StartText
<1>. QED
  BY <1>3, <1>6, <1>7

\* The final text goes on where the text stopped; a stopped block had all of it.
Completes(complete, content, stops) ==
    StartsWith(complete, content) /\ (stops = 1 => complete = content)

\* A part heard in part can be completed.
LEMMA TextCompletable ==
    ASSUME TypeOK, Mirror, NEW k \in Keys, NEW i \in Nat, NEW content \in String,
           NEW stops \in {0, 1}, NEW complete \in String, Completes(complete, content, stops),
           Found(textIndex[k], i, "text", Null, content, stops)
    PROVE  TextAgrees(k, complete)
<1>1. TextStands(k, i, content, stops)
  BY TextFound
<1>2. complete # Null
  BY FragmentAssumption DEF String
<1>. QED
  BY <1>1, <1>2 DEF TextStands, TextAgrees, Completes

\* Completing a part leaves its block with the whole text, stopped.
LEMMA FinishTextDoes ==
    ASSUME TypeOK, Mirror, NEW k \in Keys, NEW i \in Nat, NEW content \in String,
           NEW stops \in {0, 1}, NEW complete \in String, Completes(complete, content, stops),
           Found(textIndex[k], i, "text", Null, content, stops),
           NEW kind, FinishText(k, kind, complete)
    PROVE  /\ Placed(blocks', i, Shape("text", Null, complete, 1))
           /\ textIndex' = [textIndex EXCEPT ![k] = i - 1] /\ toolIndex' = toolIndex
<1>1. TextStands(k, i, content, stops)
  BY TextFound
<1>2. /\ TextBlock(k) = i - 1 /\ (TextBlock(k) \in OpenWithText(k) <=> stops = 0)
      /\ textParts[k] = content
      /\ Placed(BlocksWithText(k), i, Shape("text", Null, content, stops))
  BY <1>1 DEF TextStands
<1>3. PICK suffix : suffix = Suffix(complete, content)
  OBVIOUS
<1>4. suffix \in String /\ content \o suffix = complete
  BY <1>3, SuffixType, JoinSuffix DEF Completes
<1>5. /\ StartText(k)
      /\ blocks' = IF stops = 0
                   THEN StopBlock(AppendDelta(BlocksWithText(k), i - 1, suffix), i - 1)
                   ELSE blocks
  BY <1>2, <1>3 DEF FinishText
<1>6. "text" \in Kind /\ Null \in Label
  BY DEF Kind, Label
<1>7. textIndex' = [textIndex EXCEPT ![k] = i - 1] /\ toolIndex' = toolIndex
  BY <1>2, <1>5 DEF StartText
<1>8. CASE stops = 0
  <2>1. Placed(AppendDelta(BlocksWithText(k), i - 1, suffix), i, Shape("text", Null, complete, 0))
    <3>1. Placed(AppendDelta(BlocksWithText(k), i - 1, suffix), i,
                 Shape("text", Null, content \o suffix, 0))
      BY <1>2, <1>4, <1>6, <1>8, PlacedDelta
    <3>. QED
      BY <1>4, <3>1
  <2>2. Placed(StopBlock(AppendDelta(BlocksWithText(k), i - 1, suffix), i - 1), i,
               Shape("text", Null, complete, 1))
    BY <1>6, <2>1, PlacedStop
  <2>. QED
    BY <1>5, <1>7, <1>8, <2>2
<1>9. CASE stops = 1
  <2>1. complete = content
    BY <1>9 DEF Completes
  <2>2. textIndex[k] # Absent
    BY <1>2, <1>9 DEF OpenWithText, TextBlock
  <2>3. BlocksWithText(k) = blocks
    BY <2>2 DEF BlocksWithText
  <2>4. Placed(blocks, i, Shape("text", Null, complete, 1)) /\ blocks' = blocks
    BY <1>2, <1>5, <1>9, <2>1, <2>3
  <2>. QED
    BY <1>7, <2>4
<1>. QED
  BY <1>8, <1>9

\* output_item.added starts the block of its call.
LEMMA ItemAddedDoes ==
    ASSUME TypeOK, Mirror, NEW o \in Slot, NEW name \in Name \cup {NoName}, NEW i \in Nat,
           Found(toolIndex[o], i, "tool_use", name, <<>>, 0), ItemAdded(o, name)
    PROVE  /\ Placed(blocks', i, Shape("tool_use", name, <<>>, 0))
           /\ toolIndex' = [toolIndex EXCEPT ![o] = i - 1] /\ textIndex' = textIndex
           /\ hasToolCall' /\ hasRefusal' = hasRefusal
           /\ Yield
<1>1. ToolStands(o, name, i, <<>>, 0)
  BY ToolFound
<1>. QED
  BY <1>1 DEF ToolStands, ItemAdded, StartTool

\* A call that was started: what its block is on.
LEMMA ToolStarted ==
    ASSUME TypeOK, Mirror, NEW o \in Slot, NEW name \in Name \cup {NoName}, NEW i \in Nat,
           NEW content, NEW stops \in {0, 1}, NEW other,
           toolIndex[o] # Absent, Found(toolIndex[o], i, "tool_use", name, content, stops)
    PROVE  /\ ToolBlock(o) = i - 1 /\ (i - 1 \in openBlocks <=> stops = 0)
           /\ argumentParts[o] = content
           /\ BlocksWithTool(o, other) = blocks /\ OpenWithTool(o) = openBlocks
           /\ Placed(blocks, i, Shape("tool_use", name, content, stops))
<1>1. ToolStands(o, name, i, content, stops)
  BY ToolFound
<1>2. \A other2 : BlocksWithTool(o, other2) = blocks
  BY DEF BlocksWithTool
<1>3. OpenWithTool(o) = openBlocks
  BY DEF OpenWithTool
<1>. QED
  BY <1>1, <1>2, <1>3 DEF ToolStands

\* An arguments delta extends the block of its call.
LEMMA ArgumentsDeltaDoes ==
    ASSUME TypeOK, Mirror, NEW o \in Slot, NEW name \in Name \cup {NoName}, NEW i \in Nat,
           NEW content \in String, NEW delta \in String, toolIndex[o] # Absent,
           Found(toolIndex[o], i, "tool_use", name, content, 0), ArgumentsDelta(o, delta)
    PROVE  /\ Placed(blocks', i, Shape("tool_use", name, content \o delta, 0))
           /\ toolIndex' = [toolIndex EXCEPT ![o] = i - 1] /\ textIndex' = textIndex
           /\ hasToolCall' = hasToolCall /\ hasRefusal' = hasRefusal
           /\ Yield
<1>1. PICK other : other = toolItems[o]
  OBVIOUS
<1>2. /\ ToolBlock(o) = i - 1 /\ BlocksWithTool(o, other) = blocks
      /\ Placed(blocks, i, Shape("tool_use", name, content, 0))
  BY ToolStarted
<1>3. /\ StartTool(o) /\ blocks' = AppendDelta(blocks, i - 1, delta)
      /\ hasRefusal' = hasRefusal /\ hasToolCall' = hasToolCall /\ Yield
  BY <1>1, <1>2 DEF ArgumentsDelta, flagVars
<1>4. "tool_use" \in Kind /\ name \in Label
  BY DEF Kind, Label
<1>5. Placed(blocks', i, Shape("tool_use", name, content \o delta, 0))
  BY <1>2, <1>3, <1>4, PlacedDelta
<1>. QED
  BY <1>2, <1>3, <1>5 DEF StartTool

\* The arguments an event or an item carries say the same as `complete`.
Carries(arguments, complete, content) ==
    complete = IF arguments = Null THEN content ELSE arguments

\* Final arguments leave the block of their call with all of them, still open.
LEMMA ArgumentsDoneDoes ==
    ASSUME TypeOK, Mirror, NEW o \in Slot, NEW name \in Name \cup {NoName}, NEW i \in Nat,
           NEW content \in String, NEW complete \in String, NEW arguments, toolIndex[o] # Absent,
           Carries(arguments, complete, content), ParsesToObject(complete),
           StartsWith(complete, content),
           Found(toolIndex[o], i, "tool_use", name, content, 0), ArgumentsDone(o, arguments)
    PROVE  /\ Placed(blocks', i, Shape("tool_use", name, complete, 0))
           /\ toolIndex' = [toolIndex EXCEPT ![o] = i - 1] /\ textIndex' = textIndex
           /\ hasToolCall' = hasToolCall /\ hasRefusal' = hasRefusal
           /\ Yield
<1>1. PICK other : other = toolItems[o]
  OBVIOUS
<1>2. /\ ToolBlock(o) = i - 1 /\ BlocksWithTool(o, other) = blocks /\ argumentParts[o] = content
      /\ Placed(blocks, i, Shape("tool_use", name, content, 0))
  BY ToolStarted
<1>3. PICK suffix : suffix = Suffix(complete, content)
  OBVIOUS
<1>4. suffix \in String /\ content \o suffix = complete
  BY <1>3, SuffixType, JoinSuffix
<1>5. CompleteArguments(o, arguments) = complete
  BY <1>2 DEF CompleteArguments, Carries
<1>6. ArgumentsAgree(o, complete)
  BY <1>2 DEF ArgumentsAgree
<1>7. /\ StartTool(o) /\ blocks' = AppendDelta(blocks, i - 1, suffix)
      /\ hasRefusal' = hasRefusal /\ hasToolCall' = hasToolCall /\ Yield
  BY <1>1, <1>2, <1>3, <1>5, <1>6 DEF ArgumentsDone, flagVars
<1>8. "tool_use" \in Kind /\ name \in Label
  BY DEF Kind, Label
<1>9. Placed(blocks', i, Shape("tool_use", name, content \o suffix, 0))
  BY <1>2, <1>4, <1>7, <1>8, PlacedDelta
<1>. QED
  BY <1>2, <1>4, <1>7, <1>9 DEF StartTool

\* A call heard in part can be completed.
LEMMA CallCompletable ==
    ASSUME TypeOK, Mirror, NEW o \in Slot, NEW name \in Name \cup {NoName}, NEW i \in Nat,
           NEW content \in String, NEW stops \in {0, 1}, NEW complete \in String, NEW arguments,
           toolIndex[o] # Absent, Found(toolIndex[o], i, "tool_use", name, content, stops),
           Carries(arguments, complete, content), ParsesToObject(complete),
           Completes(complete, content, stops)
    PROVE  /\ CompleteArguments(o, arguments) = complete
           /\ CallAgrees(o, complete, openBlocks)
<1>0. ToolStands(o, name, i, content, stops)
  BY ToolFound
<1>1. /\ ToolBlock(o) = i - 1 /\ (i - 1 \in openBlocks <=> stops = 0) /\ argumentParts[o] = content
  BY <1>0 DEF ToolStands, OpenWithTool
<1>. QED
  BY <1>1 DEF CompleteArguments, Carries, CallAgrees, ArgumentsAgree, Completes

\* Completing a call leaves its block with all arguments, stopped.
LEMMA FinishCallDoes ==
    ASSUME TypeOK, Mirror, NEW o \in Slot, NEW name \in Name \cup {NoName}, NEW i \in Nat,
           NEW content \in String, NEW stops \in {0, 1}, NEW complete \in String,
           toolIndex[o] # Absent, Found(toolIndex[o], i, "tool_use", name, content, stops),
           Completes(complete, content, stops), FinishCall(o, complete, openBlocks, blocks)
    PROVE  Placed(blocks', i, Shape("tool_use", name, complete, 1))
<1>0. ToolStands(o, name, i, content, stops)
  BY ToolFound
<1>1. /\ ToolBlock(o) = i - 1 /\ (i - 1 \in openBlocks <=> stops = 0) /\ argumentParts[o] = content
      /\ Placed(blocks, i, Shape("tool_use", name, content, stops))
  BY <1>0 DEF ToolStands, OpenWithTool, BlocksWithTool
<1>2. PICK suffix : suffix = Suffix(complete, content)
  OBVIOUS
<1>3. suffix \in String /\ content \o suffix = complete
  BY <1>2, SuffixType, JoinSuffix DEF Completes
<1>4. blocks' = IF stops = 0 THEN StopBlock(AppendDelta(blocks, i - 1, suffix), i - 1) ELSE blocks
  BY <1>1, <1>2 DEF FinishCall
<1>5. "tool_use" \in Kind /\ name \in Label
  BY DEF Kind, Label
<1>6. CASE stops = 0
  <2>1. Placed(AppendDelta(blocks, i - 1, suffix), i, Shape("tool_use", name, content \o suffix, 0))
    BY <1>1, <1>3, <1>5, <1>6, PlacedDelta
  <2>2. Placed(StopBlock(AppendDelta(blocks, i - 1, suffix), i - 1), i,
               Shape("tool_use", name, complete, 1))
    BY <1>3, <1>5, <2>1, PlacedStop
  <2>. QED
    BY <1>4, <1>6, <2>2
<1>7. CASE stops = 1
  BY <1>1, <1>4, <1>7 DEF Completes
<1>. QED
  BY <1>6, <1>7

-----------------------------------------------------------------------------
(* Where a conforming gateway is, and what the translator has made of it.  *)

\* The gateway is a conforming one.
Script ==
    /\ answer \in Output /\ omitted \subseteq Redundant /\ echoes \in BOOLEAN
    /\ cut \in Reasons \cup {Null}
    /\ Conforming([answer |-> answer, omitted |-> omitted, echoes |-> echoes, cut |-> cut])

\* The places of the answer.
Entries == 1..Len(answer)

\* The whole content of an entry, and how many of its pieces are sent as deltas.
Says(i) == IF answer[i].kind = "reasoning" \/ answer[i].body = Null THEN <<>> ELSE answer[i].body
Due(i) ==
    IF "deltas" \in omitted THEN 0
    ELSE IF "lastDeltas" \in omitted /\ Says(i) # <<>> THEN 1
    ELSE Len(Says(i))

\* A gateway that has no event to tell of a text part but its item.
BothOmitted == {"bodyDone", "partDone"} \subseteq omitted
OnlyItems == "deltas" \in omitted /\ BothOmitted

\* The first entry the running handler has still to reconcile.
Pending == cursor - Len(work)

\* The translator has reconciled the entry with its item or with the output.
Completed(i) ==
    /\ i < cursor
    /\ \/ /\ "itemDone" \notin omitted
          /\ Sending => answer[i].slot # Current.slot
          /\ terminal = Null => i < Pending
       \/ terminal # Null /\ echoes /\ i < Pending

\* The gateway has sent the entry's final content.
Finishes(i) == IF answer[i].kind = "call" THEN "bodyDone" \notin omitted ELSE ~BothOmitted
IsOver(i) ==
    \/ i < cursor /\ answer[i].kind # "reasoning" /\ Finishes(i)
    \/ i = cursor /\ stage >= 2

\* The translator has started a block for the entry; what of the entry it knows;
\* whether it has stopped the block; whether it knows that the entry is a refusal.
Begun(i) ==
    \/ Completed(i)
    \/ i < cursor /\ answer[i].kind = "call"
    \/ i < cursor /\ IsText(answer[i]) /\ ~OnlyItems
    \/ i = cursor /\ stage > 0
HeardLength(i) == IF i < cursor THEN Due(i) ELSE IF i = cursor THEN sent ELSE 0
Heard(i) == IF Completed(i) \/ IsOver(i) THEN Says(i) ELSE SubSeq(Says(i), 1, HeardLength(i))
IsClosed(i) == Completed(i) \/ (IsText(answer[i]) /\ IsOver(i))
Refused(i) == Completed(i) \/ HeardLength(i) > 0

Stops(i) == IF IsClosed(i) THEN 1 ELSE 0
KindOf(i) == VisibleEntry(answer[i]).kind
LabelOf(i) == VisibleEntry(answer[i]).label
BlockOf(i) == Shape(KindOf(i), LabelOf(i), Heard(i), Stops(i))

\* The blocks are those of the entries that were begun, in order.
KeyOf(i) == <<answer[i].slot, answer[i].part>>
InStep(i) ==
    /\ Begun(i) <=> i <= Len(blocks)
    /\ Begun(i) => blocks[i] = BlockOf(i)
    /\ IsText(answer[i]) => textIndex[KeyOf(i)] = IF Begun(i) THEN i - 1 ELSE Absent
    /\ answer[i].kind = "call" => toolIndex[answer[i].slot] = IF Begun(i) THEN i - 1 ELSE Absent
AllInStep == Len(blocks) <= Len(answer) /\ \A i \in Entries : InStep(i)

\* The flags say of what was heard.
CallsSeen == hasToolCall <=> \E i \in Entries : answer[i].kind = "call" /\ Begun(i)
RefusalsSeen ==
    /\ hasRefusal => \E i \in Entries : answer[i].kind = "refusal"
    /\ \A i \in Entries : answer[i].kind = "refusal" /\ Refused(i) => hasRefusal

Following == AllInStep /\ CallsSeen /\ RefusalsSeen

\* Where in its answer the gateway is.
AtEntry ==
    /\ sent <= Due(cursor)
    /\ stage = 0 => sent = 0
    /\ Current.kind = "reasoning" => stage = 0
    /\ Current.kind = "call" => stage <= 2
    /\ IsText(Current) /\ stage = 1 => sent > 0
    /\ stage = 2 => "bodyDone" \notin omitted
    /\ stage = 3 => "partDone" \notin omitted
    /\ stage >= 2 => sent = Due(cursor)
Place ==
    /\ cursor \in 1..(Len(answer) + 1) /\ sent \in Nat /\ stage \in 0..3
    /\ IF Sending THEN AtEntry ELSE sent = 0 /\ stage = 0

\* What the handler of an item, or of the terminal event, has still to do.
Event == [type |-> Status, status |-> Status, reason |-> cut,
          output |-> IF echoes THEN answer ELSE Null]
Handling ==
    /\ sent = 0 /\ stage = 0
    /\ Len(work) < cursor /\ \A j \in 1..Len(work) : work[j] = answer[(Pending - 1) + j]
    /\ IF terminal = Null
       THEN /\ "itemDone" \notin omitted /\ cursor > 1
            /\ Sending => Current.slot # answer[cursor - 1].slot
            /\ \A i \in Pending..(cursor - 1) : answer[i].slot = answer[cursor - 1].slot
       ELSE ~Sending /\ terminal = Event /\ (work # <<>> => echoes)

Reading == phase = "reading" /\ work = <<>> /\ terminal = Null

\* The inductive invariant while the turn lasts.
Turning == Place /\ (Reading \/ (phase = "reconciling" /\ Handling)) /\ Following

-----------------------------------------------------------------------------
(* Facts about a conforming gateway.                                       *)

\* The answer is a sequence of entries, none of which is rejected.
LEMMA ScriptEntries ==
    ASSUME Script
    PROVE  /\ Len(answer) \in Nat /\ DOMAIN answer = Entries
           /\ \A i \in Entries : answer[i] \in Entry /\ answer[i].kind # "other"
BY DEF Script, Conforming, IsAnswer, IsRejected, Entries, Output

\* What an entry is made of.
LEMMA EntryFacts ==
    ASSUME Script, NEW i \in Entries
    PROVE  /\ answer[i].slot \in Slot /\ KeyOf(i) \in Keys
           /\ answer[i].name \in Name \cup {NoName}
           /\ answer[i].kind \in {"text", "refusal", "call", "reasoning"}
           /\ Says(i) \in String
           /\ IsText(answer[i]) => answer[i].body = Says(i) /\ Says(i) # Null
           /\ answer[i].kind = "call" => ParsesToObject(answer[i].body) /\ ParsesToObject(Says(i))
           /\ answer[i].kind = "call" => answer[i].body = Null \/ answer[i].body = Says(i)
<1>1. answer[i] \in Entry /\ answer[i].kind # "other" /\ i \in DOMAIN answer
  BY ScriptEntries
<1>2. ~IsRejected(answer[i])
  BY <1>1 DEF Script, Conforming, IsAnswer
<1>3. answer[i].body \in String \cup {Null} /\ <<>> \in String
  BY <1>1 DEF Entry, Body, String
<1>4. Null \notin String
  BY FragmentAssumption DEF String
<1>. QED
  BY <1>1, <1>2, <1>3, <1>4 DEF Entry, KeyOf, Keys, IsRejected, IsText, Says, ParsesToObject

\* Two entries of one item are parts of a message, and so are those between.
LEMMA SameItem ==
    ASSUME Script, NEW i \in Entries, NEW j \in Entries, i < j, answer[i].slot = answer[j].slot
    PROVE  /\ IsText(answer[i]) /\ IsText(answer[j]) /\ answer[i].part # answer[j].part
           /\ \A k \in i..j : answer[k].slot = answer[i].slot /\ IsText(answer[k])
<1>1. i \in DOMAIN answer /\ j \in DOMAIN answer /\ i \in Nat /\ j \in Nat
  BY ScriptEntries DEF Entries
<1>2. IsAnswer(answer)
  BY DEF Script, Conforming
<1>3. /\ \A k \in i..j : answer[k].slot = answer[i].slot /\ IsText(answer[k])
      /\ answer[i].part # answer[j].part
  BY <1>1, <1>2 DEF IsAnswer
<1>. QED
  BY <1>1, <1>3

\* No two parts have the same key, and no other entry has the slot of a call.
LEMMA KeysDiffer ==
    ASSUME Script, NEW i \in Entries, NEW j \in Entries, i # j
    PROVE  /\ KeyOf(i) # KeyOf(j)
           /\ answer[i].kind \in {"call", "reasoning"} => answer[i].slot # answer[j].slot
<1>1. i \in Nat /\ j \in Nat
  BY ScriptEntries DEF Entries
<1>2. CASE i < j
  BY <1>2, SameItem DEF KeyOf, IsText
<1>3. CASE j < i
  BY <1>3, SameItem DEF KeyOf, IsText
<1>. QED
  BY <1>1, <1>2, <1>3

\* What the gateway promises, unfolded.
LEMMA Promises ==
    ASSUME Script
    PROVE  /\ "itemDone" \in omitted \/ ~echoes =>
                 /\ "deltas" \notin omitted /\ "lastDeltas" \notin omitted
                 /\ \A i \in Entries : answer[i].kind # "reasoning"
                 /\ \A i \in Entries : answer[i].kind = "refusal" => Says(i) # <<>>
           /\ BothOmitted /\ "deltas" \notin omitted =>
                 \A i \in Entries : IsText(answer[i]) => Says(i) # <<>>
           /\ cut = Null => \/ \E i \in Entries : answer[i].kind = "call"
                            \/ \E i \in Entries : IsText(answer[i]) /\ Says(i) # <<>>
<1>0. DOMAIN answer = Entries
  BY ScriptEntries
<1>1. \A i \in Entries : IsText(answer[i]) => answer[i].body = Says(i)
  BY EntryFacts
<1>2. \A i \in Entries : answer[i].kind = "refusal" => IsText(answer[i])
  BY DEF IsText
<1>3. "itemDone" \in omitted \/ ~echoes =>
                 /\ "deltas" \notin omitted /\ "lastDeltas" \notin omitted
                 /\ \A i \in Entries : answer[i].kind # "reasoning"
                 /\ \A i \in Entries : answer[i].kind = "refusal" => Says(i) # <<>>
  BY <1>0, <1>1, <1>2 DEF Script, Conforming, HasKind
<1>4. BothOmitted /\ "deltas" \notin omitted =>
                 \A i \in Entries : IsText(answer[i]) => Says(i) # <<>>
  BY <1>0, <1>1 DEF Script, Conforming, BothOmitted
<1>5. cut = Null => \/ \E i \in Entries : answer[i].kind = "call"
                    \/ \E i \in Entries : IsText(answer[i]) /\ Says(i) # <<>>
  BY <1>0, <1>1 DEF Script, Conforming, HasKind, HasText
<1>. QED
  BY <1>3, <1>4, <1>5

\* The block an entry is shown as.
LEMMA ShownAs ==
    ASSUME Script, NEW i \in Entries
    PROVE  /\ IsText(answer[i]) => KindOf(i) = "text" /\ LabelOf(i) = Null
           /\ answer[i].kind = "call" => KindOf(i) = "tool_use" /\ LabelOf(i) = answer[i].name
           /\ answer[i].kind = "reasoning" => KindOf(i) = "reasoning" /\ LabelOf(i) = <<answer[i]>>
           /\ KindOf(i) \in Kind /\ LabelOf(i) \in Label /\ KindOf(i) # "carrier"
           /\ VisibleEntry(answer[i]) = Visible(KindOf(i), LabelOf(i), Says(i))
<1>1. /\ answer[i].kind \in {"text", "refusal", "call", "reasoning"} /\ answer[i] \in Entry
      /\ answer[i].name \in Name \cup {NoName}
  BY EntryFacts, ScriptEntries
<1>2. CASE IsText(answer[i])
  <2>1. VisibleEntry(answer[i]) = Visible("text", Null, Says(i))
    <3>1. answer[i].body = Says(i)
      BY <1>2, EntryFacts
    <3>. QED
      BY <1>2, <3>1 DEF VisibleEntry, IsText
  <2>. QED
    BY <1>2, <2>1 DEF KindOf, LabelOf, Visible, IsText, Kind, Label
<1>3. CASE answer[i].kind = "call"
  <2>1. VisibleEntry(answer[i]) = Visible("tool_use", answer[i].name, Says(i))
    BY <1>3 DEF VisibleEntry, IsText, Parsed, Says
  <2>. QED
    BY <1>1, <1>3, <2>1 DEF KindOf, LabelOf, Visible, IsText, Kind, Label
<1>4. CASE answer[i].kind = "reasoning"
  <2>1. VisibleEntry(answer[i]) = Visible("reasoning", <<answer[i]>>, Says(i))
    BY <1>4 DEF VisibleEntry, IsText, Says
  <2>2. <<answer[i]>> \in Output
    BY <1>1 DEF Output
  <2>. QED
    BY <1>4, <2>1, <2>2 DEF KindOf, LabelOf, Visible, IsText, Kind, Label
<1>. QED
  BY <1>1, <1>2, <1>3, <1>4 DEF IsText

-----------------------------------------------------------------------------
(* What the translator has heard of an entry is a beginning of it.         *)

\* Beginnings of a string.
LEMMA PrefixFacts ==
    ASSUME NEW s \in String, NEW n \in 0..Len(s)
    PROVE  /\ SubSeq(s, 1, n) \in String /\ StartsWith(s, SubSeq(s, 1, n))
           /\ n = 0 => SubSeq(s, 1, n) = <<>>
           /\ n = Len(s) => SubSeq(s, 1, n) = s
           /\ n < Len(s) => SubSeq(s, 1, n) \o <<s[n + 1]>> = SubSeq(s, 1, n + 1)
<1>0. s \in Seq(Fragment) /\ Len(s) \in Nat /\ n \in Nat
  BY DEF String
<1>1. PICK p : p = SubSeq(s, 1, n)
  OBVIOUS
<1>2. p \in Seq(Fragment) /\ Len(p) = n /\ \A i \in 1..n : p[i] = s[i]
  BY <1>0, <1>1
<1>3. SubSeq(s, 1, Len(p)) = p
  BY <1>1, <1>2
<1>4. n = 0 => p = <<>>
  BY <1>2
<1>5. n = Len(s) => p = s
  BY <1>0, <1>1
<1>6. ASSUME n < Len(s) PROVE p \o <<s[n + 1]>> = SubSeq(s, 1, n + 1)
  <2>1. PICK q : q = SubSeq(s, 1, n + 1)
    OBVIOUS
  <2>2. s[n + 1] \in Fragment
    BY <1>0, <1>6
  <2>3. q \in Seq(Fragment) /\ Len(q) = n + 1 /\ \A i \in 1..(n + 1) : q[i] = s[i]
    BY <1>0, <1>6, <2>1
  <2>4. PICK r : r = p \o <<s[n + 1]>>
    OBVIOUS
  <2>5. r \in Seq(Fragment) /\ Len(r) = n + 1 /\ (\A i \in 1..n : r[i] = p[i]) /\ r[n + 1] = s[n + 1]
    BY <1>0, <1>2, <2>2, <2>4
  <2>6. \A i \in 1..(n + 1) : r[i] = q[i]
    BY <1>0, <1>2, <2>3, <2>5
  <2>7. r = q
    BY <1>0, <2>3, <2>5, <2>6
  <2>. QED
    BY <2>1, <2>4, <2>7, <1>1
<1>. QED
  BY <1>0, <1>1, <1>2, <1>3, <1>4, <1>5, <1>6 DEF String, StartsWith

\* How much of an entry is sent as deltas.
LEMMA DueFacts ==
    ASSUME Script, NEW i \in Entries
    PROVE  /\ Due(i) \in 0..Len(Says(i)) /\ Len(Says(i)) \in Nat /\ Says(i) \in String
           /\ "deltas" \notin omitted /\ "lastDeltas" \notin omitted => Due(i) = Len(Says(i))
           /\ "deltas" \notin omitted /\ Says(i) # <<>> => Due(i) > 0
<1>1. Says(i) \in String
  BY EntryFacts
<1>2. Len(Says(i)) \in Nat /\ (Says(i) # <<>> => Len(Says(i)) > 0)
  BY <1>1 DEF String
<1>. QED
  BY <1>1, <1>2 DEF Due

\* What was heard of an entry is a beginning of it, all of it once its block is
\* stopped.
LEMMA HeardFacts ==
    ASSUME Script, Place, NEW i \in Entries
    PROVE  /\ HeardLength(i) \in 0..Len(Says(i))
           /\ Heard(i) \in String /\ StartsWith(Says(i), Heard(i))
           /\ IsClosed(i) => Heard(i) = Says(i)
           /\ Stops(i) \in {0, 1} /\ Completes(Says(i), Heard(i), Stops(i))
<1>1. i \in Nat /\ Len(answer) \in Nat /\ i <= Len(answer)
  BY ScriptEntries DEF Entries
<1>2. Due(i) \in 0..Len(Says(i)) /\ Len(Says(i)) \in Nat /\ Says(i) \in String
  BY DueFacts
<1>3. HeardLength(i) \in 0..Len(Says(i))
  <2>1. i = cursor => sent \in Nat /\ sent <= Due(i)
    BY <1>1 DEF Place, AtEntry, Sending
  <2>. QED
    BY <1>2, <2>1 DEF HeardLength
<1>4. /\ SubSeq(Says(i), 1, HeardLength(i)) \in String
      /\ StartsWith(Says(i), SubSeq(Says(i), 1, HeardLength(i)))
  BY <1>2, <1>3, PrefixFacts
<1>5. StartsWith(Says(i), Says(i))
  <2>1. /\ SubSeq(Says(i), 1, Len(Says(i))) = Says(i)
        /\ StartsWith(Says(i), SubSeq(Says(i), 1, Len(Says(i))))
    <3>1. PICK n \in 0..Len(Says(i)) : n = Len(Says(i))
      BY <1>2
    <3>2. SubSeq(Says(i), 1, n) = Says(i) /\ StartsWith(Says(i), SubSeq(Says(i), 1, n))
      BY <1>2, <3>1, PrefixFacts
    <3>. QED
      BY <3>1, <3>2
  <2>. QED
    BY <2>1
<1>6. Heard(i) \in String /\ StartsWith(Says(i), Heard(i))
  BY <1>2, <1>4, <1>5 DEF Heard
<1>7. IsClosed(i) => Heard(i) = Says(i)
  BY DEF IsClosed, Heard
<1>. QED
  BY <1>3, <1>6, <1>7 DEF Stops, Completes

\* Nothing was heard of an entry that has no block.
LEMMA NotBegun ==
    ASSUME Script, Place, NEW i \in Entries, ~Begun(i)
    PROVE  Heard(i) = <<>> /\ Stops(i) = 0
<1>1. i \in Nat /\ Len(answer) \in Nat /\ i <= Len(answer)
  BY ScriptEntries DEF Entries
<1>2. answer[i].kind \in {"text", "refusal", "call", "reasoning"} /\ Says(i) \in String
  BY EntryFacts
<1>3. ~Completed(i)
  BY DEF Begun
<1>4. ~IsOver(i)
  BY <1>1, <1>2 DEF IsOver, Begun, Finishes, IsText, OnlyItems, Place
<1>5. HeardLength(i) = 0
  <2>1. CASE i < cursor
    <3>1. answer[i].kind = "reasoning" \/ OnlyItems
      BY <1>2, <2>1 DEF Begun, IsText
    <3>2. Due(i) = 0
      BY <3>1 DEF Due, Says, OnlyItems
    <3>. QED
      BY <2>1, <3>2 DEF HeardLength
  <2>2. CASE i = cursor
    <3>1. stage = 0 /\ Sending
      BY <1>1, <2>2 DEF Begun, Place, Sending
    <3>2. sent = 0
      BY <3>1 DEF Place, AtEntry
    <3>. QED
      BY <1>1, <2>2, <3>2 DEF HeardLength
  <2>3. CASE i > cursor
    BY <1>1, <2>3 DEF HeardLength, Place
  <2>. QED
    BY <1>1, <2>1, <2>2, <2>3 DEF Place
<1>6. 0 \in 0..Len(Says(i))
  BY <1>2 DEF String
<1>7. Heard(i) = SubSeq(Says(i), 1, 0)
  BY <1>3, <1>4, <1>5 DEF Heard
<1>8. SubSeq(Says(i), 1, 0) = <<>>
  BY <1>2, <1>6, PrefixFacts
<1>. QED
  BY <1>3, <1>4, <1>7, <1>8 DEF Stops, IsClosed

-----------------------------------------------------------------------------
(* Blocks and entries stay in step.                                        *)

\* All entries before the i-th have a block.
BegunBefore(i) == \A j \in Entries : j < i => Begun(j)

\* An entry whose predecessors have blocks is found in the tables, or is next.
LEMMA FoundEntry ==
    ASSUME Script, Place, TypeOK, AllInStep, NEW i \in Entries, BegunBefore(i)
    PROVE  /\ i \in Nat /\ i \in 1..(Len(blocks) + 1)
           /\ ~Begun(i) => i = Len(blocks) + 1
           /\ IsText(answer[i]) =>
                 Found(textIndex[KeyOf(i)], i, "text", Null, Heard(i), Stops(i))
           /\ answer[i].kind = "call" =>
                 /\ Found(toolIndex[answer[i].slot], i, "tool_use", answer[i].name, Heard(i), Stops(i))
                 /\ toolIndex[answer[i].slot] = IF Begun(i) THEN i - 1 ELSE Absent
<1>1. i \in Nat /\ Len(answer) \in Nat /\ 1 <= i /\ i <= Len(answer) /\ Len(blocks) \in Nat
  BY ScriptEntries DEF Entries, TypeOK
<1>2. InStep(i)
  BY DEF AllInStep
<1>3. i = 1 \/ (i - 1 \in Entries /\ InStep(i - 1) /\ Begun(i - 1))
  BY <1>1 DEF BegunBefore, AllInStep, Entries
<1>4. i - 1 <= Len(blocks)
  BY <1>1, <1>3 DEF InStep
<1>5. i \in 1..(Len(blocks) + 1) /\ (~Begun(i) => i = Len(blocks) + 1)
  BY <1>1, <1>2, <1>4 DEF InStep
<1>6. ~Begun(i) => Heard(i) = <<>> /\ Stops(i) = 0
  BY NotBegun
<1>7. Begun(i) => i \in 1..Len(blocks) /\ blocks[i] = Shape(KindOf(i), LabelOf(i), Heard(i), Stops(i))
  BY <1>1, <1>2 DEF InStep, BlockOf
<1>8. ASSUME IsText(answer[i])
      PROVE  Found(textIndex[KeyOf(i)], i, "text", Null, Heard(i), Stops(i))
  <2>1. KindOf(i) = "text" /\ LabelOf(i) = Null
    BY <1>8, ShownAs
  <2>2. textIndex[KeyOf(i)] = IF Begun(i) THEN i - 1 ELSE Absent
    BY <1>2, <1>8 DEF InStep
  <2>. QED
    BY <1>5, <1>6, <1>7, <2>1, <2>2 DEF Found
<1>9. ASSUME answer[i].kind = "call"
      PROVE  /\ Found(toolIndex[answer[i].slot], i, "tool_use", answer[i].name, Heard(i), Stops(i))
             /\ toolIndex[answer[i].slot] = IF Begun(i) THEN i - 1 ELSE Absent
  <2>1. KindOf(i) = "tool_use" /\ LabelOf(i) = answer[i].name
    BY <1>9, ShownAs
  <2>2. toolIndex[answer[i].slot] = IF Begun(i) THEN i - 1 ELSE Absent
    BY <1>2, <1>9 DEF InStep
  <2>. QED
    BY <1>5, <1>6, <1>7, <2>1, <2>2 DEF Found
<1>. QED
  BY <1>1, <1>5, <1>8, <1>9

\* A step that changes the block of entry e and no other.
SameEntry(i) ==
    /\ Begun(i)' <=> Begun(i)
    /\ Heard(i)' = Heard(i)
    /\ IsClosed(i)' <=> IsClosed(i)
    /\ Refused(i)' <=> Refused(i)

\* The tables point to the block of entry e.
Points(e) ==
    /\ textIndex' = IF IsText(answer[e]) THEN [textIndex EXCEPT ![KeyOf(e)] = e - 1] ELSE textIndex
    /\ toolIndex' = IF answer[e].kind = "call" THEN [toolIndex EXCEPT ![answer[e].slot] = e - 1]
                    ELSE toolIndex

\* The block of an entry that stays as it was is the same.
LEMMA SameBlock ==
    ASSUME NEW i, SameEntry(i), UNCHANGED answer
    PROVE  BlockOf(i)' = BlockOf(i) /\ KindOf(i)' = KindOf(i) /\ LabelOf(i)' = LabelOf(i)
BY DEF SameEntry, BlockOf, KindOf, LabelOf, Stops

\* If every entry stays as it was, the blocks go on as before.
LEMMA StaysInStep ==
    ASSUME Script, TypeOK, AllInStep, UNCHANGED <<answer, blocks, textIndex, toolIndex>>,
           \A i \in Entries : SameEntry(i)
    PROVE  AllInStep'
<1>1. Entries' = Entries /\ (Len(blocks) <= Len(answer))'
  BY DEF AllInStep, Entries
<1>2. ASSUME NEW i \in Entries PROVE InStep(i)'
  <2>1. InStep(i) /\ SameEntry(i) /\ BlockOf(i)' = BlockOf(i)
    BY SameBlock DEF AllInStep
  <2>. QED
    BY <2>1 DEF InStep, SameEntry, KeyOf
<1>. QED
  BY <1>1, <1>2 DEF AllInStep

\* If one entry moves and its block with it, they still agree.
LEMMA KeepsInStep ==
    ASSUME Script, TypeOK, AllInStep, UNCHANGED answer,
           NEW e \in Entries, BegunBefore(e), Begun(e)', Placed(blocks', e, BlockOf(e)'), Points(e),
           \A i \in Entries : i # e => SameEntry(i)
    PROVE  AllInStep'
<1>1. /\ Len(answer) \in Nat /\ Len(blocks) \in Nat /\ e \in Nat /\ e \in 1..Len(answer)
      /\ Entries' = Entries /\ Entries = 1..Len(answer)
  BY ScriptEntries DEF Entries, TypeOK
<1>2. PICK n \in Nat : n = Len(blocks)
  BY <1>1
<1>3. PICK m \in Nat : m = Len(blocks')
  BY <1>1 DEF Placed
<1>4. /\ e \in 1..(n + 1) /\ m = (IF e = n + 1 THEN e ELSE n)
      /\ blocks'[e] = BlockOf(e)'
      /\ \A p \in 1..n : p # e => blocks'[p] = blocks[p]
  BY <1>2, <1>3 DEF Placed
<1>5. n <= Len(answer) /\ \A i \in Entries : InStep(i)
  BY <1>2 DEF AllInStep
<1>6. m <= Len(answer)
  BY <1>1, <1>4, <1>5
<1>7. InStep(e)'
  <2>1. Begun(e)' /\ e <= m
    BY <1>1, <1>2, <1>4
  <2>2. IsText(answer[e]) => textIndex'[KeyOf(e)] = e - 1
    <3>1. KeyOf(e) \in Keys
      BY EntryFacts
    <3>. QED
      BY <3>1 DEF Points, TypeOK
  <2>3. answer[e].kind = "call" => toolIndex'[answer[e].slot] = e - 1
    <3>1. answer[e].slot \in Slot
      BY EntryFacts
    <3>. QED
      BY <3>1 DEF Points, TypeOK
  <2>. QED
    BY <1>3, <1>4, <2>1, <2>2, <2>3 DEF InStep, KeyOf
<1>8. ASSUME NEW i \in Entries, i # e PROVE InStep(i)'
  <2>1. InStep(i) /\ SameEntry(i) /\ BlockOf(i)' = BlockOf(i)
    BY <1>8, SameBlock DEF AllInStep
  <2>2. Begun(i)' <=> i <= m
    <3>1. Begun(i)' <=> i <= n
      BY <1>2, <2>1 DEF InStep, SameEntry
    <3>. QED
      BY <1>1, <1>4, <1>8, <3>1
  <2>3. Begun(i)' => blocks'[i] = BlockOf(i)'
    <3>1. Begun(i) => i \in 1..n /\ blocks[i] = BlockOf(i)
      BY <1>1, <1>2, <2>1 DEF InStep
    <3>. QED
      BY <1>4, <1>8, <2>1, <3>1 DEF SameEntry
  <2>4. KeyOf(e) # KeyOf(i) /\ (answer[e].kind = "call" => answer[e].slot # answer[i].slot)
    BY <1>8, KeysDiffer
  <2>5. KeyOf(e) \in Keys /\ KeyOf(i) \in Keys /\ answer[e].slot \in Slot /\ answer[i].slot \in Slot
    BY EntryFacts
  <2>6. textIndex'[KeyOf(i)] = textIndex[KeyOf(i)] /\ toolIndex'[answer[i].slot] = toolIndex[answer[i].slot]
    BY <2>4, <2>5 DEF Points, TypeOK
  <2>. QED
    BY <1>3, <2>1, <2>2, <2>3, <2>6 DEF InStep, SameEntry, KeyOf
<1>9. \A i \in Entries : InStep(i)'
  BY <1>7, <1>8
<1>. QED
  BY <1>1, <1>3, <1>6, <1>9 DEF AllInStep

\* The flags then tell of it, too.
LEMMA KeepsFlags ==
    ASSUME Script, CallsSeen, RefusalsSeen, UNCHANGED answer,
           NEW e \in Entries, Begun(e)',
           \A i \in Entries : i # e => SameEntry(i),
           answer[e].kind = "call" => hasToolCall',
           answer[e].kind # "call" => hasToolCall' = hasToolCall,
           hasRefusal => hasRefusal',
           hasRefusal' => hasRefusal \/ answer[e].kind = "refusal",
           answer[e].kind = "refusal" /\ Refused(e)' => hasRefusal'
    PROVE  CallsSeen' /\ RefusalsSeen'
<1>1. Entries' = Entries
  BY DEF Entries
<1>2. \A i \in Entries : i # e => (Begun(i)' <=> Begun(i)) /\ (Refused(i)' <=> Refused(i))
  BY DEF SameEntry
<1>3. hasToolCall' <=> \E i \in Entries : answer[i].kind = "call" /\ Begun(i)'
  <2>1. CASE answer[e].kind = "call"
    BY <2>1
  <2>2. CASE answer[e].kind # "call"
    <3>1. \A i \in Entries : answer[i].kind = "call" => (Begun(i)' <=> Begun(i))
      BY <1>2, <2>2
    <3>. QED
      BY <2>2, <3>1 DEF CallsSeen
  <2>. QED
    BY <2>1, <2>2
<1>4. CallsSeen'
  BY <1>1, <1>3 DEF CallsSeen
<1>5. hasRefusal' => \E i \in Entries : answer[i].kind = "refusal"
  BY DEF RefusalsSeen
<1>6. \A i \in Entries : answer[i].kind = "refusal" /\ Refused(i)' => hasRefusal'
  BY <1>2 DEF RefusalsSeen
<1>7. RefusalsSeen'
  BY <1>1, <1>5, <1>6 DEF RefusalsSeen
<1>. QED
  BY <1>4, <1>7

\* A step that changes one block, or none.
LEMMA KeepsFollowing ==
    ASSUME Script, TypeOK, Following, UNCHANGED answer,
           NEW e \in Entries, BegunBefore(e), Begun(e)', Placed(blocks', e, BlockOf(e)'), Points(e),
           \A i \in Entries : i # e => SameEntry(i),
           answer[e].kind = "call" => hasToolCall',
           answer[e].kind # "call" => hasToolCall' = hasToolCall,
           hasRefusal => hasRefusal',
           hasRefusal' => hasRefusal \/ answer[e].kind = "refusal",
           answer[e].kind = "refusal" /\ Refused(e)' => hasRefusal'
    PROVE  Following'
<1>1. AllInStep'
  BY KeepsInStep DEF Following
<1>2. CallsSeen' /\ RefusalsSeen'
  BY KeepsFlags DEF Following
<1>. QED
  BY <1>1, <1>2 DEF Following

\* If every entry stays as it was, the translator goes on as before.
LEMMA StaysFollowing ==
    ASSUME Script, TypeOK, Following, UNCHANGED <<answer, state>>, \A i \in Entries : SameEntry(i)
    PROVE  Following'
<1>1. UNCHANGED <<answer, blocks, textIndex, toolIndex, hasToolCall, hasRefusal>>
  BY DEF state, indexVars, flagVars
<1>2. AllInStep'
  BY <1>1, StaysInStep DEF Following
<1>3. /\ Entries' = Entries
      /\ \A i \in Entries : (Begun(i)' <=> Begun(i)) /\ (Refused(i)' <=> Refused(i))
  BY DEF Entries, SameEntry
<1>4. CallsSeen' /\ RefusalsSeen'
  BY <1>1, <1>3 DEF Following, CallsSeen, RefusalsSeen
<1>. QED
  BY <1>2, <1>4 DEF Following

-----------------------------------------------------------------------------
(* The gateway is within an entry.                                         *)

\* An event of the current entry says nothing of the others.
InPlace == UNCHANGED <<script, cursor, work, terminal>>

\* While the gateway stays at its entry, the others stay as they were.
LEMMA OthersStay ==
    ASSUME Script, Place, Sending, InPlace, NEW i \in Entries, i # cursor
    PROVE  SameEntry(i)
<1>1. UNCHANGED <<answer, omitted, echoes, cut, cursor, work, terminal>>
  BY DEF InPlace, script
<1>2. Completed(i)' <=> Completed(i)
  BY <1>1 DEF Completed, Sending, Current, Pending
<1>3. IsOver(i)' <=> IsOver(i)
  BY <1>1 DEF IsOver, Finishes, BothOmitted
<1>4. Says(i)' = Says(i) /\ HeardLength(i)' = HeardLength(i)
  BY <1>1 DEF Says, HeardLength, Due
<1>5. Begun(i)' <=> Begun(i)
  BY <1>1, <1>2 DEF Begun, OnlyItems, BothOmitted
<1>. QED
  BY <1>1, <1>2, <1>3, <1>4, <1>5 DEF SameEntry, Heard, IsClosed, Refused

\* So do all but those that are completed, if the gateway does not move.
LEMMA Unmoved ==
    ASSUME UNCHANGED gateway, NEW i, Completed(i)' <=> Completed(i)
    PROVE  SameEntry(i)
<1>1. UNCHANGED <<answer, omitted, echoes, cut, cursor, sent, stage>>
  BY DEF gateway, script
<1>2. IsOver(i)' <=> IsOver(i)
  BY <1>1 DEF IsOver, Finishes, BothOmitted
<1>3. Says(i)' = Says(i) /\ HeardLength(i)' = HeardLength(i)
  BY <1>1 DEF Says, HeardLength, Due
<1>4. Begun(i)' <=> Begun(i)
  BY <1>1 DEF Begun, OnlyItems, BothOmitted
<1>. QED
  BY <1>1, <1>2, <1>3, <1>4 DEF SameEntry, Heard, IsClosed, Refused

\* What the translator knows of the current entry.
LEMMA CurrentNow ==
    ASSUME Script, Place, Reading, Sending, NEW e, e = cursor
    PROVE  /\ e \in Entries /\ e \in Nat /\ Current = answer[e] /\ AtEntry
           /\ Begun(e) <=> stage > 0
           /\ stage < 2 => Heard(e) = SubSeq(Says(e), 1, sent)
           /\ stage >= 2 => Heard(e) = Says(e)
           /\ Stops(e) = IF IsText(answer[e]) /\ stage >= 2 THEN 1 ELSE 0
<1>1. /\ e \in Entries /\ e \in Nat /\ ~(e < cursor) /\ stage \in 0..3
      /\ Current = answer[e] /\ AtEntry
  BY ScriptEntries DEF Place, Sending, Entries, Current
<1>2. ~Completed(e)
  BY <1>1 DEF Completed
<1>3. IsOver(e) <=> stage >= 2
  BY <1>1 DEF IsOver
<1>4. stage >= 2 <=> ~(stage < 2)
  BY <1>1
<1>. QED
  BY <1>1, <1>2, <1>3, <1>4 DEF Begun, Heard, HeardLength, Stops, IsClosed

\* The block its entry has after an event.
LEMMA CurrentAfter ==
    ASSUME Script, Place, Sending, InPlace, NEW e, e = cursor,
           stage' \in 1..3, sent' \in Nat
    PROVE  /\ Begun(e)' /\ (Refused(e)' <=> sent' > 0)
           /\ stage' < 2 => BlockOf(e)' = Shape(KindOf(e), LabelOf(e), SubSeq(Says(e), 1, sent'), 0)
           /\ stage' >= 2 => BlockOf(e)' = Shape(KindOf(e), LabelOf(e), Says(e),
                                                 IF IsText(answer[e]) THEN 1 ELSE 0)
<1>1. /\ UNCHANGED <<answer, omitted, echoes, cut, cursor, work, terminal>> /\ ~(e < cursor)
      /\ stage' >= 2 <=> ~(stage' < 2)
  BY ScriptEntries DEF InPlace, script, Place
<1>2. ~Completed(e)'
  BY <1>1 DEF Completed
<1>3. IsOver(e)' <=> stage' >= 2
  BY <1>1 DEF IsOver
<1>4. Says(e)' = Says(e) /\ HeardLength(e)' = sent' /\ KindOf(e)' = KindOf(e) /\ LabelOf(e)' = LabelOf(e)
  BY <1>1 DEF Says, HeardLength, KindOf, LabelOf
<1>5. Begun(e)' /\ (Refused(e)' <=> sent' > 0)
  BY <1>1, <1>2, <1>4 DEF Begun, Refused
<1>6. Heard(e)' = IF stage' >= 2 THEN Says(e) ELSE SubSeq(Says(e), 1, sent')
  BY <1>2, <1>3, <1>4 DEF Heard
<1>7. Stops(e)' = IF IsText(answer[e]) /\ stage' >= 2 THEN 1 ELSE 0
  BY <1>1, <1>2, <1>3 DEF Stops, IsClosed
<1>. QED
  BY <1>1, <1>4, <1>5, <1>6, <1>7 DEF BlockOf

\* While the gateway tells of an entry, those before it have their blocks.
LEMMA EarlierBegun ==
    ASSUME Script, Place, Reading, Sending, IsText(Current) => ~OnlyItems,
           Current.kind # "reasoning"
    PROVE  BegunBefore(cursor)
<1>1. cursor \in Entries /\ cursor \in Nat /\ Current = answer[cursor] /\ Pending = cursor
  BY ScriptEntries DEF Place, Sending, Entries, Current, Reading, Pending
<1>2. ASSUME NEW j \in Entries, j < cursor PROVE Begun(j)
  <2>1. answer[j].kind \in {"text", "refusal", "call", "reasoning"}
    BY EntryFacts
  <2>2. ASSUME "itemDone" \notin omitted, answer[j].slot # Current.slot PROVE Begun(j)
    BY <1>1, <1>2, <2>2 DEF Begun, Completed
  <2>3. CASE answer[j].kind = "call"
    BY <1>2, <2>3 DEF Begun
  <2>4. CASE answer[j].kind = "reasoning"
    <3>1. "itemDone" \notin omitted
      BY <2>4, Promises
    <3>2. answer[j].slot # Current.slot
      BY <1>1, <1>2, <2>4, KeysDiffer
    <3>. QED
      BY <2>2, <3>1, <3>2
  <2>5. CASE IsText(answer[j])
    <3>1. CASE ~OnlyItems
      BY <1>2, <2>5, <3>1 DEF Begun
    <3>2. CASE OnlyItems
      <4>1. "itemDone" \notin omitted
        BY <3>2, Promises DEF OnlyItems
      <4>2. Current.kind = "call"
        <5>1. answer[cursor].kind \in {"text", "refusal", "call", "reasoning"} /\ ~IsText(Current)
          BY <1>1, <3>2, EntryFacts
        <5>. QED
          BY <1>1, <5>1 DEF IsText
      <4>3. answer[j].slot # Current.slot
        BY <1>1, <1>2, <4>2, KeysDiffer
      <4>. QED
        BY <2>2, <4>1, <4>3
    <3>. QED
      BY <3>1, <3>2
  <2>. QED
    BY <2>1, <2>3, <2>4, <2>5 DEF IsText
<1>. QED
  BY <1>2 DEF BegunBefore

\* The pieces the gateway sends are those of the entry.
LEMMA PiecesAre ==
    ASSUME Script, Sending, Place, Current.kind # "reasoning"
    PROVE  Pieces = Says(cursor) /\ DeltasDue = Due(cursor)
<1>1. Pieces = Says(cursor)
  BY DEF Pieces, Says, Current
<1>. QED
  BY <1>1 DEF DeltasDue, Due

\* A call without arguments, or with `complete` ones.
LEMMA CallCarries ==
    ASSUME Script, Place, NEW i \in Entries, answer[i].kind = "call"
    PROVE  Carries(answer[i].body, Says(i), Heard(i))
<1>1. answer[i].body = Null \/ answer[i].body = Says(i)
  BY EntryFacts
<1>2. Heard(i) \in String /\ Says(i) \in String /\ StartsWith(Says(i), Heard(i))
  BY HeardFacts, EntryFacts
<1>3. answer[i].body = Null => Says(i) = <<>>
  BY DEF Says
<1>4. Says(i) = <<>> => Heard(i) = <<>>
  BY <1>2 DEF StartsWith, String
<1>. QED
  BY <1>1, <1>3, <1>4 DEF Carries

-----------------------------------------------------------------------------
(* The steps of the gateway.                                               *)

\* A step within an entry leaves the gateway somewhere in it, and the translator
\* reading.
LEMMA KeepsPlace ==
    ASSUME Script, Place, Reading, Sending, UNCHANGED <<script, cursor>>, Yield,
           sent' \in Nat, sent' <= Due(cursor), stage' \in 1..3,
           Current.kind # "reasoning",
           Current.kind = "call" => stage' <= 2,
           IsText(Current) /\ stage' = 1 => sent' > 0,
           stage' = 2 => "bodyDone" \notin omitted,
           stage' = 3 => "partDone" \notin omitted,
           stage' >= 2 => sent' = Due(cursor)
    PROVE  Place' /\ Reading' /\ InPlace
<1>1. UNCHANGED <<answer, omitted, echoes, cut, cursor, work, terminal>> /\ phase' = "reading"
  BY DEF script, Yield, handlerVars
<1>2. Reading' /\ InPlace
  BY <1>1 DEF Reading, InPlace, script
<1>3. Due(cursor)' = Due(cursor) /\ Current' = Current /\ Sending'
  BY <1>1 DEF Due, Says, Current, Sending
<1>4. AtEntry'
  BY <1>1, <1>3 DEF AtEntry
<1>5. Place'
  BY <1>1, <1>3, <1>4 DEF Place
<1>. QED
  BY <1>2, <1>5

\* Between two events the invariant is about reading.
LEMMA ReadingNow ==
    ASSUME Turning, phase = "reading"
    PROVE  Place /\ Reading /\ Following
BY DEF Turning, Handling

\* output_item.added keeps the invariant.
LEMMA SendAddedKeeps ==
    ASSUME Inv, Script, Turning, SendAdded
    PROVE  Turning'
<1>1. /\ Sending /\ Current.kind = "call" /\ stage = 0 /\ stage' = 1
      /\ ItemAdded(Current.slot, Current.name) /\ UNCHANGED <<script, cursor, sent>>
  BY DEF SendAdded
<1>2. phase = "reading"
  BY <1>1 DEF ItemAdded, Receive
<1>3. Place /\ Reading /\ Following /\ TypeOK /\ Mirror
  BY <1>2, ReadingNow DEF Inv
<1>4. PICK e : e = cursor
  OBVIOUS
<1>5. /\ e \in Entries /\ e \in Nat /\ Current = answer[e] /\ AtEntry
      /\ ~Begun(e) /\ Heard(e) = SubSeq(Says(e), 1, sent) /\ Stops(e) = 0
  BY <1>1, <1>3, <1>4, CurrentNow
<1>6. sent = 0 /\ Heard(e) = <<>>
  BY <1>1, <1>3, <1>5, NotBegun DEF AtEntry
<1>7. BegunBefore(e)
  BY <1>1, <1>3, <1>4, EarlierBegun DEF IsText
<1>8. PICK o : o = answer[e].slot
  OBVIOUS
<1>9. PICK name : name = answer[e].name
  OBVIOUS
<1>10. o \in Slot /\ name \in Name \cup {NoName}
  BY <1>5, <1>8, <1>9, EntryFacts
<1>11. Found(toolIndex[o], e, "tool_use", name, <<>>, 0)
  BY <1>1, <1>3, <1>5, <1>6, <1>7, <1>8, <1>9, FoundEntry DEF Following
<1>12. /\ Placed(blocks', e, Shape("tool_use", name, <<>>, 0))
       /\ toolIndex' = [toolIndex EXCEPT ![o] = e - 1] /\ textIndex' = textIndex
       /\ hasToolCall' /\ hasRefusal' = hasRefusal
       /\ Yield
  <2>1. ItemAdded(o, name)
    BY <1>1, <1>5, <1>8, <1>9
  <2>. QED
    BY <1>3, <1>5, <1>10, <1>11, <2>1, ItemAddedDoes
<1>13. Place' /\ Reading' /\ InPlace
  <2>1. Due(cursor) >= 0 /\ 0 <= Due(cursor)
    BY <1>4, <1>5, DueFacts
  <2>. QED
    BY <1>1, <1>3, <1>6, <1>12, <2>1, KeepsPlace DEF IsText
<1>14. /\ Begun(e)' /\ (Refused(e)' <=> sent' > 0)
       /\ BlockOf(e)' = Shape(KindOf(e), LabelOf(e), SubSeq(Says(e), 1, sent'), 0)
  BY <1>1, <1>3, <1>4, <1>6, <1>13, CurrentAfter
<1>15. BlockOf(e)' = Shape("tool_use", name, <<>>, 0)
  BY <1>1, <1>5, <1>6, <1>9, <1>14, ShownAs
<1>16. \A i \in Entries : i # e => SameEntry(i)
  BY <1>1, <1>3, <1>4, <1>13, OthersStay
<1>17. Points(e)
  BY <1>1, <1>5, <1>8, <1>12 DEF Points, IsText
<1>18. Following'
  BY <1>1, <1>3, <1>5, <1>7, <1>12, <1>14, <1>15, <1>16, <1>17, KeepsFollowing DEF script
<1>. QED
  BY <1>13, <1>18 DEF Turning

\* So does a delta, of a text, a refusal or arguments.
LEMMA SendDeltaKeeps ==
    ASSUME Inv, Script, Turning, SendDelta
    PROVE  Turning'
<1>1. /\ Sending /\ Current.kind # "reasoning" /\ HasOpened /\ sent < DeltasDue
      /\ sent' = sent + 1 /\ stage' = 1 /\ UNCHANGED <<script, cursor>>
  BY DEF SendDelta
<1>. DEFINE piece == <<Pieces[sent + 1]>>
<1>2. IF Current.kind = "call" THEN ArgumentsDelta(Current.slot, piece)
      ELSE TextDelta(Key, Current.kind, piece)
  BY DEF SendDelta
<1>3. phase = "reading"
  BY <1>2 DEF ArgumentsDelta, TextDelta, Receive
<1>4. Place /\ Reading /\ Following /\ TypeOK /\ Mirror /\ sent \in Nat /\ stage \in 0..3
  BY <1>3, ReadingNow DEF Inv, Place
<1>5. PICK e : e = cursor
  OBVIOUS
<1>6. stage < 2 /\ ~(stage >= 2)
  BY <1>1, <1>4 DEF HasOpened
<1>7. /\ e \in Entries /\ e \in Nat /\ Current = answer[e] /\ AtEntry
      /\ Begun(e) <=> stage > 0
      /\ Heard(e) = SubSeq(Says(e), 1, sent) /\ Stops(e) = 0
  BY <1>1, <1>4, <1>5, <1>6, CurrentNow
<1>8. Pieces = Says(e) /\ sent < Due(e) /\ Says(e) \in String /\ Due(e) \in 0..Len(Says(e))
      /\ Len(Says(e)) \in Nat
  BY <1>1, <1>4, <1>5, <1>7, PiecesAre, DueFacts
<1>9. piece \in String /\ Heard(e) \in String /\ Heard(e) \o piece = SubSeq(Says(e), 1, sent + 1)
  <2>1. Says(e) \in Seq(Fragment) /\ sent + 1 \in 1..Len(Says(e))
    BY <1>4, <1>8 DEF String
  <2>2. piece \in String
    BY <1>8, <2>1 DEF String
  <2>3. sent \in 0..Len(Says(e)) /\ sent < Len(Says(e))
    BY <1>4, <1>8
  <2>4. /\ SubSeq(Says(e), 1, sent) \in String
        /\ SubSeq(Says(e), 1, sent) \o <<Says(e)[sent + 1]>> = SubSeq(Says(e), 1, sent + 1)
    BY <1>8, <2>3, PrefixFacts
  <2>. QED
    BY <1>7, <1>8, <2>2, <2>4
<1>10. "deltas" \notin omitted
  BY <1>4, <1>8 DEF Due
<1>11. BegunBefore(e)
  BY <1>1, <1>4, <1>5, <1>10, EarlierBegun DEF OnlyItems
<1>. HIDE DEF piece
<1>12. /\ Placed(blocks', e, Shape(KindOf(e), LabelOf(e), Heard(e) \o piece, 0)) /\ Points(e)
       /\ hasToolCall' = hasToolCall /\ (hasRefusal' <=> hasRefusal \/ answer[e].kind = "refusal")
       /\ Yield
  <2>1. CASE answer[e].kind = "call"
    <3>1. PICK o : o = answer[e].slot
      OBVIOUS
    <3>2. PICK name : name = answer[e].name
      OBVIOUS
    <3>3. o \in Slot /\ name \in Name \cup {NoName}
      BY <1>7, <3>1, <3>2, EntryFacts
    <3>4. /\ Found(toolIndex[o], e, "tool_use", name, Heard(e), 0)
          /\ toolIndex[o] = IF Begun(e) THEN e - 1 ELSE Absent
      BY <1>4, <1>7, <1>11, <2>1, <3>1, <3>2, FoundEntry DEF Following
    <3>5. toolIndex[o] # Absent
      <4>1. stage = 1 /\ Begun(e)
        BY <1>1, <1>7, <2>1 DEF HasOpened
      <4>2. e # 0
        BY <1>7, ScriptEntries DEF Entries
      <4>. QED
        BY <1>7, <3>4, <4>1, <4>2 DEF Absent
    <3>6. ArgumentsDelta(o, piece)
      BY <1>2, <1>7, <2>1, <3>1
    <3>7. /\ Placed(blocks', e, Shape("tool_use", name, Heard(e) \o piece, 0))
          /\ toolIndex' = [toolIndex EXCEPT ![o] = e - 1] /\ textIndex' = textIndex
          /\ hasToolCall' = hasToolCall /\ hasRefusal' = hasRefusal
          /\ Yield
      BY <1>4, <1>7, <1>9, <3>3, <3>4, <3>5, <3>6, ArgumentsDeltaDoes
    <3>8. KindOf(e) = "tool_use" /\ LabelOf(e) = name
      BY <1>7, <2>1, <3>2, ShownAs
    <3>9. hasRefusal \in BOOLEAN /\ ~IsText(answer[e]) /\ answer[e].kind # "refusal"
      BY <1>4, <2>1 DEF TypeOK, IsText
    <3>. QED
      BY <2>1, <3>1, <3>7, <3>8, <3>9 DEF Points
  <2>2. CASE answer[e].kind # "call"
    <3>1. IsText(answer[e]) /\ answer[e].kind \in {"text", "refusal"}
      BY <1>1, <1>7, <2>2, EntryFacts DEF IsText
    <3>2. PICK k : k = KeyOf(e)
      OBVIOUS
    <3>3. k \in Keys
      BY <1>7, <3>2, EntryFacts
    <3>4. Found(textIndex[k], e, "text", Null, Heard(e), 0)
      BY <1>4, <1>7, <1>11, <3>1, <3>2, FoundEntry DEF Following
    <3>5. PICK kind : kind = answer[e].kind
      OBVIOUS
    <3>6. TextDelta(k, kind, piece) /\ kind \in {"text", "refusal"}
      BY <1>2, <1>7, <2>2, <3>1, <3>2, <3>5 DEF Key, KeyOf
    <3>7. /\ Placed(blocks', e, Shape("text", Null, Heard(e) \o piece, 0))
          /\ textIndex' = [textIndex EXCEPT ![k] = e - 1] /\ toolIndex' = toolIndex
          /\ hasToolCall' = hasToolCall /\ (hasRefusal' <=> hasRefusal \/ kind = "refusal")
          /\ Yield
      BY <1>4, <1>7, <1>9, <3>3, <3>4, <3>6, TextDeltaDoes
    <3>8. KindOf(e) = "text" /\ LabelOf(e) = Null
      BY <1>7, <3>1, ShownAs
    <3>. QED
      BY <2>2, <3>1, <3>2, <3>5, <3>7, <3>8 DEF Points
  <2>. QED
    BY <2>1, <2>2
<1>13. Place' /\ Reading' /\ InPlace
  <2>1. sent' \in Nat /\ sent' <= Due(cursor) /\ stage' \in 1..3 /\ sent' > 0 /\ ~(stage' >= 2)
    BY <1>1, <1>4, <1>5, <1>8
  <2>. QED
    BY <1>1, <1>4, <1>12, <2>1, KeepsPlace
<1>14. /\ Begun(e)' /\ (Refused(e)' <=> sent' > 0)
       /\ BlockOf(e)' = Shape(KindOf(e), LabelOf(e), SubSeq(Says(e), 1, sent'), 0)
  BY <1>1, <1>4, <1>5, <1>13, CurrentAfter
<1>15. BlockOf(e)' = Shape(KindOf(e), LabelOf(e), Heard(e) \o piece, 0)
  BY <1>1, <1>9, <1>14
<1>16. \A i \in Entries : i # e => SameEntry(i)
  BY <1>1, <1>4, <1>5, <1>13, OthersStay
<1>17. answer[e].kind = "call" => hasToolCall'
  BY <1>1, <1>4, <1>7, <1>12 DEF Following, CallsSeen, HasOpened
<1>18. Following'
  BY <1>1, <1>4, <1>7, <1>11, <1>12, <1>14, <1>15, <1>16, <1>17, KeepsFollowing DEF script
<1>. QED
  BY <1>13, <1>18 DEF Turning

\* So does the final text, refusal or arguments.
LEMMA SendBodyDoneKeeps ==
    ASSUME Inv, Script, Turning, SendBodyDone
    PROVE  Turning'
<1>1. /\ Sending /\ Current.kind # "reasoning" /\ HasOpened /\ "bodyDone" \notin omitted
      /\ sent = DeltasDue /\ sent' = sent /\ stage' = 2 /\ UNCHANGED <<script, cursor>>
  BY DEF SendBodyDone
<1>2. IF Current.kind = "call" THEN ArgumentsDone(Current.slot, Current.body)
      ELSE TextDone(Key, Current.kind, Current.body)
  BY DEF SendBodyDone
<1>3. phase = "reading"
  BY <1>2 DEF ArgumentsDone, TextDone, Receive
<1>4. Place /\ Reading /\ Following /\ TypeOK /\ Mirror /\ sent \in Nat /\ stage \in 0..3
  BY <1>3, ReadingNow DEF Inv, Place
<1>5. PICK e : e = cursor
  OBVIOUS
<1>6. stage < 2 /\ ~(stage >= 2)
  BY <1>1, <1>4 DEF HasOpened
<1>7. /\ e \in Entries /\ e \in Nat /\ Current = answer[e] /\ AtEntry
      /\ Begun(e) <=> stage > 0
      /\ Heard(e) = SubSeq(Says(e), 1, sent) /\ Stops(e) = 0
  BY <1>1, <1>4, <1>5, <1>6, CurrentNow
<1>8. BegunBefore(e)
  BY <1>1, <1>4, <1>5, EarlierBegun DEF OnlyItems, BothOmitted
<1>9. /\ Says(e) \in String /\ Heard(e) \in String /\ StartsWith(Says(e), Heard(e))
      /\ Completes(Says(e), Heard(e), 0)
  BY <1>4, <1>7, HeardFacts, EntryFacts DEF Completes
<1>10. /\ Placed(blocks', e, Shape(KindOf(e), LabelOf(e), Says(e),
                                   IF IsText(answer[e]) THEN 1 ELSE 0))
       /\ Points(e) /\ hasToolCall' = hasToolCall /\ hasRefusal' = hasRefusal /\ Yield
  <2>1. CASE answer[e].kind = "call"
    <3>1. PICK o : o = answer[e].slot
      OBVIOUS
    <3>2. PICK name : name = answer[e].name
      OBVIOUS
    <3>3. PICK body : body = answer[e].body
      OBVIOUS
    <3>4. o \in Slot /\ name \in Name \cup {NoName} /\ ParsesToObject(Says(e))
      BY <1>7, <2>1, <3>1, <3>2, EntryFacts
    <3>5. /\ Found(toolIndex[o], e, "tool_use", name, Heard(e), 0)
          /\ toolIndex[o] = IF Begun(e) THEN e - 1 ELSE Absent
      BY <1>4, <1>7, <1>8, <2>1, <3>1, <3>2, FoundEntry DEF Following
    <3>6. toolIndex[o] # Absent
      <4>1. stage = 1 /\ Begun(e)
        BY <1>1, <1>7, <2>1 DEF HasOpened
      <4>2. e # 0
        BY <1>7, ScriptEntries DEF Entries
      <4>. QED
        BY <1>7, <3>5, <4>1, <4>2 DEF Absent
    <3>7. Carries(body, Says(e), Heard(e))
      BY <1>4, <1>7, <2>1, <3>3, CallCarries
    <3>8. ArgumentsDone(o, body)
      BY <1>2, <1>7, <2>1, <3>1, <3>3
    <3>9. /\ Placed(blocks', e, Shape("tool_use", name, Says(e), 0))
          /\ toolIndex' = [toolIndex EXCEPT ![o] = e - 1] /\ textIndex' = textIndex
          /\ hasToolCall' = hasToolCall /\ hasRefusal' = hasRefusal
          /\ Yield
      BY <1>4, <1>7, <1>9, <3>4, <3>5, <3>6, <3>7, <3>8, ArgumentsDoneDoes
    <3>10. KindOf(e) = "tool_use" /\ LabelOf(e) = name /\ ~IsText(answer[e])
      BY <1>7, <2>1, <3>2, ShownAs DEF IsText
    <3>. QED
      BY <2>1, <3>1, <3>9, <3>10 DEF Points
  <2>2. CASE answer[e].kind # "call"
    <3>1. IsText(answer[e]) /\ answer[e].kind \in {"text", "refusal"}
      BY <1>1, <1>7, <2>2, EntryFacts DEF IsText
    <3>2. PICK k : k = KeyOf(e)
      OBVIOUS
    <3>3. k \in Keys /\ answer[e].body = Says(e)
      BY <1>7, <3>1, <3>2, EntryFacts
    <3>4. Found(textIndex[k], e, "text", Null, Heard(e), 0)
      BY <1>4, <1>7, <1>8, <3>1, <3>2, FoundEntry DEF Following
    <3>5. PICK kind : kind = answer[e].kind
      OBVIOUS
    <3>6. TextDone(k, kind, Says(e)) /\ kind \in {"text", "refusal"}
      BY <1>2, <1>7, <2>2, <3>1, <3>2, <3>3, <3>5 DEF Key, KeyOf
    <3>7. CompleteText(k, kind, Says(e)) = Says(e)
      BY <3>6 DEF CompleteText
    <3>8. TextAgrees(k, Says(e))
      BY <1>4, <1>7, <1>9, <3>3, <3>4, TextCompletable
    <3>9. /\ FinishText(k, kind, Says(e)) /\ Yield
          /\ hasToolCall' = hasToolCall /\ hasRefusal' = hasRefusal
      BY <3>6, <3>7, <3>8 DEF TextDone
    <3>10. /\ Placed(blocks', e, Shape("text", Null, Says(e), 1))
           /\ textIndex' = [textIndex EXCEPT ![k] = e - 1] /\ toolIndex' = toolIndex
      BY <1>4, <1>7, <1>9, <3>3, <3>4, <3>9, FinishTextDoes
    <3>11. KindOf(e) = "text" /\ LabelOf(e) = Null
      BY <1>7, <3>1, ShownAs
    <3>. QED
      BY <2>2, <3>1, <3>2, <3>9, <3>10, <3>11 DEF Points
  <2>. QED
    BY <2>1, <2>2
<1>11. Place' /\ Reading' /\ InPlace
  <2>1. sent' \in Nat /\ sent' <= Due(cursor) /\ stage' \in 1..3
    BY <1>1, <1>4, <1>7 DEF AtEntry
  <2>2. sent' = Due(cursor)
    BY <1>1, <1>4, PiecesAre
  <2>. QED
    BY <1>1, <1>4, <1>10, <2>1, <2>2, KeepsPlace
<1>12. /\ Begun(e)' /\ (Refused(e)' <=> sent' > 0)
       /\ BlockOf(e)' = Shape(KindOf(e), LabelOf(e), Says(e), IF IsText(answer[e]) THEN 1 ELSE 0)
  BY <1>1, <1>4, <1>5, <1>11, CurrentAfter
<1>13. \A i \in Entries : i # e => SameEntry(i)
  BY <1>1, <1>4, <1>5, <1>11, OthersStay
<1>14. answer[e].kind = "call" => hasToolCall'
  BY <1>1, <1>4, <1>7, <1>10 DEF Following, CallsSeen, HasOpened
<1>15. answer[e].kind = "refusal" /\ Refused(e)' => hasRefusal'
  BY <1>1, <1>4, <1>5, <1>7, <1>10, <1>12 DEF Following, RefusalsSeen, Refused, HeardLength
<1>16. Following'
  BY <1>1, <1>4, <1>7, <1>8, <1>10, <1>12, <1>13, <1>14, <1>15, KeepsFollowing DEF script
<1>. QED
  BY <1>11, <1>16 DEF Turning

\* So does content_part.done.
LEMMA SendPartDoneKeeps ==
    ASSUME Inv, Script, Turning, SendPartDone
    PROVE  Turning'
<1>1. /\ Sending /\ IsText(Current) /\ stage # 3 /\ BodySent /\ "partDone" \notin omitted
      /\ sent' = sent /\ stage' = 3 /\ UNCHANGED <<script, cursor>>
      /\ TextDone(Key, "part", Current.body)
  BY DEF SendPartDone
<1>3. phase = "reading"
  BY <1>1 DEF TextDone, Receive
<1>4. Place /\ Reading /\ Following /\ TypeOK /\ Mirror /\ sent \in Nat /\ stage \in 0..3
  BY <1>3, ReadingNow DEF Inv, Place
<1>5. PICK e : e = cursor
  OBVIOUS
<1>6. Current.kind # "reasoning" /\ Current.kind # "call"
  BY <1>1 DEF IsText
<1>7. /\ e \in Entries /\ e \in Nat /\ Current = answer[e] /\ AtEntry
      /\ Begun(e) <=> stage > 0
  BY <1>1, <1>4, <1>5, CurrentNow
<1>8. BegunBefore(e)
  BY <1>1, <1>4, <1>5, <1>6, EarlierBegun DEF OnlyItems, BothOmitted
<1>9. /\ Says(e) \in String /\ Heard(e) \in String /\ StartsWith(Says(e), Heard(e))
      /\ Stops(e) \in {0, 1} /\ Completes(Says(e), Heard(e), Stops(e))
  BY <1>4, <1>7, HeardFacts, EntryFacts
<1>10. PICK k : k = KeyOf(e)
  OBVIOUS
<1>11. k \in Keys /\ answer[e].body = Says(e) /\ Says(e) # Null /\ IsText(answer[e])
  BY <1>1, <1>7, <1>10, EntryFacts
<1>12. Found(textIndex[k], e, "text", Null, Heard(e), Stops(e))
  BY <1>4, <1>7, <1>8, <1>10, <1>11, FoundEntry DEF Following
<1>13. TextDone(k, "part", Says(e))
  BY <1>1, <1>7, <1>10, <1>11 DEF Key, KeyOf
<1>14. CompleteText(k, "part", Says(e)) = Says(e)
  <2>0. TextStands(k, e, Heard(e), Stops(e))
    BY <1>4, <1>7, <1>9, <1>11, <1>12, TextFound
  <2>1. textParts[k] = Heard(e)
    BY <2>0 DEF TextStands
  <2>2. Says(e) = <<>> => Heard(e) = <<>>
    BY <1>9 DEF StartsWith, String
  <2>. QED
    BY <1>11, <2>1, <2>2 DEF CompleteText
<1>15. TextAgrees(k, Says(e))
  BY <1>4, <1>7, <1>9, <1>11, <1>12, TextCompletable
<1>16. /\ FinishText(k, "part", Says(e)) /\ Yield
       /\ hasToolCall' = hasToolCall /\ hasRefusal' = hasRefusal
  BY <1>13, <1>14, <1>15 DEF TextDone
<1>17. /\ Placed(blocks', e, Shape("text", Null, Says(e), 1))
       /\ textIndex' = [textIndex EXCEPT ![k] = e - 1] /\ toolIndex' = toolIndex
  BY <1>4, <1>7, <1>9, <1>11, <1>12, <1>16, FinishTextDoes
<1>18. Points(e)
  BY <1>6, <1>7, <1>10, <1>11, <1>17 DEF Points
<1>19. Place' /\ Reading' /\ InPlace
  <2>1. sent' \in Nat /\ sent' <= Due(cursor) /\ stage' \in 1..3
    BY <1>1, <1>4, <1>7 DEF AtEntry
  <2>2. sent' = Due(cursor)
    <3>1. stage >= 2 \/ sent = DeltasDue
      BY <1>1, <1>4, <1>6 DEF BodySent
    <3>. QED
      BY <1>1, <1>4, <1>6, <1>7, <3>1, PiecesAre DEF AtEntry
  <2>. QED
    BY <1>1, <1>4, <1>6, <1>16, <2>1, <2>2, KeepsPlace
<1>20. /\ Begun(e)' /\ (Refused(e)' <=> sent' > 0)
       /\ BlockOf(e)' = Shape(KindOf(e), LabelOf(e), Says(e), IF IsText(answer[e]) THEN 1 ELSE 0)
  BY <1>1, <1>4, <1>5, <1>19, CurrentAfter
<1>21. BlockOf(e)' = Shape("text", Null, Says(e), 1)
  BY <1>7, <1>11, <1>20, ShownAs
<1>22. \A i \in Entries : i # e => SameEntry(i)
  BY <1>1, <1>4, <1>5, <1>19, OthersStay
<1>23. answer[e].kind = "refusal" /\ Refused(e)' => hasRefusal'
  BY <1>1, <1>4, <1>5, <1>7, <1>16, <1>20 DEF Following, RefusalsSeen, Refused, HeardLength
<1>24. Following'
  BY <1>1, <1>4, <1>6, <1>7, <1>8, <1>16, <1>17, <1>18, <1>20, <1>21, <1>22, <1>23, KeepsFollowing
     DEF script
<1>. QED
  BY <1>19, <1>24 DEF Turning

\* So does response.created.
LEMMA SendCreatedKeeps ==
    ASSUME Inv, Script, Turning, SendCreated
    PROVE  Turning'
<1>1. /\ Created /\ UNCHANGED gateway
  BY DEF SendCreated
<1>2. phase = "reading" /\ phase' = "reading" /\ UNCHANGED <<state, work, terminal>>
  BY <1>1 DEF Created, Receive, handlerVars
<1>3. Place /\ Reading /\ Following /\ TypeOK
  BY <1>2, ReadingNow DEF Inv
<1>4. UNCHANGED <<answer, omitted, echoes, cut, cursor, sent, stage>>
  BY <1>1 DEF gateway, script
<1>5. ASSUME NEW i \in Entries PROVE SameEntry(i)
  <2>1. Completed(i)' <=> Completed(i)
    BY <1>2, <1>4 DEF Completed, Sending, Current, Pending
  <2>. QED
    BY <1>1, <2>1, Unmoved
<1>6. Following'
  BY <1>2, <1>3, <1>4, <1>5, StaysFollowing
<1>7. Place'
  BY <1>3, <1>4 DEF Place, AtEntry, Sending, Current, Due, Says, IsText
<1>8. Reading'
  BY <1>2, <1>3 DEF Reading
<1>. QED
  BY <1>6, <1>7, <1>8 DEF Turning

-----------------------------------------------------------------------------
(* From one entry to the next.                                             *)

\* Nothing new is known of an entry when the gateway leaves one behind.
LEMMA MovesOn ==
    ASSUME Script, Place, Reading, Sending, EntrySent, NextEntry,
           NEW i \in Entries, Completed(i)' <=> Completed(i)
    PROVE  SameEntry(i)
<1>1. /\ UNCHANGED <<answer, omitted, echoes, cut>> /\ cursor' = cursor + 1 /\ sent' = 0 /\ stage' = 0
      /\ cursor \in Nat /\ i \in Nat /\ sent \in Nat /\ stage \in 0..3
  BY ScriptEntries DEF NextEntry, script, Place, Entries
<1>2. Says(i)' = Says(i) /\ Due(i)' = Due(i) /\ (Finishes(i)' <=> Finishes(i)) /\ (OnlyItems' <=> OnlyItems)
  BY <1>1 DEF Says, Due, Finishes, BothOmitted, OnlyItems
<1>3. PICK e : e = cursor
  OBVIOUS
<1>4. /\ e \in Entries /\ Current = answer[e] /\ AtEntry
      /\ Due(e) \in 0..Len(Says(e)) /\ Len(Says(e)) \in Nat
      /\ "deltas" \notin omitted /\ Says(e) # <<>> => Due(e) > 0
  BY <1>3, CurrentNow, DueFacts
<1>5. answer[e].kind \in {"text", "refusal", "call", "reasoning"} /\ Says(e) \in String
  BY <1>4, EntryFacts
<1>6. Current.kind # "reasoning" => DeltasDue = Due(e)
  BY <1>3, PiecesAre
<1>7. sent = Due(e)
  <2>1. CASE Current.kind = "reasoning"
    <3>1. Says(e) = <<>> /\ sent = 0
      BY <1>4, <2>1 DEF Says, AtEntry
    <3>. QED
      BY <1>4, <3>1
  <2>2. CASE Current.kind # "reasoning"
    <3>1. stage = 3 \/ stage \in {2, 3} \/ sent = DeltasDue
      BY <2>2 DEF EntrySent, BodySent
    <3>. QED
      BY <1>1, <1>3, <1>4, <1>6, <2>2, <3>1 DEF AtEntry
  <2>. QED
    BY <2>1, <2>2
<1>8. stage >= 2 <=> answer[e].kind # "reasoning" /\ Finishes(e)
  <2>1. CASE answer[e].kind = "reasoning"
    BY <1>1, <1>4, <2>1 DEF AtEntry
  <2>2. CASE answer[e].kind = "call"
    BY <1>1, <1>4, <2>2 DEF AtEntry, EntrySent, BodySent, HasOpened, Finishes
  <2>3. CASE IsText(answer[e])
    BY <1>1, <1>4, <2>3 DEF AtEntry, EntrySent, BodySent, HasOpened, Finishes, IsText, BothOmitted
  <2>. QED
    BY <1>5, <2>1, <2>2, <2>3 DEF IsText
<1>9. stage > 0 <=> answer[e].kind = "call" \/ (IsText(answer[e]) /\ ~OnlyItems)
  <2>1. CASE answer[e].kind = "reasoning"
    BY <1>1, <1>4, <2>1 DEF AtEntry, IsText
  <2>2. CASE answer[e].kind = "call"
    BY <1>1, <1>4, <2>2 DEF EntrySent, BodySent, HasOpened
  <2>3. CASE IsText(answer[e])
    <3>1. CASE stage >= 2
      BY <1>1, <1>8, <2>3, <3>1 DEF Finishes, IsText, OnlyItems
    <3>2. CASE ~(stage >= 2)
      <4>1. BothOmitted
        BY <1>8, <2>3, <3>2 DEF Finishes, IsText
      <4>2. stage = 1 => sent > 0
        BY <1>4, <2>3 DEF AtEntry
      <4>3. stage = 0 => sent = 0
        BY <1>4 DEF AtEntry
      <4>4. stage > 0 <=> sent > 0
        BY <1>1, <3>2, <4>2, <4>3
      <4>5. "deltas" \notin omitted => Says(e) # <<>>
        BY <1>4, <2>3, <4>1, Promises
      <4>6. "deltas" \in omitted => Due(e) = 0
        BY DEF Due
      <4>7. Due(e) > 0 <=> "deltas" \notin omitted
        BY <1>4, <4>5, <4>6
      <4>. QED
        BY <1>7, <2>3, <4>1, <4>4, <4>7 DEF OnlyItems, IsText
    <3>. QED
      BY <3>1, <3>2
  <2>. QED
    BY <1>5, <2>1, <2>2, <2>3 DEF IsText
<1>10. HeardLength(i)' = HeardLength(i)
  <2>1. CASE i < cursor
    BY <1>1, <1>2, <2>1 DEF HeardLength
  <2>2. CASE i = cursor
    BY <1>1, <1>2, <1>3, <1>7, <2>2 DEF HeardLength
  <2>3. CASE i > cursor
    BY <1>1, <2>3 DEF HeardLength
  <2>. QED
    BY <1>1, <2>1, <2>2, <2>3
<1>11. IsOver(i)' <=> IsOver(i)
  <2>1. CASE i < cursor
    BY <1>1, <1>2, <2>1 DEF IsOver
  <2>2. CASE i = cursor
    BY <1>1, <1>2, <1>3, <1>8, <2>2 DEF IsOver
  <2>3. CASE i > cursor
    BY <1>1, <2>3 DEF IsOver
  <2>. QED
    BY <1>1, <2>1, <2>2, <2>3
<1>12. Begun(i)' <=> Begun(i)
  <2>1. CASE i < cursor
    BY <1>1, <1>2, <2>1 DEF Begun
  <2>2. CASE i = cursor
    <3>1. ~Completed(i)
      BY <1>1, <2>2 DEF Completed
    <3>. QED
      BY <1>1, <1>2, <1>3, <1>9, <2>2, <3>1 DEF Begun
  <2>3. CASE i > cursor
    BY <1>1, <2>3 DEF Begun
  <2>. QED
    BY <1>1, <2>1, <2>2, <2>3
<1>. QED
  BY <1>1, <1>2, <1>10, <1>11, <1>12 DEF SameEntry, Heard, IsClosed, Refused

\* The gateway is then at the next entry.
LEMMA PlaceAfter ==
    ASSUME Script, Place, Sending, NextEntry
    PROVE  Place'
<1>1. /\ UNCHANGED <<answer, omitted, echoes, cut>> /\ cursor' = cursor + 1 /\ sent' = 0 /\ stage' = 0
      /\ cursor \in Nat /\ cursor <= Len(answer) /\ Len(answer) \in Nat
  BY ScriptEntries DEF NextEntry, script, Place, Sending
<1>2. ASSUME Sending' PROVE AtEntry'
  <2>1. PICK e : e = cursor + 1
    OBVIOUS
  <2>2. e \in Entries
    BY <1>1, <1>2, <2>1 DEF Sending, Entries
  <2>3. 0 <= Due(e)
    BY <2>2, DueFacts
  <2>4. Due(cursor)' = Due(e)
    BY <1>1, <2>1 DEF Due, Says
  <2>. QED
    BY <1>1, <2>3, <2>4 DEF AtEntry
<1>. QED
  BY <1>1, <1>2 DEF Place

\* Moving on without an event keeps the invariant.
LEMMA MoveOnKeeps ==
    ASSUME Inv, Script, Turning, MoveOn
    PROVE  Turning'
<1>1. /\ Sending /\ EntrySent /\ phase = "reading" /\ (IsLastOfItem => "itemDone" \in omitted)
      /\ NextEntry /\ UNCHANGED vars
  BY DEF MoveOn
<1>2. Place /\ Reading /\ Following /\ TypeOK
  BY <1>1, ReadingNow DEF Inv
<1>3. UNCHANGED <<answer, omitted, echoes, cut>> /\ cursor' = cursor + 1
  BY <1>1 DEF NextEntry, script
<1>4. UNCHANGED <<phase, state, work, terminal>>
  BY <1>1 DEF vars, handlerVars
<1>5. cursor \in Nat /\ Len(answer) \in Nat /\ cursor <= Len(answer) /\ Entries = 1..Len(answer)
  BY <1>1, <1>2, ScriptEntries DEF Place, Sending, Entries
<1>6. ASSUME NEW i \in Entries PROVE Completed(i)' <=> Completed(i)
  <2>1. i \in Nat /\ Pending = cursor /\ Pending' = cursor + 1 /\ terminal = Null /\ terminal' = Null
    BY <1>2, <1>3, <1>4, <1>5 DEF Pending, Reading
  <2>2. CASE "itemDone" \in omitted
    BY <1>3, <2>1, <2>2 DEF Completed
  <2>3. CASE "itemDone" \notin omitted
    <3>1. cursor < Len(answer) /\ answer[cursor + 1].slot = Current.slot
      BY <1>1, <2>3 DEF IsLastOfItem
    <3>2. Sending' /\ Current' = answer[cursor + 1] /\ answer[cursor].slot = Current.slot
      BY <1>3, <1>5, <3>1 DEF Sending, Current
    <3>. QED
      BY <1>1, <1>3, <1>5, <2>1, <3>1, <3>2 DEF Completed
  <2>. QED
    BY <2>2, <2>3
<1>7. \A i \in Entries : SameEntry(i)
  BY <1>1, <1>2, <1>6, MovesOn
<1>8. Following'
  BY <1>2, <1>3, <1>4, <1>7, StaysFollowing
<1>9. Place'
  BY <1>1, <1>2, PlaceAfter
<1>10. Reading'
  BY <1>2, <1>4 DEF Reading
<1>. QED
  BY <1>8, <1>9, <1>10 DEF Turning

\* The entries of an item are together, from m on.
ItemFrom(m) ==
    /\ m \in 1..cursor /\ CurrentItem = SubSeq(answer, m, cursor)
    /\ \A i \in Entries : answer[i].slot = Current.slot <=> i \in m..cursor

\* The entries of an item are a run of the answer that ends with the current one.
LEMMA ItemIsRun ==
    ASSUME Script, Place, Sending, IsLastOfItem
    PROVE  \E m : ItemFrom(m)
<1>1. /\ answer \in Output /\ cursor \in Nat /\ Len(answer) \in Nat /\ 1 <= cursor /\ cursor <= Len(answer)
      /\ Entries = 1..Len(answer) /\ DOMAIN answer = Entries /\ Current = answer[cursor]
      /\ cursor \in Entries
  BY ScriptEntries DEF Script, Place, Sending, Entries, Current
<1>2. PICK T : T = {i \in 1..cursor : answer[i].slot = Current.slot}
  OBVIOUS
<1>3. T \in SUBSET Nat /\ T # {}
  BY <1>1, <1>2
<1>4. PICK m \in T : \A y \in T : m <= y
  BY <1>3, LeastNumber
<1>5. m \in 1..cursor /\ m \in Nat /\ m \in Entries /\ answer[m].slot = Current.slot
  BY <1>1, <1>2, <1>4
<1>6. ASSUME NEW i \in Entries PROVE answer[i].slot = Current.slot <=> i \in m..cursor
  <2>0. i \in Nat
    BY <1>1
  <2>1. CASE i < m
    <3>1. i \notin T /\ i \in 1..cursor
      BY <1>1, <1>4, <1>5, <2>0, <2>1
    <3>. QED
      BY <1>2, <1>5, <2>0, <2>1, <3>1
  <2>2. CASE i \in m..cursor
    <3>1. CASE m = cursor
      BY <1>1, <1>5, <2>0, <2>2, <3>1
    <3>2. CASE m < cursor
      <4>1. \A k \in m..cursor : answer[k].slot = answer[m].slot
        BY <1>1, <1>5, <3>2, SameItem
      <4>. QED
        BY <1>5, <2>2, <4>1
    <3>. QED
      BY <1>1, <1>5, <3>1, <3>2
  <2>3. CASE i > cursor
    <3>1. ASSUME answer[i].slot = Current.slot PROVE FALSE
      <4>1. \A k \in cursor..i : answer[k].slot = answer[cursor].slot
        BY <1>1, <2>0, <2>3, <3>1, SameItem
      <4>2. cursor + 1 \in cursor..i /\ cursor < Len(answer)
        BY <1>1, <2>0, <2>3
      <4>. QED
        BY <1>1, <4>1, <4>2 DEF IsLastOfItem
    <3>. QED
      BY <1>1, <1>5, <2>0, <2>3, <3>1
  <2>. QED
    BY <1>1, <1>5, <2>0, <2>1, <2>2, <2>3
<1>7. CurrentItem = SubSeq(answer, m, cursor)
  <2>1. PICK X : X = {entry \in Range(answer) : entry.slot = Current.slot}
    OBVIOUS
  <2>2. \A i \in 1..Len(answer) : answer[i] \in X <=> i \in m..cursor
    BY <1>1, <1>6, <2>1 DEF Range
  <2>3. answer \in Seq(Entry) /\ m \in 1..Len(answer) /\ cursor \in m..Len(answer)
    BY <1>1, <1>5 DEF Output
  <2>4. Selected(answer, X) = SubSeq(answer, m, cursor)
    BY <2>2, <2>3, SelectedRun
  <2>. QED
    BY <2>1, <2>4 DEF CurrentItem
<1>. QED
  BY <1>5, <1>6, <1>7 DEF ItemFrom

\* output_item.done keeps the invariant: the handler has all its entries to do.
LEMMA SendItemDoneKeeps ==
    ASSUME Inv, Script, Turning, SendItemDone
    PROVE  Turning'
<1>1. /\ Sending /\ EntrySent /\ IsLastOfItem /\ "itemDone" \notin omitted
      /\ NextEntry /\ ItemDone(CurrentItem)
  BY DEF SendItemDone
<1>2. /\ phase = "reading" /\ phase' = "reconciling" /\ work' = CurrentItem
      /\ UNCHANGED <<state, terminal>>
  BY <1>1 DEF ItemDone, Receive
<1>3. Place /\ Reading /\ Following /\ TypeOK
  BY <1>2, ReadingNow DEF Inv
<1>4. UNCHANGED <<answer, omitted, echoes, cut>> /\ cursor' = cursor + 1 /\ sent' = 0 /\ stage' = 0
  BY <1>1 DEF NextEntry, script
<1>5. /\ cursor \in Nat /\ Len(answer) \in Nat /\ cursor <= Len(answer) /\ Entries = 1..Len(answer)
      /\ answer \in Seq(Entry) /\ Current = answer[cursor] /\ cursor \in Entries /\ 1 <= cursor
  BY <1>1, <1>3, ScriptEntries DEF Place, Sending, Entries, Script, Output, Current
<1>6. PICK m : ItemFrom(m)
  BY <1>1, <1>3, ItemIsRun
<1>7. /\ m \in 1..cursor /\ m \in Nat /\ work' = SubSeq(answer, m, cursor)
      /\ \A i \in Entries : answer[i].slot = Current.slot <=> i \in m..cursor
  BY <1>2, <1>5, <1>6 DEF ItemFrom
<1>8. /\ Len(work') = (cursor - m) + 1
      /\ \A j \in 1..((cursor - m) + 1) : work'[j] = answer[(m - 1) + j]
  BY <1>5, <1>7
<1>9. Pending' = m /\ terminal = Null /\ terminal' = Null /\ Pending = cursor
  BY <1>2, <1>3, <1>4, <1>5, <1>7, <1>8 DEF Pending, Reading
<1>10. cursor < Len(answer) => answer[cursor + 1].slot # Current.slot
  BY <1>1 DEF IsLastOfItem
<1>11. ASSUME NEW i \in Entries PROVE Completed(i)' <=> Completed(i)
  <2>1. i \in Nat
    BY <1>5
  <2>2. Completed(i) <=> i < cursor /\ answer[i].slot # Current.slot
    BY <1>1, <1>5, <1>9, <2>1 DEF Completed
  <2>3. Completed(i) <=> i < m
    BY <1>5, <1>7, <2>1, <2>2
  <2>4. Sending' <=> cursor < Len(answer)
    BY <1>4, <1>5 DEF Sending
  <2>5. Sending' => Current' = answer[cursor + 1]
    BY <1>4 DEF Current
  <2>6. ASSUME i < m, cursor < Len(answer), answer[i].slot = answer[cursor + 1].slot PROVE FALSE
    <3>1. cursor + 1 \in Entries /\ i < cursor + 1
      BY <1>5, <1>7, <2>1, <2>6
    <3>2. \A k \in i..(cursor + 1) : answer[k].slot = answer[i].slot
      BY <2>6, <3>1, SameItem
    <3>3. cursor \in i..(cursor + 1)
      BY <1>5, <1>7, <2>1, <2>6
    <3>. QED
      BY <1>5, <1>10, <2>6, <3>2, <3>3
  <2>7. Completed(i)' <=> i < m
    BY <1>1, <1>4, <1>5, <1>7, <1>9, <2>1, <2>4, <2>5, <2>6 DEF Completed
  <2>. QED
    BY <2>3, <2>7
<1>12. \A i \in Entries : SameEntry(i)
  BY <1>1, <1>3, <1>11, MovesOn
<1>13. Following'
  BY <1>2, <1>3, <1>4, <1>12, StaysFollowing
<1>14. Place'
  BY <1>1, <1>3, PlaceAfter
<1>15. Handling'
  <2>1. Len(work') < cursor' /\ cursor' > 1 /\ cursor' - 1 = cursor
    BY <1>4, <1>5, <1>7, <1>8
  <2>2. \A j \in 1..Len(work') : work'[j] = answer'[(Pending' - 1) + j]
    BY <1>4, <1>8, <1>9
  <2>3. Sending' => Current'.slot # answer'[cursor' - 1].slot
    BY <1>4, <1>5, <1>10, <2>1 DEF Sending, Current
  <2>4. \A i \in Pending'..(cursor' - 1) : answer'[i].slot = answer'[cursor' - 1].slot
    <3>1. \A i \in m..cursor : i \in Entries
      BY <1>5, <1>7
    <3>. QED
      BY <1>4, <1>5, <1>7, <1>9, <2>1, <3>1
  <2>. QED
    BY <1>1, <1>4, <1>9, <2>1, <2>2, <2>3, <2>4 DEF Handling
<1>. QED
  BY <1>2, <1>13, <1>14, <1>15 DEF Turning

\* The terminal event is well-formed.
LEMMA EventTyped ==
    ASSUME Script
    PROVE  /\ Event \in TerminalEvent /\ Event # Null
           /\ Event.output = IF echoes THEN answer ELSE Null
           /\ Event.type = Status /\ Event.status = Status /\ Event.reason = cut
           /\ Status = IF cut = Null THEN "completed" ELSE "incomplete"
<1>1. Event \in TerminalEvent
  BY DEF Script, Event, TerminalEvent, Status, Reasons
<1>. QED
  BY <1>1, StreamAssumption DEF Event, Status

\* The terminal event keeps the invariant: the handler has the answer to do.
LEMMA SendTerminalKeeps ==
    ASSUME Inv, Script, Turning, SendTerminal
    PROVE  Turning'
<1>1. ~Sending /\ UNCHANGED gateway /\ Terminate(Event)
  BY DEF SendTerminal, Event
<1>2. /\ phase = "reading" /\ phase' = "reconciling" /\ terminal' = Event
      /\ work' = IF Event.output = Null THEN <<>> ELSE Event.output
      /\ UNCHANGED state
  BY <1>1 DEF Terminate, Receive
<1>3. Place /\ Reading /\ Following /\ TypeOK
  BY <1>2, ReadingNow DEF Inv
<1>4. UNCHANGED <<answer, omitted, echoes, cut, cursor, sent, stage>>
  BY <1>1 DEF gateway, script
<1>5. /\ Len(answer) \in Nat /\ cursor = Len(answer) + 1 /\ sent = 0 /\ stage = 0
      /\ answer # Null /\ Entries = 1..Len(answer)
  BY <1>1, <1>3, ScriptEntries, StreamAssumption DEF Place, Sending, Script, Entries
<1>6. work' = (IF echoes THEN answer ELSE <<>>) /\ Event # Null
  BY <1>2, <1>5, EventTyped
<1>7. Pending = cursor /\ Pending' = IF echoes THEN 1 ELSE cursor
  <2>1. CASE echoes
    BY <1>3, <1>4, <1>5, <1>6, <2>1 DEF Pending, Reading
  <2>2. CASE ~echoes
    BY <1>3, <1>4, <1>5, <1>6, <2>2 DEF Pending, Reading
  <2>. QED
    BY <2>1, <2>2
<1>8. ASSUME NEW i \in Entries PROVE SameEntry(i)
  <2>1. i \in Nat /\ ~(i < 1) /\ i < cursor
    BY <1>5
  <2>2. Completed(i)' <=> Completed(i)
    BY <1>1, <1>2, <1>3, <1>4, <1>6, <1>7, <2>1 DEF Completed, Reading, Sending
  <2>. QED
    BY <1>1, <2>2, Unmoved
<1>9. Following'
  BY <1>2, <1>3, <1>4, <1>8, StaysFollowing
<1>10. Place'
  BY <1>1, <1>3, <1>4, <1>5 DEF Place, Sending
<1>11. Handling'
  <2>1. Len(work') < cursor'
    BY <1>4, <1>5, <1>6
  <2>2. ASSUME NEW j \in 1..Len(work') PROVE work'[j] = answer'[(Pending' - 1) + j]
    <3>1. echoes /\ work' = answer
      BY <1>6, <2>2
    <3>2. (Pending' - 1) + j = j
      BY <1>5, <1>7, <3>1
    <3>. QED
      BY <1>4, <3>1, <3>2
  <2>3. Event' = Event /\ ~Sending'
    BY <1>1, <1>4 DEF Event, Status, Sending
  <2>4. work' # <<>> => echoes'
    BY <1>4, <1>6
  <2>. QED
    BY <1>2, <1>4, <1>5, <1>6, <2>1, <2>2, <2>3, <2>4 DEF Handling
<1>. QED
  BY <1>2, <1>9, <1>10, <1>11 DEF Turning

-----------------------------------------------------------------------------
(* The steps of the translator: items are reconciled one entry at a time.  *)

\* The entry at the head of the work is the pending one.
LEMMA HeadIs ==
    ASSUME Inv, Script, Turning, phase = "reconciling", work # <<>>, NEW e, e = Pending
    PROVE  /\ Place /\ Handling /\ Following /\ TypeOK /\ Mirror
           /\ e \in Entries /\ e \in Nat /\ cursor \in Nat /\ e < cursor
           /\ Len(work) \in Nat /\ Len(work) > 0 /\ e = cursor - Len(work)
           /\ Head(work) = answer[e]
<1>1. Place /\ Handling /\ Following /\ TypeOK /\ Mirror
  BY DEF Turning, Reading, Inv
<1>2. work \in Seq(Entry) /\ Len(work) \in Nat /\ Len(work) > 0 /\ Head(work) = work[1]
  BY <1>1 DEF TypeOK, Output
<1>3. /\ cursor \in Nat /\ cursor <= Len(answer) + 1 /\ Len(answer) \in Nat
      /\ Entries = 1..Len(answer)
  BY <1>1, ScriptEntries DEF Place, Entries
<1>4. e = cursor - Len(work) /\ Len(work) < cursor
  BY <1>1 DEF Handling, Pending
<1>5. e \in Entries /\ e \in Nat /\ e < cursor /\ (e - 1) + 1 = e
  BY <1>2, <1>3, <1>4
<1>6. 1 \in 1..Len(work)
  BY <1>2
<1>7. work[1] = answer[(e - 1) + 1]
  BY <1>1, <1>6 DEF Handling
<1>. QED
  BY <1>1, <1>2, <1>3, <1>4, <1>5, <1>7

\* Every entry before the one to reconcile has a block.
LEMMA EarlierDone ==
    ASSUME Inv, Script, Turning, phase = "reconciling", work # <<>>, NEW e, e = Pending
    PROVE  BegunBefore(e)
<1>1. /\ Place /\ Handling /\ e \in Entries /\ e \in Nat /\ cursor \in Nat /\ e < cursor
  BY HeadIs
<1>2. ASSUME NEW j \in Entries, j < e PROVE Begun(j)
  <2>1. j \in Nat /\ j < cursor /\ cursor - 1 \in Nat
    BY <1>1, <1>2, ScriptEntries DEF Entries
  <2>2. CASE terminal = Null
    <3>1. "itemDone" \notin omitted /\ (Sending => Current.slot # answer[cursor - 1].slot)
      BY <1>1, <2>2 DEF Handling
    <3>2. ASSUME Sending, answer[j].slot = Current.slot PROVE FALSE
      <4>1. cursor \in Entries /\ Current = answer[cursor]
        BY <1>1, <3>2, ScriptEntries DEF Place, Sending, Entries, Current
      <4>2. \A k \in j..cursor : answer[k].slot = answer[j].slot
        BY <2>1, <3>2, <4>1, SameItem
      <4>3. cursor - 1 \in j..cursor
        BY <1>1, <2>1
      <4>. QED
        BY <3>1, <3>2, <4>2, <4>3
    <3>. QED
      BY <1>2, <2>1, <2>2, <3>1, <3>2 DEF Begun, Completed
  <2>3. CASE terminal # Null
    <3>1. echoes
      BY <1>1, <2>3 DEF Handling
    <3>. QED
      BY <1>2, <2>1, <2>3, <3>1 DEF Begun, Completed
  <2>. QED
    BY <2>2, <2>3
<1>. QED
  BY <1>2 DEF BegunBefore

\* The handler goes on to the next entry: the one at the head is reconciled.
LEMMA GoesOn ==
    ASSUME Inv, Script, Turning, phase = "reconciling", work # <<>>, NEW e, e = Pending,
           Continue, UNCHANGED gateway
    PROVE  /\ Place' /\ phase' = "reconciling" /\ Handling' /\ Completed(e)'
           /\ \A i \in Entries : Completed(i)' <=> Completed(i) \/ i = e
<1>1. /\ Place /\ Handling /\ TypeOK /\ e \in Entries /\ e \in Nat /\ cursor \in Nat /\ e < cursor
      /\ Len(work) \in Nat /\ Len(work) > 0 /\ e = cursor - Len(work)
  BY HeadIs
<1>2. UNCHANGED <<answer, omitted, echoes, cut, cursor, sent, stage>>
  BY DEF gateway, script
<1>3. phase' = "reconciling" /\ work' = Tail(work) /\ terminal' = terminal
  BY DEF Continue
<1>4. /\ Len(work') = Len(work) - 1
      /\ \A j \in 1..(Len(work) - 1) : work'[j] = work[j + 1]
  <2>1. work \in Seq(Entry)
    BY <1>1 DEF TypeOK, Output
  <2>. QED
    BY <1>1, <1>3, <2>1
<1>5. Pending' = e + 1 /\ (Sending' <=> Sending) /\ Current' = Current /\ Event' = Event
  BY <1>1, <1>2, <1>4 DEF Pending, Sending, Current, Event, Status
<1>6. Place'
  BY <1>1, <1>2 DEF Place, AtEntry, Sending, Current, Due, Says, IsText
<1>7. Handling'
  <2>1. Len(work') < cursor'
    BY <1>1, <1>2, <1>4 DEF Handling
  <2>2. ASSUME NEW j \in 1..Len(work') PROVE work'[j] = answer'[(Pending' - 1) + j]
    <3>1. j \in Nat /\ j + 1 \in 1..Len(work) /\ work'[j] = work[j + 1]
      BY <1>1, <1>4
    <3>2. work[j + 1] = answer[(e - 1) + (j + 1)]
      BY <1>1, <3>1 DEF Handling
    <3>3. (e - 1) + (j + 1) = (Pending' - 1) + j
      BY <1>1, <1>5, <3>1
    <3>. QED
      BY <1>2, <3>1, <3>2, <3>3
  <2>3. CASE terminal = Null
    <3>1. \A i \in Pending'..(cursor' - 1) : i \in e..(cursor - 1)
      BY <1>1, <1>2, <1>5
    <3>. QED
      BY <1>1, <1>2, <1>3, <1>5, <2>1, <2>2, <2>3, <3>1 DEF Handling
  <2>4. CASE terminal # Null
    <3>1. echoes
      BY <1>1, <2>4 DEF Handling
    <3>. QED
      BY <1>1, <1>2, <1>3, <1>5, <2>1, <2>2, <2>4, <3>1 DEF Handling
  <2>. QED
    BY <2>3, <2>4
<1>8. ASSUME NEW i \in Entries PROVE Completed(i)' <=> Completed(i) \/ i = e
  <2>1. i \in Nat /\ (i < e + 1 <=> i < e \/ i = e) /\ Pending = e
    BY <1>1, ScriptEntries DEF Entries
  <2>2. CASE terminal = Null
    <3>1. /\ "itemDone" \notin omitted /\ cursor - 1 \in Nat
          /\ Sending => Current.slot # answer[cursor - 1].slot
          /\ answer[e].slot = answer[cursor - 1].slot
      <4>1. e \in Pending..(cursor - 1)
        BY <1>1, <2>1
      <4>. QED
        BY <1>1, <2>2, <4>1 DEF Handling
    <3>. QED
      BY <1>1, <1>2, <1>3, <1>5, <2>1, <2>2, <3>1 DEF Completed
  <2>3. CASE terminal # Null
    <3>1. echoes /\ ~Sending
      BY <1>1, <2>3 DEF Handling
    <3>. QED
      BY <1>1, <1>2, <1>3, <1>5, <2>1, <2>3, <3>1 DEF Completed
  <2>. QED
    BY <2>2, <2>3
<1>. QED
  BY <1>1, <1>3, <1>6, <1>7, <1>8

\* ... and its block now shows it all.
LEMMA GoesOnWith ==
    ASSUME Inv, Script, Turning, phase = "reconciling", work # <<>>, NEW e, e = Pending,
           Continue, UNCHANGED gateway,
           Placed(blocks', e, Shape(KindOf(e), LabelOf(e), Says(e), 1)), Points(e),
           answer[e].kind = "call" => hasToolCall',
           answer[e].kind # "call" => hasToolCall' = hasToolCall,
           hasRefusal => hasRefusal',
           hasRefusal' => hasRefusal \/ answer[e].kind = "refusal",
           answer[e].kind = "refusal" => hasRefusal'
    PROVE  Turning'
<1>1. Following /\ TypeOK /\ e \in Entries
  BY HeadIs
<1>2. /\ Place' /\ phase' = "reconciling" /\ Handling' /\ Completed(e)'
      /\ \A i \in Entries : Completed(i)' <=> Completed(i) \/ i = e
  BY GoesOn
<1>3. BegunBefore(e)
  BY EarlierDone
<1>4. \A i \in Entries : i # e => SameEntry(i)
  BY <1>2, Unmoved
<1>5. Begun(e)' /\ BlockOf(e)' = Shape(KindOf(e), LabelOf(e), Says(e), 1)
  <2>1. answer' = answer
    BY DEF gateway, script
  <2>. QED
    BY <1>2, <2>1 DEF Begun, BlockOf, Heard, Stops, IsClosed, KindOf, LabelOf, Says
<1>6. UNCHANGED answer
  BY DEF gateway, script
<1>7. Following'
  BY <1>1, <1>3, <1>4, <1>5, <1>6, KeepsFollowing
<1>. QED
  BY <1>2, <1>7 DEF Turning

\* A text or refusal of an item is reconciled.
LEMMA ReconcileTextKeeps ==
    ASSUME Inv, Script, Turning, ReconcileText, UNCHANGED gateway
    PROVE  Turning'
<1>1. phase = "reconciling" /\ work # <<>> /\ Head(work).kind \in {"text", "refusal"}
  BY DEF ReconcileText, Reconcile
<1>2. PICK e : e = Pending
  OBVIOUS
<1>3. /\ Place /\ Following /\ TypeOK /\ Mirror /\ e \in Entries /\ e \in Nat
      /\ Head(work) = answer[e]
  BY <1>1, <1>2, HeadIs
<1>4. BegunBefore(e)
  BY <1>1, <1>2, EarlierDone
<1>5. IsText(answer[e]) /\ answer[e].kind # "call"
  BY <1>1, <1>3 DEF IsText
<1>6. PICK k : k = KeyOf(e)
  OBVIOUS
<1>7. k \in Keys /\ answer[e].body = Says(e) /\ Says(e) \in String
  BY <1>3, <1>5, <1>6, EntryFacts
<1>8. /\ Heard(e) \in String /\ Stops(e) \in {0, 1} /\ Completes(Says(e), Heard(e), Stops(e))
  BY <1>3, HeardFacts
<1>9. Found(textIndex[k], e, "text", Null, Heard(e), Stops(e))
  BY <1>3, <1>4, <1>5, <1>6, FoundEntry DEF Following
<1>10. TextAgrees(k, Says(e))
  BY <1>3, <1>7, <1>8, <1>9, TextCompletable
<1>11. PICK kind : kind = answer[e].kind
  OBVIOUS
<1>12. /\ FinishText(k, kind, Says(e)) /\ Continue
       /\ hasRefusal' = (hasRefusal \/ kind = "refusal") /\ hasToolCall' = hasToolCall
  BY <1>3, <1>6, <1>7, <1>10, <1>11 DEF ReconcileText, KeyOf
<1>13. /\ Placed(blocks', e, Shape("text", Null, Says(e), 1))
       /\ textIndex' = [textIndex EXCEPT ![k] = e - 1] /\ toolIndex' = toolIndex
  BY <1>3, <1>7, <1>8, <1>9, <1>12, FinishTextDoes
<1>14. Points(e) /\ KindOf(e) = "text" /\ LabelOf(e) = Null
  BY <1>3, <1>5, <1>6, <1>13, ShownAs DEF Points
<1>15. Placed(blocks', e, Shape(KindOf(e), LabelOf(e), Says(e), 1))
  BY <1>13, <1>14
<1>16. hasRefusal' <=> hasRefusal \/ answer[e].kind = "refusal"
  BY <1>11, <1>12
<1>. QED
  BY <1>1, <1>2, <1>5, <1>12, <1>14, <1>15, <1>16, GoesOnWith

\* What is known of the call that is pending.
PendingCall(e, o, name) ==
    /\ o \in Slot /\ name \in Name \cup {NoName} /\ o = answer[e].slot /\ name = answer[e].name
    /\ Says(e) \in String /\ Heard(e) \in String /\ Stops(e) \in {0, 1}
    /\ Completes(Says(e), Heard(e), Stops(e))
    /\ Found(toolIndex[o], e, "tool_use", name, Heard(e), Stops(e))
    /\ toolIndex[o] # Absent /\ toolIndex[o] = e - 1
    /\ CompleteArguments(o, answer[e].body) = Says(e) /\ CallAgrees(o, Says(e), openBlocks)
    /\ KindOf(e) = "tool_use" /\ LabelOf(e) = name /\ hasToolCall

\* The block of the call to reconcile, and that it can be completed.
LEMMA CallPending ==
    ASSUME Inv, Script, Turning, phase = "reconciling", work # <<>>, NEW e, e = Pending,
           answer[e].kind = "call"
    PROVE  PendingCall(e, answer[e].slot, answer[e].name)
<1>1. /\ Place /\ Following /\ TypeOK /\ Mirror /\ e \in Entries /\ e \in Nat /\ e < cursor
  BY HeadIs
<1>2. BegunBefore(e)
  BY EarlierDone
<1>3. PICK o : o = answer[e].slot
  OBVIOUS
<1>4. PICK name : name = answer[e].name
  OBVIOUS
<1>5. /\ o \in Slot /\ name \in Name \cup {NoName} /\ ParsesToObject(Says(e)) /\ Says(e) \in String
  BY <1>1, <1>3, <1>4, EntryFacts
<1>6. /\ Heard(e) \in String /\ Stops(e) \in {0, 1} /\ Completes(Says(e), Heard(e), Stops(e))
  BY <1>1, HeardFacts
<1>7. Begun(e)
  BY <1>1 DEF Begun
<1>8. /\ Found(toolIndex[o], e, "tool_use", name, Heard(e), Stops(e)) /\ toolIndex[o] = e - 1
  BY <1>1, <1>2, <1>3, <1>4, <1>7, FoundEntry DEF Following
<1>9. toolIndex[o] # Absent
  <2>1. e # 0
    BY <1>1, ScriptEntries DEF Entries
  <2>. QED
    BY <1>1, <1>8, <2>1 DEF Absent
<1>10. PICK body : body = answer[e].body
  OBVIOUS
<1>11. Carries(body, Says(e), Heard(e))
  BY <1>1, <1>10, CallCarries
<1>12. CompleteArguments(o, body) = Says(e) /\ CallAgrees(o, Says(e), openBlocks)
  <2>1. PICK complete \in String : complete = Says(e)
    BY <1>5
  <2>2. PICK content \in String : content = Heard(e)
    BY <1>6
  <2>3. PICK stops \in {0, 1} : stops = Stops(e)
    BY <1>6
  <2>4. /\ Found(toolIndex[o], e, "tool_use", name, content, stops)
        /\ Completes(complete, content, stops) /\ Carries(body, complete, content)
        /\ ParsesToObject(complete)
    BY <1>5, <1>6, <1>8, <1>11, <2>1, <2>2, <2>3
  <2>5. CompleteArguments(o, body) = complete /\ CallAgrees(o, complete, openBlocks)
    BY <1>1, <1>5, <1>9, <2>4, CallCompletable
  <2>. QED
    BY <2>1, <2>5
<1>13. KindOf(e) = "tool_use" /\ LabelOf(e) = name
  BY <1>1, <1>4, ShownAs
<1>14. hasToolCall
  BY <1>1, <1>7 DEF Following, CallsSeen
<1>. QED
  BY <1>3, <1>4, <1>5, <1>6, <1>8, <1>9, <1>10, <1>12, <1>13, <1>14 DEF PendingCall

\* Finishing the call leaves its block complete and stopped.
LEMMA CallGoesOn ==
    ASSUME Inv, Script, Turning, phase = "reconciling", work # <<>>, NEW e, e = Pending,
           answer[e].kind = "call", Continue, UNCHANGED gateway,
           PendingCall(e, answer[e].slot, answer[e].name),
           FinishCall(answer[e].slot, Says(e), openBlocks, blocks),
           textIndex' = textIndex,
           toolIndex' = toolIndex \/ toolIndex' = [toolIndex EXCEPT ![answer[e].slot] = e - 1],
           hasToolCall', hasRefusal' = hasRefusal
    PROVE  Turning'
<1>1. /\ Place /\ Following /\ TypeOK /\ Mirror /\ e \in Entries /\ e \in Nat
  BY HeadIs
<1>2. PICK o : o = answer[e].slot
  OBVIOUS
<1>3. PICK name : name = answer[e].name
  OBVIOUS
<1>4. /\ o \in Slot /\ name \in Name \cup {NoName}
      /\ Says(e) \in String /\ Heard(e) \in String /\ Stops(e) \in {0, 1}
      /\ Completes(Says(e), Heard(e), Stops(e))
      /\ Found(toolIndex[o], e, "tool_use", name, Heard(e), Stops(e))
      /\ toolIndex[o] # Absent /\ toolIndex[o] = e - 1
      /\ KindOf(e) = "tool_use" /\ LabelOf(e) = name
  BY <1>2, <1>3 DEF PendingCall
<1>5. FinishCall(o, Says(e), openBlocks, blocks)
  BY <1>2
<1>6. Placed(blocks', e, Shape("tool_use", name, Says(e), 1))
  <2>1. PICK complete \in String : complete = Says(e)
    BY <1>4
  <2>2. PICK content \in String : content = Heard(e)
    BY <1>4
  <2>3. PICK stops \in {0, 1} : stops = Stops(e)
    BY <1>4
  <2>4. /\ Found(toolIndex[o], e, "tool_use", name, content, stops)
        /\ Completes(complete, content, stops) /\ FinishCall(o, complete, openBlocks, blocks)
    BY <1>4, <1>5, <2>1, <2>2, <2>3
  <2>5. Placed(blocks', e, Shape("tool_use", name, complete, 1))
    BY <1>1, <1>4, <2>4, FinishCallDoes
  <2>. QED
    BY <2>1, <2>5
<1>7. toolIndex' = [toolIndex EXCEPT ![o] = e - 1]
  BY <1>1, <1>2, <1>4 DEF TypeOK
<1>8. Points(e)
  BY <1>2, <1>7 DEF Points, IsText
<1>9. Placed(blocks', e, Shape(KindOf(e), LabelOf(e), Says(e), 1))
  BY <1>4, <1>6
<1>. QED
  BY <1>8, <1>9, GoesOnWith

\* The call of a completed item is reconciled.
LEMMA ReconcileCallKeeps ==
    ASSUME Inv, Script, Turning, ReconcileCall, UNCHANGED gateway
    PROVE  Turning'
<1>1. phase = "reconciling" /\ work # <<>> /\ Head(work).kind = "call"
  BY DEF ReconcileCall, Reconcile
<1>2. PICK e : e = Pending
  OBVIOUS
<1>3. Head(work) = answer[e] /\ answer[e].kind = "call"
  BY <1>1, <1>2, HeadIs
<1>4. PendingCall(e, answer[e].slot, answer[e].name)
  BY <1>1, <1>2, <1>3, CallPending
<1>5. /\ toolIndex[answer[e].slot] # Absent
      /\ CompleteArguments(answer[e].slot, answer[e].body) = Says(e)
      /\ CallAgrees(answer[e].slot, Says(e), openBlocks) /\ hasToolCall
  BY <1>4 DEF PendingCall
<1>6. /\ FinishCall(answer[e].slot, Says(e), openBlocks, blocks)
      /\ UNCHANGED <<indexVars, flagVars>> /\ Continue
  BY <1>3, <1>5 DEF ReconcileCall
<1>7. textIndex' = textIndex /\ toolIndex' = toolIndex /\ hasToolCall' /\ hasRefusal' = hasRefusal
  BY <1>5, <1>6 DEF indexVars, flagVars
<1>. QED
  BY <1>1, <1>2, <1>3, <1>4, <1>6, <1>7, CallGoesOn

\* The call of the terminal event is reconciled.
LEMMA ReconcileTerminalCallKeeps ==
    ASSUME Inv, Script, Turning, ReconcileTerminalCall, UNCHANGED gateway
    PROVE  Turning'
<1>1. phase = "reconciling" /\ work # <<>> /\ Head(work).kind = "call"
  BY DEF ReconcileTerminalCall, Reconcile
<1>2. PICK e : e = Pending
  OBVIOUS
<1>3. Head(work) = answer[e] /\ answer[e].kind = "call"
  BY <1>1, <1>2, HeadIs
<1>4. PendingCall(e, answer[e].slot, answer[e].name)
  BY <1>1, <1>2, <1>3, CallPending
<1>5. PICK o : o = answer[e].slot
  OBVIOUS
<1>6. /\ toolIndex[o] # Absent /\ toolIndex[o] = e - 1
      /\ CompleteArguments(o, answer[e].body) = Says(e)
      /\ CallAgrees(o, Says(e), openBlocks)
  BY <1>4, <1>5 DEF PendingCall
<1>7. /\ OpenWithTool(o) = openBlocks /\ \A name : BlocksWithTool(o, name) = blocks
      /\ ToolBlock(o) = e - 1
  BY <1>6 DEF OpenWithTool, BlocksWithTool, ToolBlock
<1>8. /\ FinishCall(o, Says(e), openBlocks, blocks) /\ StartTool(o) /\ Continue
      /\ hasToolCall' = TRUE /\ hasRefusal' = hasRefusal
  BY <1>3, <1>5, <1>6, <1>7 DEF ReconcileTerminalCall
<1>9. textIndex' = textIndex /\ toolIndex' = [toolIndex EXCEPT ![o] = e - 1]
  BY <1>7, <1>8 DEF StartTool
<1>. QED
  BY <1>1, <1>2, <1>3, <1>4, <1>5, <1>8, <1>9, CallGoesOn

\* The reasoning of a completed item is reconciled.
LEMMA ReconcileReasoningKeeps ==
    ASSUME Inv, Script, Turning, ReconcileReasoning, UNCHANGED gateway
    PROVE  Turning'
<1>1. /\ phase = "reconciling" /\ work # <<>> /\ Head(work).kind = "reasoning" /\ terminal = Null
      /\ blocks' = WholeBlock(blocks, "reasoning", <<Head(work)>>) /\ Continue
      /\ UNCHANGED <<textIndex, toolIndex, flagVars>>
  BY DEF ReconcileReasoning, Reconcile
<1>2. PICK e : e = Pending
  OBVIOUS
<1>3. /\ Place /\ Following /\ TypeOK /\ e \in Entries /\ e \in Nat /\ cursor \in Nat /\ e < cursor
      /\ Head(work) = answer[e] /\ answer[e].kind = "reasoning"
  BY <1>1, <1>2, HeadIs
<1>4. BegunBefore(e)
  BY <1>1, <1>2, EarlierDone
<1>5. ~Begun(e)
  BY <1>1, <1>2, <1>3 DEF Begun, Completed, IsText
<1>6. e = Len(blocks) + 1
  BY <1>3, <1>4, <1>5, FoundEntry DEF Following
<1>7. KindOf(e) = "reasoning" /\ LabelOf(e) = <<answer[e]>> /\ LabelOf(e) \in Label /\ Says(e) = <<>>
  BY <1>3, ShownAs DEF Says
<1>8. blocks \in Seq(Block) /\ "reasoning" \in Kind
  BY <1>3 DEF TypeOK, Kind
<1>9. Placed(WholeBlock(blocks, "reasoning", LabelOf(e)), Len(blocks) + 1,
             Shape("reasoning", LabelOf(e), <<>>, 1))
  <2>1. PICK label \in Label : label = LabelOf(e)
    BY <1>7
  <2>. QED
    BY <1>8, <2>1, PlacedNew
<1>10. Placed(blocks', e, Shape(KindOf(e), LabelOf(e), Says(e), 1))
  BY <1>1, <1>3, <1>6, <1>7, <1>9
<1>11. Points(e) /\ answer[e].kind # "call" /\ answer[e].kind # "refusal"
       /\ hasToolCall' = hasToolCall /\ hasRefusal' = hasRefusal
  BY <1>1, <1>3 DEF Points, IsText, flagVars
<1>. QED
  BY <1>1, <1>2, <1>10, <1>11, GoesOnWith

\* The terminal handler passes over an item it need not reconcile: reasoning was
\* shown when its item was done.
LEMMA SkipTerminalItemKeeps ==
    ASSUME Inv, Script, Turning, SkipTerminalItem, UNCHANGED gateway
    PROVE  Turning'
<1>1. /\ phase = "reconciling" /\ work # <<>> /\ Head(work).kind \in {"reasoning", "other"}
      /\ terminal # Null /\ UNCHANGED state /\ Continue
  BY DEF SkipTerminalItem, Reconcile
<1>2. PICK e : e = Pending
  OBVIOUS
<1>3. /\ Handling /\ Following /\ TypeOK /\ e \in Entries /\ e \in Nat /\ e < cursor
      /\ Head(work) = answer[e]
  BY <1>1, <1>2, HeadIs
<1>4. answer[e].kind = "reasoning"
  BY <1>1, <1>3, ScriptEntries
<1>5. "itemDone" \notin omitted /\ ~Sending
  BY <1>1, <1>3, <1>4, Promises DEF Handling
<1>6. Completed(e)
  BY <1>1, <1>3, <1>5 DEF Completed
<1>7. /\ Place' /\ phase' = "reconciling" /\ Handling'
      /\ \A i \in Entries : Completed(i)' <=> Completed(i) \/ i = e
  BY <1>1, <1>2, GoesOn
<1>8. \A i \in Entries : SameEntry(i)
  BY <1>6, <1>7, Unmoved
<1>9. UNCHANGED answer
  BY DEF gateway, script
<1>10. Following'
  BY <1>1, <1>3, <1>8, <1>9, StaysFollowing
<1>. QED
  BY <1>7, <1>10 DEF Turning

\* No item is rejected.
LEMMA RejectItemKeeps ==
    ASSUME Inv, Script, Turning, RejectItem
    PROVE  FALSE
<1>1. phase = "reconciling" /\ work # <<>> /\ Head(work).kind = "other"
  BY DEF RejectItem, Reconcile
<1>2. PICK e : e = Pending
  OBVIOUS
<1>3. e \in Entries /\ Head(work) = answer[e]
  BY <1>1, <1>2, HeadIs
<1>. QED
  BY <1>1, <1>3, ScriptEntries

\* When an item is done, the next event is read.
LEMMA YieldItemKeeps ==
    ASSUME Inv, Script, Turning, YieldItem, UNCHANGED gateway
    PROVE  Turning'
<1>1. /\ phase = "reconciling" /\ work = <<>> /\ terminal = Null /\ UNCHANGED state /\ Yield
  BY DEF YieldItem
<1>2. Place /\ Following /\ TypeOK
  BY <1>1 DEF Turning, Inv
<1>3. UNCHANGED <<answer, omitted, echoes, cut, cursor, sent, stage>>
  BY DEF gateway, script
<1>4. phase' = "reading" /\ UNCHANGED <<work, terminal>>
  BY <1>1 DEF Yield, handlerVars
<1>5. Reading'
  BY <1>1, <1>4 DEF Reading
<1>6. Place'
  BY <1>2, <1>3 DEF Place, AtEntry, Sending, Current, Due, Says, IsText
<1>7. ASSUME NEW i \in Entries PROVE SameEntry(i)
  <2>1. Completed(i)' <=> Completed(i)
    BY <1>3, <1>4 DEF Completed, Sending, Current, Pending
  <2>. QED
    BY <2>1, Unmoved
<1>8. Following'
  BY <1>1, <1>2, <1>3, <1>7, StaysFollowing
<1>. QED
  BY <1>5, <1>6, <1>8 DEF Turning

-----------------------------------------------------------------------------
(* The end of a turn.                                                      *)

\* What the client has when the message ended: a block for every entry, and the
\* carrier, if the gateway repeated its output.
Final ==
    /\ Len(wire) = IF echoes THEN Len(answer) + 1 ELSE Len(answer)
    /\ \A i \in Entries : wire[i] = Shape(KindOf(i), LabelOf(i), Says(i), 1)
    /\ echoes => wire[Len(answer) + 1] = Shape("carrier", answer, <<>>, 1)
    /\ StopReasonHonest

\* When the terminal event was reconciled, everything is known of every entry.
LEMMA AllTold ==
    ASSUME Inv, Script, Turning, phase = "reconciling", work = <<>>, terminal # Null
    PROVE  /\ Len(blocks) = Len(answer)
           /\ \A i \in Entries : /\ Begun(i) /\ (Refused(i) \/ answer[i].kind # "refusal")
                                 /\ blocks[i] = Shape(KindOf(i), LabelOf(i), Says(i), Stops(i))
<1>1. Place /\ Handling /\ Following /\ TypeOK
  BY DEF Turning, Reading, Inv
<1>2. /\ Len(answer) \in Nat /\ Entries = 1..Len(answer) /\ Len(blocks) \in Nat
      /\ ~Sending /\ cursor = Len(answer) + 1 /\ Pending = cursor
  <2>1. Len(answer) \in Nat /\ Entries = 1..Len(answer) /\ Len(blocks) \in Nat /\ ~Sending
    BY <1>1, ScriptEntries DEF Handling, Entries, TypeOK
  <2>2. cursor \in 1..(Len(answer) + 1) /\ ~(cursor <= Len(answer)) /\ Len(work) = 0
    BY <1>1, <2>1 DEF Place, Sending
  <2>. QED
    BY <2>1, <2>2 DEF Pending
<1>3. ASSUME NEW i \in Entries
      PROVE  Begun(i) /\ Heard(i) = Says(i) /\ (Refused(i) \/ answer[i].kind # "refusal")
  <2>0. i < cursor
    BY <1>2
  <2>1. CASE "itemDone" \notin omitted \/ echoes
    <3>1. Completed(i)
      BY <1>2, <2>0, <2>1 DEF Completed
    <3>. QED
      BY <3>1 DEF Begun, Heard, Refused
  <2>2. CASE ~("itemDone" \notin omitted \/ echoes)
    <3>1. /\ "deltas" \notin omitted /\ "lastDeltas" \notin omitted
          /\ answer[i].kind # "reasoning" /\ (answer[i].kind = "refusal" => Says(i) # <<>>)
      BY <2>2, Promises
    <3>2. /\ Says(i) \in String /\ Len(Says(i)) \in Nat /\ Due(i) = Len(Says(i))
          /\ (Says(i) # <<>> => Due(i) > 0)
      BY <3>1, DueFacts
    <3>3. HeardLength(i) = Len(Says(i))
      BY <2>0, <3>2 DEF HeardLength
    <3>4. SubSeq(Says(i), 1, Len(Says(i))) = Says(i)
      BY <3>2 DEF String
    <3>5. Heard(i) = Says(i)
      BY <3>3, <3>4 DEF Heard
    <3>6. answer[i].kind \in {"text", "refusal", "call", "reasoning"}
      BY EntryFacts
    <3>7. Begun(i)
      BY <2>0, <3>1, <3>6 DEF Begun, IsText, OnlyItems
    <3>8. Refused(i) \/ answer[i].kind # "refusal"
      BY <3>1, <3>2, <3>3 DEF Refused
    <3>. QED
      BY <3>5, <3>7, <3>8
  <2>. QED
    BY <2>1, <2>2
<1>4. ASSUME NEW i \in Entries
      PROVE  i <= Len(blocks) /\ blocks[i] = Shape(KindOf(i), LabelOf(i), Says(i), Stops(i))
  <2>1. InStep(i) /\ Begun(i) /\ Heard(i) = Says(i)
    BY <1>1, <1>3 DEF Following, AllInStep
  <2>. QED
    BY <2>1 DEF InStep, BlockOf
<1>5. Len(blocks) = Len(answer)
  <2>1. Len(blocks) <= Len(answer)
    BY <1>1 DEF Following, AllInStep
  <2>2. Len(answer) = 0 \/ Len(answer) \in Entries
    BY <1>2
  <2>. QED
    BY <1>2, <1>4, <2>1, <2>2
<1>. QED
  BY <1>3, <1>4, <1>5

\* The flags tell what there was in the answer.
LEMMA FlagsTell ==
    ASSUME Inv, Script, Turning, phase = "reconciling", work = <<>>, terminal # Null
    PROVE  /\ hasToolCall <=> Calls # {}
           /\ hasRefusal <=> Refusals # {}
           /\ cut = Null => HasVisibleOutput
<1>1. Following /\ TypeOK /\ Mirror /\ DOMAIN answer = Entries
  BY ScriptEntries DEF Turning, Inv
<1>2. Len(blocks) = Len(answer) /\ Len(answer) \in Nat /\ Entries = 1..Len(answer)
  BY AllTold, ScriptEntries DEF Entries
<1>3. \A i \in Entries : /\ Begun(i) /\ (Refused(i) \/ answer[i].kind # "refusal")
                         /\ blocks[i] = Shape(KindOf(i), LabelOf(i), Says(i), Stops(i))
  BY AllTold
<1>4. hasToolCall <=> \E i \in Entries : answer[i].kind = "call"
  BY <1>1, <1>3 DEF Following, CallsSeen
<1>5. hasRefusal <=> \E i \in Entries : answer[i].kind = "refusal"
  BY <1>1, <1>3 DEF Following, RefusalsSeen
<1>6. ASSUME NEW i \in Entries, IsText(answer[i]), Says(i) # <<>> PROVE HasVisibleOutput
  <2>1. PICK k \in Keys : k = KeyOf(i)
    BY EntryFacts
  <2>2. textIndex[k] = i - 1
    BY <1>1, <1>3, <1>6, <2>1 DEF Following, AllInStep, InStep
  <2>3. textIndex[k] # Absent /\ textIndex[k] + 1 = i
    BY <1>2, <2>2 DEF Absent
  <2>4. blocks[i].content = textParts[k]
    BY <1>1, <2>1, <2>3, MirrorIsBookkeeping DEF TextMirrored
  <2>5. textParts[k] = Says(i)
    <3>1. blocks[i] = Shape(KindOf(i), LabelOf(i), Says(i), Stops(i))
      BY <1>3
    <3>2. blocks[i].content = Says(i)
      BY <3>1 DEF Shape
    <3>. QED
      BY <2>4, <3>2
  <2>. QED
    BY <1>6, <2>1, <2>5 DEF HasVisibleOutput, Keys
<1>7. cut = Null => HasVisibleOutput
  <2>1. ASSUME cut = Null, ~(\E i \in Entries : answer[i].kind = "call") PROVE HasVisibleOutput
    BY <1>6, <2>1, Promises
  <2>. QED
    BY <1>4, <2>1 DEF HasVisibleOutput
<1>. QED
  BY <1>1, <1>4, <1>5, <1>7 DEF Calls, Refusals

\* The stop reason the property asks for.
Honest ==
    IF Calls # {} THEN "tool_use"
    ELSE IF cut = "max_output_tokens" THEN "max_tokens"
    ELSE IF cut = "content_filter" \/ Refusals # {} THEN "refusal"
    ELSE IF cut = "context_window_exceeded" THEN "model_context_window_exceeded"
    ELSE "end_turn"

\* stop_reason is the one the property asks for, and there is one.
LEMMA ReasonTold ==
    ASSUME Inv, Script, NEW calls, NEW refusals, calls <=> Calls # {}, refusals <=> Refusals # {}
    PROVE  StopReason(Status, cut, calls, refusals) = Honest /\ Honest # Null
<1>1. cut \in Reasons \cup {Null} /\ Null \notin Reasons \cup StopReasons \cup {"incomplete"}
  BY TurnAssumption DEF Script
<1>2. Honest # Null
  BY <1>1 DEF Honest, StopReasons
<1>3. CASE cut = Null
  <2>1. Status = "completed" /\ cut \notin Reasons
    BY <1>1, <1>3 DEF Status
  <2>. QED
    BY <1>2, <1>3, <2>1 DEF StopReason, Honest, Reasons
<1>4. CASE cut # Null
  <2>1. Status = "incomplete" /\ Null # "incomplete" /\ cut \in Reasons
    BY <1>1, <1>4 DEF Status
  <2>. QED
    BY <1>2, <2>1 DEF StopReason, Honest, Reasons
<1>. QED
  BY <1>3, <1>4

\* When the terminal event is handled, the turn stops with the whole message.
LEMMA FinishEnds ==
    ASSUME Inv, Script, Turning, Finish, UNCHANGED gateway
    PROVE  phase' = "stopped" /\ Final'
<1>1. phase = "reconciling" /\ work = <<>> /\ terminal # Null
  BY DEF Finish
<1>2. TypeOK /\ Mirror /\ terminal = Event
  BY <1>1 DEF Turning, Reading, Handling, Inv
<1>3. /\ terminal.type = Status /\ terminal.status = Status /\ terminal.reason = cut
      /\ terminal.output = IF echoes THEN answer ELSE Null
  BY <1>2, EventTyped
<1>4. answer # Null /\ echoes \in BOOLEAN
  BY StreamAssumption DEF Script
<1>5. terminal.output # Null <=> echoes
  BY <1>3, <1>4
<1>6. /\ hasToolCall <=> Calls # {}
      /\ hasRefusal <=> Refusals # {}
      /\ cut = Null => HasVisibleOutput
  BY <1>1, FlagsTell
<1>7. StopReason(Status, cut, hasToolCall, hasRefusal) = Honest /\ Honest # Null
  BY <1>6, ReasonTold
<1>8. Status = "completed" => cut = Null
  BY DEF Status
<1>. DEFINE stopped == StopBlocks(blocks, openBlocks)
<1>9. /\ phase' = "stopped" /\ wire' = blocks' /\ ending'.stop_reason = Honest
      /\ blocks' = IF echoes THEN WholeBlock(stopped, "carrier", terminal.output) ELSE stopped
  BY <1>3, <1>5, <1>6, <1>7, <1>8 DEF Finish
<1>10. /\ UNCHANGED <<answer, echoes, cut>> /\ Entries' = Entries
  BY DEF gateway, script, Entries
<1>11. /\ Len(blocks) = Len(answer) /\ Len(answer) \in Nat /\ Entries = 1..Len(answer)
       /\ blocks \in Seq(Block) /\ stopped \in Seq(Block) /\ Len(stopped) = Len(blocks)
  <2>1. Len(blocks) = Len(answer) /\ Len(answer) \in Nat /\ Entries = 1..Len(answer)
    BY <1>1, AllTold, ScriptEntries DEF Entries
  <2>2. blocks \in Seq(Block)
    BY <1>2 DEF TypeOK
  <2>3. stopped \in Seq(Block)
    BY <2>2, StopBlocksType
  <2>4. Len(stopped) = Len(blocks)
    BY <2>2 DEF StopBlocks
  <2>. QED
    BY <2>1, <2>2, <2>3, <2>4
<1>12. ASSUME NEW i \in Entries
       PROVE  stopped[i] = Shape(KindOf(i), LabelOf(i), Says(i), 1)
  <2>1. i \in 1..Len(blocks) /\ blocks[i] = Shape(KindOf(i), LabelOf(i), Says(i), Stops(i))
    BY <1>1, <1>11, AllTold
  <2>2. blocks[i].stops = IF i - 1 \in openBlocks THEN 0 ELSE 1
    BY <1>2, <2>1 DEF Mirror, Counts
  <2>3. Stops(i) = IF i - 1 \in openBlocks THEN 0 ELSE 1
    BY <2>1, <2>2 DEF Shape
  <2>4. stopped[i] = [blocks[i] EXCEPT !.stops = IF i - 1 \in openBlocks THEN @ + 1 ELSE @]
    BY <2>1 DEF StopBlocks
  <2>. QED
    BY <2>1, <2>3, <2>4 DEF Shape
<1>13. \A i \in Entries : (KindOf(i))' = KindOf(i) /\ (LabelOf(i))' = LabelOf(i) /\ (Says(i))' = Says(i)
  BY <1>10 DEF KindOf, LabelOf, Says
<1>. HIDE DEF stopped
<1>14. CASE echoes
  <2>1. PICK c : c = Shape("carrier", answer, <<>>, 1)
    OBVIOUS
  <2>2. blocks' = Append(stopped, c)
    BY <1>3, <1>9, <1>14, <2>1 DEF WholeBlock, Shape
  <2>3. c \in Block
    <3>1. answer \in Label /\ "carrier" \in Kind /\ <<>> \in String /\ 1 \in Nat
      BY DEF Script, Label, Kind, String
    <3>. QED
      BY <2>1, <3>1 DEF Shape, Block
  <2>4. /\ Len(blocks') = Len(answer) + 1 /\ blocks'[Len(answer) + 1] = c
        /\ \A i \in 1..Len(answer) : blocks'[i] = stopped[i]
    BY <1>11, <2>2, <2>3
  <2>. QED
    BY <1>9, <1>10, <1>11, <1>12, <1>13, <1>14, <2>1, <2>4
    DEF Final, StopReasonHonest, Honest, Calls, Refusals
<1>15. CASE ~echoes
  BY <1>9, <1>10, <1>11, <1>12, <1>13, <1>15 DEF Final, StopReasonHonest, Honest, Calls, Refusals
<1>. QED
  BY <1>9, <1>14, <1>15

-----------------------------------------------------------------------------
(* The invariant.                                                          *)

\* The inductive invariant.
TurnInv == Inv /\ Script /\ (Turning \/ (phase = "stopped" /\ Final))

\* A message that is final stays so.
LEMMA FinalStays ==
    ASSUME Final, UNCHANGED script, wire' = wire, ending' = ending, phase = "stopped", phase' = "stopped"
    PROVE  Final'
BY DEF Final, script, Entries, KindOf, LabelOf, Says, StopReasonHonest, Calls, Refusals

\* When the turn begins, nothing was sent and nothing is known.
LEMMA TurnBegins ==
    ASSUME \A g \in Gateways : Conforming(g), TurnInit
    PROVE  TurnInv
<1>1. Inv
  BY InitInv DEF TurnInit
<1>2. PICK g \in Gateways : answer = g.answer /\ omitted = g.omitted /\ echoes = g.echoes /\ cut = g.cut
  BY DEF TurnInit
<1>3. g \in Gateway /\ Conforming(g)
  BY <1>2, TurnAssumption
<1>4. g = [answer |-> answer, omitted |-> omitted, echoes |-> echoes, cut |-> cut]
  BY <1>2, <1>3 DEF Gateway
<1>5. Script
  BY <1>2, <1>3, <1>4 DEF Script, Gateway
<1>6. /\ phase = "reading" /\ work = <<>> /\ terminal = Null /\ cursor = 1 /\ sent = 0 /\ stage = 0
      /\ blocks = <<>> /\ hasToolCall = FALSE /\ hasRefusal = FALSE
      /\ textIndex = [k \in Keys |-> Absent] /\ toolIndex = [o \in Slot |-> Absent]
  BY DEF TurnInit, Init, Keys
<1>7. Len(answer) \in Nat /\ Entries = 1..Len(answer)
  BY <1>5, ScriptEntries DEF Entries
<1>8. Place
  <2>1. ASSUME Sending PROVE AtEntry
    <3>1. PICK e \in Entries : e = cursor
      BY <1>6, <1>7, <2>1 DEF Sending
    <3>2. 0 <= Due(e)
      BY <1>5, DueFacts
    <3>. QED
      BY <1>6, <3>1, <3>2 DEF AtEntry
  <2>. QED
    BY <1>6, <1>7, <2>1 DEF Place
<1>9. \A i \in Entries : ~Begun(i) /\ ~Refused(i)
  BY <1>6, <1>7 DEF Begun, Refused, Completed, HeardLength
<1>10. Following
  <2>1. AllInStep
    <3>1. ASSUME NEW i \in Entries PROVE InStep(i)
      <4>1. ~Begun(i) /\ ~(i <= Len(blocks)) /\ KeyOf(i) \in Keys /\ answer[i].slot \in Slot
        BY <1>5, <1>6, <1>7, <1>9, EntryFacts
      <4>. QED
        BY <1>6, <4>1 DEF InStep
    <3>. QED
      BY <1>6, <1>7, <3>1 DEF AllInStep
  <2>. QED
    BY <1>6, <1>9, <2>1 DEF Following, CallsSeen, RefusalsSeen
<1>11. Turning
  BY <1>6, <1>8, <1>10 DEF Turning, Reading
<1>. QED
  BY <1>1, <1>5, <1>11 DEF TurnInv

\* What the gateway sends is an event that is well-formed.
LEMMA SendIsAny ==
    ASSUME Script, Place, Send
    PROVE  AnyEvent \/ UNCHANGED vars
<1>1. CASE SendCreated
  BY <1>1 DEF SendCreated, AnyEvent
<1>2. ASSUME Sending PROVE /\ cursor \in Entries /\ Current = answer[cursor]
                           /\ Current.slot \in Slot /\ Current.name \in Name \cup {NoName}
                           /\ Key \in Keys /\ Says(cursor) \in String /\ Current.body \in Body
  <2>1. PICK e \in Entries : e = cursor
    BY <1>2, ScriptEntries DEF Place, Sending, Entries
  <2>2. answer[e] \in Entry
    BY ScriptEntries
  <2>. QED
    BY <2>1, <2>2, EntryFacts DEF Current, Key, KeyOf, Entry
<1>3. CASE SendAdded
  BY <1>2, <1>3 DEF SendAdded, AnyEvent
<1>4. CASE SendDelta
  <2>1. /\ Sending /\ Current.kind # "reasoning" /\ sent < DeltasDue /\ HasOpened
        /\ IF Current.kind = "call"
           THEN ArgumentsDelta(Current.slot, <<Pieces[sent + 1]>>)
           ELSE TextDelta(Key, Current.kind, <<Pieces[sent + 1]>>)
    BY <1>4 DEF SendDelta
  <2>2. PICK e \in Entries : e = cursor
    BY <1>2, <2>1
  <2>3. Pieces = Says(e) /\ DeltasDue = Due(e) /\ Due(e) \in 0..Len(Says(e)) /\ Len(Says(e)) \in Nat
        /\ Says(e) \in Seq(Fragment) /\ sent \in Nat
    BY <2>1, <2>2, PiecesAre, DueFacts DEF String, Place
  <2>4. sent + 1 \in 1..Len(Says(e))
    BY <2>1, <2>3
  <2>5. PICK piece : piece = <<Pieces[sent + 1]>>
    OBVIOUS
  <2>6. piece \in String
    BY <2>3, <2>4, <2>5 DEF String
  <2>7. Current.kind # "call" => Current.kind \in {"text", "refusal"}
    BY <1>2, <2>1, EntryFacts
  <2>. QED
    BY <1>2, <2>1, <2>5, <2>6, <2>7 DEF AnyEvent
<1>5. CASE SendBodyDone
  <2>1. /\ Sending /\ Current.kind # "reasoning"
        /\ IF Current.kind = "call"
           THEN ArgumentsDone(Current.slot, Current.body)
           ELSE TextDone(Key, Current.kind, Current.body)
    BY <1>5 DEF SendBodyDone
  <2>2. Current.kind # "call" => Current.kind \in {"text", "refusal", "part"}
    BY <1>2, <2>1, EntryFacts
  <2>. QED
    BY <1>2, <2>1, <2>2 DEF AnyEvent
<1>6. CASE SendPartDone
  <2>1. Sending /\ TextDone(Key, "part", Current.body)
    BY <1>6 DEF SendPartDone
  <2>2. "part" \in {"text", "refusal", "part"}
    OBVIOUS
  <2>. QED
    BY <1>2, <2>1, <2>2 DEF AnyEvent
<1>7. CASE SendItemDone
  <2>1. CurrentItem \in Output
    BY SelectedType DEF CurrentItem, Script, Output
  <2>. QED
    BY <1>7, <2>1 DEF SendItemDone, AnyEvent
<1>8. CASE MoveOn
  BY <1>8 DEF MoveOn
<1>9. CASE SendTerminal
  <2>1. Terminate(Event)
    BY <1>9 DEF SendTerminal, Event
  <2>. QED
    BY <2>1, EventTyped DEF AnyEvent
<1>. QED
  BY <1>1, <1>3, <1>4, <1>5, <1>6, <1>7, <1>8, <1>9 DEF Send

\* Every step of the gateway needs a translator that reads.
LEMMA SendReads == Send => phase = "reading"
BY DEF Send, SendCreated, SendAdded, SendDelta, SendBodyDone, SendPartDone, SendItemDone, MoveOn,
       SendTerminal, Created, ItemAdded, ArgumentsDelta, TextDelta, ArgumentsDone, TextDone,
       ItemDone, Terminate, Receive

\* The answer is what it is.
LEMMA SendKeepsScript == Send => UNCHANGED script
BY DEF Send, SendCreated, SendAdded, SendDelta, SendBodyDone, SendPartDone, SendItemDone, MoveOn,
       SendTerminal, NextEntry, gateway

\* The invariant of the translator is about its variables.
LEMMA InvStutters ==
    ASSUME Inv, UNCHANGED vars
    PROVE  Inv'
<1>1. TypeOK' /\ WireMirrored'
  BY DEF vars, state, indexVars, contentVars, flagVars, handlerVars, Inv, TypeOK, WireMirrored
<1>2. Mirror'
  BY DEF vars, state, indexVars, contentVars, flagVars, handlerVars, Inv, Mirror, Counts, TextView,
         ToolView, View
<1>. QED
  BY <1>1, <1>2 DEF vars, state, Inv

\* Every step of a turn keeps the invariant.
LEMMA TurnKeeps == TurnInv /\ [TurnNext]_turnVars => TurnInv'
<1>. SUFFICES ASSUME TurnInv, [TurnNext]_turnVars PROVE TurnInv'
  OBVIOUS
<1>0. Inv /\ Script
  BY DEF TurnInv
<1>1. CASE Send
  <2>1. phase = "reading" /\ UNCHANGED script
    BY <1>1, SendReads, SendKeepsScript
  <2>2. Turning /\ Place
    BY <2>1 DEF TurnInv, Turning
  <2>3. Inv'
    BY <1>0, <1>1, <2>2, SendIsAny, EventInv, InvStutters
  <2>4. Script'
    BY <1>0, <2>1 DEF Script, script
  <2>5. Turning'
    BY <1>0, <1>1, <2>2, SendCreatedKeeps, SendAddedKeeps, SendDeltaKeeps, SendBodyDoneKeeps,
       SendPartDoneKeeps, SendItemDoneKeeps, MoveOnKeeps, SendTerminalKeeps DEF Send
  <2>. QED
    BY <2>3, <2>4, <2>5 DEF TurnInv
<1>2. CASE Proceed /\ UNCHANGED gateway
  <2>1. Inv'
    BY <1>0, <1>2, ProceedInv
  <2>2. UNCHANGED script
    BY <1>2 DEF gateway
  <2>3. Script'
    BY <1>0, <2>2 DEF Script, script
  <2>4. CASE CloseUpstream
    <3>1. phase = "stopped" /\ phase' = "stopped" /\ wire' = wire /\ ending' = ending
      BY <2>4 DEF CloseUpstream, TurnInv, Turning, Reading, handlerVars
    <3>2. Final'
      BY <2>2, <3>1, FinalStays DEF TurnInv, Turning, Reading
    <3>. QED
      BY <2>1, <2>3, <3>1, <3>2 DEF TurnInv
  <2>5. CASE ~CloseUpstream
    <3>1. phase = "reconciling"
      BY <1>2, <2>5 DEF Proceed, ReconcileText, ReconcileCall, ReconcileTerminalCall, ReconcileReasoning,
         SkipTerminalItem, RejectItem, Reconcile, YieldItem, Finish
    <3>2. Turning
      BY <3>1 DEF TurnInv
    <3>3. CASE Finish
      BY <1>0, <1>2, <2>1, <2>3, <3>2, <3>3, FinishEnds DEF TurnInv
    <3>4. CASE ~Finish
      <4>1. Turning'
        BY <1>0, <1>2, <2>5, <3>2, <3>4, ReconcileTextKeeps, ReconcileCallKeeps,
           ReconcileTerminalCallKeeps, ReconcileReasoningKeeps, SkipTerminalItemKeeps,
           RejectItemKeeps, YieldItemKeeps DEF Proceed
      <4>. QED
        BY <2>1, <2>3, <4>1 DEF TurnInv
    <3>. QED
      BY <3>3, <3>4
  <2>. QED
    BY <2>4, <2>5
<1>3. CASE UNCHANGED turnVars
  <2>1. /\ UNCHANGED vars
        /\ UNCHANGED <<answer, omitted, echoes, cut, cursor, sent, stage, phase, blocks, textIndex, toolIndex,
                    hasToolCall, hasRefusal, work, terminal, wire, ending, state>>
    BY <1>3 DEF turnVars, vars, gateway, script, state, indexVars, flagVars, handlerVars
  <2>2. Inv'
    BY <1>0, <2>1, InvStutters
  <2>3. Script'
    BY <1>0, <2>1 DEF Script
  <2>4. CASE Turning
    <3>1. Place /\ Following /\ TypeOK
      BY <1>0, <2>4 DEF Turning, Inv
    <3>2. Place'
      BY <2>1, <3>1 DEF Place, AtEntry, Sending, Current, Due, Says, IsText
    <3>3. ASSUME NEW i \in Entries PROVE SameEntry(i)
      <4>1. Completed(i)' <=> Completed(i)
        BY <2>1 DEF Completed, Sending, Current, Pending
      <4>. QED
        BY <2>1, <4>1, Unmoved DEF gateway, script
    <3>4. Following'
      BY <1>0, <2>1, <3>1, <3>3, StaysFollowing
    <3>5. (Reading \/ (phase = "reconciling" /\ Handling)) => (Reading \/ (phase = "reconciling" /\ Handling))'
      BY <2>1 DEF Reading, Handling, Pending, Sending, Current, Event, Status
    <3>6. Turning'
      BY <2>4, <3>2, <3>4, <3>5 DEF Turning
    <3>. QED
      BY <2>2, <2>3, <3>6 DEF TurnInv
  <2>5. CASE phase = "stopped" /\ Final
    <3>1. Final'
      BY <2>1, <2>5, FinalStays DEF script
    <3>. QED
      BY <2>1, <2>2, <2>3, <2>5, <3>1 DEF TurnInv
  <2>. QED
    BY <2>4, <2>5 DEF TurnInv
<1>. QED
  BY <1>1, <1>2, <1>3 DEF TurnNext

\* A turn with a conforming gateway keeps to the invariant.
LEMMA TurnInvariant ==
    ASSUME \A g \in Gateways : Conforming(g)
    PROVE  TurnSpec => []TurnInv
<1>1. TurnInit => TurnInv
  BY TurnBegins
<1>. QED
  BY <1>1, TurnKeeps, PTL DEF TurnSpec

\* Whatever redundant events a conforming gateway leaves out, and whatever it has to
\* say, the translator reports no error (translate_responses_stream).
THEOREM ConformingTurnsSucceed ==
    ASSUME \A g \in Gateways : Conforming(g)
    PROVE  TurnSpec => []ConformingNeverFails
<1>1. TurnInv => ConformingNeverFails
  BY DEF TurnInv, Turning, Reading, ConformingNeverFails
<1>. QED
  BY <1>1, TurnInvariant, PTL

\* The stop reason tells why the answer ended, whatever there was in it
\* (responses_stop_reason on the flags the stream left behind).
THEOREM StopReasonsTrue ==
    ASSUME \A g \in Gateways : Conforming(g)
    PROVE  TurnSpec => []StopReasonHonest
<1>1. TurnInv => StopReasonHonest
  BY DEF TurnInv, Turning, Reading, Final, StopReasonHonest
<1>. QED
  BY <1>1, TurnInvariant, PTL

-----------------------------------------------------------------------------
(* At most one block is open.                                              *)

\* What the client has when the handlers are done with an event.
LEMMA OpenIsLast ==
    ASSUME TurnInv, phase # "reconciling"
    PROVE  OneBlockOpen
<1>. SUFFICES ASSUME CompletesAsItGoes, NEW p \in DOMAIN wire, wire[p].stops = 0
              PROVE  p = Len(wire)
  BY DEF OneBlockOpen
<1>0. Inv /\ Script /\ Len(answer) \in Nat /\ Entries = 1..Len(answer)
  BY ScriptEntries DEF TurnInv, Entries
<1>1. wire \in Seq(Block) /\ Len(wire) \in Nat /\ p \in 1..Len(wire)
  BY <1>0 DEF Inv, TypeOK
<1>2. CASE phase = "stopped" /\ Final
  <2>1. CASE p \in Entries
    <3>1. wire[p] = Shape(KindOf(p), LabelOf(p), Says(p), 1)
      BY <1>2, <2>1 DEF Final
    <3>2. wire[p].stops = 1
      BY <3>1 DEF Shape
    <3>. QED
      BY <3>2
  <2>2. CASE p \notin Entries
    <3>1. echoes /\ p = Len(answer) + 1
      BY <1>0, <1>1, <1>2, <2>2 DEF Final, Script
    <3>. QED
      BY <1>2, <3>1 DEF Final, Shape
  <2>. QED
    BY <2>1, <2>2
<1>3. CASE Turning
  <2>1. Place /\ Reading /\ Following /\ wire = blocks
    BY <1>0, <1>3 DEF Turning, Reading, Inv, WireMirrored
  <2>2. p \in Entries /\ InStep(p) /\ Len(wire) \in Entries /\ InStep(Len(wire))
    <3>1. Len(wire) <= Len(answer) /\ \A i \in Entries : InStep(i)
      BY <2>1 DEF Following, AllInStep
    <3>. QED
      BY <1>0, <1>1, <3>1
  <2>3. Begun(p) /\ Begun(Len(wire))
    BY <1>1, <2>1, <2>2 DEF InStep
  <2>4. ~IsClosed(p)
    <3>1. wire[p] = Shape(KindOf(p), LabelOf(p), Heard(p), Stops(p))
      BY <2>1, <2>2, <2>3 DEF InStep, BlockOf
    <3>2. wire[p].stops = Stops(p)
      BY <3>1 DEF Shape
    <3>. QED
      BY <3>2 DEF Stops
  <2>5. ASSUME p < Len(wire) PROVE FALSE
    <3>1. cursor \in Nat /\ Len(wire) <= cursor /\ p < cursor
      BY <1>0, <1>1, <2>1, <2>3, <2>5 DEF Begun, Completed, Place
    <3>2. Pending = cursor /\ terminal = Null
      BY <2>1, <3>1 DEF Reading, Pending
    <3>3. Sending /\ answer[p].slot = Current.slot
      BY <2>4, <3>1, <3>2 DEF IsClosed, Completed, CompletesAsItGoes
    <3>4. cursor \in Entries /\ Current = answer[cursor]
      BY <1>0, <3>1, <3>3, <2>1 DEF Sending, Current, Place
    <3>5. IsText(answer[p])
      BY <1>0, <2>2, <3>1, <3>3, <3>4, SameItem
    <3>6. IsOver(p)
      BY <3>1, <3>5 DEF IsOver, Finishes, IsText, BothOmitted, CompletesAsItGoes
    <3>. QED
      BY <2>4, <3>5, <3>6 DEF IsClosed
  <2>. QED
    BY <1>1, <2>5
<1>. QED
  BY <1>2, <1>3 DEF TurnInv

\* No handler is at work: what was produced was sent.
Handled == phase # "reconciling"

\* A block of the answer is started when the one before it was stopped, if the
\* gateway completes its parts and items as it goes: what the client is sent never
\* has an open block that is not the last one (the handlers of translate_responses_stream).
THEOREM BlocksOneByOne ==
    ASSUME \A g \in Gateways : Conforming(g)
    PROVE  TurnSpec => []OneBlockOpen
<1>1. TurnInv /\ Handled => OneBlockOpen
  BY OpenIsLast DEF Handled
<1>2. TurnInit => Handled
  BY DEF TurnInit, Init, Handled
<1>3. TurnInv /\ TurnInv' /\ OneBlockOpen /\ [TurnNext]_turnVars /\ ~Handled' => OneBlockOpen'
  <2>. SUFFICES ASSUME TurnInv, TurnInv', [TurnNext]_turnVars, phase' = "reconciling"
                PROVE  UNCHANGED <<wire, omitted>>
    BY DEF OneBlockOpen, CompletesAsItGoes, Handled
  <2>1. CASE Send
    <3>1. UNCHANGED omitted
      BY <2>1, SendKeepsScript DEF script
    <3>2. wire' = wire
      BY <2>1 DEF Send, SendCreated, SendAdded, SendDelta, SendBodyDone, SendPartDone, SendItemDone, MoveOn,
         SendTerminal, Created, ItemAdded, ArgumentsDelta, TextDelta, ArgumentsDone, TextDone,
         ItemDone, Terminate, Yield, Fail, vars
    <3>. QED
      BY <3>1, <3>2
  <2>2. CASE Proceed /\ UNCHANGED gateway
    <3>1. UNCHANGED omitted
      BY <2>2 DEF gateway, script
    <3>2. wire' = wire
      BY <2>2 DEF Proceed, ReconcileText, ReconcileCall, ReconcileTerminalCall, ReconcileReasoning,
         SkipTerminalItem, RejectItem, YieldItem, Finish, CloseUpstream, Continue, Yield, Fail
    <3>. QED
      BY <3>1, <3>2
  <2>3. CASE UNCHANGED turnVars
    BY <2>3 DEF turnVars, vars, gateway, script
  <2>. QED
    BY <2>1, <2>2, <2>3 DEF TurnNext
<1>4. TurnSpec => []TurnInv
  BY TurnInvariant
<1>5. TurnSpec => TurnInit /\ [][TurnNext]_turnVars
  BY PTL DEF TurnSpec
<1>. QED
  BY <1>1, <1>2, <1>3, <1>4, <1>5, PTL

-----------------------------------------------------------------------------
(* The message of a whole turn: a block for every entry, and the carrier.  *)

\* The blocks of the answer, and that of its carrier.
Told == [i \in Entries |-> Shape(KindOf(i), LabelOf(i), Says(i), 1)]
Carried == <<Shape("carrier", answer, <<>>, 1)>>

\* A message with the blocks of the answer and, at either end, perhaps a carrier.
Tells(ms, carriers) ==
    \/ carriers = <<>> /\ ms = Told
    \/ carriers = Carried /\ (Splits(ms, Told, Carried) \/ Splits(ms, Carried, Told))

\* They are blocks, and which are.
LEMMA ToldType ==
    ASSUME Script
    PROVE  /\ Told \in Seq(Block) /\ Len(Told) = Len(answer) /\ Len(answer) \in Nat
           /\ \A i \in 1..Len(answer) : Told[i] = Shape(KindOf(i), LabelOf(i), Says(i), 1)
           /\ \A i \in 1..Len(answer) : Told[i].kind # "carrier" /\ Told[i].stops = 1
           /\ Carried \in Seq(Block) /\ Len(Carried) = 1
           /\ Carried[1] = Shape("carrier", answer, <<>>, 1)
           /\ Carried[1].kind = "carrier" /\ Carried[1].stops = 1 /\ Carried[1].label = answer
<1>1. Len(answer) \in Nat /\ Entries = 1..Len(answer)
  BY ScriptEntries DEF Entries
<1>2. ASSUME NEW i \in Entries
      PROVE  /\ Shape(KindOf(i), LabelOf(i), Says(i), 1) \in Block /\ KindOf(i) # "carrier"
  <2>1. KindOf(i) \in Kind /\ LabelOf(i) \in Label /\ Says(i) \in String /\ 1 \in Nat /\ KindOf(i) # "carrier"
    BY ShownAs, EntryFacts
  <2>. QED
    BY <2>1, ShapeType
<1>3. Told \in Seq(Block) /\ Len(Told) = Len(answer)
  BY <1>1, <1>2 DEF Told
<1>4. \A i \in 1..Len(answer) : Told[i] = Shape(KindOf(i), LabelOf(i), Says(i), 1)
  BY <1>1 DEF Told
<1>5. ASSUME NEW i \in 1..Len(answer) PROVE Told[i].kind # "carrier" /\ Told[i].stops = 1
  <2>1. Told[i] = Shape(KindOf(i), LabelOf(i), Says(i), 1) /\ KindOf(i) # "carrier"
    BY <1>1, <1>2, <1>4
  <2>. QED
    BY <2>1 DEF Shape
<1>6. PICK c : c = Shape("carrier", answer, <<>>, 1)
  OBVIOUS
<1>7. c \in Block /\ c.kind = "carrier" /\ c.stops = 1 /\ c.label = answer
  BY <1>6 DEF Shape, Block, Kind, Label, String, Script
<1>8. Carried = <<c>>
  BY <1>6 DEF Carried
<1>. QED
  BY <1>1, <1>3, <1>4, <1>5, <1>6, <1>7, <1>8

\* Which blocks of it are shown, and which are carriers.
LEMMA TellsParts ==
    ASSUME Script, NEW ms, NEW carriers, Tells(ms, carriers)
    PROVE  /\ ms \in Seq(Block) /\ Shown(ms) = Told /\ Carriers(ms) = carriers
           /\ \A p \in DOMAIN ms : ms[p].stops = 1
<1>1. PICK told \in Seq(Block) :
         /\ told = Told /\ Len(told) \in Nat
         /\ \A i \in 1..Len(told) : told[i].kind # "carrier" /\ told[i].stops = 1
  BY ToldType
<1>2. PICK carried \in Seq(Block) :
         /\ carried = Carried /\ Len(carried) = 1
         /\ \A i \in 1..Len(carried) : carried[i].kind = "carrier" /\ carried[i].stops = 1
  <2>1. Carried \in Seq(Block) /\ Len(Carried) = 1 /\ Carried[1].kind = "carrier" /\ Carried[1].stops = 1
    BY ToldType
  <2>2. \A i \in 1..Len(Carried) : i = 1
    BY <2>1
  <2>. QED
    BY <2>1, <2>2
<1>3. PICK X : X = {b \in Range(ms) : b.kind # "carrier"}
  OBVIOUS
<1>4. PICK C : C = {b \in Range(ms) : b.kind = "carrier"}
  OBVIOUS
<1>5. Shown(ms) = Selected(ms, X) /\ Carriers(ms) = Selected(ms, C)
  BY <1>3, <1>4 DEF Shown, Carriers
<1>6. ASSUME ms \in Seq(Block), NEW j \in 1..Len(ms)
      PROVE  /\ ms[j] \in X <=> ms[j].kind # "carrier"
             /\ ms[j] \in C <=> ms[j].kind = "carrier"
  BY <1>3, <1>4, <1>6 DEF Range
<1>7. CASE carriers = <<>> /\ ms = Told
  <2>1. ms \in Seq(Block) /\ \A j \in 1..Len(ms) : ms[j].kind # "carrier" /\ ms[j].stops = 1
    BY <1>1, <1>7
  <2>2. Selected(ms, X) = ms
    BY <1>6, <2>1, SelectedAll
  <2>3. Selected(ms, C) = <<>>
    BY <1>6, <2>1, SelectedNone
  <2>. QED
    BY <1>5, <1>7, <2>1, <2>2, <2>3
<1>8. ASSUME NEW a \in Seq(Block), NEW b \in Seq(Block), Splits(ms, a, b),
             (a = told /\ b = carried) \/ (a = carried /\ b = told)
      PROVE  /\ ms \in Seq(Block) /\ Selected(ms, X) = told /\ Selected(ms, C) = carried
             /\ \A p \in DOMAIN ms : ms[p].stops = 1
  <2>0. Splits(ms, a, b) /\ Len(a) \in Nat /\ Len(b) \in Nat
    BY <1>8
  <2>1. /\ ms \in Seq(Block) /\ Len(ms) = Len(a) + Len(b) /\ Len(a) \in Nat /\ Len(b) \in Nat
        /\ \A i \in 1..Len(a) : ms[i] = a[i]
        /\ \A i \in 1..Len(b) : ms[Len(a) + i] = b[i]
        /\ \A i \in 1..Len(ms) : i <= Len(a) \/ i - Len(a) \in 1..Len(b)
    BY <2>0, ElementsOfSplit
  <2>2. /\ \A i \in 1..Len(a) : i \in 1..Len(ms)
        /\ \A i \in 1..Len(b) : Len(a) + i \in 1..Len(ms)
    BY <2>1
  <2>3. /\ \A i \in 1..Len(a) : (a[i] \in X <=> a[i].kind # "carrier") /\ (a[i] \in C <=> a[i].kind = "carrier")
        /\ \A i \in 1..Len(b) : (b[i] \in X <=> b[i].kind # "carrier") /\ (b[i] \in C <=> b[i].kind = "carrier")
    <3>1. \A j \in 1..Len(ms) : (ms[j] \in X <=> ms[j].kind # "carrier") /\ (ms[j] \in C <=> ms[j].kind = "carrier")
      BY <1>6, <2>1
    <3>. QED
      BY <2>1, <2>2, <3>1
  <2>4. /\ \A i \in 1..Len(told) : told[i] \in X /\ told[i] \notin C
        /\ \A i \in 1..Len(carried) : carried[i] \notin X /\ carried[i] \in C
    <3>1. /\ \A i \in 1..Len(told) : (told[i] \in X <=> told[i].kind # "carrier") /\ (told[i] \in C <=> told[i].kind = "carrier")
          /\ \A i \in 1..Len(carried) : (carried[i] \in X <=> carried[i].kind # "carrier") /\ (carried[i] \in C <=> carried[i].kind = "carrier")
      BY <1>8, <2>3
    <3>2. \A i \in 1..Len(told) : told[i] \in X /\ told[i] \notin C
      BY <1>1, <3>1
    <3>3. \A i \in 1..Len(carried) : carried[i] \notin X /\ carried[i] \in C
      BY <1>2, <3>1
    <3>. QED
      BY <3>2, <3>3
  <2>5. /\ Selected(told, X) = told /\ Selected(carried, X) = <<>>
        /\ Selected(told, C) = <<>> /\ Selected(carried, C) = carried
    BY <2>4, SelectedAll, SelectedNone
  <2>6. /\ Splits(Selected(ms, X), Selected(a, X), Selected(b, X))
        /\ Splits(Selected(ms, C), Selected(a, C), Selected(b, C))
    BY <1>8, <2>1, SelectedSplit
  <2>7. Selected(ms, X) = told /\ Selected(ms, C) = carried
    BY <1>8, <2>5, <2>6 DEF Splits
  <2>8. ASSUME NEW p \in 1..Len(ms) PROVE ms[p].stops = 1
    <3>1. CASE p <= Len(a)
      <4>1. p \in 1..Len(a) /\ ms[p] = a[p]
        BY <2>1, <3>1
      <4>. QED
        BY <1>1, <1>2, <1>8, <4>1
    <3>2. CASE ~(p <= Len(a))
      <4>1. PICK i : i = p - Len(a)
        OBVIOUS
      <4>2. i \in 1..Len(b) /\ Len(a) + i = p
        BY <2>1, <3>2, <4>1
      <4>3. ms[p] = b[i]
        BY <2>1, <4>2
      <4>. QED
        BY <1>1, <1>2, <1>8, <4>2, <4>3
    <3>. QED
      BY <3>1, <3>2
  <2>. QED
    BY <2>1, <2>7, <2>8
<1>9. CASE carriers = Carried /\ (Splits(ms, Told, Carried) \/ Splits(ms, Carried, Told))
  BY <1>1, <1>2, <1>5, <1>8, <1>9
<1>. QED
  BY <1>7, <1>9 DEF Tells

\* Such a message can be sent back, if reasoning is there only with a carrier.
LEMMA TellsReplays ==
    ASSUME Script, NEW ms, NEW carriers, Tells(ms, carriers),
           carriers = <<>> => \A i \in Entries : answer[i].kind # "reasoning"
    PROVE  ReplayAccepts(ms)
<1>1. Shown(ms) = Told /\ Carriers(ms) = carriers
  BY TellsParts
<1>2. /\ DOMAIN Told = 1..Len(answer) /\ Entries = 1..Len(answer) /\ Len(answer) \in Nat
      /\ DOMAIN answer = Entries
      /\ \A i \in Entries : Told[i] = Shape(KindOf(i), LabelOf(i), Says(i), 1)
  BY ToldType, ScriptEntries DEF Entries
<1>3. CASE carriers = <<>>
  <2>1. ASSUME NEW i \in DOMAIN Told PROVE Told[i].kind # "reasoning"
    <3>1. Told[i].kind = KindOf(i) /\ i \in Entries
      BY <1>2, <2>1 DEF Shape
    <3>2. answer[i].kind \in {"text", "refusal", "call"}
      BY <1>3, <3>1, EntryFacts
    <3>. QED
      BY <3>1, <3>2, ShownAs DEF IsText
  <2>. QED
    BY <1>1, <1>3, <2>1 DEF ReplayAccepts
<1>4. CASE carriers # <<>>
  <2>1. carriers = Carried
    BY <1>4 DEF Tells
  <2>2. carriers # <<>> /\ Len(carriers) = 1 /\ carriers[1].label = answer
    BY <1>4, <2>1, ToldType
  <2>3. \A i \in DOMAIN answer : answer[i].kind # "other"
    BY <1>2, ScriptEntries
  <2>4. ASSUME NEW i \in Entries PROVE VisibleBlock(Told[i]) = VisibleEntry(answer[i])
    <3>1. VisibleEntry(answer[i]) = Visible(KindOf(i), LabelOf(i), Says(i))
      BY ShownAs
    <3>2. VisibleBlock(Told[i]) = Visible(KindOf(i), LabelOf(i), Says(i))
      BY <1>2 DEF VisibleBlock, Shape
    <3>. QED
      BY <3>1, <3>2
  <2>5. [i \in DOMAIN Told |-> VisibleBlock(Told[i])] = VisibleBlocks(answer)
    BY <1>2, <2>4 DEF VisibleBlocks
  <2>. QED
    BY <1>1, <2>2, <2>3, <2>5 DEF ReplayAccepts
<1>. QED
  BY <1>3, <1>4

\* What the client has at the end of the stream is such a message.
LEMMA StreamTells ==
    ASSUME Inv, Script, Final
    PROVE  Tells(wire, IF echoes THEN Carried ELSE <<>>)
<1>1. wire \in Seq(Block) /\ echoes \in BOOLEAN
  BY DEF Inv, TypeOK, Script
<1>2. /\ Told \in Seq(Block) /\ Len(Told) = Len(answer) /\ Len(answer) \in Nat
      /\ Carried \in Seq(Block) /\ Len(Carried) = 1 /\ Entries = 1..Len(answer)
      /\ Carried[1] = Shape("carrier", answer, <<>>, 1)
      /\ \A i \in 1..Len(answer) : Told[i] = Shape(KindOf(i), LabelOf(i), Says(i), 1)
  BY ToldType DEF Entries
<1>3. /\ Len(wire) = IF echoes THEN Len(answer) + 1 ELSE Len(answer)
      /\ \A i \in 1..Len(answer) : wire[i] = Told[i]
      /\ echoes => wire[Len(answer) + 1] = Carried[1]
  BY <1>2 DEF Final
<1>4. CASE echoes
  <2>1. Len(wire) = Len(Told) + Len(Carried)
    BY <1>2, <1>3, <1>4
  <2>2. \A i \in 1..Len(Carried) : wire[Len(Told) + i] = Carried[i]
    <3>1. \A i \in 1..Len(Carried) : i = 1
      BY <1>2
    <3>. QED
      BY <1>2, <1>3, <1>4, <3>1
  <2>3. Splits(wire, Told, Carried)
    BY <1>1, <1>2, <1>3, <2>1, <2>2, ConcatElements
  <2>. QED
    BY <1>4, <2>3 DEF Tells
<1>5. CASE ~echoes
  <2>1. wire = Told
    BY <1>1, <1>2, <1>3, <1>5
  <2>. QED
    BY <1>5, <2>1 DEF Tells
<1>. QED
  BY <1>4, <1>5

\* The client can send the turn back (claude_to_openai_responses accepts what
\* translate_responses_stream made of the answer).
THEOREM TurnsReplay ==
    ASSUME \A g \in Gateways : Conforming(g)
    PROVE  TurnSpec => []ReplayAccepted
<1>1. TurnInv => ReplayAccepted
  <2>. SUFFICES ASSUME TurnInv, phase = "stopped" PROVE ReplayAccepts(wire)
    BY DEF ReplayAccepted
  <2>1. Inv /\ Script /\ Final
    BY DEF TurnInv, Turning, Reading
  <2>2. PICK carriers : carriers = IF echoes THEN Carried ELSE <<>>
    OBVIOUS
  <2>3. Tells(wire, carriers)
    BY <2>1, <2>2, StreamTells
  <2>4. carriers = <<>> => ~echoes
    BY <2>2 DEF Carried
  <2>5. carriers = <<>> => \A i \in Entries : answer[i].kind # "reasoning"
    BY <2>1, <2>4, Promises
  <2>. QED
    BY <2>1, <2>3, <2>5, TellsReplays
<1>. QED
  BY <1>1, TurnInvariant, PTL

-----------------------------------------------------------------------------
(* The same answer as one body, written out as a stream.                   *)

\* A block is written whole.
LEMMA WriteBlockIs ==
    ASSUME NEW ms \in Seq(Block), NEW kind \in Kind, NEW label \in Label, NEW content \in String,
           kind \in {"reasoning", "carrier"} => content = <<>>
    PROVE  WriteBlock(ms, Visible(kind, label, content)) = Append(ms, Shape(kind, label, content, 1))
<1>0. PICK block : block = Visible(kind, label, content)
  OBVIOUS
<1>1. block.kind = kind /\ block.label = label /\ block.content = content
  BY <1>0 DEF Visible
<1>2. CASE kind \in {"reasoning", "carrier"}
  BY <1>0, <1>1, <1>2 DEF WriteBlock, WholeBlock, Shape
<1>3. CASE kind \notin {"reasoning", "carrier"}
  <2>1. PICK n \in Nat : n = Len(ms)
    OBVIOUS
  <2>2. PICK os : os = StartBlock(ms, kind, label)
    OBVIOUS
  <2>3. PICK bs : bs = AppendDelta(os, n, content)
    OBVIOUS
  <2>4. PICK cs : cs = StopBlock(bs, n)
    OBVIOUS
  <2>5. WriteBlock(ms, block) = cs
    BY <1>1, <1>3, <2>1, <2>2, <2>3, <2>4 DEF WriteBlock
  <2>6. Shape(kind, label, <<>>, 0) \in Block /\ Shape(kind, label, content, 0) \in Block
        /\ Shape(kind, label, content, 1) \in Block
    <3>1. 0 \in Nat /\ 1 \in Nat /\ <<>> \in String
      BY DEF String
    <3>. QED
      BY <3>1, ShapeType
  <2>7. os = Append(ms, Shape(kind, label, <<>>, 0))
    BY <2>2 DEF StartBlock, Shape
  <2>8. /\ os \in Seq(Block) /\ Len(os) = n + 1 /\ os[n + 1] = Shape(kind, label, <<>>, 0)
        /\ \A p \in 1..n : os[p] = ms[p]
    BY <2>1, <2>6, <2>7
  <2>9. <<>> \o content = content
    BY DEF String
  <2>10. /\ bs = [os EXCEPT ![n + 1] = Shape(kind, label, content, 0)]
    <3>1. bs = [os EXCEPT ![n + 1].content = os[n + 1].content \o content]
      BY <2>3 DEF AppendDelta
    <3>2. os[n + 1].content \o content = content
      BY <2>8, <2>9 DEF Shape
    <3>3. bs = [os EXCEPT ![n + 1] = [os[n + 1] EXCEPT !.content = content]]
      BY <3>1, <3>2
    <3>4. [os[n + 1] EXCEPT !.content = content] = Shape(kind, label, content, 0)
      BY <2>8 DEF Shape
    <3>. QED
      BY <3>3, <3>4
  <2>11. /\ bs \in Seq(Block) /\ Len(bs) = n + 1 /\ bs[n + 1] = Shape(kind, label, content, 0)
         /\ \A p \in 1..n : bs[p] = ms[p]
    <3>1. PICK s : s = Shape(kind, label, content, 0)
      OBVIOUS
    <3>2. s \in Block /\ bs = [os EXCEPT ![n + 1] = s]
      BY <2>6, <2>10, <3>1
    <3>3. os \in Seq(Block) /\ Len(os) = n + 1 /\ n + 1 \in 1..Len(os)
      BY <2>1, <2>8
    <3>4. bs \in Seq(Block) /\ Len(bs) = n + 1 /\ bs[n + 1] = s
      BY <3>2, <3>3
    <3>5. ASSUME NEW p \in 1..n PROVE bs[p] = ms[p]
      <4>1. p \in DOMAIN os /\ p # n + 1
        BY <2>1, <3>3
      <4>. QED
        BY <2>8, <3>2, <4>1
    <3>. QED
      BY <3>1, <3>4, <3>5
  <2>12. cs = [bs EXCEPT ![n + 1] = Shape(kind, label, content, 1)]
    <3>1. cs = [bs EXCEPT ![n + 1] = [bs[n + 1] EXCEPT !.stops = bs[n + 1].stops + 1]]
      BY <2>4 DEF StopBlock
    <3>2. [bs[n + 1] EXCEPT !.stops = bs[n + 1].stops + 1] = Shape(kind, label, content, 1)
      BY <2>11 DEF Shape
    <3>. QED
      BY <3>1, <3>2
  <2>13. /\ cs \in Seq(Block) /\ Len(cs) = n + 1 /\ cs[n + 1] = Shape(kind, label, content, 1)
         /\ \A p \in 1..n : cs[p] = ms[p]
    BY <2>6, <2>11, <2>12
  <2>14. PICK s : s = Shape(kind, label, content, 1)
    OBVIOUS
  <2>15. PICK ds : ds = Append(ms, s)
    OBVIOUS
  <2>16. /\ ds \in Seq(Block) /\ Len(ds) = n + 1 /\ ds[n + 1] = s
         /\ \A p \in 1..n : ds[p] = ms[p]
    BY <2>1, <2>6, <2>14, <2>15
  <2>17. cs = ds
    <3>1. \A p \in 1..(n + 1) : cs[p] = ds[p]
      BY <2>13, <2>14, <2>16
    <3>. QED
      BY <2>13, <2>16, <3>1
  <2>. QED
    BY <1>0, <2>5, <2>14, <2>15, <2>17
<1>. QED
  BY <1>2, <1>3

\* The function WriteMessage computes, and that it is the only one.
Writes(f, cs) == f = [n \in 0..Len(cs) |-> IF n = 0 THEN <<>> ELSE WriteBlock(f[n - 1], cs[n])]

\* There is only one.
LEMMA WritesAgree ==
    ASSUME NEW cs, NEW N \in Nat, N = Len(cs), NEW f, NEW g, Writes(f, cs), Writes(g, cs)
    PROVE  f[N] = g[N]
<1>. DEFINE T == {n \in 0..N : f[n] = g[n]}
<1>1. \A n \in 0..N : f[n] = IF n = 0 THEN <<>> ELSE WriteBlock(f[n - 1], cs[n])
  <2>1. f = [n \in 0..N |-> IF n = 0 THEN <<>> ELSE WriteBlock(f[n - 1], cs[n])]
    BY DEF Writes
  <2>. QED
    BY <2>1
<1>2. \A n \in 0..N : g[n] = IF n = 0 THEN <<>> ELSE WriteBlock(g[n - 1], cs[n])
  <2>1. g = [n \in 0..N |-> IF n = 0 THEN <<>> ELSE WriteBlock(g[n - 1], cs[n])]
    BY DEF Writes
  <2>. QED
    BY <2>1
<1>3. 0 \in T
  BY <1>1, <1>2
<1>4. ASSUME NEW n \in 0..(N - 1), n \in T PROVE n + 1 \in T
  <2>1. n + 1 \in 0..N /\ n + 1 # 0 /\ (n + 1) - 1 = n /\ f[n] = g[n]
    BY <1>4
  <2>2. f[n + 1] = WriteBlock(f[n], cs[n + 1]) /\ g[n + 1] = WriteBlock(g[n], cs[n + 1])
    BY <1>1, <1>2, <2>1
  <2>. QED
    BY <2>1, <2>2
<1>5. \A n \in 0..N : n \in T
  <2>. HIDE DEF T
  <2>. QED
    BY <1>3, <1>4, Induction
<1>. QED
  BY <1>5

\* The content of the buffered message is the carrier and the answer.
IsContent(cs) ==
    /\ Len(cs) = Len(answer) + 1 /\ cs[1] = Visible("carrier", answer, <<>>)
    /\ \A i \in Entries : cs[i + 1] = Visible(KindOf(i), LabelOf(i), Says(i))

\* One block after the other, it is written as the carrier and what was told.
LEMMA WrittenTells ==
    ASSUME Script, NEW message, IsContent(message.content)
    PROVE  Splits(WriteMessage(message), Carried, Told)
<1>0. PICK cs : cs = message.content
  OBVIOUS
<1>1. PICK N \in Nat : N = Len(answer) + 1
  BY ScriptEntries
<1>2. /\ Len(cs) = N /\ cs[1] = Visible("carrier", answer, <<>>)
      /\ \A i \in Entries : cs[i + 1] = Visible(KindOf(i), LabelOf(i), Says(i))
      /\ Entries = 1..(N - 1) /\ Len(answer) \in Nat /\ N > 0
  BY <1>0, <1>1, ScriptEntries DEF IsContent, Entries
<1>3. PICK whole : whole = Carried \o Told
  OBVIOUS
<1>4. Splits(whole, Carried, Told)
  BY <1>3 DEF Splits
<1>5. /\ Told \in Seq(Block) /\ Len(Told) = N - 1 /\ Carried \in Seq(Block) /\ Len(Carried) = 1
      /\ Carried[1] = Shape("carrier", answer, <<>>, 1)
      /\ \A i \in Entries : Told[i] = Shape(KindOf(i), LabelOf(i), Says(i), 1)
  BY <1>1, <1>2, ToldType
<1>6. /\ whole \in Seq(Block) /\ Len(whole) = N /\ whole[1] = Carried[1]
      /\ \A i \in Entries : whole[i + 1] = Told[i]
  <2>1. /\ whole \in Seq(Block) /\ Len(whole) = Len(Carried) + Len(Told)
        /\ \A i \in 1..Len(Carried) : whole[i] = Carried[i]
        /\ \A i \in 1..Len(Told) : whole[Len(Carried) + i] = Told[i]
    <3>1. PICK a \in Seq(Block) : a = Carried
      BY <1>5
    <3>2. PICK b \in Seq(Block) : b = Told
      BY <1>5
    <3>3. Splits(whole, a, b)
      BY <1>4, <3>1, <3>2
    <3>4. /\ whole \in Seq(Block) /\ Len(whole) = Len(a) + Len(b)
          /\ \A i \in 1..Len(a) : whole[i] = a[i]
          /\ \A i \in 1..Len(b) : whole[Len(a) + i] = b[i]
      BY <3>3, ElementsOfSplit
    <3>. QED
      BY <3>1, <3>2, <3>4
  <2>2. \A i \in Entries : whole[1 + i] = Told[i] /\ 1 + i = i + 1
    BY <1>2, <1>5, <2>1
  <2>3. Len(whole) = N /\ whole[1] = Carried[1]
    BY <1>5, <2>1
  <2>. QED
    BY <2>1, <2>2, <2>3
<1>7. ASSUME NEW n \in 1..N
      PROVE  WriteBlock(SubSeq(whole, 1, n - 1), cs[n]) = SubSeq(whole, 1, n)
  <2>1. PICK p : p = SubSeq(whole, 1, n - 1)
    OBVIOUS
  <2>2. p \in Seq(Block) /\ Len(p) = n - 1 /\ \A i \in 1..(n - 1) : p[i] = whole[i]
    BY <1>6, <2>1
  <2>3. PICK q : q = SubSeq(whole, 1, n)
    OBVIOUS
  <2>4. q \in Seq(Block) /\ Len(q) = n /\ \A i \in 1..n : q[i] = whole[i]
    BY <1>6, <2>3
  <2>5. q = Append(p, whole[n])
    <3>1. PICK r : r = Append(p, whole[n])
      OBVIOUS
    <3>2. whole[n] \in Block
      BY <1>6
    <3>3. r \in Seq(Block) /\ Len(r) = n /\ r[n] = whole[n] /\ \A i \in 1..(n - 1) : r[i] = p[i]
      BY <2>2, <3>1, <3>2
    <3>4. \A i \in 1..n : r[i] = q[i]
      BY <2>2, <2>4, <3>3
    <3>. QED
      BY <2>4, <3>1, <3>3, <3>4
  <2>6. WriteBlock(p, cs[n]) = Append(p, whole[n])
    <3>1. CASE n = 1
      <4>1. "carrier" \in Kind /\ answer \in Label /\ <<>> \in String
        BY DEF Kind, Label, String, Script
      <4>2. WriteBlock(p, Visible("carrier", answer, <<>>)) = Append(p, Shape("carrier", answer, <<>>, 1))
        BY <2>2, <4>1, WriteBlockIs
      <4>. QED
        BY <1>2, <1>5, <1>6, <3>1, <4>2
    <3>2. CASE n # 1
      <4>1. PICK i \in Entries : n = i + 1
        <5>1. n - 1 \in Entries /\ (n - 1) + 1 = n
          BY <1>2, <3>2
        <5>. QED
          BY <5>1
      <4>2. KindOf(i) \in Kind /\ LabelOf(i) \in Label /\ Says(i) \in String /\ KindOf(i) # "carrier"
        BY ShownAs, EntryFacts
      <4>3. KindOf(i) \in {"reasoning", "carrier"} => Says(i) = <<>>
        <5>1. answer[i].kind \in {"text", "refusal", "call", "reasoning"}
          BY EntryFacts
        <5>2. KindOf(i) = "reasoning" => answer[i].kind = "reasoning"
          BY <5>1, ShownAs DEF IsText
        <5>. QED
          BY <4>2, <5>2 DEF Says
      <4>4. cs[n] = Visible(KindOf(i), LabelOf(i), Says(i)) /\ whole[n] = Shape(KindOf(i), LabelOf(i), Says(i), 1)
        BY <1>2, <1>5, <1>6, <4>1
      <4>. QED
        BY <2>2, <4>2, <4>3, <4>4, WriteBlockIs
    <3>. QED
      BY <3>1, <3>2
  <2>. QED
    BY <2>1, <2>3, <2>5, <2>6
<1>. DEFINE g == [n \in 0..N |-> SubSeq(whole, 1, n)]
<1>8. Writes(g, cs)
  <2>1. ASSUME NEW n \in 0..N PROVE g[n] = IF n = 0 THEN <<>> ELSE WriteBlock(g[n - 1], cs[n])
    <3>1. CASE n = 0
      BY <1>6, <3>1
    <3>2. CASE n # 0
      <4>1. n \in 1..N /\ n - 1 \in 0..N
        BY <3>2
      <4>2. g[n - 1] = SubSeq(whole, 1, n - 1) /\ g[n] = SubSeq(whole, 1, n)
        BY <4>1
      <4>. QED
        BY <1>7, <3>2, <4>1, <4>2
    <3>. QED
      BY <3>1, <3>2
  <2>2. g = [n \in 0..N |-> g[n]]
    OBVIOUS
  <2>. HIDE DEF g
  <2>3. g = [n \in 0..N |-> IF n = 0 THEN <<>> ELSE WriteBlock(g[n - 1], cs[n])]
    BY <2>1, <2>2
  <2>. QED
    BY <1>2, <2>3 DEF Writes
<1>9. g[N] = whole
  BY <1>6
<1>. HIDE DEF g
<1>. DEFINE written == CHOOSE f : Writes(f, cs)
<1>10. Writes(written, cs)
  BY <1>8
<1>11. WriteMessage(message) = written[N]
  BY <1>0, <1>2 DEF WriteMessage, Writes
<1>. HIDE DEF written
<1>12. written[N] = g[N]
  BY <1>2, <1>8, <1>10, WritesAgree
<1>. QED
  BY <1>4, <1>9, <1>11, <1>12

\* The answer is converted to one body: its content and its stop reason.
LEMMA BufferedIs ==
    ASSUME Inv, Script
    PROVE  LET message == BufferedMessage(answer, Status, cut)
           IN  message # Null /\ message.stop_reason = Honest /\ IsContent(message.content)
<1>0. Len(answer) \in Nat /\ DOMAIN answer = Entries /\ Entries = 1..Len(answer)
  BY ScriptEntries DEF Entries
<1>1. ~(\E i \in DOMAIN answer : IsRejected(answer[i]))
  BY DEF Script, Conforming, IsAnswer
<1>2. Status # "incomplete" => HasKind(answer, "call") \/ HasText(answer)
  BY DEF Script, Conforming, Status
<1>3. (HasKind(answer, "call") <=> Calls # {}) /\ (HasKind(answer, "refusal") <=> Refusals # {})
  BY DEF HasKind, Calls, Refusals
<1>4. StopReason(Status, cut, HasKind(answer, "call"), HasKind(answer, "refusal")) = Honest
      /\ Honest # Null
  BY <1>3, ReasonTold
<1>5. PICK cs : cs = <<Visible("carrier", answer, <<>>)>> \o VisibleBlocks(answer)
  OBVIOUS
<1>6. PICK message : message = [content |-> cs, stop_reason |-> Honest]
  OBVIOUS
<1>. DEFINE V == [kind : Kind, label : Label, content : String]
<1>7. /\ VisibleBlocks(answer) \in Seq(V) /\ Len(VisibleBlocks(answer)) = Len(answer)
      /\ \A i \in Entries : VisibleBlocks(answer)[i] = Visible(KindOf(i), LabelOf(i), Says(i))
  <2>1. ASSUME NEW i \in Entries
        PROVE  /\ VisibleEntry(answer[i]) = Visible(KindOf(i), LabelOf(i), Says(i))
               /\ VisibleEntry(answer[i]) \in V
    BY ShownAs, EntryFacts DEF Visible
  <2>. HIDE DEF V
  <2>. QED
    BY <1>0, <2>1 DEF VisibleBlocks
<1>8. PICK c : c = Visible("carrier", answer, <<>>)
  OBVIOUS
<1>9. c \in V
  BY <1>8 DEF Visible, Kind, Label, String, Script
<1>10. PICK vs : vs = VisibleBlocks(answer)
  OBVIOUS
<1>11. cs \in Seq(V) /\ IsContent(cs)
  <2>. HIDE DEF V
  <2>1. vs \in Seq(V) /\ Len(vs) = Len(answer) /\ cs = <<c>> \o vs
    BY <1>5, <1>7, <1>8, <1>10
  <2>2. /\ cs \in Seq(V) /\ Len(cs) = Len(answer) + 1 /\ cs[1] = c
        /\ \A i \in 1..Len(answer) : cs[i + 1] = vs[i]
    BY <1>0, <1>9, <2>1
  <2>. QED
    BY <1>0, <1>7, <1>8, <1>10, <2>2 DEF IsContent
<1>12. message # Null
  <2>1. Honest \in StopReasons
    BY DEF Honest, StopReasons
  <2>2. message \in Message
    BY <1>6, <1>11, <2>1 DEF Message
  <2>. QED
    BY <2>2, TurnAssumption
<1>13. BufferedMessage(answer, Status, cut) = message
  BY <1>1, <1>2, <1>4, <1>5, <1>6 DEF BufferedMessage
<1>. QED
  BY <1>6, <1>11, <1>12, <1>13

\* Streamed or buffered, the client is left with the same message
\* (translate_responses_stream, responses_to_anthropic and anthropic_message_stream).
THEOREM BufferedMatchesStream ==
    ASSUME \A g \in Gateways : Conforming(g)
    PROVE  TurnSpec => []BufferedAgrees
<1>1. TurnInv => BufferedAgrees
  <2>. SUFFICES ASSUME TurnInv, phase = "stopped" PROVE BufferedAgrees
    BY DEF BufferedAgrees
  <2>1. Inv /\ Script /\ Final
    BY DEF TurnInv, Turning, Reading
  <2>2. PICK message : message = BufferedMessage(answer, Status, cut)
    OBVIOUS
  <2>3. message # Null /\ message.stop_reason = Honest /\ IsContent(message.content)
    BY <2>1, <2>2, BufferedIs
  <2>4. PICK buffered : buffered = WriteMessage(message)
    OBVIOUS
  <2>5. Tells(buffered, Carried)
    BY <2>1, <2>3, <2>4, WrittenTells DEF Tells
  <2>6. PICK carriers : carriers = IF echoes THEN Carried ELSE <<>>
    OBVIOUS
  <2>7. Tells(wire, carriers)
    BY <2>1, <2>6, StreamTells
  <2>8. /\ Shown(wire) = Told /\ Carriers(wire) = carriers
        /\ Shown(buffered) = Told /\ Carriers(buffered) = Carried
        /\ \A p \in DOMAIN buffered : buffered[p].stops = 1
    BY <2>1, <2>5, <2>7, TellsParts
  <2>9. ContentOf(wire) = ContentOf(buffered)
    BY <2>8 DEF ContentOf
  <2>10. echoes => CarriersOf(wire) = CarriersOf(buffered)
    BY <2>6, <2>8 DEF CarriersOf
  <2>11. ending.stop_reason = message.stop_reason
    BY <2>1, <2>3 DEF Final, StopReasonHonest, Honest
  <2>12. \A p \in DOMAIN buffered : Sealed(buffered[p])
    BY <2>8 DEF Sealed
  <2>13. Carried # <<>>
    BY DEF Carried
  <2>14. ReplayAccepts(buffered)
    BY <2>1, <2>5, <2>13, TellsReplays
  <2>. QED
    BY <2>2, <2>3, <2>4, <2>9, <2>10, <2>11, <2>12, <2>14 DEF BufferedAgrees
<1>. QED
  BY <1>1, TurnInvariant, PTL

===============================================================================
