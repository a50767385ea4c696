------------------------------ MODULE SequenceFacts ------------------------------
(***************************************************************************)
(* Facts about sequences that take induction.  The induction theorems of   *)
(* the library have an operator as a parameter; the least-number principle *)
(* below is about sets, so it can be cited.                                *)
(***************************************************************************)
EXTENDS Integers, Sequences, SequencesExt, SequenceTheorems, WellFoundedInduction,
        TLAPS

\* Every set of natural numbers that is not empty has a least element.
LEMMA LeastNumber ==
    ASSUME NEW T \in SUBSET Nat, T # {}
    PROVE  \E x \in T : \A y \in T : x <= y
<1>. DEFINE R == {ss \in Nat \X Nat : ss[1] < ss[2]}
<1>1. IsWellFoundedOn(R, Nat)
  BY NatLessThanWellFounded DEF OpToRel
<1>. HIDE DEF R
<1>2. PICK x \in T : \A y \in T : ~(<<y, x>> \in R)
  BY <1>1, WFMin
<1>3. \A y \in T : y < x => <<y, x>> \in R
  BY DEF R
<1>4. ASSUME NEW y \in T PROVE x <= y
  <2>1. x \in Nat /\ y \in Nat /\ ~(y < x)
    BY <1>2, <1>3
  <2>. QED
    BY <2>1
<1>. QED
  BY <1>4

\* A set of natural numbers that holds 0 and the successor of each of its
\* elements below a bound holds all numbers up to the bound.
LEMMA Induction ==
    ASSUME NEW N \in Nat, NEW T, 0 \in T, \A n \in 0..(N - 1) : n \in T => n + 1 \in T
    PROVE  \A n \in 0..N : n \in T
<1>. SUFFICES ASSUME \E n \in 0..N : n \notin T PROVE FALSE
  OBVIOUS
<1>. DEFINE Rest == {n \in 0..N : n \notin T}
<1>1. Rest \in SUBSET Nat /\ Rest # {}
  OBVIOUS
<1>2. PICK x \in Rest : \A y \in Rest : x <= y
  BY <1>1, LeastNumber
<1>3. x # 0 /\ x - 1 \in 0..(N - 1)
  BY <1>2
<1>4. x - 1 \in T
  BY <1>2, <1>3
<1>. QED
  BY <1>2, <1>3, <1>4

-----------------------------------------------------------------------------
(* FlattenSeq.                                                             *)

\* s is a followed by b.
Splits(s, a, b) == s = a \o b

\* Where a concatenation of three is split does not matter.
Regroups(a, b, c) == a \o (b \o c) = (a \o b) \o c

\* Concatenation is associative.
LEMMA ConcatRegroups ==
    ASSUME NEW S, NEW a \in Seq(S), NEW b \in Seq(S), NEW c \in Seq(S)
    PROVE  Regroups(a, b, c)
BY DEF Regroups

\* The function FlattenSeq computes.
Joins(f, ss) ==
    f = [i \in 1..Len(ss) |-> IF i = 1 THEN ss[i] ELSE f[i - 1] \o ss[i]]

\* f is that function up to n.
JoinsTo(n, f, ss) == \A i \in 1..n : f[i] = IF i = 1 THEN ss[i] ELSE f[i - 1] \o ss[i]

\* Two functions are the same up to n.
AgreeTo(n, f, g) == \A i \in 1..n : f[i] = g[i]

\* There is such a function.
LEMMA JoinsExists ==
    ASSUME NEW S, NEW ss \in Seq(Seq(S))
    PROVE  \E f : Joins(f, ss) /\ f \in [1..Len(ss) -> Seq(S)]
<1>. DEFINE T == {n \in 0..Len(ss) : \E f \in [1..n -> Seq(S)] : JoinsTo(n, f, ss)}
<1>0. Len(ss) \in Nat /\ \A i \in 1..Len(ss) : ss[i] \in Seq(S)
  OBVIOUS
<1>1. 0 \in T
  <2>. DEFINE f == [i \in 1..0 |-> <<>>]
  <2>1. f \in [1..0 -> Seq(S)]
    OBVIOUS
  <2>2. JoinsTo(0, f, ss)
    BY DEF JoinsTo
  <2>. HIDE DEF f
  <2>3. 0 \in 0..Len(ss)
    BY <1>0
  <2>. QED
    BY <2>1, <2>2, <2>3
<1>2. ASSUME NEW n \in 0..(Len(ss) - 1), n \in T PROVE n + 1 \in T
  <2>1. PICK f \in [1..n -> Seq(S)] : JoinsTo(n, f, ss)
    BY <1>2
  <2>. DEFINE next == IF n = 0 THEN ss[1] ELSE f[n] \o ss[n + 1]
              g == [i \in 1..(n + 1) |-> IF i = n + 1 THEN next ELSE f[i]]
  <2>2. next \in Seq(S)
    BY <1>0
  <2>3. g \in [1..(n + 1) -> Seq(S)]
    BY <2>2
  <2>4. JoinsTo(n + 1, g, ss)
    <3>0. n \in Nat
      BY <1>0
    <3>1. n \in Nat /\ \A i \in 1..n : g[i] = f[i]
      <4>. HIDE DEF next
      <4>. QED
        BY <3>0
    <3>2. g[n + 1] = IF n + 1 = 1 THEN ss[n + 1] ELSE g[n] \o ss[n + 1]
      BY <1>0
    <3>. HIDE DEF g, next
    <3>3. ASSUME NEW i \in 1..n
          PROVE  g[i] = IF i = 1 THEN ss[i] ELSE g[i - 1] \o ss[i]
      <4>1. f[i] = IF i = 1 THEN ss[i] ELSE f[i - 1] \o ss[i]
        BY <2>1 DEF JoinsTo
      <4>2. i # 1 => i - 1 \in 1..n
        BY <3>1
      <4>. QED
        BY <3>1, <4>1, <4>2
    <3>. QED
      BY <3>1, <3>2, <3>3 DEF JoinsTo
  <2>5. n + 1 \in 0..Len(ss)
    BY <1>0
  <2>. HIDE DEF g
  <2>. QED
    BY <2>3, <2>4, <2>5
<1>3. Len(ss) \in T
  <2>. HIDE DEF T
  <2>1. \A n \in 0..Len(ss) : n \in T
    BY <1>0, <1>1, <1>2, Induction
  <2>. QED
    BY <1>0, <2>1
<1>4. PICK f \in [1..Len(ss) -> Seq(S)] : JoinsTo(Len(ss), f, ss)
  BY <1>3
<1>5. f = [i \in 1..Len(ss) |-> f[i]]
  OBVIOUS
<1>6. f = [i \in 1..Len(ss) |-> IF i = 1 THEN ss[i] ELSE f[i - 1] \o ss[i]]
  BY <1>4, <1>5 DEF JoinsTo
<1>. QED
  BY <1>6 DEF Joins

\* Two such functions agree as far as their sequences do.
LEMMA JoinsAgree ==
    ASSUME NEW n \in Nat, NEW f, NEW g, NEW ss, NEW tt,
           JoinsTo(n, f, ss), JoinsTo(n, g, tt), \A i \in 1..n : ss[i] = tt[i]
    PROVE  AgreeTo(n, f, g)
<1>. DEFINE T == {i \in 0..n : i = 0 \/ f[i] = g[i]}
<1>1. 0 \in T
  OBVIOUS
<1>2. ASSUME NEW i \in 0..(n - 1), i \in T PROVE i + 1 \in T
  <2>1. i + 1 \in 1..n /\ i + 1 \in 0..n /\ (i + 1) - 1 = i
    OBVIOUS
  <2>2. f[i + 1] = IF i + 1 = 1 THEN ss[i + 1] ELSE f[i] \o ss[i + 1]
    BY <2>1 DEF JoinsTo
  <2>3. g[i + 1] = IF i + 1 = 1 THEN tt[i + 1] ELSE g[i] \o tt[i + 1]
    BY <2>1 DEF JoinsTo
  <2>4. i = 0 \/ f[i] = g[i]
    BY <1>2
  <2>5. ss[i + 1] = tt[i + 1]
    BY <2>1
  <2>. QED
    BY <2>1, <2>2, <2>3, <2>4, <2>5
<1>3. \A i \in 0..n : i \in T
  <2>. HIDE DEF T
  <2>. QED
    BY <1>1, <1>2, Induction
<1>. QED
  BY <1>3 DEF AgreeTo

\* FlattenSeq is its last value.
LEMMA FlattenIsJoin ==
    ASSUME NEW S, NEW ss \in Seq(Seq(S)), Len(ss) > 0
    PROVE  \E f \in [1..Len(ss) -> Seq(S)] :
              JoinsTo(Len(ss), f, ss) /\ FlattenSeq(ss) = f[Len(ss)]
<1>. DEFINE flatten == CHOOSE f : Joins(f, ss)
<1>1. FlattenSeq(ss) = flatten[Len(ss)]
  BY DEF FlattenSeq, Joins
<1>2. Joins(flatten, ss)
  BY JoinsExists
<1>. HIDE DEF flatten
<1>3. flatten = [i \in 1..Len(ss) |-> IF i = 1 THEN ss[i] ELSE flatten[i - 1] \o ss[i]]
  BY <1>2 DEF Joins
<1>4. PICK f : Joins(f, ss) /\ f \in [1..Len(ss) -> Seq(S)]
  BY JoinsExists
<1>0. Len(ss) \in Nat
  OBVIOUS
<1>4a. f = [i \in 1..Len(ss) |-> IF i = 1 THEN ss[i] ELSE f[i - 1] \o ss[i]]
  BY <1>4 DEF Joins
<1>5. JoinsTo(Len(ss), f, ss)
  BY <1>4a DEF JoinsTo
<1>6. JoinsTo(Len(ss), flatten, ss)
  BY <1>3 DEF JoinsTo
<1>7. flatten[Len(ss)] = f[Len(ss)]
  <2>1. AgreeTo(Len(ss), flatten, f)
    BY <1>0, <1>5, <1>6, JoinsAgree
  <2>. QED
    BY <1>0, <2>1 DEF AgreeTo
<1>. QED
  BY <1>1, <1>4, <1>5, <1>7

\* Nothing, flattened.
LEMMA FlattenEmpty == FlattenSeq(<<>>) = <<>>
BY DEF FlattenSeq

\* What is flattened has the elements of the parts.
LEMMA FlattenType ==
    ASSUME NEW S, NEW ss \in Seq(Seq(S))
    PROVE  FlattenSeq(ss) \in Seq(S)
<1>1. CASE Len(ss) = 0
  BY <1>1 DEF FlattenSeq
<1>2. CASE Len(ss) > 0
  <2>1. PICK f \in [1..Len(ss) -> Seq(S)] :
           JoinsTo(Len(ss), f, ss) /\ FlattenSeq(ss) = f[Len(ss)]
    BY <1>2, FlattenIsJoin
  <2>2. Len(ss) \in 1..Len(ss)
    BY <1>2
  <2>. QED
    BY <2>1, <2>2
<1>. QED
  BY <1>1, <1>2




\* A sequence of one sequence.
LEMMA FlattenOne ==
    ASSUME NEW S, NEW ss \in Seq(Seq(S)), Len(ss) = 1
    PROVE  FlattenSeq(ss) = ss[1]
<1>0. Len(ss) > 0
  OBVIOUS
<1>1. PICK f \in [1..Len(ss) -> Seq(S)] :
         JoinsTo(Len(ss), f, ss) /\ FlattenSeq(ss) = f[Len(ss)]
  BY <1>0, FlattenIsJoin
<1>2. f[1] = IF 1 = 1 THEN ss[1] ELSE f[1 - 1] \o ss[1]
  BY <1>1 DEF JoinsTo
<1>. QED
  BY <1>1, <1>2

\* What a sequence and the sequence without its last element have in common.
LEMMA FlattenLast ==
    ASSUME NEW S, NEW rr \in Seq(Seq(S)), NEW ss \in Seq(Seq(S)), NEW n \in Nat, n > 0,
           Len(rr) = n, Len(ss) = n + 1, \A i \in 1..n : rr[i] = ss[i]
    PROVE  FlattenSeq(ss) = FlattenSeq(rr) \o ss[n + 1]
<1>0. Len(ss) > 0
  OBVIOUS
<1>1. PICK f \in [1..Len(ss) -> Seq(S)] :
         JoinsTo(Len(ss), f, ss) /\ FlattenSeq(ss) = f[Len(ss)]
  BY <1>0, FlattenIsJoin
<1>2. f[n + 1] = f[n] \o ss[n + 1]
  <2>1. n + 1 \in 1..Len(ss) /\ n + 1 # 1 /\ (n + 1) - 1 = n
    OBVIOUS
  <2>. QED
    BY <1>1, <2>1 DEF JoinsTo
<1>3. PICK g \in [1..Len(rr) -> Seq(S)] :
         JoinsTo(Len(rr), g, rr) /\ FlattenSeq(rr) = g[Len(rr)]
  BY FlattenIsJoin
<1>4. JoinsTo(n, g, rr) /\ JoinsTo(n, f, ss)
  <2>1. JoinsTo(n, g, rr)
    BY <1>3
  <2>2. \A i \in 1..n : i \in 1..Len(ss)
    OBVIOUS
  <2>3. JoinsTo(n, f, ss)
    BY <1>1, <2>2 DEF JoinsTo
  <2>. QED
    BY <2>1, <2>3
<1>5. g[n] = f[n]
  <2>1. AgreeTo(n, g, f)
    BY <1>4, JoinsAgree
  <2>. QED
    BY <2>1 DEF AgreeTo
<1>. QED
  BY <1>1, <1>2, <1>3, <1>5

\* One sequence more at the end.
LEMMA FlattenAppend ==
    ASSUME NEW S, NEW ss \in Seq(Seq(S)), NEW t \in Seq(S)
    PROVE  FlattenSeq(Append(ss, t)) = FlattenSeq(ss) \o t
<1>1. PICK n \in Nat : n = Len(ss)
  OBVIOUS
<1>2. PICK tt \in Seq(Seq(S)) : tt = Append(ss, t)
  <2>1. Append(ss, t) \in Seq(Seq(S))
    OBVIOUS
  <2>. QED
    BY <2>1
<1>3. Len(tt) = n + 1 /\ tt[n + 1] = t /\ \A i \in 1..n : ss[i] = tt[i]
  BY <1>1, <1>2
<1>4. CASE n = 0
  <2>1. FlattenSeq(tt) = t
    <3>1. Len(tt) = 1 /\ tt[1] = t
      BY <1>3, <1>4
    <3>. QED
      BY <3>1, FlattenOne
  <2>2. ss = <<>>
    BY <1>1, <1>4, EmptySeq
  <2>3. <<>> \o t = t
    BY ConcatEmptySeq
  <2>. QED
    BY <1>2, <2>1, <2>2, <2>3, FlattenEmpty
<1>5. CASE n > 0
  <2>1. FlattenSeq(tt) = FlattenSeq(ss) \o tt[n + 1]
    BY <1>1, <1>3, <1>5, FlattenLast
  <2>. QED
    BY <1>2, <1>3, <2>1
<1>. QED
  BY <1>4, <1>5

\* FlattenLast, as a split.
LEMMA FlattenAppends ==
    ASSUME NEW S, NEW rr \in Seq(Seq(S)), NEW ss \in Seq(Seq(S)), NEW n \in Nat, n > 0,
           Len(rr) = n, Len(ss) = n + 1, \A i \in 1..n : rr[i] = ss[i]
    PROVE  Splits(FlattenSeq(ss), FlattenSeq(rr), ss[n + 1])
BY FlattenLast, SMTT(30) DEF Splits

\* The last sequence grows.
LEMMA FlattenGrow ==
    ASSUME NEW S, NEW ss \in Seq(Seq(S)), NEW tt \in Seq(Seq(S)), NEW t \in Seq(S),
           NEW n \in Nat, Len(ss) = n + 1, Len(tt) = n + 1,
           \A i \in 1..n : tt[i] = ss[i], tt[n + 1] = ss[n + 1] \o t
    PROVE  Splits(FlattenSeq(tt), FlattenSeq(ss), t)
<1>1. CASE n = 0
  <2>1. FlattenSeq(tt) = tt[1] /\ FlattenSeq(ss) = ss[1]
    <3>1. Len(ss) = 1 /\ Len(tt) = 1
      BY <1>1
    <3>. QED
      BY <3>1, FlattenOne
  <2>. QED
    BY <1>1, <2>1 DEF Splits
<1>2. CASE n > 0
  <2>1. PICK rr \in Seq(Seq(S)) : Len(rr) = n /\ \A i \in 1..n : rr[i] = ss[i]
    <3>1. SubSeq(ss, 1, n) \in Seq(Seq(S)) /\ Len(SubSeq(ss, 1, n)) = n
          /\ \A i \in 1..n : SubSeq(ss, 1, n)[i] = ss[i]
      BY SubSeqProperties
    <3>. QED
      BY <3>1
  <2>2. FlattenSeq(ss) = FlattenSeq(rr) \o ss[n + 1]
    BY <1>2, <2>1, FlattenLast
  <2>3. FlattenSeq(tt) = FlattenSeq(rr) \o tt[n + 1]
    <3>1. \A i \in 1..n : rr[i] = tt[i]
      BY <2>1
    <3>2. n > 0 /\ Len(rr) = n
      BY <1>2, <2>1
    <3>. QED
      BY <3>1, <3>2, FlattenAppends, Zenon DEF Splits
  <2>4. FlattenSeq(rr) \in Seq(S) /\ ss[n + 1] \in Seq(S)
    <3>1. n + 1 \in 1..Len(ss)
      OBVIOUS
    <3>. QED
      BY <3>1, FlattenType
  <2>5. FlattenSeq(rr) \o (ss[n + 1] \o t) = (FlattenSeq(rr) \o ss[n + 1]) \o t
    <3>1. PICK a \in Seq(S) : a = FlattenSeq(rr)
      BY <2>4
    <3>2. PICK b \in Seq(S) : b = ss[n + 1]
      BY <2>4
    <3>3. Regroups(a, b, t)
      BY ConcatRegroups
    <3>. QED
      BY <3>1, <3>2, <3>3 DEF Regroups
  <2>. QED
    BY <2>2, <2>3, <2>5 DEF Splits
<1>. QED
  BY <1>1, <1>2

\* Two sequences of sequences, one after the other.
LEMMA FlattenConcat ==
    ASSUME NEW S, NEW ss \in Seq(Seq(S)), NEW tt \in Seq(Seq(S))
    PROVE  FlattenSeq(ss \o tt) = FlattenSeq(ss) \o FlattenSeq(tt)
<1>. DEFINE T == {n \in 0..Len(tt) :
                    FlattenSeq(ss \o SubSeq(tt, 1, n)) = FlattenSeq(ss) \o FlattenSeq(SubSeq(tt, 1, n))}
<1>0. FlattenSeq(ss) \in Seq(S) /\ Len(tt) \in Nat
  BY FlattenType
<1>1. 0 \in T
  <2>1. SubSeq(tt, 1, 0) = <<>> /\ ss \o <<>> = ss
    OBVIOUS
  <2>2. FlattenSeq(ss) \o <<>> = FlattenSeq(ss)
    BY <1>0, ConcatEmptySeq
  <2>3. 0 \in 0..Len(tt)
    BY <1>0
  <2>4. FlattenSeq(ss \o SubSeq(tt, 1, 0)) = FlattenSeq(ss) \o FlattenSeq(SubSeq(tt, 1, 0))
    BY <2>1, <2>2, FlattenEmpty
  <2>. QED
    BY <2>3, <2>4
<1>2. ASSUME NEW n \in 0..(Len(tt) - 1), n \in T PROVE n + 1 \in T
  <2>1. PICK uu \in Seq(Seq(S)) : uu = SubSeq(tt, 1, n)
    <3>1. SubSeq(tt, 1, n) \in Seq(Seq(S))
      BY <1>0
    <3>. QED
      BY <3>1
  <2>2. PICK t \in Seq(S) : t = tt[n + 1]
    BY <1>0
  <2>3. SubSeq(tt, 1, n + 1) = Append(uu, t)
    BY <1>0, <2>1, <2>2
  <2>4. ss \o Append(uu, t) = Append(ss \o uu, t) /\ ss \o uu \in Seq(Seq(S))
    BY SMTT(30)
  <2>5. FlattenSeq(Append(ss \o uu, t)) = FlattenSeq(ss \o uu) \o t
    BY <2>4, FlattenAppend
  <2>6. FlattenSeq(Append(uu, t)) = FlattenSeq(uu) \o t
    BY FlattenAppend
  <2>7. FlattenSeq(ss \o uu) = FlattenSeq(ss) \o FlattenSeq(uu)
    BY <1>2, <2>1
  <2>8. FlattenSeq(uu) \in Seq(S)
    BY FlattenType
  <2>9. (FlattenSeq(ss) \o FlattenSeq(uu)) \o t = FlattenSeq(ss) \o (FlattenSeq(uu) \o t)
    <3>1. PICK a \in Seq(S) : a = FlattenSeq(ss)
      BY <1>0
    <3>2. PICK b \in Seq(S) : b = FlattenSeq(uu)
      BY <2>8
    <3>3. Regroups(a, b, t)
      BY ConcatRegroups
    <3>. QED
      BY <3>1, <3>2, <3>3 DEF Regroups
  <2>10. n + 1 \in 0..Len(tt)
    BY <1>0
  <2>11. FlattenSeq(ss \o SubSeq(tt, 1, n + 1)) = FlattenSeq(ss) \o FlattenSeq(SubSeq(tt, 1, n + 1))
    BY <2>3, <2>4, <2>5, <2>6, <2>7, <2>9
  <2>. QED
    BY <2>10, <2>11
<1>3. Len(tt) \in T
  <2>. HIDE DEF T
  <2>1. \A n \in 0..Len(tt) : n \in T
    BY <1>0, <1>1, <1>2, Induction
  <2>. QED
    BY <1>0, <2>1
<1>4. SubSeq(tt, 1, Len(tt)) = tt
  OBVIOUS
<1>. QED
  BY <1>3, <1>4

-----------------------------------------------------------------------------
(* The same facts for sequences given by their elements.                   *)

\* A sequence without its first element.
LEMMA TailElements ==
    ASSUME NEW S, NEW s \in Seq(S), NEW t \in Seq(S), s # <<>>,
           Len(s) = Len(t) + 1, \A i \in 1..Len(t) : t[i] = s[i + 1]
    PROVE  Splits(s, <<s[1]>>, t)
<1>. PICK u : u = <<s[1]>> \o t
  OBVIOUS
<1>1. s[1] \in S /\ <<s[1]>> \in Seq(S) /\ Len(<<s[1]>>) = 1 /\ <<s[1]>>[1] = s[1]
  OBVIOUS
<1>2. u \in Seq(S) /\ Len(u) = 1 + Len(t)
      /\ \A i \in 1..(1 + Len(t)) : u[i] = IF i <= 1 THEN s[1] ELSE t[i - 1]
  BY <1>1, ConcatProperties
<1>3. ASSUME NEW i \in 1..Len(s) PROVE s[i] = u[i]
  <2>1. CASE i = 1
    BY <1>2, <2>1
  <2>2. CASE i # 1
    <3>1. i - 1 \in 1..Len(t) /\ (i - 1) + 1 = i /\ ~(i <= 1) /\ i \in 1..(1 + Len(t))
      BY <2>2
    <3>. QED
      BY <1>2, <3>1
  <2>. QED
    BY <2>1, <2>2
<1>. QED
  BY <1>2, <1>3, SeqEqual DEF Splits

\* Two sequences, element by element, one after the other.
LEMMA ConcatElements ==
    ASSUME NEW S, NEW r \in Seq(S), NEW s \in Seq(S), NEW t \in Seq(S),
           Len(r) = Len(s) + Len(t),
           \A i \in 1..Len(s) : r[i] = s[i],
           \A i \in 1..Len(t) : r[Len(s) + i] = t[i]
    PROVE  Splits(r, s, t)
<1>. PICK u : u = s \o t
  OBVIOUS
<1>1. u \in Seq(S) /\ Len(u) = Len(s) + Len(t)
      /\ \A i \in 1..(Len(s) + Len(t)) : u[i] = IF i <= Len(s) THEN s[i] ELSE t[i - Len(s)]
  BY ConcatProperties
<1>2. ASSUME NEW i \in 1..Len(r) PROVE r[i] = u[i]
  <2>1. CASE i <= Len(s)
    BY <1>1, <2>1
  <2>2. CASE i > Len(s)
    <3>1. i - Len(s) \in 1..Len(t) /\ Len(s) + (i - Len(s)) = i /\ ~(i <= Len(s))
      BY <2>2
    <3>. QED
      BY <1>1, <3>1
  <2>. QED
    BY <2>1, <2>2
<1>. QED
  BY <1>1, <1>2, SeqEqual DEF Splits

\* tt is ss with one sequence more at the end.
LEMMA FlattenMore ==
    ASSUME NEW S, NEW ss \in Seq(Seq(S)), NEW tt \in Seq(Seq(S)), NEW t \in Seq(S),
           Len(tt) = Len(ss) + 1, tt[Len(ss) + 1] = t, \A i \in 1..Len(ss) : tt[i] = ss[i]
    PROVE  Splits(FlattenSeq(tt), FlattenSeq(ss), t)
<1>1. PICK n \in Nat : n = Len(ss)
  OBVIOUS
<1>2. Len(ss) = n /\ Len(tt) = n + 1 /\ tt[n + 1] = t /\ \A i \in 1..n : ss[i] = tt[i]
  BY <1>1
<1>3. CASE n = 0
  <2>1. FlattenSeq(tt) = t
    <3>1. Len(tt) = 1 /\ tt[1] = t
      BY <1>2, <1>3
    <3>. QED
      BY <3>1, FlattenOne
  <2>2. ss = <<>>
    BY <1>1, <1>3, EmptySeq
  <2>3. <<>> \o t = t
    BY ConcatEmptySeq
  <2>. QED
    BY <2>1, <2>2, <2>3, FlattenEmpty DEF Splits
<1>4. CASE n > 0
  BY <1>2, <1>4, FlattenLast DEF Splits
<1>. QED
  BY <1>3, <1>4

\* tt is ss without its first sequence.
LEMMA FlattenRest ==
    ASSUME NEW S, NEW ss \in Seq(Seq(S)), NEW tt \in Seq(Seq(S)), ss # <<>>,
           Len(ss) = Len(tt) + 1, \A i \in 1..Len(tt) : tt[i] = ss[i + 1]
    PROVE  Splits(FlattenSeq(ss), ss[1], FlattenSeq(tt))
<1>1. Splits(ss, <<ss[1]>>, tt)
  BY TailElements
<1>2. PICK h \in Seq(S) : h = ss[1]
  OBVIOUS
<1>3. PICK one \in Seq(Seq(S)) : one = <<h>>
  <2>1. <<h>> \in Seq(Seq(S))
    OBVIOUS
  <2>. QED
    BY <2>1
<1>4. FlattenSeq(one) = h
  <2>1. Len(one) = 1 /\ one[1] = h
    BY <1>3
  <2>. QED
    BY <2>1, FlattenOne
<1>5. ss = one \o tt
  BY <1>1, <1>2, <1>3 DEF Splits
<1>6. FlattenSeq(one \o tt) = FlattenSeq(one) \o FlattenSeq(tt)
  BY FlattenConcat, SMTT(30)
<1>7. FlattenSeq(ss) = h \o FlattenSeq(tt)
  BY <1>4, <1>5, <1>6, Zenon
<1>. QED
  BY <1>2, <1>7, Zenon DEF Splits

\* rr is ss followed by tt.
LEMMA FlattenSplit ==
    ASSUME NEW S, NEW rr \in Seq(Seq(S)), NEW ss \in Seq(Seq(S)), NEW tt \in Seq(Seq(S)),
           Len(rr) = Len(ss) + Len(tt),
           \A i \in 1..Len(ss) : rr[i] = ss[i],
           \A i \in 1..Len(tt) : rr[Len(ss) + i] = tt[i]
    PROVE  Splits(FlattenSeq(rr), FlattenSeq(ss), FlattenSeq(tt))
<1>1. Splits(rr, ss, tt)
  BY ConcatElements
<1>. QED
  BY <1>1, FlattenConcat DEF Splits

\* The last sequence grows, the others stay.
LEMMA FlattenLonger ==
    ASSUME NEW S, NEW ss \in Seq(Seq(S)), NEW tt \in Seq(Seq(S)), NEW t \in Seq(S),
           Len(ss) > 0, Len(tt) = Len(ss),
           \A i \in 1..Len(ss) : i < Len(ss) => tt[i] = ss[i],
           tt[Len(ss)] = ss[Len(ss)] \o t
    PROVE  Splits(FlattenSeq(tt), FlattenSeq(ss), t)
<1>0. Len(ss) \in Nat
  OBVIOUS
<1>1. PICK n \in Nat : n + 1 = Len(ss)
  <2>1. Len(ss) - 1 \in Nat /\ (Len(ss) - 1) + 1 = Len(ss)
    BY <1>0
  <2>. QED
    BY <2>1
<1>2. Len(ss) = n + 1 /\ Len(tt) = n + 1
  BY <1>1
<1>3. tt[n + 1] = ss[n + 1] \o t
  BY <1>2
<1>4. \A i \in 1..n : tt[i] = ss[i]
  <2>1. \A i \in 1..n : i \in 1..Len(ss) /\ i < Len(ss)
    BY <1>1
  <2>. QED
    BY <2>1
<1>. QED
  BY <1>2, <1>3, <1>4, FlattenGrow

\* Sequences without elements.
LEMMA FlattenNothing ==
    ASSUME NEW S, NEW ss \in Seq(Seq(S)), \A i \in 1..Len(ss) : ss[i] = <<>>
    PROVE  FlattenSeq(ss) = <<>>
<1>1. CASE Len(ss) = 0
  BY <1>1 DEF FlattenSeq
<1>2. CASE Len(ss) > 0
  <2>1. PICK f \in [1..Len(ss) -> Seq(S)] :
           JoinsTo(Len(ss), f, ss) /\ FlattenSeq(ss) = f[Len(ss)]
    BY <1>2, FlattenIsJoin
  <2>2. PICK n \in Nat : n = Len(ss)
    OBVIOUS
  <2>3. \A i \in 1..n : f[i] = IF i = 1 THEN <<>> ELSE f[i - 1] \o <<>>
    BY <2>1, <2>2 DEF JoinsTo
  <2>. DEFINE T == {i \in 0..n : i = 0 \/ f[i] = <<>>}
  <2>4. 0 \in T
    OBVIOUS
  <2>5. ASSUME NEW i \in 0..(n - 1), i \in T PROVE i + 1 \in T
    <3>1. i + 1 \in 1..n /\ i + 1 \in 0..n /\ (i + 1) - 1 = i
      OBVIOUS
    <3>2. f[i + 1] = IF i + 1 = 1 THEN <<>> ELSE f[i] \o <<>>
      BY <2>3, <3>1
    <3>3. i = 0 \/ f[i] = <<>>
      BY <2>5
    <3>4. <<>> \o <<>> = <<>>
      OBVIOUS
    <3>. QED
      BY <3>1, <3>2, <3>3, <3>4
  <2>6. \A i \in 0..n : i \in T
    <3>. HIDE DEF T
    <3>. QED
      BY <2>4, <2>5, Induction
  <2>. QED
    BY <1>2, <2>1, <2>2, <2>6
<1>. QED
  BY <1>1, <1>2

-----------------------------------------------------------------------------
(* Which elements there are in what is flattened, and in which order.      *)

\* A sequence is what its elements, taken one by one, are flattened to.
LEMMA FlattenSingles ==
    ASSUME NEW S, NEW s \in Seq(S), NEW ss \in Seq(Seq(S)), Len(ss) = Len(s),
           \A i \in 1..Len(s) : ss[i] = <<s[i]>>
    PROVE  FlattenSeq(ss) = s
<1>0. PICK n \in Nat : n = Len(s) /\ n = Len(ss)
  OBVIOUS
<1>1. CASE n = 0
  <2>1. Len(s) = 0 /\ Len(ss) = 0
    BY <1>0, <1>1
  <2>2. s = <<>>
    BY <2>1
  <2>3. ss = <<>>
    BY <2>1
  <2>. QED
    BY <2>2, <2>3, FlattenEmpty
<1>2. CASE n > 0
  <2>1. PICK f \in [1..n -> Seq(S)] : JoinsTo(n, f, ss) /\ FlattenSeq(ss) = f[n]
    BY <1>0, <1>2, FlattenIsJoin
  <2>. DEFINE T == {k \in 0..n : k = 0 \/ f[k] = SubSeq(s, 1, k)}
  <2>2. 0 \in T
    OBVIOUS
  <2>3. ASSUME NEW k \in 0..(n - 1), k \in T PROVE k + 1 \in T
    <3>1. k + 1 \in 1..n /\ k + 1 \in 0..n /\ (k + 1) - 1 = k
      OBVIOUS
    <3>2. f[k + 1] = IF k + 1 = 1 THEN ss[k + 1] ELSE f[(k + 1) - 1] \o ss[k + 1]
      BY <2>1, <3>1 DEF JoinsTo
    <3>3. ss[k + 1] = <<s[k + 1]>> /\ s[k + 1] \in S
      BY <1>0, <3>1
    <3>4. f[k + 1] = SubSeq(s, 1, k + 1)
      <4>1. CASE k = 0
        BY <1>0, <3>1, <3>2, <3>3, <4>1
      <4>2. CASE k # 0
        <5>1. f[k + 1] = SubSeq(s, 1, k) \o <<s[k + 1]>>
          BY <2>3, <3>1, <3>2, <3>3, <4>2
        <5>2. SubSeq(s, 1, k) \o <<s[k + 1]>> = SubSeq(s, 1, k + 1)
          BY <1>0, <3>1, <3>3
        <5>. QED
          BY <5>1, <5>2
      <4>. QED
        BY <4>1, <4>2
    <3>. QED
      BY <3>1, <3>4
  <2>. HIDE DEF T
  <2>4. n \in T
    <3>1. n \in 0..n
      OBVIOUS
    <3>2. \A k \in 0..n : k \in T
      BY <2>2, <2>3, Induction
    <3>. QED
      BY <3>1, <3>2
  <2>5. f[n] = SubSeq(s, 1, n)
    BY <1>2, <2>4 DEF T
  <2>. QED
    BY <1>0, <2>1, <2>5
<1>. QED
  BY <1>0, <1>1, <1>2

\* Of any two elements of s, the earlier one and the later one are related by R.
InOrder(s, R) == \A i, j \in 1..Len(s) : i < j => <<s[i], s[j]>> \in R

\* The elements of a come before the elements of b.
OneThenOther(a, b, R) == \A i \in 1..Len(a), j \in 1..Len(b) : <<a[i], b[j]>> \in R

\* x is an element of s.
IsIn(x, s) == \E i \in 1..Len(s) : s[i] = x

\* The elements of a concatenation.
LEMMA ElementsOfSplit ==
    ASSUME NEW S, NEW a \in Seq(S), NEW b \in Seq(S), NEW s, Splits(s, a, b)
    PROVE  /\ s \in Seq(S) /\ Len(s) = Len(a) + Len(b)
           /\ \A i \in 1..Len(a) : s[i] = a[i]
           /\ \A i \in 1..Len(b) : s[Len(a) + i] = b[i]
           /\ \A i \in 1..Len(s) : i <= Len(a) \/ i - Len(a) \in 1..Len(b)
BY DEF Splits

LEMMA InSplit ==
    ASSUME NEW S, NEW a \in Seq(S), NEW b \in Seq(S), NEW s, Splits(s, a, b), NEW x
    PROVE  IsIn(x, s) <=> IsIn(x, a) \/ IsIn(x, b)
<1>0. /\ Len(a) \in Nat /\ Len(b) \in Nat /\ Len(s) = Len(a) + Len(b)
      /\ \A i \in 1..Len(a) : s[i] = a[i]
      /\ \A i \in 1..Len(b) : s[Len(a) + i] = b[i]
      /\ \A i \in 1..Len(s) : i <= Len(a) \/ i - Len(a) \in 1..Len(b)
  BY ElementsOfSplit
<1>1. ASSUME NEW i \in 1..Len(s), s[i] = x PROVE IsIn(x, a) \/ IsIn(x, b)
  <2>1. CASE i <= Len(a)
    <3>1. i \in 1..Len(a)
      BY <2>1
    <3>. QED
      BY <1>0, <1>1, <3>1 DEF IsIn
  <2>2. CASE i - Len(a) \in 1..Len(b)
    <3>1. Len(a) + (i - Len(a)) = i
      BY <1>0
    <3>2. s[i] = b[i - Len(a)]
      BY <1>0, <2>2, <3>1
    <3>. QED
      BY <1>1, <2>2, <3>2 DEF IsIn
  <2>. QED
    BY <1>0, <2>1, <2>2
<1>2. ASSUME NEW i \in 1..Len(a), a[i] = x PROVE IsIn(x, s)
  <2>1. i \in 1..Len(s)
    BY <1>0
  <2>. QED
    BY <1>0, <1>2, <2>1 DEF IsIn
<1>3. ASSUME NEW i \in 1..Len(b), b[i] = x PROVE IsIn(x, s)
  <2>1. Len(a) + i \in 1..Len(s)
    BY <1>0
  <2>. QED
    BY <1>0, <1>3, <2>1 DEF IsIn
<1>. QED
  BY <1>1, <1>2, <1>3 DEF IsIn

LEMMA OrderOfSplit ==
    ASSUME NEW S, NEW a \in Seq(S), NEW b \in Seq(S), NEW s, NEW R, Splits(s, a, b),
           InOrder(a, R), InOrder(b, R), OneThenOther(a, b, R)
    PROVE  InOrder(s, R)
<1>0. /\ Len(a) \in Nat /\ Len(b) \in Nat /\ Len(s) = Len(a) + Len(b)
      /\ \A i \in 1..Len(a) : s[i] = a[i]
      /\ \A i \in 1..Len(b) : s[Len(a) + i] = b[i]
      /\ \A i \in 1..Len(s) : i <= Len(a) \/ i - Len(a) \in 1..Len(b)
  BY ElementsOfSplit
<1>. SUFFICES ASSUME NEW i \in 1..Len(s), NEW j \in 1..Len(s), i < j
              PROVE  <<s[i], s[j]>> \in R
  BY DEF InOrder
<1>1. \A k \in 1..Len(s) : k <= Len(a) => k \in 1..Len(a) /\ s[k] = a[k]
  BY <1>0
<1>2. \A k \in 1..Len(s) : k - Len(a) \in 1..Len(b) => s[k] = b[k - Len(a)]
  <2>1. \A k \in 1..Len(s) : Len(a) + (k - Len(a)) = k
    BY <1>0
  <2>. QED
    BY <1>0, <2>1
<1>3. CASE j <= Len(a)
  <2>1. i <= Len(a)
    BY <1>0, <1>3
  <2>. QED
    BY <1>1, <1>3, <2>1 DEF InOrder
<1>4. CASE i <= Len(a) /\ j - Len(a) \in 1..Len(b)
  BY <1>1, <1>2, <1>4 DEF OneThenOther
<1>5. CASE i - Len(a) \in 1..Len(b) /\ j - Len(a) \in 1..Len(b)
  <2>1. i - Len(a) < j - Len(a)
    BY <1>0
  <2>. QED
    BY <1>2, <1>5, <2>1 DEF InOrder
<1>6. i - Len(a) \in 1..Len(b) => ~(j <= Len(a))
  BY <1>0
<1>. QED
  BY <1>0, <1>3, <1>4, <1>5, <1>6

\* A sequence without its first k elements.
LEMMA RestElements ==
    ASSUME NEW S, NEW s \in Seq(S), NEW k \in 0..Len(s)
    PROVE  \E t \in Seq(S) : Len(t) = Len(s) - k /\ \A i \in 1..(Len(s) - k) : t[i] = s[k + i]
<1>1. PICK n \in Nat : n = Len(s) - k
  <2>1. Len(s) - k \in Nat
    OBVIOUS
  <2>. QED
    BY <2>1
<1>2. [i \in 1..n |-> s[k + i]] \in Seq(S) /\ Len([i \in 1..n |-> s[k + i]]) = n
  BY <1>1
<1>. QED
  BY <1>1, <1>2

\* What is flattened holds the elements of the parts, and no others.
LEMMA InFlattened ==
    ASSUME NEW S, NEW ss \in Seq(Seq(S)), NEW x
    PROVE  IsIn(x, FlattenSeq(ss)) <=> \E k \in 1..Len(ss) : IsIn(x, ss[k])
<1>1. ASSUME IsIn(x, FlattenSeq(ss)) PROVE \E k \in 1..Len(ss) : IsIn(x, ss[k])
  <2>. DEFINE T == {y \in S : \E k \in 1..Len(ss) : IsIn(y, ss[k])}
  <2>1. ss \in Seq(Seq(T))
    <3>1. \A k \in 1..Len(ss) : ss[k] \in Seq(T)
      <4>. SUFFICES ASSUME NEW k \in 1..Len(ss) PROVE ss[k] \in Seq(T)
        OBVIOUS
      <4>1. PICK s \in Seq(S) : s = ss[k]
        OBVIOUS
      <4>2. \A i \in 1..Len(s) : s[i] \in T
        BY <4>1 DEF IsIn
      <4>. HIDE DEF T
      <4>3. s \in Seq(T)
        BY <4>2
      <4>. QED
        BY <4>1, <4>3
    <3>. HIDE DEF T
    <3>. QED
      BY <3>1
  <2>2. FlattenSeq(ss) \in Seq(T)
    <3>. HIDE DEF T
    <3>. QED
      BY <2>1, FlattenType
  <2>3. x \in T
    <3>. HIDE DEF T
    <3>. QED
      BY <1>1, <2>2 DEF IsIn
  <2>. QED
    BY <2>3
<1>2. ASSUME NEW k \in 1..Len(ss), IsIn(x, ss[k]) PROVE IsIn(x, FlattenSeq(ss))
  <2>0. PICK n \in Nat : n = Len(ss)
    OBVIOUS
  <2>1. PICK hh \in Seq(Seq(S)) : Len(hh) = k - 1 /\ \A i \in 1..(k - 1) : hh[i] = ss[i]
    <3>1. SubSeq(ss, 1, k - 1) \in Seq(Seq(S)) /\ Len(SubSeq(ss, 1, k - 1)) = k - 1
          /\ \A i \in 1..(k - 1) : SubSeq(ss, 1, k - 1)[i] = ss[i]
      OBVIOUS
    <3>. QED
      BY <3>1
  <2>2. PICK mm \in Seq(Seq(S)) : Len(mm) = k /\ \A i \in 1..k : mm[i] = ss[i]
    <3>1. SubSeq(ss, 1, k) \in Seq(Seq(S)) /\ Len(SubSeq(ss, 1, k)) = k
          /\ \A i \in 1..k : SubSeq(ss, 1, k)[i] = ss[i]
      OBVIOUS
    <3>. QED
      BY <3>1
  <2>3. PICK tt \in Seq(Seq(S)) : Len(tt) = n - k /\ \A i \in 1..(n - k) : tt[i] = ss[k + i]
    <3>1. \E tt \in Seq(Seq(S)) :
             Len(tt) = Len(ss) - k /\ \A i \in 1..(Len(ss) - k) : tt[i] = ss[k + i]
      <4>1. k \in 0..Len(ss)
        OBVIOUS
      <4>. QED
        BY <4>1, RestElements
    <3>. QED
      BY <2>0, <3>1
  <2>4. PICK t \in Seq(S) : t = ss[k]
    OBVIOUS
  <2>5. Splits(FlattenSeq(mm), FlattenSeq(hh), t)
    <3>1. Len(mm) = Len(hh) + 1 /\ Len(hh) + 1 = k
      BY <2>1, <2>2
    <3>2. mm[Len(hh) + 1] = t
      BY <2>2, <2>4, <3>1
    <3>3. \A i \in 1..(k - 1) : i \in 1..k
      OBVIOUS
    <3>4. \A i \in 1..Len(hh) : mm[i] = hh[i]
      BY <2>1, <2>2, <3>3
    <3>. QED
      BY <3>1, <3>2, <3>4, FlattenMore
  <2>6. Splits(FlattenSeq(ss), FlattenSeq(mm), FlattenSeq(tt))
    <3>1. Len(ss) = Len(mm) + Len(tt)
      BY <2>0, <2>2, <2>3
    <3>2. \A i \in 1..Len(mm) : ss[i] = mm[i]
      BY <2>2
    <3>3. \A i \in 1..Len(tt) : ss[Len(mm) + i] = tt[i]
      BY <2>2, <2>3
    <3>. QED
      BY <3>1, <3>2, <3>3, FlattenSplit, ZenonT(30)
  <2>7. PICK a \in Seq(S) : a = FlattenSeq(hh)
    BY FlattenType
  <2>8. PICK b \in Seq(S) : b = FlattenSeq(mm)
    BY FlattenType
  <2>9. PICK c \in Seq(S) : c = FlattenSeq(tt)
    BY FlattenType
  <2>10. IsIn(x, b)
    BY <1>2, <2>4, <2>5, <2>7, <2>8, InSplit
  <2>. QED
    BY <2>6, <2>8, <2>9, <2>10, InSplit
<1>. QED
  BY <1>1, <1>2

\* Parts in order, each in order, are in order when they are flattened.
LEMMA OrderOfFlattened ==
    ASSUME NEW S, NEW ss \in Seq(Seq(S)), NEW R,
           \A k \in 1..Len(ss) : InOrder(ss[k], R),
           \A k, l \in 1..Len(ss) : k < l => OneThenOther(ss[k], ss[l], R)
    PROVE  InOrder(FlattenSeq(ss), R)
<1>0. PICK n \in Nat : n = Len(ss)
  OBVIOUS
<1>. DEFINE T == {k \in 0..n : InOrder(FlattenSeq(SubSeq(ss, 1, k)), R)}
<1>1. 0 \in T
  <2>1. SubSeq(ss, 1, 0) = <<>>
    OBVIOUS
  <2>2. FlattenSeq(SubSeq(ss, 1, 0)) = <<>>
    BY <2>1, FlattenEmpty
  <2>3. 0 \in 0..n
    OBVIOUS
  <2>. QED
    BY <2>2, <2>3 DEF InOrder
<1>2. ASSUME NEW k \in 0..(n - 1), k \in T PROVE k + 1 \in T
  <2>1. PICK hh \in Seq(Seq(S)) : hh = SubSeq(ss, 1, k) /\ Len(hh) = k /\ \A i \in 1..k : hh[i] = ss[i]
    <3>1. SubSeq(ss, 1, k) \in Seq(Seq(S)) /\ Len(SubSeq(ss, 1, k)) = k
          /\ \A i \in 1..k : SubSeq(ss, 1, k)[i] = ss[i]
      BY <1>0
    <3>. QED
      BY <3>1
  <2>2. PICK mm \in Seq(Seq(S)) : /\ mm = SubSeq(ss, 1, k + 1) /\ Len(mm) = k + 1
                                  /\ \A i \in 1..(k + 1) : mm[i] = ss[i]
    <3>1. SubSeq(ss, 1, k + 1) \in Seq(Seq(S)) /\ Len(SubSeq(ss, 1, k + 1)) = k + 1
          /\ \A i \in 1..(k + 1) : SubSeq(ss, 1, k + 1)[i] = ss[i]
      BY <1>0
    <3>. QED
      BY <3>1
  <2>3. k + 1 \in 1..Len(ss) /\ k + 1 \in 0..n /\ \A i \in 1..k : i \in 1..Len(ss) /\ i < k + 1
    BY <1>0
  <2>4. PICK t \in Seq(S) : t = ss[k + 1]
    BY <2>3
  <2>5. Splits(FlattenSeq(mm), FlattenSeq(hh), t)
    <3>1. Len(mm) = Len(hh) + 1 /\ mm[Len(hh) + 1] = t /\ \A i \in 1..Len(hh) : mm[i] = hh[i]
      BY <2>1, <2>2, <2>4
    <3>. QED
      BY <3>1, FlattenMore
  <2>6. PICK a \in Seq(S) : a = FlattenSeq(hh)
    BY FlattenType
  <2>7. InOrder(a, R)
    BY <1>2, <2>1, <2>6
  <2>8. InOrder(t, R)
    BY <2>3, <2>4
  <2>9. OneThenOther(a, t, R)
    <3>. SUFFICES ASSUME NEW i \in 1..Len(a), NEW j \in 1..Len(t) PROVE <<a[i], t[j]>> \in R
      BY DEF OneThenOther
    <3>1. IsIn(a[i], a)
      BY DEF IsIn
    <3>2. PICK h \in 1..Len(hh) : IsIn(a[i], hh[h])
      BY <2>6, <3>1, InFlattened
    <3>3. h \in 1..k /\ hh[h] = ss[h]
      BY <2>1
    <3>4. OneThenOther(ss[h], ss[k + 1], R)
      BY <2>3, <3>3
    <3>. QED
      BY <2>4, <3>2, <3>3, <3>4 DEF OneThenOther, IsIn
  <2>10. InOrder(FlattenSeq(mm), R)
    BY <2>5, <2>6, <2>7, <2>8, <2>9, OrderOfSplit
  <2>. QED
    BY <2>2, <2>3, <2>10
<1>3. n \in T
  <2>. HIDE DEF T
  <2>1. \A k \in 0..n : k \in T
    BY <1>1, <1>2, Induction
  <2>. QED
    BY <2>1
<1>4. SubSeq(ss, 1, n) = ss
  BY <1>0
<1>. QED
  BY <1>3, <1>4

\* Some elements of a sequence, picked in its order.
LEMMA PickedElements ==
    ASSUME NEW S, NEW s \in Seq(S), NEW f \in Seq(Seq(S)), Len(f) = Len(s),
           \A i \in 1..Len(s) : f[i] = <<>> \/ f[i] = <<s[i]>>
    PROVE  /\ FlattenSeq(f) \in Seq(S)
           /\ \A x : IsIn(x, FlattenSeq(f)) <=> \E i \in 1..Len(s) : f[i] # <<>> /\ s[i] = x
           /\ \A R : InOrder(s, R) => InOrder(FlattenSeq(f), R)
<1>0. \A i \in 1..Len(s) : Len(<<s[i]>>) = 1 /\ <<s[i]>>[1] = s[i] /\ <<s[i]>> # <<>>
  OBVIOUS
<1>1. \A i \in 1..Len(s) : \A x : IsIn(x, f[i]) <=> f[i] # <<>> /\ s[i] = x
  <2>. SUFFICES ASSUME NEW i \in 1..Len(s), NEW x PROVE IsIn(x, f[i]) <=> f[i] # <<>> /\ s[i] = x
    OBVIOUS
  <2>1. CASE f[i] = <<>>
    BY <2>1 DEF IsIn
  <2>2. CASE f[i] = <<s[i]>>
    BY <1>0, <2>2 DEF IsIn
  <2>. QED
    BY <2>1, <2>2
<1>2. \A x : IsIn(x, FlattenSeq(f)) <=> \E i \in 1..Len(s) : f[i] # <<>> /\ s[i] = x
  <2>. SUFFICES ASSUME NEW x
                PROVE  IsIn(x, FlattenSeq(f)) <=> \E i \in 1..Len(s) : f[i] # <<>> /\ s[i] = x
    OBVIOUS
  <2>1. IsIn(x, FlattenSeq(f)) <=> \E i \in 1..Len(f) : IsIn(x, f[i])
    BY InFlattened
  <2>. QED
    BY <1>1, <2>1, Zenon
<1>3. ASSUME NEW R, InOrder(s, R) PROVE InOrder(FlattenSeq(f), R)
  <2>1. \A i \in 1..Len(s) : Len(f[i]) = 0 \/ (Len(f[i]) = 1 /\ f[i][1] = s[i])
    <3>. SUFFICES ASSUME NEW i \in 1..Len(s)
                  PROVE  Len(f[i]) = 0 \/ (Len(f[i]) = 1 /\ f[i][1] = s[i])
      OBVIOUS
    <3>1. CASE f[i] = <<>>
      <4>1. Len(<<>>) = 0
        OBVIOUS
      <4>. QED
        BY <3>1, <4>1, Zenon
    <3>2. CASE f[i] = <<s[i]>>
      BY <1>0, <3>2, Zenon
    <3>. QED
      BY <3>1, <3>2
  <2>2. \A k \in 1..Len(f) : InOrder(f[k], R)
    BY <2>1 DEF InOrder
  <2>3. \A k, l \in 1..Len(f) : k < l => OneThenOther(f[k], f[l], R)
    <3>. SUFFICES ASSUME NEW k \in 1..Len(s), NEW l \in 1..Len(s), k < l,
                         NEW i \in 1..Len(f[k]), NEW j \in 1..Len(f[l])
                  PROVE  <<f[k][i], f[l][j]>> \in R
      BY DEF OneThenOther
    <3>0. Len(f[k]) # 0 /\ Len(f[l]) # 0
      OBVIOUS
    <3>1. Len(f[k]) = 1 /\ f[k][1] = s[k] /\ Len(f[l]) = 1 /\ f[l][1] = s[l]
      BY <2>1, <3>0, Zenon
    <3>2. <<s[k], s[l]>> \in R
      BY <1>3 DEF InOrder
    <3>3. i = 1 /\ j = 1
      BY <3>1
    <3>. QED
      BY <3>1, <3>2, <3>3, Zenon
  <2>. QED
    BY <2>2, <2>3, OrderOfFlattened
<1>. QED
  BY <1>2, <1>3, FlattenType

-----------------------------------------------------------------------------
(* Which of two things comes first in a sequence.                          *)

\* x occurs in s before any y does.
Sooner(s, x, y) == \E i \in 1..Len(s) : s[i] = x /\ \A j \in 1..i : s[j] # y

LEMMA SoonerNotBoth ==
    ASSUME NEW s, Len(s) \in Nat, NEW x, NEW y, Sooner(s, x, y)
    PROVE  ~Sooner(s, y, x)
<1>. SUFFICES ASSUME Sooner(s, y, x) PROVE FALSE
  OBVIOUS
<1>1. PICK i \in 1..Len(s) : s[i] = x /\ \A j \in 1..i : s[j] # y
  BY DEF Sooner
<1>2. PICK k \in 1..Len(s) : s[k] = y /\ \A j \in 1..k : s[j] # x
  BY DEF Sooner
<1>3. i \in 1..k \/ k \in 1..i
  OBVIOUS
<1>. QED
  BY <1>1, <1>2, <1>3

LEMMA SoonerOneOf ==
    ASSUME NEW s, Len(s) \in Nat, NEW x, NEW y, x # y, IsIn(x, s), IsIn(y, s)
    PROVE  Sooner(s, x, y) \/ Sooner(s, y, x)
<1>1. PICK T : T = {i \in 1..Len(s) : s[i] = x \/ s[i] = y}
  OBVIOUS
<1>2. T \in SUBSET Nat /\ T # {}
  BY <1>1 DEF IsIn
<1>3. PICK i \in T : \A k \in T : i <= k
  BY <1>2, LeastNumber
<1>4. i \in 1..Len(s) /\ (s[i] = x \/ s[i] = y)
  BY <1>1
<1>5. \A j \in 1..i : j # i => s[j] # x /\ s[j] # y
  <2>. SUFFICES ASSUME NEW j \in 1..i, j # i, s[j] = x \/ s[j] = y PROVE FALSE
    OBVIOUS
  <2>1. j \in T
    BY <1>1, <1>4
  <2>2. i <= j
    BY <1>3, <2>1
  <2>. QED
    BY <1>4, <2>2
<1>. QED
  BY <1>4, <1>5 DEF Sooner

LEMMA SoonerOfSplit ==
    ASSUME NEW S, NEW a \in Seq(S), NEW b \in Seq(S), NEW s, Splits(s, a, b), NEW x, NEW y
    PROVE  /\ Sooner(a, x, y) => Sooner(s, x, y)
           /\ Sooner(b, x, y) /\ ~IsIn(y, a) => Sooner(s, x, y)
           /\ IsIn(x, a) /\ ~IsIn(y, a) => Sooner(s, x, y)
<1>0. /\ Len(a) \in Nat /\ Len(b) \in Nat /\ Len(s) = Len(a) + Len(b)
      /\ \A i \in 1..Len(a) : s[i] = a[i]
      /\ \A i \in 1..Len(b) : s[Len(a) + i] = b[i]
  BY ElementsOfSplit
<1>1. Sooner(a, x, y) => Sooner(s, x, y)
  <2>. SUFFICES ASSUME Sooner(a, x, y) PROVE Sooner(s, x, y)
    OBVIOUS
  <2>1. PICK i \in 1..Len(a) : a[i] = x /\ \A j \in 1..i : a[j] # y
    BY DEF Sooner
  <2>2. i \in 1..Len(s) /\ \A j \in 1..i : j \in 1..Len(a)
    BY <1>0
  <2>. QED
    BY <1>0, <2>1, <2>2 DEF Sooner
<1>2. IsIn(x, a) /\ ~IsIn(y, a) => Sooner(a, x, y)
  <2>. SUFFICES ASSUME IsIn(x, a), ~IsIn(y, a) PROVE Sooner(a, x, y)
    OBVIOUS
  <2>1. PICK i \in 1..Len(a) : a[i] = x
    BY DEF IsIn
  <2>2. \A j \in 1..i : j \in 1..Len(a)
    BY <1>0
  <2>. QED
    BY <2>1, <2>2 DEF Sooner, IsIn
<1>3. Sooner(b, x, y) /\ ~IsIn(y, a) => Sooner(s, x, y)
  <2>. SUFFICES ASSUME Sooner(b, x, y), ~IsIn(y, a) PROVE Sooner(s, x, y)
    OBVIOUS
  <2>1. PICK i \in 1..Len(b) : b[i] = x /\ \A j \in 1..i : b[j] # y
    BY DEF Sooner
  <2>2. PICK k \in 1..Len(s) : k = Len(a) + i
    BY <1>0
  <2>3. s[k] = x
    BY <1>0, <2>1, <2>2
  <2>4. ASSUME NEW j \in 1..k PROVE s[j] # y
    <3>1. CASE j \in 1..Len(a)
      BY <1>0, <3>1 DEF IsIn
    <3>2. CASE j \notin 1..Len(a)
      <4>1. PICK l \in 1..i : j = Len(a) + l
        <5>1. j - Len(a) \in 1..i /\ j = Len(a) + (j - Len(a))
          BY <1>0, <2>2, <3>2
        <5>. QED
          BY <5>1
      <4>2. l \in 1..Len(b)
        BY <1>0
      <4>. QED
        BY <1>0, <2>1, <4>1, <4>2
    <3>. QED
      BY <3>1, <3>2
  <2>. QED
    BY <2>3, <2>4 DEF Sooner
<1>. QED
  BY <1>1, <1>2, <1>3

\* x is in an early part, y is not.
LEMMA SoonerOfFlattened ==
    ASSUME NEW S, NEW ss \in Seq(Seq(S)), NEW x, NEW y, NEW k \in 1..Len(ss), IsIn(x, ss[k]),
           \A h \in 1..k : ~IsIn(y, ss[h])
    PROVE  Sooner(FlattenSeq(ss), x, y)
<1>1. PICK n \in Nat : n = Len(ss)
  OBVIOUS
<1>2. PICK mm \in Seq(Seq(S)) : Len(mm) = k /\ \A i \in 1..k : mm[i] = ss[i]
  <2>1. SubSeq(ss, 1, k) \in Seq(Seq(S)) /\ Len(SubSeq(ss, 1, k)) = k
        /\ \A i \in 1..k : SubSeq(ss, 1, k)[i] = ss[i]
    OBVIOUS
  <2>. QED
    BY <2>1
<1>3. PICK tt \in Seq(Seq(S)) : Len(tt) = n - k /\ \A i \in 1..(n - k) : tt[i] = ss[k + i]
  <2>1. \E tt \in Seq(Seq(S)) :
           Len(tt) = Len(ss) - k /\ \A i \in 1..(Len(ss) - k) : tt[i] = ss[k + i]
    <3>1. k \in 0..Len(ss)
      OBVIOUS
    <3>. QED
      BY <3>1, RestElements
  <2>. QED
    BY <1>1, <2>1
<1>4. Splits(FlattenSeq(ss), FlattenSeq(mm), FlattenSeq(tt))
  <2>1. Len(ss) = Len(mm) + Len(tt)
    BY <1>1, <1>2, <1>3
  <2>2. \A i \in 1..Len(mm) : ss[i] = mm[i]
    BY <1>2
  <2>3. \A i \in 1..Len(tt) : ss[Len(mm) + i] = tt[i]
    BY <1>2, <1>3
  <2>. QED
    BY <2>1, <2>2, <2>3, FlattenSplit, ZenonT(30)
<1>5. PICK a \in Seq(S) : a = FlattenSeq(mm)
  BY FlattenType
<1>6. PICK b \in Seq(S) : b = FlattenSeq(tt)
  BY FlattenType
<1>7. IsIn(x, a)
  <2>1. k \in 1..Len(mm) /\ IsIn(x, mm[k])
    BY <1>2
  <2>. QED
    BY <1>5, <2>1, InFlattened
<1>8. ~IsIn(y, a)
  <2>. SUFFICES ASSUME IsIn(y, a) PROVE FALSE
    OBVIOUS
  <2>1. PICK h \in 1..Len(mm) : IsIn(y, mm[h])
    BY <1>5, InFlattened
  <2>. QED
    BY <1>2, <2>1
<1>. QED
  BY <1>4, <1>5, <1>6, <1>7, <1>8, SoonerOfSplit

-----------------------------------------------------------------------------
(* What was heard is what was dealt with, followed by what is left.        *)

\* A piece of what is left is dealt with.
LEMMA PieceMoves ==
    ASSUME NEW S, NEW a \in Seq(S), NEW t \in Seq(S), NEW c \in Seq(S),
           NEW all, NEW more, NEW left,
           Splits(all, a, left), Splits(left, t, c), Splits(more, a, t)
    PROVE  Splits(all, more, c)
BY SMTT(30) DEF Splits

\* Nothing was left, and something new is heard.
LEMMA PieceComes ==
    ASSUME NEW S, NEW a \in Seq(S), NEW c \in Seq(S), NEW all, NEW more,
           Splits(all, a, <<>>), Splits(more, all, c)
    PROVE  Splits(more, a, c)
BY DEF Splits

\* Nothing changes.
LEMMA PieceStays ==
    ASSUME NEW S, NEW a \in Seq(S), NEW c \in Seq(S), NEW all, NEW left,
           Splits(all, a, left), Splits(left, <<>>, c)
    PROVE  Splits(all, a, c)
BY DEF Splits
================================================================================
